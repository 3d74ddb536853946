------------------------------ MODULE BusProofs ------------------------------
(***************************************************************************)
(* Theorems about the buses.  Of the data paths: a packet's path leads     *)
(* back along the buses its access crossed, and the guards of accesses     *)
(* push and pop in pairs, for all systems of buses and all nestings of     *)
(* accesses.  Of the address map: every address of which the map promises  *)
(* it leads to the target in front, and an access through the bus is one   *)
(* to a flat memory, for all targets and every order of attaching them, in *)
(* front of, inside of and partly over one another.                        *)
(***************************************************************************)
EXTENDS MemoryBus, DataPaths, NatFacts, SequenceTheorems

-----------------------------------------------------------------------------
(* The invariant of the data paths.                                        *)

\* Steps are numbered from the root on, and each leads to an earlier one.
PathsTypeOK ==
    /\ \E n \in 0 .. MaxSteps : DOMAIN steps = 0 .. n
    /\ \A p \in DOMAIN steps \ {EMPTY} :
           steps[p].previous \in 0 .. p - 1 /\ steps[p].device \in Buses
    /\ deviceToPaths \in [Buses -> Seq([parent : Nat, step : Nat])]
    /\ calls \in Seq([bus : Buses, path : Nat, began : Seq(Nat), known : BOOLEAN])
    /\ \A i \in DOMAIN calls : calls[i].path \in DOMAIN steps

\* The routes of a bus are sorted, and numbered by the step they end with.
RoutesNumbered ==
    \A b \in Buses : LET routes == deviceToPaths[b] IN
        /\ \A i, j \in DOMAIN routes : i < j => routes[i].parent < routes[j].parent
        /\ \A i \in DOMAIN routes :
               /\ routes[i].step \in DOMAIN steps \ {EMPTY}
               /\ steps[routes[i].step].previous = routes[i].parent
               /\ steps[routes[i].step].device = b

\* What the stack of paths is while the access with this call is the innermost.
During(call) == Append(call.began, call.path)

\* Every access under way has pushed its path on what it began with, and no
\* path is pushed twice in a row, which a guard would take for its own.
Nested ==
    /\ \A i \in DOMAIN calls :
           /\ calls[i].began = IF i = 1 THEN <<EMPTY>> ELSE During(calls[i - 1])
           /\ calls[i].path # Last(calls[i].began)
    /\ stack = IF calls = <<>> THEN <<EMPTY>> ELSE During(Last(calls))

\* The path of an access whose route has a number continues that of the access around it.
Recovers ==
    \A i \in DOMAIN calls : calls[i].known
        => Route(calls[i].path) = Append(Route(PathOf(i - 1)), calls[i].bus)

PathsInv == PathsTypeOK /\ RoutesNumbered /\ Nested /\ Recovers

-----------------------------------------------------------------------------
(* Routes.                                                                 *)

Sorted(routes) == \A i, j \in DOMAIN routes : i < j => routes[i].parent < routes[j].parent

\* In a sorted list the routes with smaller parents come first, and lower_bound
\* finds the place behind them.
LEMMA PositionSplits ==
  ASSUME NEW routes \in Seq([parent : Nat, step : Nat]), Sorted(routes), NEW parent \in Nat
  PROVE  /\ Position(routes, parent) \in 1 .. Len(routes) + 1
         /\ \A i \in DOMAIN routes : i < Position(routes, parent) <=> routes[i].parent < parent
<1> DEFINE n == Len(routes)
           S == {i \in DOMAIN routes : routes[i].parent < parent}
           T == {i \in 1 .. n + 1 : i \notin S}
<1>1. n \in Nat /\ DOMAIN routes = 1 .. n
  OBVIOUS
<1>a. \A i \in 1 .. n : routes[i] \in [parent : Nat, step : Nat] /\ routes[i].parent \in Nat
  <2>1. \A i \in 1 .. n : routes[i] \in [parent : Nat, step : Nat]
    BY ElementOfSeq
  <2> QED BY <2>1
<1>2. T \in SUBSET Nat /\ n + 1 \in T
  BY <1>1
<1>3. PICK m \in T : \A k \in T : m <= k
  <2> HIDE DEF T
  <2> QED BY <1>2, LeastNat
<1>4. m \in 1 .. n + 1 /\ m \notin S /\ \A i \in 1 .. m - 1 : i \in S
  BY <1>1, <1>3
<1>5. ASSUME NEW i \in S PROVE i \in 1 .. m - 1
  <2>1. i \in 1 .. n /\ routes[i].parent < parent /\ routes[i].parent \in Nat
    BY <1>1, <1>a
  <2>2. CASE i > m
    <3>1. m \in DOMAIN routes /\ routes[m].parent \in Nat
      BY <1>1, <1>a, <1>4, <2>1, <2>2
    <3>2. routes[m].parent < routes[i].parent
      BY <1>1, <2>1, <2>2, <3>1 DEF Sorted
    <3>3. routes[m].parent < parent
      BY <2>1, <3>1, <3>2
    <3> QED BY <1>4, <3>1, <3>3
  <2>3. i # m
    BY <1>4
  <2> QED BY <1>4, <2>1, <2>2, <2>3
<1>6. S = 1 .. m - 1
  BY <1>4, <1>5
<1>7. Cardinality(S) = m - 1
  <2>1. Cardinality(1 .. m - 1) = m - 1
    BY <1>4, FS_Interval
  <2> QED BY <1>6, <2>1
<1>8. Position(routes, parent) = m
  BY <1>4, <1>7 DEF Position
<1>9. \A i \in DOMAIN routes : i < m <=> routes[i].parent < parent
  <2> TAKE i \in DOMAIN routes
  <2>1. i \in S <=> i \in 1 .. m - 1
    BY <1>6
  <2> QED BY <1>1, <1>4, <2>1
<1> QED BY <1>4, <1>8, <1>9

\* What find() returns: a step beyond the parent, and the parent's own if it
\* is registered.
LEMMA FindFacts ==
  ASSUME PathsTypeOK, RoutesNumbered, NEW p \in DOMAIN steps, NEW b \in Buses
  PROVE  /\ Find(p, b) \in DOMAIN steps
         /\ Find(p, b) # EMPTY => Find(p, b) > p /\ steps[Find(p, b)].device = b
         /\ Find(p, b) = EMPTY => \A i \in DOMAIN deviceToPaths[b] : deviceToPaths[b][i].parent < p
         /\ Registered(p, b) => Find(p, b) # EMPTY /\ steps[Find(p, b)].previous = p
<1> DEFINE routes == deviceToPaths[b]
           k == Position(routes, p)
<1>0. PICK n \in 0 .. MaxSteps : DOMAIN steps = 0 .. n
  BY DEF PathsTypeOK
<1>1. p \in Nat /\ n \in Nat /\ EMPTY = 0 /\ EMPTY \in DOMAIN steps
  BY <1>0, PathsAssumption DEF EMPTY
<1>2. routes \in Seq([parent : Nat, step : Nat]) /\ Sorted(routes)
  BY DEF PathsTypeOK, RoutesNumbered, Sorted
<1>3. \A i \in DOMAIN routes : /\ routes[i].step \in DOMAIN steps \ {EMPTY}
                               /\ steps[routes[i].step].previous = routes[i].parent
                               /\ steps[routes[i].step].device = b
  BY DEF RoutesNumbered
<1>4. \A i \in DOMAIN routes : routes[i].parent \in Nat /\ routes[i].parent < routes[i].step
  <2> TAKE i \in DOMAIN routes
  <2>1. steps[routes[i].step].previous \in 0 .. routes[i].step - 1
    BY <1>3 DEF PathsTypeOK
  <2>2. routes[i].step \in Nat
    BY <1>0, <1>1, <1>3
  <2> QED BY <1>3, <2>1, <2>2
<1>5. Find(p, b) = IF k \in DOMAIN routes THEN routes[k].step ELSE EMPTY
  BY DEF Find
<1>6. /\ k \in 1 .. Len(routes) + 1 /\ Len(routes) \in Nat /\ DOMAIN routes = 1 .. Len(routes)
      /\ \A i \in DOMAIN routes : i < k <=> routes[i].parent < p
  <2>1. Len(routes) \in Nat /\ DOMAIN routes = 1 .. Len(routes)
    BY <1>2
  <2> HIDE DEF routes
  <2> QED BY <1>1, <1>2, <2>1, PositionSplits
<1> HIDE DEF routes, k
<1>7. CASE k \in DOMAIN routes
  <2>1. Find(p, b) = routes[k].step /\ Find(p, b) \in DOMAIN steps \ {EMPTY}
    BY <1>3, <1>5, <1>7
  <2>2. routes[k].parent >= p /\ routes[k].step > p
    <3>1. ~(k < k) /\ ~(routes[k].parent < p)
      BY <1>6, <1>7
    <3>2. routes[k].parent \in Nat /\ routes[k].step \in Nat /\ routes[k].parent < routes[k].step
      BY <1>0, <1>1, <1>3, <1>4, <1>7
    <3> QED BY <1>1, <3>1, <3>2
  <2>3. ASSUME Registered(p, b) PROVE routes[k].parent = p
    <3>1. PICK i \in DOMAIN routes : routes[i].parent = p
      BY <2>3 DEF Registered, routes
    <3>2. k <= i
      BY <1>1, <1>6, <3>1
    <3>3. CASE k < i
      <4>1. routes[k].parent < routes[i].parent
        BY <1>2, <1>7, <3>3 DEF Sorted
      <4> QED BY <1>1, <1>4, <1>7, <2>2, <3>1, <4>1
    <3> QED BY <1>6, <3>1, <3>2, <3>3
  <2> QED BY <1>3, <1>7, <2>1, <2>2, <2>3
<1>8. CASE k \notin DOMAIN routes
  <2>1. k = Len(routes) + 1 /\ Find(p, b) = EMPTY
    BY <1>5, <1>6, <1>8
  <2>2. \A i \in DOMAIN routes : routes[i].parent < p
    BY <1>6, <2>1
  <2>3. ~Registered(p, b)
    BY <1>1, <2>2 DEF Registered, routes
  <2> QED BY <1>1, <2>1, <2>2, <2>3 DEF routes
<1> QED BY <1>7, <1>8

\* A route whose parent is above all others goes to the end.
LEMMA InsertedLast ==
  ASSUME NEW routes \in Seq([parent : Nat, step : Nat]), Sorted(routes),
         NEW route \in [parent : Nat, step : Nat],
         \A i \in DOMAIN routes : routes[i].parent < route.parent
  PROVE  /\ Inserted(routes, route) \in Seq([parent : Nat, step : Nat])
         /\ DOMAIN Inserted(routes, route) = 1 .. Len(routes) + 1
         /\ Inserted(routes, route)[Len(routes) + 1] = route
         /\ \A i \in DOMAIN routes : Inserted(routes, route)[i] = routes[i]
<1> DEFINE k == Position(routes, route.parent)
<1>1. route.parent \in Nat /\ Len(routes) \in Nat /\ DOMAIN routes = 1 .. Len(routes)
  OBVIOUS
<1>2. k \in 1 .. Len(routes) + 1 /\ \A i \in DOMAIN routes : i < k <=> routes[i].parent < route.parent
  BY <1>1, PositionSplits
<1> HIDE DEF k
<1>3. k = Len(routes) + 1
  <2>1. ASSUME k \in DOMAIN routes PROVE FALSE
    <3>1. routes[k].parent < route.parent
      BY <2>1
    <3>2. k < k
      BY <1>2, <2>1, <3>1
    <3> QED BY <1>2, <3>2
  <2>2. k \notin 1 .. Len(routes)
    BY <1>1, <2>1
  <2> QED BY <1>1, <1>2, <2>2
<1>4. Inserted(routes, route)
        = [i \in 1 .. Len(routes) + 1 |-> IF i < k THEN routes[i] ELSE IF i = k THEN route ELSE routes[i - 1]]
  BY DEF Inserted, k
<1>5. Inserted(routes, route) = [i \in 1 .. Len(routes) + 1 |-> IF i = k THEN route ELSE routes[i]]
  BY <1>1, <1>3, <1>4
<1>6. \A i \in 1 .. Len(routes) : routes[i] \in [parent : Nat, step : Nat]
  BY ElementOfSeq
<1>7. Inserted(routes, route) \in [1 .. Len(routes) + 1 -> [parent : Nat, step : Nat]]
  BY <1>1, <1>3, <1>5, <1>6
<1>8. Inserted(routes, route) \in Seq([parent : Nat, step : Nat])
  <2> DEFINE R == [parent : Nat, step : Nat]
             ins == Inserted(routes, route)
  <2>1. PICK m \in Nat : m = Len(routes) + 1
    BY <1>1
  <2>2. ins \in [1 .. m -> R]
    BY <1>7, <2>1
  <2> HIDE DEF R, ins
  <2>3. ins \in Seq(R)
    BY <2>2
  <2> QED BY <2>3 DEF R, ins
<1>9. /\ DOMAIN Inserted(routes, route) = 1 .. Len(routes) + 1
      /\ \A i \in 1 .. Len(routes) + 1 : Inserted(routes, route)[i] = IF i = k THEN route ELSE routes[i]
  BY <1>5
<1>10. \A i \in 1 .. Len(routes) : i \in 1 .. Len(routes) + 1 /\ i # k
  BY <1>1, <1>3
<1> HIDE DEF Inserted
<1> QED BY <1>1, <1>3, <1>8, <1>9, <1>10

\* Steps each of which names an earlier one.
Backwards(st, n) ==
    /\ n \in Nat
    /\ DOMAIN st = 0 .. n
    /\ \A p \in 1 .. n : st[p].previous \in 0 .. p - 1

Chased(f, st, S) ==
    f = [p \in S |-> IF p = EMPTY THEN <<>> ELSE Append(f[st[p].previous], st[p].device)]

\* Following the steps before a step ends at the root.
LEMMA ChasedExists ==
  ASSUME NEW st, NEW n, Backwards(st, n)
  PROVE  \E f : Chased(f, st, DOMAIN st)
<1> USE DEF Backwards, EMPTY
<1> DEFINE I == {k \in Nat : \E f : Chased(f, st, 0 .. k)}
<1>1. 0 \in I
  <2> DEFINE f == [p \in 0 .. 0 |-> <<>>]
  <2>1. Chased(f, st, 0 .. 0)
    BY DEF Chased
  <2> QED BY <2>1
<1>2. ASSUME NEW k \in 0 .. n - 1, k \in I PROVE k + 1 \in I
  <2>1. PICK f : Chased(f, st, 0 .. k)
    BY <1>2
  <2> DEFINE g == [p \in 0 .. k + 1 |->
                      IF p = 0 THEN <<>> ELSE Append(f[st[p].previous], st[p].device)]
  <2>2. \A p \in 0 .. k : p \in 0 .. k + 1 /\ g[p] = f[p]
    <3>1. \A p \in 0 .. k : f[p] = IF p = 0 THEN <<>> ELSE Append(f[st[p].previous], st[p].device)
      BY <2>1, Zenon DEF Chased
    <3>2. \A p \in 0 .. k + 1 : g[p] = IF p = 0 THEN <<>> ELSE Append(f[st[p].previous], st[p].device)
      BY Zenon
    <3>3. \A p \in 0 .. k : p \in 0 .. k + 1
      OBVIOUS
    <3> QED BY <3>1, <3>2, <3>3, Zenon
  <2>3. ASSUME NEW p \in 1 .. k + 1 PROVE st[p].previous \in 0 .. k
    <3>1. p \in 1 .. n /\ st[p].previous \in 0 .. p - 1
      BY <1>2
    <3> QED BY <3>1
  <2>4. \A p \in 0 .. k + 1 : g[p] = IF p = 0 THEN <<>> ELSE Append(g[st[p].previous], st[p].device)
    <3> TAKE p \in 0 .. k + 1
    <3>0. p # 0 => p \in 1 .. k + 1
      OBVIOUS
    <3>1. p # 0 => g[st[p].previous] = f[st[p].previous]
      BY <2>2, <2>3, <3>0, Zenon
    <3>2. g[p] = IF p = 0 THEN <<>> ELSE Append(f[st[p].previous], st[p].device)
      BY Zenon
    <3> QED BY <3>1, <3>2, Zenon
  <2>5. g = [p \in 0 .. k + 1 |-> g[p]]
    OBVIOUS
  <2> HIDE DEF g
  <2>6. Chased(g, st, 0 .. k + 1)
    BY <2>4, <2>5 DEF Chased
  <2> QED BY <1>2, <2>6
<1>3. n \in Nat
  OBVIOUS
<1> HIDE DEF I
<1>4. 0 .. n \subseteq I
  BY <1>1, <1>2, <1>3, SetInductionTo
<1>5. n \in I
  BY <1>3, <1>4
<1> QED BY <1>5 DEF I

\* The route of a step is that of the step before it, and its bus.
LEMMA RouteUnfolds ==
  ASSUME PathsTypeOK
  PROVE  /\ Route(EMPTY) = <<>>
         /\ \A p \in DOMAIN steps \ {EMPTY} :
                Route(p) = Append(Route(steps[p].previous), steps[p].device)
<1> DEFINE Body(f) == [p \in DOMAIN steps |->
                          IF p = EMPTY THEN <<>> ELSE Append(f[steps[p].previous], steps[p].device)]
           chase == CHOOSE f : f = Body(f)
<1>0. PICK n \in 0 .. MaxSteps : DOMAIN steps = 0 .. n
  BY DEF PathsTypeOK
<1>1. n \in Nat /\ EMPTY \in DOMAIN steps
  BY <1>0, PathsAssumption DEF EMPTY
<1>2. \A p \in DOMAIN steps \ {EMPTY} : steps[p].previous \in 0 .. p - 1
  BY DEF PathsTypeOK
<1>3. Backwards(steps, n)
  <2>1. \A p \in 1 .. n : p \in DOMAIN steps \ {EMPTY}
    BY <1>0, <1>1 DEF EMPTY
  <2> QED BY <1>0, <1>1, <1>2, <2>1 DEF Backwards
<1>4. \E f : Chased(f, steps, DOMAIN steps)
  BY <1>3, ChasedExists
<1>5. \A f : Chased(f, steps, DOMAIN steps) <=> f = Body(f)
  BY DEF Chased
<1>6. \A p : Route(p) = chase[p]
  BY DEF Route
<1> HIDE DEF Body
<1>7. chase = Body(chase)
  BY <1>4, <1>5
<1> HIDE DEF chase
<1>8. \A p \in DOMAIN steps : chase[p] = IF p = EMPTY THEN <<>> ELSE Append(chase[steps[p].previous], steps[p].device)
  BY <1>7 DEF Body
<1> QED BY <1>1, <1>6, <1>8

-----------------------------------------------------------------------------
(* The invariant is inductive.                                             *)

\* The current path is that of the innermost access, or the root.
LEMMA CurrentPath ==
  ASSUME PathsTypeOK, Nested
  PROVE  /\ stack \in Seq(Nat) /\ Len(stack) > 0 /\ Last(stack) \in DOMAIN steps
         /\ calls = <<>> => Last(stack) = EMPTY
         /\ calls # <<>> => Last(stack) = Last(calls).path /\ Last(calls) = calls[Len(calls)]
<1>0. EMPTY \in DOMAIN steps /\ EMPTY \in Nat
  BY PathsAssumption DEF PathsTypeOK, EMPTY
<1>1. CASE calls = <<>>
  <2>1. stack = <<EMPTY>>
    BY <1>1 DEF Nested
  <2> QED BY <1>0, <1>1, <2>1 DEF Last
<1>2. CASE calls # <<>>
  <2>1. Len(calls) \in DOMAIN calls /\ Len(calls) \in 1 .. Len(calls)
    BY <1>2 DEF PathsTypeOK
  <2>2. calls[Len(calls)].path \in DOMAIN steps /\ calls[Len(calls)].path \in Nat
        /\ calls[Len(calls)].began \in Seq(Nat)
    <3>1. calls[Len(calls)] \in [bus : Buses, path : Nat, began : Seq(Nat), known : BOOLEAN]
      BY <2>1, ElementOfSeq DEF PathsTypeOK
    <3>2. calls[Len(calls)].path \in Nat /\ calls[Len(calls)].began \in Seq(Nat)
      BY <3>1
    <3> QED BY <2>1, <3>2 DEF PathsTypeOK
  <2>3. stack = Append(calls[Len(calls)].began, calls[Len(calls)].path)
    BY <1>2 DEF Nested, During, Last
  <2> QED BY <1>2, <2>2, <2>3 DEF Last
<1> QED BY <1>1, <1>2

LEMMA PathsInitial == PathsInit => PathsInv
<1> SUFFICES ASSUME PathsInit PROVE PathsInv
  OBVIOUS
<1> USE DEF PathsInit, Root, EMPTY
<1>1. PathsTypeOK
  <2>1. DOMAIN steps = 0 .. 0
    OBVIOUS
  <2>2. 0 \in 0 .. MaxSteps
    BY PathsAssumption
  <2> QED BY <2>1, <2>2 DEF PathsTypeOK
<1>2. RoutesNumbered
  BY DEF RoutesNumbered
<1>3. Nested
  BY DEF Nested
<1>4. Recovers
  BY DEF Recovers
<1> QED BY <1>1, <1>2, <1>3, <1>4 DEF PathsInv

\* Paths::add keeps the numbers of the routes it has.
LEMMA AddPreserves ==
  ASSUME PathsInv, NEW parent \in DOMAIN steps, NEW bus \in Buses, Add(parent, bus)
  PROVE  PathsInv'
<1> USE DEF PathsInv
<1>0. calls = <<>> /\ calls' = calls /\ stack' = stack
  BY DEF Add
<1>1. Nested' /\ Recovers'
  BY <1>0 DEF Nested, Recovers
<1>2. CASE Find(parent, bus) # EMPTY
  <2>1. steps' = steps /\ deviceToPaths' = deviceToPaths
    BY <1>2 DEF Add
  <2>2. PathsTypeOK' /\ RoutesNumbered'
    BY <1>0, <2>1 DEF PathsTypeOK, RoutesNumbered
  <2> QED BY <1>1, <2>2
<1>3. CASE Find(parent, bus) = EMPTY
  <2> DEFINE current == Cardinality(DOMAIN steps)
             route == [parent |-> parent, step |-> current]
             routes == deviceToPaths[bus]
             step == [previous |-> parent, device |-> bus]
  <2>0. PICK n \in 0 .. MaxSteps : DOMAIN steps = 0 .. n
    BY DEF PathsTypeOK
  <2>1. n \in Nat /\ current = n + 1 /\ parent \in Nat /\ parent < current
    BY <2>0, PathsAssumption, FS_Interval
  <2>2. /\ current <= MaxSteps
        /\ steps' = [p \in 0 .. current |-> IF p = current THEN step ELSE steps[p]]
        /\ deviceToPaths' = [deviceToPaths EXCEPT ![bus] = Inserted(routes, route)]
    BY <1>3 DEF Add
  <2> HIDE DEF current
  <2>3. routes \in Seq([parent : Nat, step : Nat]) /\ Sorted(routes)
    BY DEF PathsTypeOK, RoutesNumbered, Sorted
  <2>4. route \in [parent : Nat, step : Nat] /\ route.parent = parent /\ route.step = current
    BY <2>1
  <2>5. \A i \in DOMAIN routes : routes[i].parent < route.parent
    BY <1>3, <2>4, FindFacts
  <2> DEFINE longer == Inserted(routes, route)
  <2>6. /\ longer \in Seq([parent : Nat, step : Nat])
        /\ DOMAIN longer = 1 .. Len(routes) + 1
        /\ longer[Len(routes) + 1] = route
        /\ \A i \in DOMAIN routes : longer[i] = routes[i]
        /\ DOMAIN routes = 1 .. Len(routes) /\ Len(routes) \in Nat
    <3>1. DOMAIN routes = 1 .. Len(routes) /\ Len(routes) \in Nat
      BY <2>3
    <3> HIDE DEF routes, route
    <3> QED BY <2>3, <2>4, <2>5, <3>1, InsertedLast
  <2> HIDE DEF longer
  <2>7. /\ DOMAIN steps' = 0 .. n + 1 /\ n + 1 \in 0 .. MaxSteps
        /\ \A p \in DOMAIN steps : steps'[p] = steps[p] /\ p # current
        /\ steps'[current] = step
    BY <2>0, <2>1, <2>2, PathsAssumption
  <2>8. /\ deviceToPaths' \in [Buses -> Seq([parent : Nat, step : Nat])]
        /\ deviceToPaths'[bus] = longer
        /\ \A b \in Buses \ {bus} : deviceToPaths'[b] = deviceToPaths[b]
    BY <2>2, <2>6 DEF PathsTypeOK, longer
  <2>9. PathsTypeOK'
    <3>1. ASSUME NEW p \in DOMAIN steps' \ {EMPTY}
          PROVE  steps'[p].previous \in 0 .. p - 1 /\ steps'[p].device \in Buses
      <4>1. CASE p \in DOMAIN steps
        BY <2>7, <3>1, <4>1 DEF PathsTypeOK
      <4>2. CASE p = current
        BY <2>1, <2>7, <4>2
      <4> QED BY <2>0, <2>1, <2>7, <3>1, <4>1, <4>2
    <3>2. calls' \in Seq([bus : Buses, path : Nat, began : Seq(Nat), known : BOOLEAN])
          /\ DOMAIN calls' = {}
      BY <1>0 DEF PathsTypeOK
    <3> QED BY <2>7, <2>8, <3>1, <3>2 DEF PathsTypeOK
  <2>10. RoutesNumbered'
    <3>1. \A p \in DOMAIN steps : p \in DOMAIN steps' /\ steps'[p] = steps[p]
      BY <2>0, <2>1, <2>7
    <3>2. current \in DOMAIN steps' \ {EMPTY} /\ steps'[current] = step
      BY <2>1, <2>7 DEF EMPTY
    <3>3. ASSUME NEW b \in Buses \ {bus}
          PROVE  /\ Sorted(deviceToPaths'[b])
                 /\ \A i \in DOMAIN deviceToPaths'[b] :
                      /\ deviceToPaths'[b][i].step \in DOMAIN steps' \ {EMPTY}
                      /\ steps'[deviceToPaths'[b][i].step].previous = deviceToPaths'[b][i].parent
                      /\ steps'[deviceToPaths'[b][i].step].device = b
      <4>1. deviceToPaths'[b] = deviceToPaths[b] /\ b \in Buses
        BY <2>8, <3>3
      <4>2. Sorted(deviceToPaths[b])
        BY <4>1 DEF RoutesNumbered, Sorted
      <4>3. \A i \in DOMAIN deviceToPaths[b] :
              /\ deviceToPaths[b][i].step \in DOMAIN steps \ {EMPTY}
              /\ steps[deviceToPaths[b][i].step].previous = deviceToPaths[b][i].parent
              /\ steps[deviceToPaths[b][i].step].device = b
        BY <4>1 DEF RoutesNumbered
      <4> QED BY <3>1, <4>1, <4>2, <4>3
    <3>4. Sorted(longer)
      <4> SUFFICES ASSUME NEW i \in DOMAIN longer, NEW j \in DOMAIN longer, i < j
                   PROVE  longer[i].parent < longer[j].parent
        BY DEF Sorted
      <4>1. i \in DOMAIN routes
        BY <2>6
      <4> HIDE DEF routes, route
      <4>2. CASE j \in DOMAIN routes
        BY <2>3, <2>6, <4>1, <4>2 DEF Sorted
      <4>3. CASE j = Len(routes) + 1
        BY <2>5, <2>6, <4>1, <4>3
      <4> QED BY <2>6, <4>2, <4>3
    <3>5. ASSUME NEW i \in DOMAIN longer
          PROVE  /\ longer[i].step \in DOMAIN steps' \ {EMPTY}
                 /\ steps'[longer[i].step].previous = longer[i].parent
                 /\ steps'[longer[i].step].device = bus
      <4>1. CASE i \in DOMAIN routes
        <5>1. /\ routes[i].step \in DOMAIN steps \ {EMPTY}
              /\ steps[routes[i].step].previous = routes[i].parent
              /\ steps[routes[i].step].device = bus
          BY <4>1 DEF RoutesNumbered
        <5> HIDE DEF routes
        <5> QED BY <2>6, <3>1, <4>1, <5>1
      <4>2. CASE i = Len(routes) + 1
        BY <2>4, <2>6, <3>2, <4>2
      <4> QED BY <2>6, <4>1, <4>2
    <3> QED BY <2>8, <3>3, <3>4, <3>5 DEF RoutesNumbered, Sorted
  <2> QED BY <1>1, <2>9, <2>10
<1> QED BY <1>2, <1>3

\* An access pushes a path that is not the current one.
LEMMA EnterPreserves ==
  ASSUME PathsInv, NEW bus \in Buses, Enter(bus)
  PROVE  PathsInv'
<1> USE DEF PathsInv
<1> DEFINE top == Last(stack)
           path == Find(top, bus)
           Call == [bus : Buses, path : Nat, began : Seq(Nat), known : BOOLEAN]
           known == Registered(top, bus)
           call == [bus |-> bus, path |-> path, began |-> stack, known |-> known]
           m == Len(calls)
<1>1. /\ stack \in Seq(Nat) /\ Len(stack) > 0 /\ top \in DOMAIN steps
      /\ calls = <<>> => top = EMPTY
      /\ calls # <<>> => top = calls[m].path
  BY CurrentPath
<1>2. EMPTY \in DOMAIN steps /\ DOMAIN steps \subseteq Nat
  BY PathsAssumption DEF PathsTypeOK, EMPTY
<1> HIDE DEF top
<1>3. Find(EMPTY, bus) # EMPTY
  <2> DEFINE routes == deviceToPaths[bus]
  <2>1. routes \in Seq([parent : Nat, step : Nat]) /\ routes # <<>>
    BY DEF PathsTypeOK, Enter
  <2> HIDE DEF routes
  <2>2. 1 \in DOMAIN routes /\ 1 \in 1 .. Len(routes)
    BY <2>1
  <2>3. routes[1] \in [parent : Nat, step : Nat]
    BY <2>1, <2>2, ElementOfSeq
  <2>4. ~(routes[1].parent < EMPTY)
    BY <2>3 DEF EMPTY
  <2> QED BY <1>2, <2>2, <2>4, FindFacts DEF routes
<1>4. path \in DOMAIN steps /\ path # top
  <2>1. path \in DOMAIN steps /\ (path # EMPTY => path > top)
    BY <1>1, FindFacts
  <2> QED BY <1>1, <1>2, <1>3, <2>1
<1>5. known => path # EMPTY /\ steps[path].previous = top /\ steps[path].device = bus
  BY <1>1, FindFacts
<1>6. known \in BOOLEAN
  BY DEF Registered
<1> HIDE DEF path, known
<1>7. /\ stack' = Append(stack, path) /\ calls' = Append(calls, call)
      /\ steps' = steps /\ deviceToPaths' = deviceToPaths
  BY <1>4 DEF Enter, top, path, known
<1>8. call \in Call /\ call.path = path /\ call.began = stack /\ call.bus = bus /\ call.known = known
  BY <1>1, <1>2, <1>4, <1>6
<1> HIDE DEF call
<1>9. calls \in Seq(Call) /\ m \in Nat /\ DOMAIN calls = 1 .. m
  BY DEF PathsTypeOK
<1> HIDE DEF Call
<1>10. /\ calls' \in Seq(Call) /\ Len(calls') = m + 1 /\ DOMAIN calls' = 1 .. m + 1
       /\ calls'[m + 1] = call /\ \A i \in 1 .. m : calls'[i] = calls[i]
  BY <1>7, <1>8, <1>9
<1> HIDE DEF m
<1>11. PathsTypeOK'
  <2>1. \A i \in DOMAIN calls' : calls'[i].path \in DOMAIN steps'
    <3> TAKE i \in DOMAIN calls'
    <3>1. CASE i \in 1 .. m
      BY <1>7, <1>9, <1>10, <3>1 DEF PathsTypeOK
    <3>2. CASE i = m + 1
      BY <1>4, <1>7, <1>8, <1>10, <3>2
    <3> QED BY <1>9, <1>10, <3>1, <3>2
  <2>2. /\ \E n \in 0 .. MaxSteps : DOMAIN steps' = 0 .. n
        /\ \A p \in DOMAIN steps' \ {EMPTY} :
              steps'[p].previous \in 0 .. p - 1 /\ steps'[p].device \in Buses
        /\ deviceToPaths' \in [Buses -> Seq([parent : Nat, step : Nat])]
    BY <1>7 DEF PathsTypeOK
  <2> QED BY <1>10, <2>1, <2>2 DEF PathsTypeOK, Call
<1>12. RoutesNumbered'
  BY <1>7 DEF RoutesNumbered
<1>13. Nested'
  <2>1. stack = IF m = 0 THEN <<EMPTY>> ELSE During(calls[m])
    BY <1>9 DEF Nested, Last, m
  <2>2. ASSUME NEW i \in 1 .. m + 1
        PROVE  /\ calls'[i].began = IF i = 1 THEN <<EMPTY>> ELSE During(calls'[i - 1])
               /\ calls'[i].path # Last(calls'[i].began)
    <3>1. CASE i \in 1 .. m
      <4>1. calls'[i] = calls[i] /\ (i # 1 => calls'[i - 1] = calls[i - 1])
        BY <1>9, <1>10, <3>1
      <4> QED BY <1>9, <3>1, <4>1 DEF Nested
    <3>2. CASE i = m + 1
      <4>1. calls'[i] = call /\ (i # 1 => calls'[i - 1] = calls[m])
        BY <1>9, <1>10, <3>2
      <4>2. i = 1 <=> m = 0
        BY <1>9, <3>2
      <4> QED BY <1>4, <1>8, <2>1, <4>1, <4>2 DEF top
    <3> QED BY <1>9, <2>2, <3>1, <3>2
  <2>3. stack' = During(call) /\ Last(calls') = call /\ calls' # <<>>
    BY <1>7, <1>8, <1>9, <1>10 DEF During, Last
  <2> HIDE DEF During
  <2>4. stack' = IF calls' = <<>> THEN <<EMPTY>> ELSE During(Last(calls'))
    BY <2>3
  <2> QED BY <1>10, <2>2, <2>4 DEF Nested, During, Last
<1>14. Recovers'
  <2>1. \A p : Route(p)' = Route(p)
    BY <1>7 DEF Route
  <2>2. ASSUME NEW i \in 1 .. m + 1, calls'[i].known
        PROVE  Route(calls'[i].path) = Append(Route(PathOf(i - 1)'), calls'[i].bus)
    <3>1. CASE i \in 1 .. m
      <4>1. calls'[i] = calls[i] /\ (i # 1 => calls'[i - 1] = calls[i - 1])
        BY <1>9, <1>10, <3>1
      <4>2. PathOf(i - 1)' = PathOf(i - 1)
        BY <1>9, <3>1, <4>1 DEF PathOf
      <4> QED BY <1>9, <2>2, <3>1, <4>1, <4>2 DEF Recovers
    <3>2. CASE i = m + 1
      <4>1. calls'[i] = call /\ known
        BY <1>8, <1>9, <1>10, <2>2, <3>2
      <4>2. Route(path) = Append(Route(top), bus)
        BY <1>4, <1>5, <4>1, RouteUnfolds
      <4>3. PathOf(i - 1)' = top
        <5>1. m = 0 => calls = <<>>
          BY <1>9 DEF m
        <5>2. m # 0 => calls # <<>> /\ m \in 1 .. m
          BY <1>9 DEF m
        <5> QED BY <1>1, <1>9, <1>10, <3>2, <5>1, <5>2 DEF PathOf
      <4> QED BY <1>8, <4>1, <4>2, <4>3
    <3> QED BY <1>9, <2>2, <3>1, <3>2
  <2> QED BY <1>10, <2>1, <2>2 DEF Recovers
<1> QED BY <1>11, <1>12, <1>13, <1>14

\* The guard of an access finds its own path on top and takes it back.
LEMMA LeaveRestores ==
  ASSUME PathsInv, Leave
  PROVE  stack' = Last(calls).began
<1> USE DEF PathsInv
<1>1. calls # <<>> /\ Last(stack) = Last(calls).path
  BY CurrentPath DEF Leave
<1>2. stack = Append(Last(calls).began, Last(calls).path)
  BY <1>1 DEF Nested, During
<1>3. Last(calls).began \in Seq(Nat) /\ Last(calls).path \in Nat
  <2>1. Len(calls) \in 1 .. Len(calls)
    BY <1>1 DEF PathsTypeOK
  <2>2. calls[Len(calls)] \in [bus : Buses, path : Nat, began : Seq(Nat), known : BOOLEAN]
    BY <2>1, ElementOfSeq DEF PathsTypeOK
  <2> QED BY <2>2 DEF Last
<1>4. stack' = SubSeq(stack, 1, Len(stack) - 1)
  BY <1>1 DEF Leave
<1> DEFINE began == Last(calls).began
           path == Last(calls).path
<1> HIDE DEF began, path
<1>5. SubSeq(Append(began, path), 1, Len(Append(began, path)) - 1) = began
  <2>1. began \in Seq(Nat) /\ path \in Nat
    BY <1>3 DEF began, path
  <2> QED BY <2>1
<1> QED BY <1>2, <1>4, <1>5 DEF began, path

LEMMA LeavePreserves ==
  ASSUME PathsInv, Leave
  PROVE  PathsInv'
<1> USE DEF PathsInv
<1> DEFINE m == Len(calls)
           Call == [bus : Buses, path : Nat, began : Seq(Nat), known : BOOLEAN]
<1>1. calls # <<>> /\ calls' = SubSeq(calls, 1, m - 1) /\ steps' = steps /\ deviceToPaths' = deviceToPaths
  BY DEF Leave
<1>2. stack' = calls[m].began
  BY LeaveRestores DEF Last
<1>3. calls \in Seq(Call) /\ m \in Nat \ {0} /\ DOMAIN calls = 1 .. m
  BY <1>1 DEF PathsTypeOK
<1> HIDE DEF Call
<1>4. /\ calls' \in Seq(Call) /\ Len(calls') = m - 1 /\ DOMAIN calls' = 1 .. m - 1
      /\ \A i \in 1 .. m - 1 : calls'[i] = calls[i]
  BY <1>1, <1>3
<1> HIDE DEF m
<1>5. \A i \in DOMAIN calls' : i \in DOMAIN calls /\ calls'[i] = calls[i]
                               /\ (i # 1 => i - 1 \in DOMAIN calls' /\ calls'[i - 1] = calls[i - 1])
  BY <1>3, <1>4
<1>6. PathsTypeOK'
  <2>1. \A i \in DOMAIN calls' : calls'[i].path \in DOMAIN steps'
    BY <1>1, <1>5 DEF PathsTypeOK
  <2>2. /\ \E n \in 0 .. MaxSteps : DOMAIN steps' = 0 .. n
        /\ \A p \in DOMAIN steps' \ {EMPTY} :
              steps'[p].previous \in 0 .. p - 1 /\ steps'[p].device \in Buses
        /\ deviceToPaths' \in [Buses -> Seq([parent : Nat, step : Nat])]
    BY <1>1 DEF PathsTypeOK
  <2> QED BY <1>4, <2>1, <2>2 DEF PathsTypeOK, Call
<1>7. RoutesNumbered'
  BY <1>1 DEF RoutesNumbered
<1>8. Nested'
  <2>1. ASSUME NEW i \in DOMAIN calls'
        PROVE  /\ calls'[i].began = IF i = 1 THEN <<EMPTY>> ELSE During(calls'[i - 1])
               /\ calls'[i].path # Last(calls'[i].began)
    BY <1>5 DEF Nested
  <2>2. stack' = IF m = 1 THEN <<EMPTY>> ELSE During(calls[m - 1])
    BY <1>2, <1>3 DEF Nested
  <2>3. CASE m = 1
    <3>1. calls' = <<>>
      BY <1>4, <2>3
    <3> QED BY <2>1, <2>2, <2>3, <3>1 DEF Nested, During, Last
  <2>4. CASE m # 1
    <3>1. calls' # <<>> /\ Last(calls') = calls[m - 1]
      BY <1>3, <1>4, <2>4 DEF Last
    <3>2. stack' = During(Last(calls'))
      BY <2>2, <2>4, <3>1
    <3> QED BY <2>1, <3>1, <3>2 DEF Nested, During, Last
  <2> QED BY <2>3, <2>4
<1>9. Recovers'
  <2>1. \A p : Route(p)' = Route(p)
    BY <1>1 DEF Route
  <2>2. ASSUME NEW i \in 1 .. m - 1, calls'[i].known
        PROVE  Route(calls'[i].path) = Append(Route(PathOf(i - 1)'), calls'[i].bus)
    <3>1. i \in DOMAIN calls /\ calls'[i] = calls[i] /\ (i # 1 => calls'[i - 1] = calls[i - 1])
      BY <1>4, <1>5
    <3>2. PathOf(i - 1)' = PathOf(i - 1)
      BY <3>1 DEF PathOf
    <3> QED BY <2>2, <3>1, <3>2 DEF Recovers
  <2> QED BY <1>4, <2>1, <2>2 DEF Recovers
<1> QED BY <1>6, <1>7, <1>8, <1>9

LEMMA PathsStep ==
  ASSUME PathsInv, [PathsNext]_pathsVars
  PROVE  PathsInv'
<1>1. ASSUME NEW parent \in DOMAIN steps, NEW bus \in Buses, Add(parent, bus) PROVE PathsInv'
  BY <1>1, AddPreserves
<1>2. CASE ClearPaths
  <2>1. PathsInit'
    BY <1>2 DEF ClearPaths, PathsInit
  <2>2. PathsInit' => PathsInv'
    BY PathsInitial, PTL
  <2> QED BY <2>1, <2>2
<1>3. ASSUME NEW bus \in Buses, Enter(bus) PROVE PathsInv'
  BY <1>3, EnterPreserves
<1>4. CASE Leave
  BY <1>4, LeavePreserves
<1>5. CASE UNCHANGED pathsVars
  <2>1. PathsTypeOK' /\ RoutesNumbered' /\ Nested'
    BY <1>5 DEF pathsVars, PathsInv, PathsTypeOK, RoutesNumbered, Nested, During, Last
  <2>2. \A p : Route(p)' = Route(p)
    BY <1>5 DEF pathsVars, Route
  <2>3. Recovers'
    BY <1>5, <2>2 DEF pathsVars, PathsInv, Recovers, PathOf
  <2> QED BY <2>1, <2>3 DEF PathsInv
<1> QED BY <1>1, <1>2, <1>3, <1>4, <1>5 DEF PathsNext

-----------------------------------------------------------------------------
(* Theorems.                                                               *)

\* The numbers of routes (Paths::add, Paths::find), the stack of paths in the
\* trace buffer and the accesses under way fit together in every reachable state:
\* every access has pushed one path, which is not the one below it.
THEOREM PathsInvariant == PathsSpec => []PathsInv
<1>1. PathsInit => PathsInv
  BY PathsInitial
<1>2. PathsInv /\ [PathsNext]_pathsVars => PathsInv'
  BY PathsStep
<1> QED BY <1>1, <1>2, PTL DEF PathsSpec

\* The buses of the accesses after the i-th, up to the k-th of them.
Following(i, k) == [j \in 1 .. k |-> calls[i + j].bus]

\* Routes are sequences of buses.
LEMMA RouteType ==
  ASSUME PathsTypeOK
  PROVE  \A p \in DOMAIN steps : Route(p) \in Seq(Buses)
<1>0. PICK n \in 0 .. MaxSteps : DOMAIN steps = 0 .. n
  BY DEF PathsTypeOK
<1>1. n \in Nat
  BY <1>0, PathsAssumption
<1> DEFINE I == {k \in Nat : \A p \in 0 .. k : Route(p) \in Seq(Buses)}
<1>2. 0 \in I
  <2>1. Route(EMPTY) = <<>>
    BY RouteUnfolds
  <2>2. \A p \in 0 .. 0 : p = EMPTY
    BY DEF EMPTY
  <2>3. <<>> \in Seq(Buses)
    OBVIOUS
  <2> QED BY <2>1, <2>2, <2>3
<1>3. ASSUME NEW k \in 0 .. n - 1, k \in I PROVE k + 1 \in I
  <2>1. k + 1 \in DOMAIN steps \ {EMPTY}
    BY <1>0, <1>1 DEF EMPTY
  <2>2. steps[k + 1].previous \in 0 .. k /\ steps[k + 1].device \in Buses
    <3>1. steps[k + 1].previous \in 0 .. (k + 1) - 1 /\ steps[k + 1].device \in Buses
      BY <2>1 DEF PathsTypeOK
    <3> QED BY <3>1
  <2>3. Route(k + 1) = Append(Route(steps[k + 1].previous), steps[k + 1].device)
    BY <2>1, RouteUnfolds
  <2>4. Route(steps[k + 1].previous) \in Seq(Buses)
    BY <1>3, <2>2
  <2>5. Route(k + 1) \in Seq(Buses)
    BY <2>2, <2>3, <2>4
  <2>6. \A p \in 0 .. k + 1 : p \in 0 .. k \/ p = k + 1
    OBVIOUS
  <2> QED BY <1>3, <2>5, <2>6
<1> HIDE DEF I
<1>4. 0 .. n \subseteq I
  BY <1>1, <1>2, <1>3, SetInductionTo
<1>5. n \in I
  BY <1>1, <1>4
<1> QED BY <1>0, <1>5 DEF I

\* One more access after the i-th.
LEMMA FollowingGrows ==
  ASSUME PathsTypeOK, NEW i \in 0 .. Len(calls), NEW k \in 0 .. Len(calls) - i - 1
  PROVE  /\ Following(i, k) \in Seq(Buses)
         /\ Following(i, k + 1) = Append(Following(i, k), calls[i + k + 1].bus)
<1> DEFINE Call == [bus : Buses, path : Nat, began : Seq(Nat), known : BOOLEAN]
           old == Following(i, k)
           new == Following(i, k + 1)
<1>0. calls \in Seq(Call) /\ Len(calls) \in Nat /\ DOMAIN calls = 1 .. Len(calls)
  BY DEF PathsTypeOK
<1>1. \A j \in 1 .. k + 1 : i + j \in DOMAIN calls
  BY <1>0
<1>2. \A j \in 1 .. k + 1 : calls[i + j] \in Call
  BY <1>0, <1>1, ElementOfSeq
<1>3. \A j \in 1 .. k + 1 : calls[i + j].bus \in Buses
  BY <1>2
<1>4. old \in [1 .. k -> Buses] /\ new \in [1 .. k + 1 -> Buses]
  <2>1. \A j \in 1 .. k : j \in 1 .. k + 1
    BY <1>0
  <2> QED BY <1>3, <2>1 DEF Following
<1>5. /\ \A j \in 1 .. k : old[j] = new[j]
      /\ new[k + 1] = calls[i + (k + 1)].bus
  BY <1>0 DEF Following
<1> HIDE DEF old, new
<1>6. PICK n \in Nat : n = k + 1
  BY <1>0
<1>7. old \in Seq(Buses) /\ Len(old) = k
  BY <1>0, <1>4
<1>8. new \in Seq(Buses) /\ Len(new) = k + 1
  <2>1. new \in [1 .. n -> Buses]
    BY <1>4, <1>6
  <2>2. new \in Seq(Buses) /\ Len(new) = n
    BY <2>1
  <2> QED BY <1>6, <2>2
<1>9. new = Append(old, new[k + 1])
  BY <1>0, <1>5, <1>7, <1>8
<1>10. i + (k + 1) = i + k + 1
  BY <1>0
<1> QED BY <1>5, <1>7, <1>9, <1>10 DEF old, new

\* From the current path, the steps before it lead along the buses that the accesses under
\* way crossed (Paths::operator[]), back to any access after which each has a number of its
\* own, and on along the route of the path that one was given: in whatever order the routes
\* were added, and whether or not they share numbers.
THEOREM PathsLeadBack == PathsSpec => []RouteRecovered
<1>1. PathsInv => RouteRecovered
  <2> SUFFICES ASSUME PathsInv, NEW i \in 0 .. Len(calls),
                      \A j \in i + 1 .. Len(calls) : calls[j].known
               PROVE  Route(Last(stack)) = Route(PathOf(i)) \o Following(i, Len(calls) - i)
    BY DEF RouteRecovered, Following
  <2> USE DEF PathsInv
  <2> DEFINE n == Len(calls) - i
             P(k) == Route(PathOf(i + k)) = Route(PathOf(i)) \o Following(i, k)
             I == {k \in Nat : P(k)}
  <2>1. Len(calls) \in Nat /\ DOMAIN calls = 1 .. Len(calls) /\ n \in Nat
    BY DEF PathsTypeOK
  <2>2. \A k \in 0 .. Len(calls) : Route(PathOf(k)) \in Seq(Buses)
    <3>0. 0 \in DOMAIN steps
      BY PathsAssumption DEF PathsTypeOK
    <3>1. \A k \in 0 .. Len(calls) : PathOf(k) \in DOMAIN steps
      <4> TAKE k \in 0 .. Len(calls)
      <4>1. \A j \in DOMAIN calls : calls[j].path \in DOMAIN steps
        BY DEF PathsTypeOK
      <4>2. k = 0 \/ k \in DOMAIN calls
        BY <2>1
      <4> QED BY <3>0, <4>1, <4>2, Zenon DEF PathOf, EMPTY
    <3>2. \A p \in DOMAIN steps : Route(p) \in Seq(Buses)
      BY RouteType
    <3> QED BY <3>1, <3>2, Zenon
  <2>3. 0 \in I
    <3>1. Following(i, 0) = <<>>
      <4>1. 1 .. 0 = {}
        OBVIOUS
      <4> QED BY <4>1 DEF Following
    <3>2. i + 0 = i
      BY <2>1
    <3>3. Route(PathOf(i)) \in Seq(Buses)
      BY <2>2
    <3>4. Route(PathOf(i)) \o <<>> = Route(PathOf(i))
      BY <3>3
    <3> QED BY <3>1, <3>2, <3>4
  <2>4. ASSUME NEW k \in 0 .. n - 1, k \in I PROVE k + 1 \in I
    <3>1. i + k + 1 \in i + 1 .. Len(calls) /\ i + k + 1 \in DOMAIN calls /\ (i + k + 1) - 1 = i + k
      BY <2>1
    <3>2. Route(PathOf(i + k + 1)) = Append(Route(PathOf(i + k)), calls[i + k + 1].bus)
      <4>1. calls[i + k + 1].known
        BY <3>1
      <4>2. Route(calls[i + k + 1].path) = Append(Route(PathOf((i + k + 1) - 1)), calls[i + k + 1].bus)
        BY <3>1, <4>1 DEF Recovers
      <4>3. PathOf(i + k + 1) = calls[i + k + 1].path
        BY <2>1, <3>1 DEF PathOf
      <4> QED BY <3>1, <4>2, <4>3
    <3>3. Route(PathOf(i + k)) = Route(PathOf(i)) \o Following(i, k)
      BY <2>4
    <3>4. /\ Following(i, k) \in Seq(Buses)
          /\ Following(i, k + 1) = Append(Following(i, k), calls[i + k + 1].bus)
      <4>1. k \in 0 .. Len(calls) - i - 1
        BY <2>1
      <4> QED BY <4>1, FollowingGrows
    <3>5. calls[i + k + 1].bus \in Buses
      <4> DEFINE Call == [bus : Buses, path : Nat, began : Seq(Nat), known : BOOLEAN]
      <4>0. calls \in Seq(Call) /\ i + k + 1 \in 1 .. Len(calls)
        BY <2>1, <3>1 DEF PathsTypeOK
      <4>1. calls[i + k + 1] \in Call
        <5> HIDE DEF Call
        <5> QED BY <4>0, ElementOfSeq
      <4> QED BY <4>1
    <3>6. Route(PathOf(i)) \in Seq(Buses)
      BY <2>2
    <3>7. \A r, s \in Seq(Buses), b \in Buses : Append(r \o s, b) = r \o Append(s, b)
      <4> TAKE r, s \in Seq(Buses), b \in Buses
      <4>1. r \o s \in Seq(Buses) /\ <<b>> \in Seq(Buses)
        BY ConcatProperties
      <4>2. Append(r \o s, b) = (r \o s) \o <<b>>
        BY <4>1, AppendIsConcat
      <4>3. Append(s, b) = s \o <<b>>
        BY AppendIsConcat
      <4>4. (r \o s) \o <<b>> = r \o (s \o <<b>>)
        BY <4>1, ConcatAssociative
      <4> QED BY <4>2, <4>3, <4>4, Zenon
    <3>8. Route(PathOf(i + k + 1)) = Route(PathOf(i)) \o Following(i, k + 1)
      BY <3>2, <3>3, <3>4, <3>5, <3>6, <3>7
    <3>9. i + (k + 1) = i + k + 1 /\ k + 1 \in Nat
      BY <2>1
    <3> QED BY <3>8, <3>9
  <2> HIDE DEF I
  <2>5. n \in I
    <3>1. 0 .. n \subseteq I
      <4> HIDE DEF n
      <4> QED BY <2>1, <2>3, <2>4, SetInductionTo
    <3> QED BY <2>1, <3>1
  <2>6. Route(PathOf(i + n)) = Route(PathOf(i)) \o Following(i, n)
    BY <2>5 DEF I
  <2>7. PathOf(i + n) = Last(stack)
    <3>1. i + n = Len(calls)
      BY <2>1
    <3>2. CASE calls = <<>>
      BY <3>1, <3>2, CurrentPath DEF PathOf
    <3>3. CASE calls # <<>>
      <4>1. Len(calls) # 0
        BY <3>3 DEF PathsTypeOK
      <4> QED BY <3>1, <3>3, <4>1, CurrentPath DEF PathOf
    <3> QED BY <3>2, <3>3
  <2> QED BY <2>6, <2>7
<1> QED BY <1>1, PathsInvariant, PTL

\* The destructor of PathGuard leaves the stack of paths as its constructor
\* found it, for registered and unregistered accesses alike.
THEOREM GuardsPushAndPop == PathsSpec => GuardsArePaired
<1> DEFINE Restores == Len(calls') < Len(calls) => stack' = Last(calls).began
<1>1. ASSUME PathsInv, [PathsNext]_pathsVars PROVE [Restores]_pathsVars
  <2> SUFFICES ASSUME PathsNext, Len(calls') < Len(calls) PROVE stack' = Last(calls).began
    BY <1>1
  <2>0. Len(calls) \in Nat
    BY <1>1 DEF PathsInv, PathsTypeOK
  <2>1. ASSUME NEW parent \in DOMAIN steps, NEW bus \in Buses, Add(parent, bus) PROVE FALSE
    BY <2>0, <2>1 DEF Add
  <2>2. ASSUME ClearPaths PROVE FALSE
    BY <2>0, <2>2 DEF ClearPaths
  <2>3. ASSUME NEW bus \in Buses, Enter(bus) PROVE FALSE
    <3>1. Len(calls') = Len(calls) + 1
      BY <1>1, <2>3 DEF Enter, PathsInv, PathsTypeOK
    <3> QED BY <2>0, <3>1
  <2>4. CASE Leave
    BY <1>1, <2>4, LeaveRestores
  <2> QED BY <2>1, <2>2, <2>3, <2>4 DEF PathsNext
<1>2. PathsInv /\ [PathsNext]_pathsVars => [Restores]_pathsVars
  BY <1>1
<1>3. GuardsArePaired <=> [][Restores]_pathsVars
  BY DEF GuardsArePaired
<1> HIDE DEF Restores
<1> QED BY <1>2, <1>3, PathsInvariant, PTL DEF PathsSpec

-----------------------------------------------------------------------------
(* The invariant of the address map.                                       *)

Node == [device : Devices, from : Interval, to : [lo : Int, hi : Int]]

\* Where a range leads an address.
Lead(n, a) == <<n.device, n.to.lo + (a - n.from.lo)>>

\* A range has an address, and in sim3 is as long as what it shows of its target.
Fits(n) ==
    /\ n.from.lo <= n.from.hi
    /\ version = "sim3" => n.to.hi - n.to.lo = n.from.hi - n.from.lo

\* The range in a family of them that region_at() settles on for an address, which it
\* then is in or not: the shortest of those that start there, else the longest of the last
\* that start below.
Best(F, k, a) ==
    /\ k \in DOMAIN F
    /\ F[k].from.lo <= a
    /\ F[k].from.lo = a => \A j \in DOMAIN F : F[j].from.lo = a => F[k].from.hi <= F[j].from.hi
    /\ F[k].from.lo < a => \A j \in DOMAIN F :
           /\ F[j].from.lo # a
           /\ F[j].from.lo < a =>
                  \/ F[j].from.lo < F[k].from.lo
                  \/ F[j].from.lo = F[k].from.lo /\ F[j].from.hi <= F[k].from.hi

MapTypeOK ==
    /\ version \in Versions
    /\ elements \in Seq(Node)
    /\ devices \subseteq Devices
    /\ mem \in [Cells -> Values]
    /\ cell \in [Address -> Cells \union {Unmapped}]
    /\ torn \subseteq Address
    /\ mappings \in 0 .. MaxMappings

\* The ranges are sorted, in each version by more than this.
InOrder(es) == \A i, j \in DOMAIN es : i < j => ~Before(es[j].from, es[i].from)

\* Ranges of attached targets, of which sim3 has one each.
RangesFit(F, attached) ==
    /\ \A k \in DOMAIN F : Fits(F[k]) /\ F[k].device \in attached
    /\ version = "sim3" => \A j, k \in DOMAIN F : F[j].device = F[k].device => j = k

(***************************************************************************)
(* The range found for an address that is not torn is the one that leads   *)
(* it where it should.  What makes this survive the next target attached,  *)
(* which shrinks some of the ranges: of several that start where the one   *)
(* found does, it alone can hold another address than that start.          *)
(***************************************************************************)
Finds(F, k, a, to) ==
    /\ Holds(F[k].from, a)
    /\ to = Lead(F[k], a)
    /\ \A j \in DOMAIN F \ {k} : F[j].from.lo = F[k].from.lo =>
           \/ F[k].from.lo = a /\ F[k].from.hi = a
           \/ F[k].from.lo < a /\ F[j].from.hi = F[k].from.lo

RangesLead(F, leads, wrong) ==
    /\ \A a \in Address : leads[a] # Unmapped => \E k \in DOMAIN F : F[k].from.lo <= a
    /\ \A a \in Address \ wrong : leads[a] # Unmapped =>
           \A k \in DOMAIN F : Best(F, k, a) => Finds(F, k, a, leads[a])
    /\ \A a \in Address \ wrong : leads[a] = Unmapped =>
           \A k \in DOMAIN F : ~Holds(F[k].from, a)

MapInv ==
    /\ MapTypeOK
    /\ InOrder(elements)
    /\ RangesFit(elements, devices)
    /\ RangesLead(elements, cell, torn)

LEMMA CellFacts ==
  /\ \A c : c \in Cells <=> \E d \in Devices : \E i \in 0 .. Size[d] - 1 : c = <<d, i>>
  /\ \A d, i : <<d, i>> \in Cells <=> d \in Devices /\ i \in 0 .. Size[d] - 1
  /\ \A d, i : <<d, i>> # Unmapped
<1>1. \A c : c \in Cells <=> \E d \in Devices : \E i \in 0 .. Size[d] - 1 : c = <<d, i>>
  BY DEF Cells
<1>2. \A d, i : <<d, i>> # Unmapped
  BY DEF Unmapped
<1>3. \A d, i : <<d, i>> \in Cells <=> d \in Devices /\ i \in 0 .. Size[d] - 1
  <2> TAKE d, i
  <2>1. \A e, j : <<d, i>> = <<e, j>> <=> d = e /\ i = j
    OBVIOUS
  <2> QED BY <1>1, <2>1
<1> QED BY <1>1, <1>2, <1>3

LEMMA AddressFacts ==
  /\ \A a \in Address : a \in Nat /\ a <= MaxAddress
  /\ \A i \in Interval : i.lo \in Nat /\ i.hi \in Nat /\ i.lo \in Address /\ i.hi \in Address
  /\ \A a \in Nat : a <= MaxAddress => a \in Address
BY BusAssumption DEF Address, Interval

LEMMA NodeFields ==
  ASSUME NEW n \in Node
  PROVE  /\ n.from \in Interval /\ n.from.lo \in Nat /\ n.from.hi \in Nat
         /\ n.to.lo \in Int /\ n.to.hi \in Int
         /\ n.device \in Devices /\ Size[n.device] \in Nat \ {0}
<1>1. n.from \in Interval /\ n.to \in [lo : Int, hi : Int] /\ n.device \in Devices
  BY DEF Node
<1> QED BY <1>1, AddressFacts, BusAssumption

\* The least and the greatest of some places or numbers.
LEMMA LeastIs ==
  ASSUME NEW S \in SUBSET Nat, S # {}
  PROVE  Least(S) \in S /\ \A j \in S : Least(S) <= j
BY LeastNat DEF Least

LEMMA GreatestIs ==
  ASSUME NEW N \in Nat, NEW S \in SUBSET (0 .. N), S # {}
  PROVE  Greatest(S) \in S /\ \A j \in S : j <= Greatest(S)
BY GreatestNat DEF Greatest

\* The ranges as a family.
LEMMA ElementFacts ==
  ASSUME MapTypeOK
  PROVE  /\ \A k \in DOMAIN elements : elements[k] \in Node /\ k \in Nat \ {0}
         /\ Len(elements) \in Nat /\ DOMAIN elements = 1 .. Len(elements)
         /\ elements = <<>> <=> DOMAIN elements = {}
<1>1. elements \in Seq(Node)
  BY DEF MapTypeOK
<1> QED BY <1>1

-----------------------------------------------------------------------------
(* What the search finds.                                                  *)

\* Whatever place region_at() returns is one of the vector.
LEMMA RegionPlace ==
  ASSUME MapTypeOK, NEW a \in Int, RegionAt(a) # None, RegionAt(a) # BeforeFirst
  PROVE  RegionAt(a) \in DOMAIN elements
<1> DEFINE here == {k \in DOMAIN elements : elements[k].from.lo = a}
           lower == {k \in DOMAIN elements : elements[k].from.lo < a}
<1>1. /\ RegionAt(a) = None \/ RegionAt(a) = BeforeFirst \/ RegionAt(a) = Least(here)
           \/ RegionAt(a) = Greatest(lower)
      /\ here = {} => RegionAt(a) = None \/ RegionAt(a) = BeforeFirst \/ (lower # {} /\ RegionAt(a) = Greatest(lower))
      /\ here # {} => RegionAt(a) = None \/ RegionAt(a) = Least(here)
  BY DEF RegionAt
<1>2. here \in SUBSET Nat /\ lower \in SUBSET (0 .. Len(elements)) /\ Len(elements) \in Nat
  BY ElementFacts
<1>3. here \subseteq DOMAIN elements /\ lower \subseteq DOMAIN elements
  OBVIOUS
<1> HIDE DEF here, lower
<1>4. here # {} => Least(here) \in here
  BY <1>2, LeastIs
<1>5. lower # {} => Greatest(lower) \in lower
  BY <1>2, GreatestIs
<1> QED BY <1>1, <1>3, <1>4, <1>5

LEMMA RegionBest ==
  ASSUME MapInv, NEW a \in Address, NEW low \in DOMAIN elements, elements[low].from.lo <= a
  PROVE  \E k \in DOMAIN elements :
             /\ Best(elements, k, a)
             /\ RegionAt(a) = IF Holds(elements[k].from, a) THEN k ELSE None
<1> DEFINE here == {k \in DOMAIN elements : elements[k].from.lo = a}
           lower == {k \in DOMAIN elements : elements[k].from.lo < a}
<1>1. /\ \A k \in DOMAIN elements : elements[k].from.lo \in Nat /\ elements[k].from.hi \in Nat
                                     /\ k \in Nat /\ elements[k].from.lo <= elements[k].from.hi
      /\ a \in Nat /\ elements # <<>>
  <2>1. \A k \in DOMAIN elements : elements[k] \in Node /\ k \in Nat \ {0}
    BY ElementFacts DEF MapInv
  <2>2. \A k \in DOMAIN elements : elements[k].from.lo <= elements[k].from.hi
    BY DEF MapInv, RangesFit, Fits
  <2>3. elements # <<>>
    BY ElementFacts DEF MapInv
  <2>4. a \in Nat
    BY AddressFacts
  <2> QED BY <2>1, <2>2, <2>3, <2>4, NodeFields
<1>2. here \in SUBSET Nat /\ lower \in SUBSET (0 .. Len(elements)) /\ Len(elements) \in Nat
  BY ElementFacts DEF MapInv
<1>3. \A i, j \in DOMAIN elements : i < j => ~Before(elements[j].from, elements[i].from)
  BY DEF MapInv, InOrder
<1>4. CASE here # {}
  <2>1. Least(here) \in here /\ \A j \in here : Least(here) <= j
    <3> HIDE DEF here
    <3> QED BY <1>2, <1>4, LeastIs
  <2>2. PICK k \in DOMAIN elements : k = Least(here) /\ elements[k].from.lo = a
    BY <2>1
  <2>3. RegionAt(a) = k
    BY <1>1, <1>4, <2>2 DEF RegionAt
  <2>4. ASSUME NEW j \in DOMAIN elements, elements[j].from.lo = a
        PROVE  elements[k].from.hi <= elements[j].from.hi
    <3>1. k <= j
      BY <2>1, <2>2, <2>4
    <3>2. CASE k = j
      BY <1>1, <3>2
    <3>3. CASE k < j
      BY <1>1, <1>3, <2>2, <2>4, <3>3 DEF Before
    <3> QED BY <1>1, <3>1, <3>2, <3>3
  <2>5. Best(elements, k, a)
    BY <1>1, <2>2, <2>4 DEF Best
  <2>6. Holds(elements[k].from, a)
    BY <1>1, <2>2 DEF Holds
  <2> QED BY <2>2, <2>3, <2>5, <2>6
<1>5. CASE here = {}
  <2>0. low \in lower
    BY <1>1, <1>5
  <2>1. Greatest(lower) \in lower /\ \A j \in lower : j <= Greatest(lower)
    <3> HIDE DEF lower
    <3> QED BY <1>2, <2>0, GreatestIs
  <2>2. PICK k \in DOMAIN elements : k = Greatest(lower) /\ elements[k].from.lo < a
    BY <2>1
  <2>3. RegionAt(a) = IF Holds(elements[k].from, a) THEN k ELSE None
    BY <1>1, <1>5, <2>0, <2>2 DEF RegionAt
  <2>4. ASSUME NEW j \in DOMAIN elements, elements[j].from.lo < a
        PROVE  \/ elements[j].from.lo < elements[k].from.lo
               \/ elements[j].from.lo = elements[k].from.lo /\ elements[j].from.hi <= elements[k].from.hi
    <3>1. j <= k
      BY <2>1, <2>2, <2>4
    <3>2. CASE j = k
      BY <1>1, <3>2
    <3>3. CASE j < k
      BY <1>1, <1>3, <3>3 DEF Before
    <3> QED BY <1>1, <3>1, <3>2, <3>3
  <2>5. Best(elements, k, a)
    BY <1>1, <1>5, <2>2, <2>4 DEF Best
  <2> QED BY <2>3, <2>5
<1> QED BY <1>4, <1>5

\* Where the map promises anything, the search finds it.
LEMMA RegionLeads ==
  ASSUME MapInv, NEW a \in Address, Settled(a)
  PROVE  /\ cell[a] = Unmapped => RegionAt(a) = None
         /\ cell[a] # Unmapped =>
                /\ RegionAt(a) \in DOMAIN elements /\ RegionAt(a) # None /\ RegionAt(a) # BeforeFirst
                /\ Best(elements, RegionAt(a), a)
                /\ Finds(elements, RegionAt(a), a, cell[a])
<1>0. a \notin torn /\ RangesLead(elements, cell, torn)
  BY DEF Settled, MapInv
<1>1. CASE elements = <<>>
  <2>1. DOMAIN elements = {}
    BY <1>1
  <2>2. RegionAt(a) = None
    BY <1>1 DEF RegionAt
  <2>3. cell[a] = Unmapped
    BY <1>0, <2>1 DEF RangesLead
  <2> QED BY <2>2, <2>3
<1>2. CASE elements # <<>>
  <2>1. PICK k \in DOMAIN elements :
            /\ Best(elements, k, a)
            /\ RegionAt(a) = IF Holds(elements[k].from, a) THEN k ELSE None
    <3>1. 1 \in DOMAIN elements
      BY <1>2, ElementFacts DEF MapInv
    <3>2. elements[1].from.lo <= a
      BY <1>2 DEF Settled
    <3> QED BY <3>1, <3>2, RegionBest
  <2>2. k \in Nat \ {0}
    BY ElementFacts DEF MapInv
  <2>3. CASE cell[a] = Unmapped
    BY <1>0, <2>1, <2>3 DEF RangesLead
  <2>4. CASE cell[a] # Unmapped
    <3>1. Finds(elements, k, a, cell[a])
      BY <1>0, <2>1, <2>4 DEF RangesLead
    <3>2. RegionAt(a) = k
      BY <2>1, <3>1 DEF Finds
    <3> QED BY <2>1, <2>2, <2>4, <3>1, <3>2 DEF None, BeforeFirst
  <2> QED BY <2>3, <2>4
<1> QED BY <1>1, <1>2

LEMMA ForwardLeads ==
  ASSUME MapInv, NEW a \in Address, Settled(a)
  PROVE  Forward(a) = cell[a]
<1>1. CASE cell[a] = Unmapped
  <2>1. RegionAt(a) = None
    BY <1>1, RegionLeads
  <2> QED BY <1>1, <2>1 DEF Forward, None, BeforeFirst
<1>2. CASE cell[a] # Unmapped
  <2> DEFINE k == RegionAt(a)
  <2>1. k # None /\ k # BeforeFirst /\ cell[a] = Lead(elements[k], a)
    BY <1>2, RegionLeads DEF Finds
  <2>2. Forward(a) = <<elements[k].device, OffsetMap(a, elements[k].from, elements[k].to)>>
    BY <2>1 DEF Forward
  <2> HIDE DEF k
  <2> QED BY <2>1, <2>2 DEF Lead, OffsetMap
<1> QED BY <1>1, <1>2

\* In sim3 each target has one range, as long as what it shows.
LEMMA BackwardLeads ==
  ASSUME MapInv, version = "sim3", NEW a \in Address, Settled(a), cell[a] # Unmapped
  PROVE  Backward(cell[a][1], cell[a][2]) = a
<1> DEFINE k == RegionAt(a)
           n == elements[k]
<1>1. k \in DOMAIN elements /\ Holds(n.from, a) /\ cell[a] = Lead(n, a)
  BY RegionLeads DEF Finds
<1>2. /\ n.from.lo \in Nat /\ n.from.hi \in Nat /\ n.to.lo \in Int /\ n.to.hi \in Int
      /\ k \in Nat /\ a \in Nat
  BY <1>1, ElementFacts, NodeFields, AddressFacts DEF MapInv
<1>3. n.to.hi - n.to.lo = n.from.hi - n.from.lo
  BY <1>1 DEF MapInv, RangesFit, Fits
<1> HIDE DEF k
<1> DEFINE v == n.to.lo + (a - n.from.lo)
           hits == {j \in DOMAIN elements : elements[j].device = n.device /\ Holds(elements[j].to, v)}
<1>4. cell[a][1] = n.device /\ cell[a][2] = v
  BY <1>1 DEF Lead
<1>5. Holds(n.to, v)
  BY <1>1, <1>2, <1>3 DEF Holds
<1>6. \A j \in DOMAIN elements : elements[j].device = n.device => j = k
  BY <1>1 DEF MapInv, RangesFit
<1>7. hits = {k}
  <2> HIDE DEF v
  <2> QED BY <1>1, <1>5, <1>6
<1>8. Least(hits) = k
  <2>1. k \in hits /\ \A j \in hits : k <= j /\ j = k
    BY <1>2, <1>7
  <2> HIDE DEF hits
  <2> QED BY <2>1 DEF Least
<1>9. Backward(n.device, v) = OffsetMap(v, elements[Least(hits)].to, elements[Least(hits)].from)
  BY <1>7 DEF Backward
<1> HIDE DEF hits
<1>10. Backward(n.device, v) = n.from.lo + (v - n.to.lo)
  BY <1>8, <1>9 DEF OffsetMap
<1>11. n.from.lo + (v - n.to.lo) = a
  BY <1>2
<1> QED BY <1>4, <1>10, <1>11

LEMMA MapInvTranslates == MapInv => AddressesTranslate
<1> SUFFICES ASSUME MapInv PROVE AddressesTranslate
  OBVIOUS
<1>1. TypeOK
  <2>1. ASSUME NEW k \in DOMAIN elements
        PROVE  /\ elements[k].from \in Interval /\ elements[k].from.lo <= elements[k].from.hi
               /\ elements[k].device \in devices
    BY ElementFacts, NodeFields DEF MapInv, RangesFit, Fits
  <2>2. \A j, k \in DOMAIN elements : j < k => ~Before(elements[k].from, elements[j].from)
    BY DEF MapInv, InOrder
  <2> QED BY <2>1, <2>2 DEF TypeOK, MapInv, MapTypeOK
<1> QED BY <1>1, ForwardLeads, BackwardLeads DEF AddressesTranslate

-----------------------------------------------------------------------------
(* Sorting a family of ranges.                                             *)

\* A vector that holds each node of a family once.
Lists(s, F, p, N) ==
    /\ DOMAIN s = 1 .. N
    /\ \A i \in 1 .. N : p[i] \in DOMAIN F /\ s[i] = F[p[i]]
    /\ \A i, j \in 1 .. N : p[i] = p[j] => i = j
    /\ \A k \in DOMAIN F : \E i \in 1 .. N : p[i] = k

LEMMA VectorFacts ==
  ASSUME NEW F, IsFiniteSet(DOMAIN F), \A k \in DOMAIN F : F[k] \in Node, NEW s \in Vectors(F)
  PROVE  \E p : /\ Lists(s, F, p, Cardinality(DOMAIN F)) /\ Cardinality(DOMAIN F) \in Nat
                /\ s \in Seq(Node) /\ InOrder(s)
<1> DEFINE N == Cardinality(DOMAIN F)
<1>0. N \in Nat
  BY FS_CardinalityType
<1> HIDE DEF N
<1>1. PICK p \in Bijection(1 .. N, DOMAIN F) : s = [i \in 1 .. N |-> F[p[i]]]
  BY DEF Vectors, N
<1>2. \A i, j \in 1 .. N : i < j => ~Precedes(s[j], s[i])
  BY DEF Vectors, N
<1>3. /\ p \in [1 .. N -> DOMAIN F]
      /\ \A i, j \in 1 .. N : p[i] = p[j] => i = j
      /\ \A k \in DOMAIN F : \E i \in 1 .. N : p[i] = k
  <2>1. p \in [1 .. N -> DOMAIN F] /\ IsInjective(p) /\ \A k \in DOMAIN F : \E i \in 1 .. N : p[i] = k
    BY DEF Bijection, Injection, Surjection
  <2>2. DOMAIN p = 1 .. N
    BY <2>1
  <2> QED BY <2>1, <2>2, Zenon DEF IsInjective
<1>4. Lists(s, F, p, N)
  BY <1>1, <1>3 DEF Lists
<1>5. s \in Seq(Node)
  <2>1. \A i \in 1 .. N : F[p[i]] \in Node
    BY <1>3
  <2>2. s \in [1 .. N -> Node]
    BY <1>1, <2>1
  <2> QED BY <1>0, <2>2
<1>6. InOrder(s)
  BY <1>1, <1>2 DEF InOrder, Precedes
<1> QED BY <1>0, <1>4, <1>5, <1>6 DEF N

\* What holds of the ranges of a family holds of its vectors.
LEMMA ListedLeads ==
  ASSUME NEW F, NEW s, NEW p, NEW N \in Nat, Lists(s, F, p, N), NEW leads, NEW wrong,
         RangesLead(F, leads, wrong)
  PROVE  RangesLead(s, leads, wrong)
<1>0. /\ DOMAIN s = 1 .. N
      /\ \A i \in 1 .. N : p[i] \in DOMAIN F /\ s[i] = F[p[i]]
      /\ \A i, j \in 1 .. N : p[i] = p[j] => i = j
      /\ \A k \in DOMAIN F : \E i \in 1 .. N : p[i] = k
  BY DEF Lists
<1>m. ASSUME NEW k \in DOMAIN F PROVE \E i \in DOMAIN s : s[i] = F[k]
  <2>1. PICK i \in 1 .. N : p[i] = k
    BY <1>0
  <2>2. i \in DOMAIN s /\ s[i] = F[k]
    BY <1>0, <2>1
  <2> QED BY <2>2
<1>1. ASSUME NEW a \in Address, leads[a] # Unmapped PROVE \E i \in DOMAIN s : s[i].from.lo <= a
  <2>1. PICK k \in DOMAIN F : F[k].from.lo <= a
    BY <1>1 DEF RangesLead
  <2>2. PICK i \in DOMAIN s : s[i] = F[k]
    BY <1>m
  <2> QED BY <2>1, <2>2
<1>2. ASSUME NEW a \in Address \ wrong, leads[a] # Unmapped, NEW i \in DOMAIN s, Best(s, i, a)
      PROVE  Finds(s, i, a, leads[a])
  <2>1. p[i] \in DOMAIN F /\ s[i] = F[p[i]]
    BY <1>0
  <2>2. \A k \in DOMAIN F : \E j \in DOMAIN s : s[j] = F[k]
    BY <1>m
  <2>3. Best(F, p[i], a)
    BY <1>2, <2>1, <2>2 DEF Best
  <2>4. Finds(F, p[i], a, leads[a])
    BY <1>2, <2>1, <2>3 DEF RangesLead
  <2>5. \A j \in DOMAIN s \ {i} : p[j] \in DOMAIN F \ {p[i]} /\ s[j] = F[p[j]]
    BY <1>0
  <2> QED BY <2>1, <2>4, <2>5 DEF Finds, Lead
<1>3. ASSUME NEW a \in Address \ wrong, leads[a] = Unmapped, NEW i \in DOMAIN s
      PROVE  ~Holds(s[i].from, a)
  BY <1>0, <1>3 DEF RangesLead
<1> QED BY <1>1, <1>2, <1>3 DEF RangesLead

LEMMA ListedFits ==
  ASSUME NEW F, NEW s, NEW p, NEW N \in Nat, Lists(s, F, p, N), NEW attached, RangesFit(F, attached)
  PROVE  RangesFit(s, attached)
<1>0. /\ DOMAIN s = 1 .. N
      /\ \A i \in 1 .. N : p[i] \in DOMAIN F /\ s[i] = F[p[i]]
      /\ \A i, j \in 1 .. N : p[i] = p[j] => i = j
  BY DEF Lists
<1>1. \A i \in DOMAIN s : Fits(s[i]) /\ s[i].device \in attached
  BY <1>0 DEF RangesFit
<1>2. version = "sim3" => \A i, j \in DOMAIN s : s[i].device = s[j].device => i = j
  BY <1>0 DEF RangesFit
<1> QED BY <1>1, <1>2 DEF RangesFit

-----------------------------------------------------------------------------
(* What attaching a target makes of the ranges.                            *)

NodeAt(at, d, offset) ==
    [device |-> d, from |-> at, to |-> [lo |-> offset, hi |-> offset + (at.hi - at.lo)]]

Family(node) ==
    [k \in Kept(node.from) \union {New} |-> IF k = New THEN node ELSE Shrunk(k, node.from)]

\* A range below the new one keeps its start, and one above its end.  One of those above is
\* shrunk, and it alone if it is the only one to reach into the new range.
StaysBelow(g, n, at) ==
    /\ n.from.lo < at.lo
    /\ g \in Node /\ g.device = n.device /\ Fits(g)
    /\ g.from.lo = n.from.lo /\ g.to.lo = n.to.lo
    /\ g.from.hi = n.from.hi \/ (g.from.hi = at.lo /\ at.lo <= n.from.hi)

StaysAbove(g, n, at, k) ==
    /\ at.hi < n.from.hi /\ at.lo <= n.from.lo
    /\ g \in Node /\ g.device = n.device /\ Fits(g)
    /\ g.from.hi = n.from.hi
    /\ \/ g = n /\ Beyond(at) # {k}
       \/ /\ k \in Beyond(at) /\ g.from.lo = at.hi
          /\ version = "sim3" => g.to.lo - g.from.lo = n.to.lo - n.from.lo

Shifted(G, at, node) ==
    /\ DOMAIN G = Below(at) \union Above(at) \union {New}
    /\ New \notin Below(at) \union Above(at)
    /\ G[New] = node
    /\ \A k \in Below(at) : StaysBelow(G[k], elements[k], at)
    /\ \A k \in Above(at) : StaysAbove(G[k], elements[k], at, k)

\* What is known of the ranges before, in numbers.
LEMMA Numbers ==
  ASSUME MapInv
  PROVE  \A k \in DOMAIN elements :
             /\ elements[k].from.lo \in Nat /\ elements[k].from.hi \in Nat
             /\ elements[k].to.lo \in Int /\ elements[k].to.hi \in Int
             /\ elements[k].from.lo <= elements[k].from.hi
             /\ k \in Nat \ {0} /\ elements[k] \in Node
BY ElementFacts, NodeFields DEF MapInv, RangesFit, Fits

\* The new range divides the others.
LEMMA Divided ==
  ASSUME MapInv, NEW at \in Interval, at.lo <= at.hi
  PROVE  /\ Kept(at) = Below(at) \union Above(at)
         /\ Kept(at) \subseteq DOMAIN elements
         /\ \A k \in Below(at) : elements[k].from.lo < at.lo /\ k \notin Above(at)
         /\ \A k \in Above(at) : at.hi < elements[k].from.hi /\ at.lo <= elements[k].from.lo
         /\ Beyond(at) = {k \in Above(at) : Intersects(at, elements[k].from)}
         /\ \A k \in DOMAIN elements : k \in Below(at) \/ k \in Above(at) \/ Contains(at, elements[k].from)
<1>0. at.lo \in Nat /\ at.hi \in Nat
  BY AddressFacts
<1>1. ASSUME NEW k \in Kept(at)
      PROVE  /\ k \in DOMAIN elements
             /\ k \in Below(at) \/ k \in Above(at)
             /\ k \in Below(at) => elements[k].from.lo < at.lo /\ k \notin Above(at)
             /\ k \in Above(at) => at.hi < elements[k].from.hi /\ at.lo <= elements[k].from.lo
  <2>1. k \in DOMAIN elements /\ ~Contains(at, elements[k].from)
    BY DEF Kept
  <2>2. elements[k].from.lo \in Nat /\ elements[k].from.hi \in Nat /\ elements[k].from.lo <= elements[k].from.hi
    BY <2>1, Numbers
  <2>3. /\ k \in Below(at) <=> Before(elements[k].from, at)
        /\ k \in Above(at) <=> Before(at, elements[k].from)
    BY DEF Below, Above
  <2>4. /\ Before(elements[k].from, at) \/ Before(at, elements[k].from)
        /\ Before(elements[k].from, at) => elements[k].from.lo < at.lo /\ ~Before(at, elements[k].from)
        /\ Before(at, elements[k].from) => at.hi < elements[k].from.hi /\ at.lo <= elements[k].from.lo
    BY <1>0, <2>1, <2>2 DEF Contains, Before
  <2> QED BY <2>1, <2>3, <2>4
<1>2. Below(at) \subseteq Kept(at) /\ Above(at) \subseteq Kept(at)
  BY DEF Below, Above
<1>3. Beyond(at) = {k \in Above(at) : Intersects(at, elements[k].from)}
  BY DEF Beyond, Cut, Above, Kept
<1>4. \A k \in DOMAIN elements : k \in Kept(at) \/ Contains(at, elements[k].from)
  BY DEF Kept
<1> QED BY <1>1, <1>2, <1>3, <1>4

\* The first range above reaches into the new one if any does.
LEMMA FirstAbove ==
  ASSUME MapInv, NEW at \in Interval, at.lo <= at.hi, NEW k, Beyond(at) = {k}
  PROVE  k \in Above(at) /\ k = Least(Above(at)) /\ Intersects(at, elements[k].from)
<1>0. at.lo \in Nat /\ at.hi \in Nat
  BY AddressFacts
<1>1. k \in Above(at) /\ Intersects(at, elements[k].from)
  BY Divided
<1>2. Above(at) \in SUBSET Nat /\ Above(at) \subseteq DOMAIN elements
  BY Numbers, Divided
<1> DEFINE u == Least(Above(at))
<1>3. u \in Above(at) /\ u <= k
  BY <1>1, <1>2, LeastIs
<1>4. k \in DOMAIN elements /\ u \in DOMAIN elements /\ u \in Nat /\ k \in Nat
  BY <1>1, <1>2, <1>3
<1> HIDE DEF u
<1>5. /\ elements[u].from.lo \in Nat /\ elements[u].from.hi \in Nat
      /\ elements[k].from.lo \in Nat /\ elements[k].from.hi \in Nat
  BY <1>4, Numbers
<1>6. elements[u].from.lo <= elements[k].from.lo
  <2>1. CASE u = k
    BY <1>5, <2>1
  <2>2. CASE u # k
    <3>1. u < k
      BY <1>3, <1>4, <2>2
    <3>2. ~Before(elements[k].from, elements[u].from)
      BY <1>4, <3>1 DEF MapInv, InOrder
    <3> QED BY <1>5, <3>2 DEF Before
  <2> QED BY <2>1, <2>2
<1>7. at.hi < elements[u].from.hi
  BY <1>3, Divided
<1>8. Intersects(at, elements[u].from)
  BY <1>0, <1>1, <1>5, <1>6, <1>7 DEF Intersects
<1>9. u \in Beyond(at)
  BY <1>3, <1>8, Divided
<1> QED BY <1>1, <1>9 DEF u

LEMMA ShrunkBelow ==
  ASSUME MapInv, NEW at \in Interval, at.lo <= at.hi, NEW k \in Below(at)
  PROVE  StaysBelow(Shrunk(k, at), elements[k], at)
<1> DEFINE n == elements[k]
<1>0. at.lo \in Nat /\ at.hi \in Nat /\ at.lo \in Address
  BY AddressFacts
<1>1. k \in DOMAIN elements /\ n.from.lo < at.lo /\ k \notin Above(at)
  BY Divided
<1>2. /\ n \in Node /\ n.from.lo \in Nat /\ n.from.hi \in Nat /\ n.to.lo \in Int /\ n.to.hi \in Int
      /\ n.from.lo <= n.from.hi
  BY <1>1, Numbers
<1>3. Fits(n)
  BY <1>1 DEF MapInv, RangesFit
<1> HIDE DEF n
<1> DEFINE m == [n EXCEPT !.from.hi = at.lo, !.to.hi = n.to.lo + (at.lo - n.from.lo)]
<1>4. /\ m.device = n.device /\ m.from.lo = n.from.lo /\ m.from.hi = at.lo
      /\ m.to.lo = n.to.lo /\ m.to.hi = n.to.lo + (at.lo - n.from.lo)
      /\ m \in Node
  <2>1. PICK y \in Int : y = n.to.lo + (at.lo - n.from.lo)
    BY <1>0, <1>2
  <2>2. m = [n EXCEPT !.from.hi = at.lo, !.to.hi = y]
    BY <2>1
  <2> HIDE DEF m
  <2>3. Node = [device : Devices, from : [lo : Address, hi : Address], to : [lo : Int, hi : Int]]
    BY DEF Node, Interval
  <2>4. n \in [device : Devices, from : [lo : Address, hi : Address], to : [lo : Int, hi : Int]]
    BY <1>2, <2>3
  <2>5. /\ m \in [device : Devices, from : [lo : Address, hi : Address], to : [lo : Int, hi : Int]]
        /\ m.device = n.device
        /\ m.from.lo = n.from.lo /\ m.from.hi = at.lo /\ m.to.lo = n.to.lo /\ m.to.hi = y
    BY <1>0, <2>2, <2>4
  <2> QED BY <2>1, <2>3, <2>5
<1>5. Fits(m)
  BY <1>0, <1>1, <1>2, <1>4 DEF Fits
<1>6. Shrunk(k, at) = n \/ (Intersects(at, n.from) /\ Shrunk(k, at) = m)
  BY <1>1 DEF Shrunk, n
<1> HIDE DEF m
<1>7. Intersects(at, n.from) => at.lo <= n.from.hi
  BY DEF Intersects
<1>8. StaysBelow(n, n, at)
  BY <1>1, <1>2, <1>3 DEF StaysBelow, n
<1>9. Intersects(at, n.from) => StaysBelow(m, n, at)
  BY <1>1, <1>2, <1>4, <1>5, <1>7 DEF StaysBelow, n
<1> QED BY <1>6, <1>8, <1>9 DEF n

LEMMA ShrunkAbove ==
  ASSUME MapInv, NEW at \in Interval, at.lo <= at.hi, NEW k \in Above(at)
  PROVE  StaysAbove(Shrunk(k, at), elements[k], at, k)
<1> DEFINE n == elements[k]
<1>0. at.lo \in Nat /\ at.hi \in Nat /\ at.hi \in Address
  BY AddressFacts
<1>1. k \in DOMAIN elements /\ at.hi < n.from.hi /\ at.lo <= n.from.lo /\ k \notin Below(at)
  BY Divided
<1>2. /\ n \in Node /\ n.from.lo \in Nat /\ n.from.hi \in Nat /\ n.to.lo \in Int /\ n.to.hi \in Int
      /\ n.from.lo <= n.from.hi
  BY <1>1, Numbers
<1>3. Fits(n)
  BY <1>1 DEF MapInv, RangesFit
<1>4. /\ Intersects(at, n.from) <=> k \in Beyond(at)
      /\ Beyond(at) = {k} => k = Least(Above(at)) /\ k \in Beyond(at)
  <2>1. Intersects(at, n.from) <=> k \in Beyond(at)
    BY Divided
  <2>2. Beyond(at) = {k} => k = Least(Above(at))
    BY FirstAbove
  <2> QED BY <2>1, <2>2
<1>5. Shrunk(k, at) = IF Intersects(at, n.from) /\ k = Least(Above(at))
                      THEN [n EXCEPT !.from.lo = at.hi, !.to.lo = n.to.hi - KeptAbove(at, n)]
                      ELSE n
  BY <1>1 DEF Shrunk
<1> HIDE DEF n
<1>6. KeptAbove(at, n) \in Int /\ (version = "sim3" => KeptAbove(at, n) = n.from.hi - at.hi)
  BY <1>0, <1>2 DEF KeptAbove
<1> DEFINE m == [n EXCEPT !.from.lo = at.hi, !.to.lo = n.to.hi - KeptAbove(at, n)]
<1>7. /\ m.device = n.device /\ m.from.lo = at.hi /\ m.from.hi = n.from.hi
      /\ m.to.lo = n.to.hi - KeptAbove(at, n) /\ m.to.hi = n.to.hi
      /\ m \in Node
  <2>1. PICK y \in Int : y = n.to.hi - KeptAbove(at, n)
    BY <1>2, <1>6
  <2>2. m = [n EXCEPT !.from.lo = at.hi, !.to.lo = y]
    BY <2>1
  <2> HIDE DEF m
  <2>3. Node = [device : Devices, from : [lo : Address, hi : Address], to : [lo : Int, hi : Int]]
    BY DEF Node, Interval
  <2>4. n \in [device : Devices, from : [lo : Address, hi : Address], to : [lo : Int, hi : Int]]
    BY <1>2, <2>3
  <2>5. /\ m \in [device : Devices, from : [lo : Address, hi : Address], to : [lo : Int, hi : Int]]
        /\ m.device = n.device
        /\ m.from.lo = at.hi /\ m.from.hi = n.from.hi /\ m.to.lo = y /\ m.to.hi = n.to.hi
    BY <1>0, <2>2, <2>4
  <2> QED BY <2>1, <2>3, <2>5
<1>8. Shrunk(k, at) = IF Intersects(at, n.from) /\ k = Least(Above(at)) THEN m ELSE n
  BY <1>5
<1> HIDE DEF m
<1>9. CASE Intersects(at, n.from) /\ k = Least(Above(at))
  <2>1. version = "sim3" => m.to.lo - m.from.lo = n.to.lo - n.from.lo
    <3> SUFFICES ASSUME version = "sim3" PROVE m.to.lo - m.from.lo = n.to.lo - n.from.lo
      OBVIOUS
    <3>1. n.to.hi - n.to.lo = n.from.hi - n.from.lo
      BY <1>3 DEF Fits
    <3>2. m.to.lo = n.to.hi - (n.from.hi - at.hi) /\ m.from.lo = at.hi
      BY <1>6, <1>7
    <3> QED BY <1>0, <1>2, <3>1, <3>2
  <2>2. Fits(m)
    <3>1. m.from.lo <= m.from.hi
      BY <1>1, <1>0, <1>2, <1>7
    <3>2. version = "sim3" => m.to.hi - m.to.lo = m.from.hi - m.from.lo
      BY <1>0, <1>2, <1>6, <1>7
    <3> QED BY <3>1, <3>2 DEF Fits
  <2>3. k \in Beyond(at)
    BY <1>4, <1>9
  <2>4. StaysAbove(m, n, at, k)
    BY <1>1, <1>7, <2>1, <2>2, <2>3 DEF StaysAbove, n
  <2> QED BY <1>8, <1>9, <2>4 DEF n
<1>10. CASE ~(Intersects(at, n.from) /\ k = Least(Above(at)))
  <2>1. Beyond(at) # {k}
    BY <1>4, <1>10
  <2>2. StaysAbove(n, n, at, k)
    BY <1>1, <1>2, <1>3, <2>1 DEF StaysAbove, n
  <2> QED BY <1>8, <1>10, <2>2 DEF n
<1> QED BY <1>9, <1>10

LEMMA FamilyShifted ==
  ASSUME MapInv, NEW at \in Interval, at.lo <= at.hi, NEW node, node.from = at
  PROVE  Shifted(Family(node), at, node)
<1>1. New \notin Kept(at)
  <2>1. New = 0
    BY DEF New
  <2>2. \A k \in Kept(at) : k # 0
    BY Divided, Numbers
  <2> QED BY <2>1, <2>2
<1>2. Kept(at) = Below(at) \union Above(at)
  BY Divided
<1>3. /\ DOMAIN Family(node) = Kept(at) \union {New} /\ Family(node)[New] = node
      /\ \A k \in Kept(at) : Family(node)[k] = Shrunk(k, at)
  BY <1>1 DEF Family
<1>4. \A k \in Below(at) : StaysBelow(Family(node)[k], elements[k], at)
  BY <1>2, <1>3, ShrunkBelow
<1>5. \A k \in Above(at) : StaysAbove(Family(node)[k], elements[k], at, k)
  BY <1>2, <1>3, ShrunkAbove
<1> QED BY <1>1, <1>2, <1>3, <1>4, <1>5 DEF Shifted

-----------------------------------------------------------------------------
(* The range found for an address, after the next target is attached.      *)

LEMMA FamilyNumbers ==
  ASSUME MapInv, NEW at \in Interval, at.lo <= at.hi, NEW node \in Node, node.from = at,
         NEW G, Shifted(G, at, node)
  PROVE  /\ at.lo \in Nat /\ at.hi \in Nat
         /\ \A k \in DOMAIN G :
                /\ G[k] \in Node /\ G[k].from.lo \in Nat /\ G[k].from.hi \in Nat
                /\ G[k].to.lo \in Int /\ G[k].from.lo <= G[k].from.hi
                /\ k = New \/ k \in Below(at) \/ k \in Above(at)
         /\ New \in DOMAIN G /\ G[New].from.lo = at.lo /\ G[New].from.hi = at.hi
         /\ \A k \in Below(at) \union Above(at) : k \in DOMAIN G /\ k \in DOMAIN elements /\ k # New
<1>1. at.lo \in Nat /\ at.hi \in Nat
  BY AddressFacts
<1>2. /\ DOMAIN G = Below(at) \union Above(at) \union {New} /\ G[New] = node
      /\ New \notin Below(at) \union Above(at)
      /\ \A k \in Below(at) : StaysBelow(G[k], elements[k], at)
      /\ \A k \in Above(at) : StaysAbove(G[k], elements[k], at, k)
  BY DEF Shifted
<1>3. \A k \in DOMAIN G : G[k] \in Node /\ G[k].from.lo <= G[k].from.hi
  BY <1>2 DEF StaysBelow, StaysAbove, Fits
<1>4. Below(at) \union Above(at) \subseteq DOMAIN elements
  BY Divided
<1> QED BY <1>1, <1>2, <1>3, <1>4, NodeFields

\* In the new range it is the new one.
LEMMA FoundIn ==
  ASSUME MapInv, NEW at \in Interval, at.lo <= at.hi, NEW node \in Node, node.from = at,
         NEW G, Shifted(G, at, node), NEW a \in Address, Holds(at, a), a \notin TornIn(at),
         NEW k, Best(G, k, a)
  PROVE  Finds(G, k, a, Lead(node, a))
<1>0. /\ at.lo \in Nat /\ at.hi \in Nat /\ a \in Nat /\ at.lo <= a /\ a <= at.hi
      /\ \A j \in DOMAIN G : G[j].from.lo \in Nat /\ G[j].from.hi \in Nat
      /\ New \in DOMAIN G /\ G[New].from.lo = at.lo /\ G[New].from.hi = at.hi /\ G[New] = node
      /\ k \in DOMAIN G
  BY FamilyNumbers, AddressFacts DEF Holds, Best, Shifted
<1>1. Beyond(at) = {} \/ (OneBeyond(at) /\ (a # at.hi \/ a = at.lo))
  BY DEF TornIn
<1>2. ASSUME NEW j \in DOMAIN G, j # New, G[j].from.lo <= a PROVE G[j].from.lo < at.lo \/ (a = at.lo /\ at.lo = at.hi)
  <2>1. CASE j \in Below(at)
    BY <2>1 DEF Shifted, StaysBelow
  <2>2. CASE j \in Above(at)
    <3>0. StaysAbove(G[j], elements[j], at, j)
      BY <2>2 DEF Shifted
    <3>1. CASE G[j] = elements[j] /\ Beyond(at) # {j}
      <4>1. at.hi < G[j].from.hi
        BY <3>0, <3>1 DEF StaysAbove
      <4>2. Intersects(at, elements[j].from)
        BY <1>0, <1>2, <3>1, <4>1 DEF Intersects
      <4>3. j \in Beyond(at)
        BY <2>2, <4>2, Divided
      <4> QED BY <1>1, <3>1, <4>3 DEF OneBeyond
    <3>2. CASE j \in Beyond(at) /\ G[j].from.lo = at.hi
      BY <1>0, <1>1, <1>2, <3>2
    <3> QED BY <3>0, <3>1, <3>2 DEF StaysAbove
  <2> QED BY <1>2, <2>1, <2>2, FamilyNumbers
<1>3. k = New
  <2> SUFFICES ASSUME k # New PROVE FALSE
    OBVIOUS
  <2>1. G[k].from.lo <= a
    BY DEF Best
  <2>2. CASE G[k].from.lo < at.lo
    BY <1>0, <2>1, <2>2 DEF Best
  <2>3. CASE a = at.lo /\ at.lo = at.hi
    <3>1. G[k].from.lo = a /\ G[k].from.hi <= at.hi
      BY <1>0, <2>1, <2>3 DEF Best
    <3>2. k \in Above(at)
      BY <1>0, <2>3, <3>1, FamilyNumbers DEF Shifted, StaysBelow
    <3>3. G[k].from.hi > at.hi
      BY <3>2, <1>0 DEF Shifted, StaysAbove
    <3> QED BY <1>0, <3>1, <3>3
  <2> QED BY <1>0, <1>2, <2>1, <2>2, <2>3
<1>4. ASSUME NEW j \in DOMAIN G \ {New}, G[j].from.lo = at.lo PROVE at.lo = a /\ at.hi = a
  BY <1>0, <1>2, <1>4
<1> QED BY <1>0, <1>3, <1>4 DEF Finds, Holds

\* Below the new range it is the one it was.
LEMMA FoundBelow ==
  ASSUME MapInv, NEW at \in Interval, at.lo <= at.hi, NEW node \in Node, node.from = at,
         NEW G, Shifted(G, at, node), NEW a \in Address \ torn, a < at.lo, cell[a] # Unmapped,
         NEW k, Best(G, k, a)
  PROVE  Finds(G, k, a, cell[a])
<1>0. /\ at.lo \in Nat /\ at.hi \in Nat /\ a \in Nat
      /\ \A j \in DOMAIN G : G[j].from.lo \in Nat /\ G[j].from.hi \in Nat /\ G[j].from.lo <= G[j].from.hi
      /\ \A j \in DOMAIN elements :
             elements[j].from.lo \in Nat /\ elements[j].from.hi \in Nat /\ elements[j].from.lo <= elements[j].from.hi
      /\ New \in DOMAIN G /\ G[New].from.lo = at.lo
      /\ k \in DOMAIN G /\ G[k].from.lo <= a
  BY FamilyNumbers, AddressFacts, Numbers DEF Best
<1>1. ASSUME NEW j \in DOMAIN G, G[j].from.lo <= a
      PROVE  /\ j \in Below(at) /\ j \in DOMAIN elements /\ elements[j].from.lo = G[j].from.lo
             /\ G[j].to.lo = elements[j].to.lo /\ G[j].device = elements[j].device
             /\ G[j].from.hi = elements[j].from.hi \/ (G[j].from.hi = at.lo /\ at.lo <= elements[j].from.hi)
  <2>1. j # New
    BY <1>0, <1>1
  <2>2. j \notin Above(at)
    <3> SUFFICES ASSUME j \in Above(at) PROVE FALSE
      OBVIOUS
    <3>1. StaysAbove(G[j], elements[j], at, j)
      BY DEF Shifted
    <3>2. at.lo <= G[j].from.lo
      BY <1>0, <3>1 DEF StaysAbove
    <3> QED BY <1>0, <1>1, <3>2
  <2>3. j \in Below(at) /\ j \in DOMAIN elements
    BY <2>1, <2>2, FamilyNumbers
  <2> QED BY <2>3 DEF Shifted, StaysBelow
<1>2. ASSUME NEW j \in DOMAIN elements, elements[j].from.lo <= a
      PROVE  j \in DOMAIN G /\ G[j].from.lo = elements[j].from.lo
  <2>1. ~Contains(at, elements[j].from)
    BY <1>0, <1>2 DEF Contains
  <2>2. j \notin Above(at)
    BY <1>0, <1>2, Divided
  <2>3. j \in Below(at)
    BY <2>1, <2>2, Divided
  <2> QED BY <2>3, FamilyNumbers DEF Shifted, StaysBelow
<1>3. k \in DOMAIN elements /\ elements[k].from.lo <= a
  BY <1>0, <1>1
<1>4. PICK b \in DOMAIN elements : Best(elements, b, a)
  BY <1>3, RegionBest
<1>5. /\ Holds(elements[b].from, a) /\ cell[a] = Lead(elements[b], a)
      /\ \A j \in DOMAIN elements \ {b} : elements[j].from.lo = elements[b].from.lo =>
             \/ elements[b].from.lo = a /\ elements[b].from.hi = a
             \/ elements[b].from.lo < a /\ elements[j].from.hi = elements[b].from.lo
  BY <1>4 DEF MapInv, RangesLead, Finds
<1>6. b \in DOMAIN G /\ G[b].from.lo = elements[b].from.lo /\ elements[b].from.lo <= a
  <2>1. elements[b].from.lo <= a
    BY <1>4 DEF Best
  <2> QED BY <1>2, <2>1
<1>7. elements[k].from.lo = elements[b].from.lo
  <2>1. G[k].from.lo = elements[k].from.lo
    BY <1>0, <1>1
  <2>2. ~(G[k].from.lo < G[b].from.lo)
    BY <1>0, <1>6 DEF Best
  <2>3. ~(elements[b].from.lo < elements[k].from.lo)
    BY <1>0, <1>3, <1>4 DEF Best
  <2> QED BY <1>0, <1>3, <1>4, <1>6, <2>1, <2>2, <2>3
<1>8. Best(elements, k, a)
  <2>1. CASE k = b
    BY <1>4, <2>1
  <2>2. CASE k # b /\ elements[b].from.lo = a /\ elements[b].from.hi = a
    <3>1. G[b].from.hi = a
      BY <1>0, <1>1, <1>6, <2>2
    <3>2. G[k].from.lo = a /\ G[k].from.hi <= G[b].from.hi
      BY <1>0, <1>1, <1>6, <1>7, <2>2 DEF Best
    <3>3. elements[k].from.hi = a
      BY <1>0, <1>1, <3>1, <3>2
    <3> QED BY <1>0, <1>3, <1>7, <2>2, <3>3 DEF Best
  <2>3. CASE k # b /\ elements[b].from.lo < a /\ elements[k].from.hi = elements[b].from.lo
    <3>1. G[k].from.lo = elements[b].from.lo /\ G[k].from.hi <= elements[k].from.hi
      BY <1>0, <1>1, <1>7
    <3>2. G[b].from.hi <= G[k].from.hi
      BY <1>0, <1>6, <2>3, <3>1 DEF Best
    <3>3. elements[b].from.hi <= elements[k].from.hi
      BY <1>0, <1>1, <1>3, <1>4, <1>6, <2>3, <3>1, <3>2
    <3> QED BY <1>0, <1>3, <1>4, <1>7, <2>3, <3>3 DEF Best
  <2> QED BY <1>3, <1>5, <1>7, <2>1, <2>2, <2>3
<1>9. /\ Holds(elements[k].from, a) /\ cell[a] = Lead(elements[k], a)
      /\ \A j \in DOMAIN elements \ {k} : elements[j].from.lo = elements[k].from.lo =>
             \/ elements[k].from.lo = a /\ elements[k].from.hi = a
             \/ elements[k].from.lo < a /\ elements[j].from.hi = elements[k].from.lo
  BY <1>3, <1>8 DEF MapInv, RangesLead, Finds
<1>10. Holds(G[k].from, a)
  BY <1>0, <1>1, <1>3, <1>9 DEF Holds
<1>11. Lead(G[k], a) = Lead(elements[k], a)
  BY <1>0, <1>1 DEF Lead
<1>12. ASSUME NEW j \in DOMAIN G \ {k}, G[j].from.lo = G[k].from.lo
       PROVE  \/ G[k].from.lo = a /\ G[k].from.hi = a
              \/ G[k].from.lo < a /\ G[j].from.hi = G[k].from.lo
  <2>1. /\ j \in DOMAIN elements \ {k} /\ elements[j].from.lo = elements[k].from.lo
        /\ elements[k].from.lo = G[k].from.lo
        /\ G[j].from.hi <= elements[j].from.hi /\ G[k].from.hi <= elements[k].from.hi
    BY <1>0, <1>1, <1>12
  <2>2. \/ elements[k].from.lo = a /\ elements[k].from.hi = a
        \/ elements[k].from.lo < a /\ elements[j].from.hi = elements[k].from.lo
    BY <1>9, <2>1
  <2>3. G[j].from.lo \in Nat /\ G[j].from.hi \in Nat /\ G[j].from.lo <= G[j].from.hi
    BY <1>0
  <2> QED BY <1>0, <1>12, <2>1, <2>2, <2>3
<1> QED BY <1>9, <1>10, <1>11, <1>12 DEF Finds

\* Above it, it is the one it was, led on if the new range took its beginning.
LEMMA FoundAbove ==
  ASSUME MapInv, NEW at \in Interval, at.lo <= at.hi, NEW node \in Node, node.from = at,
         NEW G, Shifted(G, at, node), NEW a \in Address \ torn, at.hi < a, a \notin TornAbove(at),
         cell[a] # Unmapped, NEW k, Best(G, k, a)
  PROVE  Finds(G, k, a, cell[a])
<1>0. /\ at.lo \in Nat /\ at.hi \in Nat /\ a \in Nat
      /\ \A j \in DOMAIN G : G[j].from.lo \in Nat /\ G[j].from.hi \in Nat /\ G[j].from.lo <= G[j].from.hi
      /\ \A j \in DOMAIN elements :
             elements[j].from.lo \in Nat /\ elements[j].from.hi \in Nat /\ elements[j].from.lo <= elements[j].from.hi
      /\ New \in DOMAIN G /\ G[New].from.lo = at.lo /\ G[New].from.hi = at.hi
      /\ k \in DOMAIN G /\ G[k].from.lo <= a
  BY FamilyNumbers, AddressFacts, Numbers DEF Best
<1>1. PICK b \in DOMAIN elements : Best(elements, b, a)
  <2>1. PICK low \in DOMAIN elements : elements[low].from.lo <= a
    BY DEF MapInv, RangesLead
  <2> QED BY <2>1, RegionBest
<1>2. /\ Holds(elements[b].from, a) /\ cell[a] = Lead(elements[b], a)
      /\ elements[b].from.lo <= a /\ a <= elements[b].from.hi
  BY <1>1 DEF MapInv, RangesLead, Finds, Holds
<1>3. ASSUME NEW j \in Below(at)
      PROVE  j \in DOMAIN G /\ G[j].from.lo < at.lo /\ j # New /\ j \notin Above(at)
  <2>1. j \in DOMAIN G /\ j \in DOMAIN elements /\ j # New
    BY FamilyNumbers
  <2>2. StaysBelow(G[j], elements[j], at)
    BY DEF Shifted
  <2> QED BY <2>1, <2>2, Divided DEF StaysBelow
<1>4. CASE Intersects(at, elements[b].from)
  <2>1. b \in Cut(at)
    BY <1>0, <1>2, <1>4 DEF Cut, Contains
  <2>2. b \in LedOn(at)
    BY <1>2, <2>1 DEF TornAbove
  <2>3. version = "sim3" /\ Beyond(at) = {b}
    BY <2>2 DEF LedOn, OneBeyond
  <2>4. b \in Above(at)
    BY <2>3, FirstAbove
  <2>5. /\ b \in DOMAIN G /\ b # New /\ G[b].from.lo = at.hi /\ G[b].from.hi = elements[b].from.hi
        /\ G[b].device = elements[b].device
        /\ G[b].to.lo - G[b].from.lo = elements[b].to.lo - elements[b].from.lo
    <3>1. StaysAbove(G[b], elements[b], at, b)
      BY <2>4 DEF Shifted
    <3>2. b \in DOMAIN G /\ b # New
      BY <2>4, FamilyNumbers
    <3> QED BY <2>3, <3>1, <3>2 DEF StaysAbove
  <2>6. ASSUME NEW j \in Above(at), j # b, G[j].from.lo <= a
        PROVE  FALSE
    <3>0. j \in DOMAIN elements /\ j \in DOMAIN G
      BY FamilyNumbers
    <3>1. StaysAbove(G[j], elements[j], at, j)
      BY DEF Shifted
    <3>2. j \notin Beyond(at)
      BY <2>3, <2>6
    <3>3. G[j] = elements[j] /\ at.hi < elements[j].from.hi
      BY <3>1, <3>2 DEF StaysAbove
    <3>4. ~Intersects(at, elements[j].from)
      BY <3>2, Divided
    <3>5. at.hi < elements[j].from.lo
      BY <1>0, <3>0, <3>3, <3>4 DEF Intersects
    <3>6. elements[b].from.lo <= at.hi
      BY <1>4 DEF Intersects
    <3>7. elements[b].from.lo < a /\ elements[b].from.lo < elements[j].from.lo
      BY <1>0, <3>0, <3>5, <3>6
    <3>8. elements[j].from.lo <= a
      BY <2>6, <3>3
    <3> QED BY <1>0, <1>1, <3>0, <3>7, <3>8 DEF Best
  <2>7. k = b
    <3> SUFFICES ASSUME k # b PROVE FALSE
      OBVIOUS
    <3>1. G[b].from.lo < a /\ G[b].from.hi >= a
      BY <1>0, <1>2, <2>5
    <3>2. k \notin Above(at)
      BY <1>0, <2>6
    <3>3. CASE k = New
      BY <1>0, <2>5, <3>1, <3>3 DEF Best
    <3>4. CASE k \in Below(at)
      <4>1. G[k].from.lo < at.lo
        BY <1>3, <3>4
      <4>2. G[k].from.lo < a /\ G[k].from.lo < G[b].from.lo
        BY <1>0, <2>5, <4>1
      <4>3. G[b].from.lo < G[k].from.lo \/ G[b].from.lo = G[k].from.lo
        BY <2>5, <3>1, <4>2 DEF Best
      <4>4. G[b].from.lo \in Nat /\ G[k].from.lo \in Nat
        BY <1>0, <2>5
      <4> QED BY <4>2, <4>3, <4>4
    <3> QED BY <1>0, <3>2, <3>3, <3>4, FamilyNumbers
  <2>8. Holds(G[k].from, a)
    BY <1>0, <1>2, <2>5, <2>7 DEF Holds
  <2>9. Lead(G[k], a) = cell[a]
    <3>1. elements[b].to.lo \in Int /\ G[b].to.lo \in Int
      BY <2>5, Numbers, FamilyNumbers
    <3>2. G[b].to.lo + (a - G[b].from.lo) = elements[b].to.lo + (a - elements[b].from.lo)
      BY <1>0, <2>5, <3>1
    <3> QED BY <1>2, <2>5, <2>7, <3>2 DEF Lead
  <2>10. ASSUME NEW j \in DOMAIN G \ {k}, G[j].from.lo = G[k].from.lo
         PROVE  G[k].from.lo < a /\ G[j].from.hi = G[k].from.lo
    <3>1. G[k].from.lo = at.hi /\ at.hi < a
      BY <2>5, <2>7
    <3>2. j \notin Above(at)
      BY <1>0, <2>6, <2>7, <2>10, <3>1
    <3>3. j \notin Below(at)
      BY <1>0, <1>3, <2>10, <3>1
    <3>4. j = New
      BY <3>2, <3>3, FamilyNumbers
    <3> QED BY <1>0, <3>1, <3>4
  <2> QED BY <2>8, <2>9, <2>10 DEF Finds
<1>5. CASE ~Intersects(at, elements[b].from)
  <2>1. at.hi < elements[b].from.lo
    BY <1>0, <1>2, <1>5 DEF Intersects
  <2>2. ASSUME NEW j \in DOMAIN elements, at.hi < elements[j].from.lo
        PROVE  j \in DOMAIN G /\ G[j] = elements[j]
    <3>1. ~Contains(at, elements[j].from) /\ ~Intersects(at, elements[j].from)
      BY <1>0, <2>2 DEF Contains, Intersects
    <3>2. j \notin Below(at)
      BY <1>0, <2>2, Divided
    <3>3. j \in Above(at) /\ j \notin Beyond(at)
      BY <3>1, <3>2, Divided
    <3>4. StaysAbove(G[j], elements[j], at, j)
      BY <3>3 DEF Shifted
    <3> QED BY <3>3, <3>4, FamilyNumbers DEF StaysAbove
  <2>3. ASSUME NEW j \in DOMAIN G, at.hi < G[j].from.lo
        PROVE  j \in DOMAIN elements /\ G[j] = elements[j]
    <3>1. j # New /\ j \notin Below(at)
      BY <1>0, <1>3, <2>3
    <3>2. j \in Above(at)
      BY <3>1, FamilyNumbers
    <3>3. StaysAbove(G[j], elements[j], at, j)
      BY <3>2 DEF Shifted
    <3>4. ~(G[j].from.lo = at.hi)
      BY <1>0, <2>3
    <3> QED BY <3>2, <3>3, <3>4, FamilyNumbers DEF StaysAbove
  <2>4. b \in DOMAIN G /\ G[b] = elements[b]
    BY <2>1, <2>2
  <2>5. elements[b].from.lo <= G[k].from.lo
    BY <1>0, <1>2, <2>4 DEF Best
  <2>6. k \in DOMAIN elements /\ G[k] = elements[k]
    BY <1>0, <2>1, <2>3, <2>5
  <2>7. elements[k].from.lo = elements[b].from.lo /\ elements[k].from.lo <= a
    BY <1>0, <1>1, <2>5, <2>6 DEF Best
  <2>8. ASSUME NEW j \in DOMAIN elements, elements[j].from.lo = elements[k].from.lo
        PROVE  j \in DOMAIN G /\ G[j] = elements[j]
    BY <2>1, <2>2, <2>7, <2>8
  <2>9. Best(elements, k, a)
    <3>1. CASE elements[k].from.lo = a
      <4>1. \A j \in DOMAIN elements : elements[j].from.lo = a => elements[k].from.hi <= elements[j].from.hi
        BY <2>6, <2>8, <3>1 DEF Best
      <4> QED BY <1>0, <2>6, <3>1, <4>1 DEF Best
    <3>2. CASE elements[k].from.lo < a
      <4>1. ASSUME NEW j \in DOMAIN elements, elements[j].from.lo < a, ~(elements[j].from.lo < elements[k].from.lo)
            PROVE  elements[j].from.lo = elements[k].from.lo /\ elements[j].from.hi <= elements[k].from.hi
        <5>1. elements[j].from.lo = elements[k].from.lo
          BY <1>0, <1>1, <2>6, <2>7, <3>2, <4>1 DEF Best
        <5>2. j \in DOMAIN G /\ G[j] = elements[j]
          BY <2>8, <5>1
        <5> QED BY <1>0, <2>6, <3>2, <5>1, <5>2 DEF Best
      <4>2. \A j \in DOMAIN elements : elements[j].from.lo # a
        BY <1>1, <2>7, <3>2 DEF Best
      <4> QED BY <1>0, <2>6, <3>2, <4>1, <4>2 DEF Best
    <3> QED BY <1>0, <2>6, <2>7, <3>1, <3>2
  <2>10. /\ Holds(elements[k].from, a) /\ cell[a] = Lead(elements[k], a)
         /\ \A j \in DOMAIN elements \ {k} : elements[j].from.lo = elements[k].from.lo =>
                \/ elements[k].from.lo = a /\ elements[k].from.hi = a
                \/ elements[k].from.lo < a /\ elements[j].from.hi = elements[k].from.lo
    BY <2>6, <2>9 DEF MapInv, RangesLead, Finds
  <2>11. ASSUME NEW j \in DOMAIN G \ {k}, G[j].from.lo = G[k].from.lo
         PROVE  \/ G[k].from.lo = a /\ G[k].from.hi = a
                \/ G[k].from.lo < a /\ G[j].from.hi = G[k].from.lo
    <3>1. j \in DOMAIN elements /\ G[j] = elements[j]
      BY <2>1, <2>3, <2>6, <2>7, <2>11
    <3> QED BY <2>6, <2>10, <2>11, <3>1
  <2> QED BY <2>6, <2>10, <2>11 DEF Finds, Lead
<1> QED BY <1>4, <1>5

\* Where the ranges lead, when all of that is put together.
LEMMA FamilyLeads ==
  ASSUME MapInv, NEW at \in Interval, at.lo <= at.hi, NEW node \in Node, node.from = at,
         NEW G, Shifted(G, at, node)
  PROVE  RangesLead(G, [a \in Address |-> IF Holds(at, a) THEN Lead(node, a) ELSE cell[a]],
                    {a \in torn : ~Holds(at, a)} \union TornAbove(at) \union TornIn(at))
<1> DEFINE leads == [a \in Address |-> IF Holds(at, a) THEN Lead(node, a) ELSE cell[a]]
           wrong == {a \in torn : ~Holds(at, a)} \union TornAbove(at) \union TornIn(at)
<1>0. /\ at.lo \in Nat /\ at.hi \in Nat /\ New \in DOMAIN G /\ G[New].from.lo = at.lo /\ G[New] = node
      /\ \A j \in DOMAIN elements : elements[j].from.lo \in Nat /\ elements[j].from.hi \in Nat
      /\ \A a \in Address : a \in Nat
      /\ RangesLead(elements, cell, torn)
  BY FamilyNumbers, AddressFacts, Numbers DEF Shifted, MapInv
<1>1. \A a \in Address : leads[a] = IF Holds(at, a) THEN Lead(node, a) ELSE cell[a]
  OBVIOUS
<1>2. \A a \in Address \ wrong :
          /\ Holds(at, a) => a \notin TornIn(at)
          /\ ~Holds(at, a) => a \notin torn
          /\ a \notin TornAbove(at)
  OBVIOUS
<1> HIDE DEF leads, wrong
<1>3. ASSUME NEW a \in Address, leads[a] # Unmapped PROVE \E k \in DOMAIN G : G[k].from.lo <= a
  <2>1. CASE at.lo <= a
    BY <1>0, <2>1
  <2>2. CASE a < at.lo
    <3>1. ~Holds(at, a) /\ cell[a] # Unmapped
      BY <1>0, <1>1, <1>3, <2>2 DEF Holds
    <3>2. PICK k \in DOMAIN elements : elements[k].from.lo <= a
      BY <1>0, <3>1 DEF RangesLead
    <3>3. ~Contains(at, elements[k].from) /\ k \notin Above(at)
      BY <1>0, <2>2, <3>2, Divided DEF Contains
    <3>4. k \in Below(at)
      BY <3>3, Divided
    <3>5. k \in DOMAIN G /\ StaysBelow(G[k], elements[k], at)
      BY <3>4, FamilyNumbers DEF Shifted
    <3> QED BY <3>2, <3>5 DEF StaysBelow
  <2> QED BY <1>0, <2>1, <2>2
<1>4. ASSUME NEW a \in Address \ wrong, leads[a] # Unmapped, NEW k \in DOMAIN G, Best(G, k, a)
      PROVE  Finds(G, k, a, leads[a])
  <2>1. CASE Holds(at, a)
    <3>0. a \in Address /\ a \notin TornIn(at)
      BY <1>2, <2>1
    <3>1. leads[a] = Lead(node, a)
      BY <1>1, <2>1, <3>0, Zenon
    <3>2. Best(G, k, a)
      BY <1>4
    <3>3. Finds(G, k, a, Lead(node, a))
      BY <2>1, <3>0, <3>2, FoundIn
    <3> QED BY <3>1, <3>3
  <2>2. CASE ~Holds(at, a) /\ a < at.lo
    <3>1. leads[a] = cell[a] /\ a \in Address \ torn
      BY <1>1, <1>2, <2>2
    <3> QED BY <1>4, <2>2, <3>1, FoundBelow
  <2>3. CASE ~Holds(at, a) /\ at.hi < a
    <3>1. leads[a] = cell[a] /\ a \in Address \ torn /\ a \notin TornAbove(at)
      BY <1>1, <1>2, <2>3
    <3> QED BY <1>4, <2>3, <3>1, FoundAbove
  <2> QED BY <1>0, <2>1, <2>2, <2>3 DEF Holds
<1>5. ASSUME NEW a \in Address \ wrong, leads[a] = Unmapped, NEW k \in DOMAIN G
      PROVE  ~Holds(G[k].from, a)
  <2>1. ~Holds(at, a) /\ cell[a] = Unmapped /\ a \notin torn
    BY <1>1, <1>2, <1>5, CellFacts DEF Lead
  <2>2. CASE k = New
    BY <1>0, <2>1, <2>2
  <2>3. CASE k \in Below(at) \/ k \in Above(at)
    <3>1. k \in DOMAIN elements
      BY <2>3, Divided
    <3>2. ~Holds(elements[k].from, a)
      BY <1>0, <2>1, <3>1 DEF RangesLead
    <3>3. G[k].from.lo >= elements[k].from.lo /\ G[k].from.hi <= elements[k].from.hi
      <4>1. CASE k \in Below(at)
        BY <1>0, <3>1, <4>1 DEF Shifted, StaysBelow
      <4>2. CASE k \in Above(at)
        <5>1. StaysAbove(G[k], elements[k], at, k)
          BY <4>2 DEF Shifted
        <5>2. k \in Beyond(at) => elements[k].from.lo <= at.hi
          BY Divided DEF Intersects
        <5> QED BY <1>0, <3>1, <5>1, <5>2 DEF StaysAbove
      <4> QED BY <2>3, <4>1, <4>2
    <3>4. G[k].from.lo \in Nat /\ G[k].from.hi \in Nat
      BY FamilyNumbers
    <3> QED BY <1>0, <3>1, <3>2, <3>3, <3>4 DEF Holds
  <2> QED BY <2>2, <2>3, FamilyNumbers
<1>6. RangesLead(G, leads, wrong)
  BY <1>3, <1>4, <1>5 DEF RangesLead
<1> QED BY <1>6 DEF leads, wrong

LEMMA FamilyFits ==
  ASSUME MapInv, NEW at \in Interval, at.lo <= at.hi, NEW node \in Node, node.from = at, Fits(node),
         NEW G, Shifted(G, at, node), version = "sim3" => node.device \notin devices
  PROVE  RangesFit(G, devices \union {node.device})
<1>1. /\ DOMAIN G = Below(at) \union Above(at) \union {New} /\ G[New] = node
      /\ \A k \in DOMAIN G : k = New \/ k \in Below(at) \/ k \in Above(at)
  BY DEF Shifted
<1>2. ASSUME NEW k \in DOMAIN G, k # New
      PROVE  Fits(G[k]) /\ k \in DOMAIN elements /\ G[k].device = elements[k].device /\ G[k].device \in devices
  <2>1. k \in DOMAIN elements
    BY <1>1, <1>2, Divided
  <2>2. Fits(G[k]) /\ G[k].device = elements[k].device
    BY <1>1, <1>2 DEF Shifted, StaysBelow, StaysAbove
  <2>3. elements[k].device \in devices
    BY <2>1 DEF MapInv, RangesFit
  <2> QED BY <2>1, <2>2, <2>3
<1>3. \A k \in DOMAIN G : Fits(G[k]) /\ G[k].device \in devices \union {node.device}
  BY <1>1, <1>2
<1>4. ASSUME version = "sim3", NEW j \in DOMAIN G, NEW k \in DOMAIN G, G[j].device = G[k].device
      PROVE  j = k
  <2>1. CASE j # New /\ k # New
    BY <1>2, <1>4, <2>1 DEF MapInv, RangesFit
  <2>2. CASE j = New \/ k = New
    BY <1>1, <1>2, <1>4, <2>2
  <2> QED BY <2>1, <2>2
<1> QED BY <1>3, <1>4 DEF RangesFit

LEMMA AttachPreserves ==
  ASSUME MapInv, UNCHANGED version, NEW at \in Interval, at.lo <= at.hi, NEW d \in Devices,
         NEW offset \in Nat, offset + (at.hi - at.lo) < Size[d], version = "sim3" => d \notin devices,
         Attach(at, d, offset)
  PROVE  MapInv'
<1> DEFINE node == NodeAt(at, d, offset)
           G == Family(node)
<1>0. at.lo \in Nat /\ at.hi \in Nat /\ \A a \in Address : a \in Nat
  BY AddressFacts
<1>1. /\ node \in Node /\ node.from = at /\ node.device = d
      /\ node.to.lo = offset /\ node.to.hi = offset + (at.hi - at.lo)
  <2>1. offset + (at.hi - at.lo) \in Int
    BY <1>0
  <2> QED BY <2>1 DEF NodeAt, Node
<1>2. Fits(node)
  BY <1>0, <1>1 DEF Fits
<1>3. /\ mappings < MaxMappings
      /\ elements' \in Vectors(G) /\ devices' = devices \union {d}
      /\ cell' = [a \in Address |-> IF Holds(at, a) THEN <<d, offset + (a - at.lo)>> ELSE cell[a]]
      /\ torn' = {a \in torn : ~Holds(at, a)} \union TornAbove(at) \union TornIn(at)
      /\ mappings' = mappings + 1 /\ mem' = mem
  BY DEF Attach, InsertOrOverwrite, Family, NodeAt
<1> HIDE DEF node
<1>4. Shifted(G, at, node)
  BY <1>1, FamilyShifted
<1>5. DOMAIN G = Kept(at) \union {New} /\ IsFiniteSet(DOMAIN G)
  <2>1. DOMAIN G = Kept(at) \union {New}
    BY <1>1 DEF Family
  <2>2. IsFiniteSet(1 .. Len(elements)) /\ Kept(at) \subseteq 1 .. Len(elements)
    <3>1. DOMAIN elements = 1 .. Len(elements) /\ Len(elements) \in Nat
      BY ElementFacts DEF MapInv
    <3>2. IsFiniteSet(1 .. Len(elements))
      BY <3>1, FS_Interval
    <3> QED BY <3>1, <3>2 DEF Kept
  <2>3. IsFiniteSet(Kept(at))
    BY <2>2, FS_Subset
  <2> QED BY <2>1, <2>3, FS_AddElement
<1>6. \A k \in DOMAIN G : G[k] \in Node
  BY <1>1, <1>4, FamilyNumbers
<1> HIDE DEF G
<1>7. PICK p : /\ Lists(elements', G, p, Cardinality(DOMAIN G)) /\ Cardinality(DOMAIN G) \in Nat
               /\ elements' \in Seq(Node) /\ InOrder(elements')
  BY <1>3, <1>5, <1>6, VectorFacts
<1>8. RangesFit(elements', devices')
  <2>1. RangesFit(G, devices \union {node.device})
    BY <1>1, <1>2, <1>4, FamilyFits
  <2>2. RangesFit(elements', devices \union {node.device})
    BY <1>7, <2>1, ListedFits
  <2> QED BY <1>1, <1>3, <2>2
<1>9. cell' = [a \in Address |-> IF Holds(at, a) THEN Lead(node, a) ELSE cell[a]]
  BY <1>1, <1>3 DEF Lead
<1>10. RangesLead(elements', cell', torn')
  <2>1. RangesLead(G, cell', torn')
    BY <1>1, <1>3, <1>4, <1>9, FamilyLeads
  <2> QED BY <1>7, <2>1, ListedLeads
<1>11. MapTypeOK'
  <2>1. cell' \in [Address -> Cells \union {Unmapped}]
    <3>1. ASSUME NEW a \in Address, Holds(at, a) PROVE <<d, offset + (a - at.lo)>> \in Cells
      <4>1. a \in Nat /\ at.lo <= a /\ a <= at.hi
        BY <1>0, <3>1 DEF Holds
      <4>2. Size[d] \in Nat
        BY BusAssumption
      <4>3. offset + (a - at.lo) \in 0 .. Size[d] - 1
        BY <1>0, <4>1, <4>2
      <4> QED BY <4>3, CellFacts
    <3>2. \A a \in Address : cell[a] \in Cells \union {Unmapped}
      BY DEF MapInv, MapTypeOK
    <3> QED BY <1>3, <3>1, <3>2
  <2>2. torn' \subseteq Address
    BY <1>3 DEF TornAbove, TornIn, MapInv, MapTypeOK
  <2>3. mappings' \in 0 .. MaxMappings
    BY <1>3, BusAssumption DEF MapInv, MapTypeOK
  <2> QED BY <1>3, <1>7, <2>1, <2>2, <2>3 DEF MapInv, MapTypeOK
<1>12. RangesFit(elements, devices)'
  BY <1>8 DEF RangesFit, Fits
<1>13. RangesLead(elements, cell, torn)'
  BY <1>10 DEF RangesLead, Best, Finds, Lead, Holds, Address, Unmapped
<1>14. InOrder(elements)'
  BY <1>7 DEF InOrder
<1> QED BY <1>11, <1>12, <1>13, <1>14 DEF MapInv

-----------------------------------------------------------------------------
(* The loop of an access.                                                  *)

\* Where the loop goes on, what it makes of the rest, and one turn of it.
Ahead(a, n, o) == o + PieceLength(elements[RegionAt(a + o)].device, n - o)

Piece(a, n, o) ==
    [c \in PieceCells(a + o, RegionAt(a + o), n - o) |-> o + (c[2] - Offset(a + o, RegionAt(a + o))) + 1]

Joined(a, n, o, rest) ==
    [result |-> rest.result, placed |-> Overlay(rest.placed, Piece(a, n, o))]

Turn(a, n, o, rest) ==
    IF Stops(a + o, RegionAt(a + o), n - o) # "no"
    THEN Stopped(Stops(a + o, RegionAt(a + o), n - o))
    ELSE Joined(a, n, o, rest)

Walks(f, a, n, S) == f = [o \in S |-> Turn(a, n, o, f[Ahead(a, n, o)])]

\* The loop makes headway, to the end of the access at most.
LEMMA LoopAdvances ==
  ASSUME MapTypeOK, NEW a \in Address, NEW n \in Nat, InBounds(a, n), NEW o \in 0 .. n,
         Stops(a + o, RegionAt(a + o), n - o) = "no"
  PROVE  /\ o < n /\ a + o \in Address
         /\ RegionAt(a + o) \in DOMAIN elements
         /\ PieceLength(elements[RegionAt(a + o)].device, n - o) \in 1 .. n - o
         /\ Ahead(a, n, o) \in o + 1 .. n
<1>1. n - o # 0 /\ RegionAt(a + o) # None /\ RegionAt(a + o) # BeforeFirst
  BY DEF Stops
<1>2. o < n /\ o \in Nat /\ a \in Nat
  BY <1>1, BusAssumption DEF Address
<1>3. a + o \in Address
  BY <1>2, BusAssumption DEF Address, InBounds
<1>4. RegionAt(a + o) \in DOMAIN elements
  BY <1>1, <1>2, RegionPlace
<1>5. Size[elements[RegionAt(a + o)].device] \in Nat \ {0}
  BY <1>4, ElementFacts, NodeFields
<1>6. PieceLength(elements[RegionAt(a + o)].device, n - o) \in 1 .. n - o
  BY <1>2, <1>5 DEF PieceLength
<1> QED BY <1>2, <1>3, <1>4, <1>6 DEF Ahead

LEMMA WalkExists ==
  ASSUME MapTypeOK, NEW a \in Address, NEW n \in Nat, InBounds(a, n)
  PROVE  \E f : Walks(f, a, n, 0 .. n)
<1> DEFINE I == {k \in Nat : \E f : Walks(f, a, n, n - k .. n)}
<1>1. 0 \in I
  <2> DEFINE f == [o \in n .. n |-> Stopped("Ok")]
  <2>1. Stops(a + n, RegionAt(a + n), n - n) = "Ok"
    BY DEF Stops
  <2>2. \A o \in n .. n : o = n
    OBVIOUS
  <2>3. \A o \in n .. n : Turn(a, n, o, f[Ahead(a, n, o)]) = Stopped("Ok")
    BY <2>1, <2>2 DEF Turn
  <2>4. Walks(f, a, n, n .. n)
    BY <2>3, Zenon DEF Walks
  <2>5. n - 0 .. n = n .. n
    OBVIOUS
  <2> QED BY <2>4, <2>5
<1>2. ASSUME NEW k \in 0 .. n - 1, k \in I PROVE k + 1 \in I
  <2>1. PICK f : Walks(f, a, n, n - k .. n)
    BY <1>2
  <2>2. PICK m \in 0 .. n - 1 : m = n - (k + 1)
    OBVIOUS
  <2>3. n - k = m + 1
    BY <2>2
  <2> DEFINE g == [o \in m .. n |-> Turn(a, n, o, f[Ahead(a, n, o)])]
  <2>4. \A o \in m + 1 .. n : o \in m .. n /\ g[o] = f[o]
    <3>1. \A o \in m + 1 .. n : f[o] = Turn(a, n, o, f[Ahead(a, n, o)])
      BY <2>1, <2>3, Zenon DEF Walks
    <3>2. \A o \in m .. n : g[o] = Turn(a, n, o, f[Ahead(a, n, o)])
      BY Zenon
    <3>3. \A o \in m + 1 .. n : o \in m .. n
      BY <2>2
    <3> QED BY <3>1, <3>2, <3>3, Zenon
  <2>5. ASSUME NEW o \in m .. n PROVE g[o] = Turn(a, n, o, g[Ahead(a, n, o)])
    <3>1. g[o] = Turn(a, n, o, f[Ahead(a, n, o)])
      BY Zenon
    <3> HIDE DEF g
    <3>2. CASE Stops(a + o, RegionAt(a + o), n - o) = "no"
      <4>1. o \in 0 .. n
        BY <2>2
      <4>2. Ahead(a, n, o) \in o + 1 .. n
        BY <3>2, <4>1, LoopAdvances
      <4>3. Ahead(a, n, o) \in m + 1 .. n
        BY <4>1, <4>2, <2>2
      <4> QED BY <3>1, <4>3, <2>4, Zenon
    <3>3. CASE Stops(a + o, RegionAt(a + o), n - o) # "no"
      BY <3>1, <3>3, Zenon DEF Turn
    <3> QED BY <3>2, <3>3
  <2>6. g = [o \in m .. n |-> g[o]]
    OBVIOUS
  <2> HIDE DEF g
  <2>7. Walks(g, a, n, m .. n)
    BY <2>5, <2>6 DEF Walks
  <2>8. n - (k + 1) .. n = m .. n
    BY <2>2
  <2> QED BY <1>2, <2>7, <2>8
<1> HIDE DEF I
<1>3. 0 .. n \subseteq I
  BY <1>1, <1>2, SetInductionTo
<1>4. n \in I
  BY <1>3
<1>5. n - n = 0
  OBVIOUS
<1> QED BY <1>4, <1>5 DEF I

LEMMA PiecesUnfold ==
  ASSUME MapTypeOK, NEW a \in Address, NEW n \in Nat, InBounds(a, n)
  PROVE  \E w : /\ Pieces(a, n) = w[0]
                /\ \A o \in 0 .. n : w[o] = Turn(a, n, o, w[Ahead(a, n, o)])
<1> DEFINE w == CHOOSE f : Walks(f, a, n, 0 .. n)
<1>1. Walks(w, a, n, 0 .. n)
  BY WalkExists
<1>2. Pieces(a, n) = w[0]
  BY DEF Pieces, Walks, Turn, Joined, Piece, Ahead
<1> HIDE DEF w
<1>3. \A o \in 0 .. n : w[o] = Turn(a, n, o, w[Ahead(a, n, o)])
  BY <1>1, Zenon DEF Walks
<1> QED BY <1>2, <1>3

\* What a turn adds: the bytes of its piece, in order.
LEMMA PieceFacts ==
  ASSUME MapTypeOK, NEW a \in Address, NEW n \in Nat, InBounds(a, n), NEW o \in 0 .. n,
         Stops(a + o, RegionAt(a + o), n - o) = "no"
  PROVE  LET node == elements[RegionAt(a + o)] IN
         /\ DOMAIN Piece(a, n, o) = {<<node.device, node.to.lo + (a + p - node.from.lo)>> : p \in o .. Ahead(a, n, o) - 1}
         /\ \A p \in o .. Ahead(a, n, o) - 1 :
                Piece(a, n, o)[<<node.device, node.to.lo + (a + p - node.from.lo)>>] = p + 1
<1> DEFINE k == RegionAt(a + o)
           node == elements[k]
           off == Offset(a + o, k)
           len == PieceLength(node.device, n - o)
<1>1. /\ k \in DOMAIN elements /\ len \in 1 .. n - o /\ Ahead(a, n, o) = o + len
      /\ node.to.lo \in Int /\ node.from.lo \in Nat /\ a \in Nat
  <2>1. k \in DOMAIN elements /\ len \in 1 .. n - o
    BY LoopAdvances
  <2>2. node.to.lo \in Int /\ node.from.lo \in Nat
    BY <2>1, ElementFacts, NodeFields
  <2>3. a \in Nat
    BY BusAssumption DEF Address
  <2> QED BY <2>1, <2>2, <2>3 DEF Ahead
<1>2. off = node.to.lo + (a + o - node.from.lo) /\ off \in Int
  BY <1>1 DEF Offset, OffsetMap
<1>3. /\ DOMAIN Piece(a, n, o) = {<<node.device, i>> : i \in off .. off + len - 1}
      /\ \A c \in DOMAIN Piece(a, n, o) : Piece(a, n, o)[c] = o + (c[2] - off) + 1
  BY DEF Piece, PieceCells
<1> HIDE DEF k, off, len, node
<1>4. ASSUME NEW p \in o .. o + len - 1
      PROVE  /\ node.to.lo + (a + p - node.from.lo) = off + (p - o)
             /\ off + (p - o) \in off .. off + len - 1
             /\ o + (off + (p - o) - off) + 1 = p + 1
  BY <1>1, <1>2
<1>5. ASSUME NEW i \in off .. off + len - 1
      PROVE  \E p \in o .. o + len - 1 : i = node.to.lo + (a + p - node.from.lo)
  <2>1. o + (i - off) \in o .. o + len - 1 /\ i = node.to.lo + (a + (o + (i - off)) - node.from.lo)
    BY <1>1, <1>2
  <2> QED BY <2>1
<1>6. DOMAIN Piece(a, n, o) = {<<node.device, node.to.lo + (a + p - node.from.lo)>> : p \in o .. o + len - 1}
  <2> DEFINE lead(p) == node.to.lo + (a + p - node.from.lo)
  <2>1. \A p \in o .. o + len - 1 : lead(p) \in off .. off + len - 1
    BY <1>4
  <2>2. \A i \in off .. off + len - 1 : \E p \in o .. o + len - 1 : i = lead(p)
    BY <1>5
  <2> HIDE DEF lead
  <2>3. {<<node.device, i>> : i \in off .. off + len - 1} = {<<node.device, lead(p)>> : p \in o .. o + len - 1}
    BY <2>1, <2>2
  <2> QED BY <1>3, <2>3 DEF lead
<1>7. ASSUME NEW p \in o .. o + len - 1
      PROVE  Piece(a, n, o)[<<node.device, node.to.lo + (a + p - node.from.lo)>>] = p + 1
  <2> DEFINE i == off + (p - o)
  <2>1. node.to.lo + (a + p - node.from.lo) = i /\ i \in off .. off + len - 1 /\ o + (i - off) + 1 = p + 1
    BY <1>1, <1>2
  <2> HIDE DEF i
  <2>2. <<node.device, i>> \in DOMAIN Piece(a, n, o)
    BY <1>3, <2>1
  <2>3. Piece(a, n, o)[<<node.device, i>>] = o + (<<node.device, i>>[2] - off) + 1
    BY <1>3, <2>2
  <2>4. <<node.device, i>>[2] = i
    OBVIOUS
  <2> QED BY <2>1, <2>3, <2>4
<1> QED BY <1>1, <1>6, <1>7 DEF k, node

LEMMA JoinedFacts ==
  ASSUME NEW a, NEW n, NEW o, NEW rest
  PROVE  LET r == Joined(a, n, o, rest) IN
         /\ r.result = rest.result
         /\ DOMAIN r.placed = DOMAIN rest.placed \union DOMAIN Piece(a, n, o)
         /\ \A c \in DOMAIN rest.placed : r.placed[c] = rest.placed[c]
         /\ \A c \in DOMAIN Piece(a, n, o) : c \notin DOMAIN rest.placed => r.placed[c] = Piece(a, n, o)[c]
<1> DEFINE f == rest.placed
           g == Piece(a, n, o)
           r == Joined(a, n, o, rest)
<1>1. r.result = rest.result /\ r.placed = Overlay(f, g)
  BY DEF Joined
<1> HIDE DEF f, g, r
<1>2. /\ DOMAIN Overlay(f, g) = DOMAIN f \union DOMAIN g
      /\ \A c \in DOMAIN f : Overlay(f, g)[c] = f[c]
      /\ \A c \in DOMAIN g : c \notin DOMAIN f => Overlay(f, g)[c] = g[c]
  BY DEF Overlay
<1>3. \A c \in DOMAIN f : r.placed[c] = f[c]
  BY <1>1, <1>2
<1>4. \A c \in DOMAIN g : c \notin DOMAIN f => r.placed[c] = g[c]
  BY <1>1, <1>2
<1>5. DOMAIN r.placed = DOMAIN f \union DOMAIN g
  BY <1>1, <1>2
<1> QED BY <1>1, <1>3, <1>4, <1>5 DEF f, g, r

LEMMA StoppedFacts ==
  ASSUME NEW why
  PROVE  Stopped(why).result = why /\ DOMAIN Stopped(why).placed = {}
BY DEF Stopped

\* The loop takes its bytes from those of the access.
LEMMA PlacedWithin ==
  ASSUME MapTypeOK, NEW a \in Address, NEW n \in Nat
  PROVE  \A c \in DOMAIN Pieces(a, n).placed : Pieces(a, n).placed[c] \in 1 .. n
<1>1. CASE ~InBounds(a, n)
  <2>1. Pieces(a, n) = Stopped("OOBAccess")
    BY <1>1 DEF Pieces
  <2> QED BY <2>1, StoppedFacts
<1>2. CASE InBounds(a, n)
  <2>1. PICK w : /\ Pieces(a, n) = w[0]
                 /\ \A o \in 0 .. n : w[o] = Turn(a, n, o, w[Ahead(a, n, o)])
    BY <1>2, PiecesUnfold
  <2> DEFINE Within(o) == \A c \in DOMAIN w[o].placed : w[o].placed[c] \in 1 .. n
             I == {k \in Nat : \A o \in 0 .. n : o >= n - k => Within(o)}
  <2>2. ASSUME NEW o \in 0 .. n, \A q \in o + 1 .. n : Within(q) PROVE Within(o)
    <3>1. w[o] = Turn(a, n, o, w[Ahead(a, n, o)])
      BY <2>1
    <3>2. CASE Stops(a + o, RegionAt(a + o), n - o) # "no"
      BY <3>1, <3>2, StoppedFacts DEF Turn
    <3>3. CASE Stops(a + o, RegionAt(a + o), n - o) = "no"
      <4>1. w[o] = Joined(a, n, o, w[Ahead(a, n, o)])
        BY <3>1, <3>3 DEF Turn
      <4>2. Ahead(a, n, o) \in o + 1 .. n
        BY <1>2, <3>3, LoopAdvances
      <4>3. Within(Ahead(a, n, o))
        BY <2>2, <4>2
      <4>4. \A c \in DOMAIN Piece(a, n, o) : Piece(a, n, o)[c] \in 1 .. n
        <5> DEFINE node == elements[RegionAt(a + o)]
                   at(p) == <<node.device, node.to.lo + (a + p - node.from.lo)>>
        <5>1. /\ DOMAIN Piece(a, n, o) = {at(p) : p \in o .. Ahead(a, n, o) - 1}
              /\ \A p \in o .. Ahead(a, n, o) - 1 : Piece(a, n, o)[at(p)] = p + 1
          BY <1>2, <3>3, PieceFacts
        <5> HIDE DEF at
        <5>2. \A p \in o .. Ahead(a, n, o) - 1 : p + 1 \in 1 .. n
          BY <4>2
        <5> QED BY <5>1, <5>2
      <4>5. /\ DOMAIN w[o].placed = DOMAIN w[Ahead(a, n, o)].placed \union DOMAIN Piece(a, n, o)
            /\ \A c \in DOMAIN w[Ahead(a, n, o)].placed : w[o].placed[c] = w[Ahead(a, n, o)].placed[c]
            /\ \A c \in DOMAIN Piece(a, n, o) :
                   c \notin DOMAIN w[Ahead(a, n, o)].placed => w[o].placed[c] = Piece(a, n, o)[c]
        BY <4>1, JoinedFacts
      <4> QED BY <4>3, <4>4, <4>5
    <3> QED BY <3>2, <3>3
  <2> HIDE DEF Within
  <2>3. 0 \in I
    <3>1. \A q \in n + 1 .. n : Within(q)
      OBVIOUS
    <3>2. Within(n)
      BY <2>2, <3>1
    <3>3. \A o \in 0 .. n : o >= n - 0 => o = n
      OBVIOUS
    <3> QED BY <3>2, <3>3
  <2>4. ASSUME NEW k \in 0 .. n - 1, k \in I PROVE k + 1 \in I
    <3>1. ASSUME NEW o \in 0 .. n, o >= n - (k + 1) PROVE Within(o)
      <4>1. \A q \in o + 1 .. n : q \in 0 .. n /\ q >= n - k
        BY <3>1
      <4>2. \A q \in o + 1 .. n : Within(q)
        BY <2>4, <4>1
      <4> QED BY <2>2, <4>2
    <3> QED BY <3>1
  <2>5. n \in I
    <3> HIDE DEF I
    <3>1. 0 .. n \subseteq I
      BY <2>3, <2>4, SetInductionTo
    <3> QED BY <3>1
  <2>6. Within(0)
    BY <2>5
  <2> QED BY <2>1, <2>6 DEF Within
<1> QED BY <1>1, <1>2

-----------------------------------------------------------------------------
(* The address map stays right.                                            *)

LEMMA MapInitial == Init => MapInv
<1> SUFFICES ASSUME Init PROVE MapInv
  OBVIOUS
<1>0. DOMAIN elements = {} /\ elements = <<>>
  BY DEF Init
<1>1. MapTypeOK
  BY BusAssumption DEF Init, MapTypeOK
<1>2. InOrder(elements) /\ RangesFit(elements, devices)
  BY <1>0 DEF InOrder, RangesFit
<1>3. RangesLead(elements, cell, torn)
  BY <1>0 DEF Init, RangesLead
<1> QED BY <1>1, <1>2, <1>3 DEF MapInv

\* The map is right whatever the targets hold.
LEMMA MapKeeps ==
  ASSUME MapInv, UNCHANGED <<version, elements, devices, cell, torn, mappings>>, mem' \in [Cells -> Values]
  PROVE  MapInv'
<1>1. MapTypeOK'
  BY DEF MapInv, MapTypeOK
<1>2. InOrder(elements)' /\ RangesFit(elements, devices)'
  BY DEF MapInv, InOrder, RangesFit, Fits
<1>3. RangesLead(elements, cell, torn)'
  BY DEF MapInv, RangesLead, Best, Finds, Lead
<1> QED BY <1>1, <1>2, <1>3 DEF MapInv

LEMMA WriteType ==
  ASSUME MapInv, NEW a \in Address, NEW n \in Nat, Write(a, n)
  PROVE  mem' \in [Cells -> Values]
<1>1. PICK bytes \in [1 .. n -> Values] : mem' = Stored(mem, Pieces(a, n), bytes)
  BY DEF Write
<1>2. \A c \in DOMAIN Pieces(a, n).placed : Pieces(a, n).placed[c] \in 1 .. n
  BY PlacedWithin DEF MapInv
<1>3. mem \in [Cells -> Values]
  BY DEF MapInv, MapTypeOK
<1> QED BY <1>1, <1>2, <1>3 DEF Stored

LEMMA MapStep == MapInv /\ [Next]_vars => MapInv'
<1> SUFFICES ASSUME MapInv, [Next]_vars PROVE MapInv'
  OBVIOUS
<1>t. /\ version \in Versions /\ mem \in [Cells -> Values] /\ devices \subseteq Devices
      /\ Targets[version] \subseteq Devices /\ MaxLength[version] \in Nat
  BY BusAssumption DEF MapInv, MapTypeOK
<1>1. ASSUME Next, NEW at \in Interval, NEW d \in Targets[version], at.lo <= at.hi, PushFrontTarget(at, d)
      PROVE  MapInv'
  <2>1. at.lo \in Nat /\ at.hi \in Nat /\ d \in Devices /\ Size[d] \in Nat \ {0}
    BY <1>t, BusAssumption DEF Interval, Address
  <2>2. Attach(at, d, 0) /\ UNCHANGED version /\ d \notin devices /\ at.hi - at.lo + 1 = Size[d]
    BY <1>1 DEF PushFrontTarget, Next
  <2>3. 0 + (at.hi - at.lo) < Size[d] /\ 0 \in Nat
    BY <2>1, <2>2
  <2> QED BY <1>1, <2>1, <2>2, <2>3, AttachPreserves
<1>2. ASSUME Next, NEW at \in Interval, NEW d \in Targets[version], at.lo <= at.hi,
             NEW offset \in 0 .. Size[d] - 1, InitializeMapping(at, d, offset)
      PROVE  MapInv'
  <2>1. d \in Devices /\ Size[d] \in Nat \ {0}
    BY <1>t, BusAssumption
  <2>2. offset \in Nat
    BY <2>1
  <2>3. /\ Attach(at, d, offset) /\ UNCHANGED version /\ offset + (at.hi - at.lo) < Size[d]
        /\ version # "sim3"
    BY <1>2 DEF InitializeMapping, Next
  <2> QED BY <1>2, <2>1, <2>2, <2>3, AttachPreserves
<1>3. ASSUME Next, RemoveAllTargets PROVE MapInv'
  <2>0. DOMAIN elements' = {} /\ elements' = <<>>
    BY <1>3 DEF RemoveAllTargets
  <2>1. MapTypeOK'
    BY <1>3, <1>t, BusAssumption DEF Next, RemoveAllTargets, MapTypeOK
  <2>2. InOrder(elements)' /\ RangesFit(elements, devices)'
    BY <2>0 DEF InOrder, RangesFit
  <2>3. RangesLead(elements, cell, torn)'
    BY <2>0, <1>3 DEF RemoveAllTargets, RangesLead
  <2> QED BY <2>1, <2>2, <2>3 DEF MapInv
<1>4. ASSUME Next, NEW a \in Address, NEW n \in 1 .. MaxLength[version], Write(a, n) PROVE MapInv'
  <2>1. n \in Nat
    BY <1>t
  <2>2. mem' \in [Cells -> Values]
    BY <1>4, <2>1, WriteType
  <2>3. UNCHANGED <<version, elements, devices, cell, torn, mappings>>
    BY <1>4 DEF Next, Write
  <2> QED BY <2>2, <2>3, MapKeeps
<1>5. ASSUME Next, NEW v \in Values, Clear(v) PROVE MapInv'
  <2>1. mem' \in [Cells -> Values]
    BY <1>5, <1>t DEF Clear
  <2>2. UNCHANGED <<version, elements, devices, cell, torn, mappings>>
    BY <1>5 DEF Next, Clear
  <2> QED BY <2>1, <2>2, MapKeeps
<1>6. CASE UNCHANGED vars
  <2>1. UNCHANGED <<version, elements, devices, cell, torn, mappings>> /\ mem' = mem
    BY <1>6 DEF vars
  <2> QED BY <1>t, <2>1, MapKeeps
<1>7. CASE Next
  BY <1>1, <1>2, <1>3, <1>4, <1>5, <1>7 DEF Next, Operation
<1> QED BY <1>6, <1>7

\* The invariant of the address map, for every order of attaching targets.
THEOREM MapInvariant == Spec => []MapInv
<1>1. Init => MapInv
  BY MapInitial
<1>2. MapInv /\ [Next]_vars => MapInv'
  BY MapStep
<1> QED BY <1>1, <1>2, PTL DEF Spec

(***************************************************************************)
(* Every address of which the map promises it leads to the target attached *)
(* last over it, and in sim3 the address of a target back to it            *)
(* (insert_or_overwrite(), region_at(), forward() and backward() of the    *)
(* two address maps), for all targets and every order in which they are    *)
(* attached in front of, inside of or partly over one another, and         *)
(* removed.  No promise is made of the addresses that TornAbove and TornIn *)
(* name, where the ranges are not shrunk as the comment on                 *)
(* insert_or_overwrite() says.                                             *)
(***************************************************************************)
THEOREM AddressesAreTranslated == Spec => []AddressesTranslate
<1>1. MapInv => AddressesTranslate
  BY MapInvTranslates
<1> QED BY <1>1, MapInvariant, PTL

-----------------------------------------------------------------------------
(* The loop is that of a flat memory.                                      *)

\* Where a flat memory ends an access, and what it reports.
Ends(a, n) == {o \in 0 .. n - 1 : cell[a + o] = Unmapped \/ Refused(a, n, o)}

Done(a, n) == IF Ends(a, n) = {} THEN n ELSE Least(Ends(a, n))

Outcome(a, n) ==
    IF Ends(a, n) = {} THEN "Ok"
    ELSE IF cell[a + Done(a, n)] = Unmapped THEN "Unmapped" ELSE "OOBAccess"

\* Of the bytes from o on, each cell has the last that is for it.
PutsFrom(r, a, n, o) ==
    /\ r.result = Outcome(a, n)
    /\ DOMAIN r.placed = {cell[a + p] : p \in o .. Done(a, n) - 1}
    /\ \A c \in DOMAIN r.placed :
           /\ r.placed[c] \in o + 1 .. Done(a, n) /\ cell[a + r.placed[c] - 1] = c
           /\ \A x \in o + 1 .. Done(a, n) : cell[a + x - 1] = c => x <= r.placed[c]

LEMMA InAccess ==
  ASSUME NEW a \in Address, NEW n \in Nat, InBounds(a, n), NEW o \in 0 .. n - 1
  PROVE  a + o \in Address /\ a + o \in Nat /\ a \in Nat
BY BusAssumption DEF InBounds, Address

LEMMA DoneFacts ==
  ASSUME NEW a, NEW n \in Nat
  PROVE  /\ Done(a, n) \in 0 .. n
         /\ \A o \in 0 .. Done(a, n) - 1 : o \notin Ends(a, n)
         /\ Done(a, n) # n => Done(a, n) \in Ends(a, n)
         /\ Done(a, n) = n => Ends(a, n) = {}
         /\ \A q \in 0 .. n : (\A o \in 0 .. q - 1 : o \notin Ends(a, n)) => q <= Done(a, n)
<1>1. Ends(a, n) \subseteq 0 .. n - 1 /\ Ends(a, n) \in SUBSET Nat
  BY DEF Ends
<1>2. CASE Ends(a, n) = {}
  BY <1>2 DEF Done
<1>3. CASE Ends(a, n) # {}
  <2>1. PICK m : m = Done(a, n) /\ m \in Ends(a, n) /\ \A j \in Ends(a, n) : m <= j
    BY <1>1, <1>3, LeastIs DEF Done
  <2>2. m \in 0 .. n - 1
    BY <1>1, <2>1
  <2>3. \A o \in 0 .. m - 1 : o \notin Ends(a, n)
    BY <2>1, <2>2
  <2>4. ASSUME NEW q \in 0 .. n, \A o \in 0 .. q - 1 : o \notin Ends(a, n) PROVE q <= m
    <3> SUFFICES ASSUME m < q PROVE FALSE
      BY <2>2
    <3>1. m \in 0 .. q - 1
      BY <2>2
    <3> QED BY <2>1, <2>4, <3>1
  <2> QED BY <1>3, <2>1, <2>2, <2>3, <2>4
<1> QED BY <1>2, <1>3

LEMMA IdealFacts ==
  ASSUME NEW a \in Address, NEW n \in Nat, InBounds(a, n)
  PROVE  PutsFrom(IdealPieces(a, n), a, n, 0)
<1> DEFINE done == Done(a, n)
           right == IdealPieces(a, n)
           places(c) == {o \in 1 .. done : cell[a + o - 1] = c}
<1>0. done \in 0 .. n /\ a \in Nat
  BY DoneFacts, AddressFacts
<1>1. right = [result |-> Outcome(a, n),
               placed |-> [c \in {cell[a + o] : o \in 0 .. done - 1} |-> Greatest(places(c))]]
  BY DEF IdealPieces, Ends, Done, Outcome
<1> HIDE DEF done, right
<1>2. right.result = Outcome(a, n) /\ DOMAIN right.placed = {cell[a + o] : o \in 0 .. done - 1}
  BY <1>1
<1>3. ASSUME NEW c \in DOMAIN right.placed
      PROVE  /\ right.placed[c] \in 0 + 1 .. done /\ cell[a + right.placed[c] - 1] = c
             /\ \A x \in 0 + 1 .. done : cell[a + x - 1] = c => x <= right.placed[c]
  <2>1. right.placed[c] = Greatest(places(c))
    BY <1>1, <1>2
  <2>2. PICK p \in 0 .. done - 1 : c = cell[a + p]
    BY <1>2
  <2>3. p + 1 \in 1 .. done /\ a + (p + 1) - 1 = a + p
    BY <1>0, <2>2
  <2>4. p + 1 \in places(c)
    BY <2>2, <2>3
  <2>5. places(c) \in SUBSET (0 .. done) /\ done \in Nat
    BY <1>0
  <2>6. Greatest(places(c)) \in places(c) /\ \A j \in places(c) : j <= Greatest(places(c))
    <3> HIDE DEF places
    <3> QED BY <2>4, <2>5, GreatestIs
  <2> QED BY <2>1, <2>6
<1> QED BY <1>2, <1>3 DEF PutsFrom, done, right

\* What the bytes of an access that is promised are for, from one that begins a target on.
LEMMA RunFacts ==
  ASSUME MapInv, NEW a \in Address, NEW n \in Nat, InBounds(a, n), Promised(a, n),
         NEW o \in 0 .. n - 1, cell[a + o] # Unmapped
  PROVE  LET k == RegionAt(a + o)
             d == cell[a + o][1]
             len == PieceLength(d, n - o)
         IN  /\ k \in DOMAIN elements /\ k # None /\ k # BeforeFirst /\ elements[k].device = d
             /\ d \in Devices /\ Size[d] \in Nat \ {0} /\ cell[a + o] = <<d, cell[a + o][2]>>
             /\ cell[a + o][2] \in 0 .. Size[d] - 1
             /\ Offset(a + o, k) = cell[a + o][2]
             /\ len \in 1 .. n - o /\ len <= Size[d] /\ (len = n - o \/ len = Size[d])
             /\ \A j \in 0 .. len - 1 : cell[a + o][2] + j < Size[d] =>
                    cell[a + (o + j)] = <<d, cell[a + o][2] + j>>
<1> DEFINE k == RegionAt(a + o)
           d == cell[a + o][1]
           v == cell[a + o][2]
           len == PieceLength(d, n - o)
<1>0. a + o \in Address /\ a \in Nat
  BY InAccess
<1>1. /\ Settled(a + o)
      /\ \A j \in 0 .. n - 1 - o : v + j < Size[d] => cell[a + o + j] = <<d, v + j>>
  BY DEF Promised
<1>2. cell[a + o] \in Cells
  BY <1>0 DEF MapInv, MapTypeOK
<1>3. d \in Devices /\ v \in 0 .. Size[d] - 1 /\ cell[a + o] = <<d, v>>
  BY <1>2, CellFacts
<1>4. Size[d] \in Nat \ {0}
  BY <1>3, BusAssumption
<1>5. k \in DOMAIN elements /\ k # None /\ k # BeforeFirst /\ cell[a + o] = Lead(elements[k], a + o)
  BY <1>0, <1>1, RegionLeads DEF Finds
<1>6. elements[k].device = d /\ Offset(a + o, k) = v
  BY <1>5 DEF Lead, Offset, OffsetMap
<1>7. len = IF n - o < Size[d] THEN n - o ELSE Size[d]
  BY DEF PieceLength
<1> HIDE DEF k, d, v, len
<1>8. len \in 1 .. n - o /\ len <= Size[d] /\ (len = n - o \/ len = Size[d])
  BY <1>4, <1>7
<1>9. ASSUME NEW j \in 0 .. len - 1, v + j < Size[d] PROVE cell[a + (o + j)] = <<d, v + j>>
  <2>1. j \in 0 .. n - 1 - o /\ a + (o + j) = a + o + j
    BY <1>0, <1>8
  <2> QED BY <1>1, <1>9, <2>1
<1> QED BY <1>3, <1>4, <1>5, <1>6, <1>8, <1>9 DEF k, d, v, len

\* A turn of the loop, from a byte that begins a target, does what a flat memory does.
Begins(a, n, o) == o = n \/ ~Continues(a, o)

LEMMA TurnStops ==
  ASSUME MapInv, NEW a \in Address, NEW n \in Nat, InBounds(a, n), Promised(a, n),
         Begins(a, n, Done(a, n)), NEW rest
  PROVE  PutsFrom(Turn(a, n, Done(a, n), rest), a, n, Done(a, n))
<1> DEFINE o == Done(a, n)
<1>0. o \in 0 .. n /\ a \in Nat
  BY DoneFacts, AddressFacts
<1>1. /\ Stops(a + o, RegionAt(a + o), n - o) = Outcome(a, n)
      /\ Outcome(a, n) # "no"
  <2>1. CASE o = n
    <3>1. Ends(a, n) = {}
      BY <2>1, DoneFacts
    <3> QED BY <1>0, <2>1, <3>1 DEF Stops, Outcome
  <2>2. CASE o # n
    <3>1. o \in Ends(a, n) /\ o \in 0 .. n - 1 /\ n - o # 0
      BY <1>0, <2>2, DoneFacts
    <3>2. a + o \in Address
      BY <3>1, InAccess
    <3>3. CASE cell[a + o] = Unmapped
      <4>1. Settled(a + o)
        BY <3>1 DEF Promised
      <4>2. RegionAt(a + o) = None
        BY <3>2, <3>3, <4>1, RegionLeads
      <4>3. Stops(a + o, RegionAt(a + o), n - o) = "Unmapped"
        BY <3>1, <4>2 DEF Stops, None, BeforeFirst
      <4>4. Outcome(a, n) = "Unmapped"
        BY <3>1, <3>3 DEF Outcome
      <4> QED BY <4>3, <4>4
    <3>4. CASE cell[a + o] # Unmapped
      <4> DEFINE k == RegionAt(a + o)
                 d == cell[a + o][1]
                 v == cell[a + o][2]
                 len == PieceLength(d, n - o)
      <4>1. /\ k # None /\ k # BeforeFirst /\ elements[k].device = d /\ Offset(a + o, k) = v
            /\ Size[d] \in Nat \ {0} /\ v \in 0 .. Size[d] - 1 /\ len \in 1 .. n - o
        BY <3>1, <3>4, RunFacts
      <4>2. v + len > Size[d]
        BY <3>1, <3>4 DEF Ends, Refused
      <4>3. PieceCells(a + o, k, n - o) = {<<d, i>> : i \in v .. v + len - 1}
        BY <4>1 DEF PieceCells
      <4> HIDE DEF k, d, v, len
      <4>4. v + len - 1 \in v .. v + len - 1 /\ v + len - 1 \notin 0 .. Size[d] - 1
        BY <4>1, <4>2
      <4>5. ~(PieceCells(a + o, k, n - o) \subseteq Cells)
        BY <4>3, <4>4, CellFacts
      <4>6. Stops(a + o, k, n - o) = "OOBAccess"
        BY <3>1, <4>1, <4>5 DEF Stops
      <4>7. Outcome(a, n) = "OOBAccess"
        BY <3>1, <3>4 DEF Outcome
      <4> QED BY <4>6, <4>7 DEF k
    <3> QED BY <3>3, <3>4
  <2> QED BY <2>1, <2>2
<1>2. Turn(a, n, o, rest) = Stopped(Outcome(a, n))
  BY <1>1 DEF Turn
<1>3. {cell[a + p] : p \in o .. o - 1} = {}
  <2>1. o .. o - 1 = {}
    BY <1>0
  <2> QED BY <2>1
<1> HIDE DEF o
<1>4. PutsFrom(Stopped(Outcome(a, n)), a, n, o)
  BY <1>3, StoppedFacts DEF PutsFrom, o
<1> QED BY <1>2, <1>4 DEF o

LEMMA TurnGoesOn ==
  ASSUME MapInv, NEW a \in Address, NEW n \in Nat, InBounds(a, n), Promised(a, n),
         NEW o \in 0 .. Done(a, n) - 1, Begins(a, n, o)
  PROVE  /\ Stops(a + o, RegionAt(a + o), n - o) = "no"
         /\ Ahead(a, n, o) \in o + 1 .. Done(a, n)
         /\ Begins(a, n, Ahead(a, n, o))
         /\ DOMAIN Piece(a, n, o) = {cell[a + p] : p \in o .. Ahead(a, n, o) - 1}
         /\ \A p \in o .. Ahead(a, n, o) - 1 : Piece(a, n, o)[cell[a + p]] = p + 1
<1> DEFINE done == Done(a, n)
           k == RegionAt(a + o)
           d == cell[a + o][1]
           v == cell[a + o][2]
           len == PieceLength(d, n - o)
           q == Ahead(a, n, o)
<1>0. done \in 0 .. n /\ o \in 0 .. n - 1 /\ o \in Nat /\ a \in Nat /\ n - o # 0
  BY DoneFacts, AddressFacts
<1>1. o \notin Ends(a, n)
  BY DoneFacts
<1>2. cell[a + o] # Unmapped /\ ~Refused(a, n, o) /\ ~Continues(a, o)
  BY <1>0, <1>1 DEF Ends, Begins
<1>3. /\ k \in DOMAIN elements /\ k # None /\ k # BeforeFirst /\ elements[k].device = d
      /\ d \in Devices /\ Size[d] \in Nat \ {0} /\ cell[a + o] = <<d, v>> /\ v \in 0 .. Size[d] - 1
      /\ Offset(a + o, k) = v
      /\ len \in 1 .. n - o /\ len <= Size[d] /\ (len = n - o \/ len = Size[d])
      /\ \A j \in 0 .. len - 1 : v + j < Size[d] => cell[a + (o + j)] = <<d, v + j>>
  BY <1>0, <1>2, RunFacts
<1>4. ~(v + len > Size[d])
  BY <1>2 DEF Refused
<1>5. q = o + len
  BY <1>3 DEF Ahead
<1>6. PieceCells(a + o, k, n - o) = {<<d, i>> : i \in v .. v + len - 1}
  BY <1>3 DEF PieceCells
<1>7. Piece(a, n, o) = [c \in PieceCells(a + o, k, n - o) |-> o + (c[2] - v) + 1]
  BY <1>3 DEF Piece
<1> HIDE DEF done, k, d, v, len, q
<1>8. ASSUME NEW p \in o .. q - 1 PROVE cell[a + p] = <<d, v + (p - o)>> /\ v + (p - o) \in v .. v + len - 1
  <2>1. PICK j \in 0 .. len - 1 : j = p - o /\ o + j = p
    BY <1>0, <1>3, <1>5
  <2>2. v + j < Size[d]
    BY <1>3, <1>4
  <2> QED BY <1>3, <2>1, <2>2
<1>9. Stops(a + o, k, n - o) = "no"
  <2>1. \A i \in v .. v + len - 1 : i \in 0 .. Size[d] - 1
    BY <1>3, <1>4
  <2>2. PieceCells(a + o, k, n - o) \subseteq Cells
    BY <1>3, <1>6, <2>1, CellFacts
  <2> QED BY <1>0, <1>3, <2>2 DEF Stops
<1>10. ASSUME NEW p \in 0 .. q - 1 PROVE p \notin Ends(a, n)
  <2>1. CASE p < o
    BY <1>0, <2>1, DoneFacts
  <2>2. CASE p = o
    BY <1>1, <2>2
  <2>3. CASE p > o
    <3>1. p \in o .. q - 1 /\ p - 1 \in o .. q - 1 /\ p # 0 /\ a + (p - 1) = a + p - 1
      BY <1>0, <1>3, <1>5, <2>3
    <3>2. cell[a + p] = <<d, v + (p - o)>> /\ cell[a + p - 1] = <<d, v + ((p - 1) - o)>>
      BY <1>8, <3>1
    <3>3. v + (p - o) = v + ((p - 1) - o) + 1
      BY <1>0, <1>3, <3>1
    <3>4. Continues(a, p)
      BY <3>1, <3>2, <3>3, CellFacts DEF Continues
    <3>5. cell[a + p] # Unmapped
      BY <3>2, CellFacts
    <3> QED BY <3>4, <3>5 DEF Ends, Refused
  <2> QED BY <1>0, <1>3, <1>5, <2>1, <2>2, <2>3
<1>11. q \in o + 1 .. done
  <2>1. q \in 0 .. n
    BY <1>0, <1>3, <1>5
  <2>2. q <= done
    BY <1>10, <2>1, DoneFacts DEF done
  <2> QED BY <1>0, <1>3, <1>5, <2>2
<1>12. Begins(a, n, q)
  <2> SUFFICES ASSUME q # n, Continues(a, q) PROVE FALSE
    BY DEF Begins
  <2>1. len = Size[d] /\ v = 0 /\ q \in 0 .. n - 1
    BY <1>0, <1>3, <1>4, <1>5, <1>11
  <2>2. q - 1 \in o .. q - 1 /\ a + (q - 1) = a + q - 1
    BY <1>0, <1>11
  <2>3. cell[a + q - 1] = <<d, v + ((q - 1) - o)>>
    BY <1>8, <2>2
  <2>4. cell[a + q] = <<d, v + ((q - 1) - o) + 1>>
    BY <2>3 DEF Continues
  <2>5. v + ((q - 1) - o) + 1 = Size[d]
    BY <1>0, <1>3, <1>5, <2>1
  <2>6. cell[a + q] \in Cells \union {Unmapped}
    <3>1. a + q \in Address
      BY <2>1, InAccess
    <3> QED BY <3>1 DEF MapInv, MapTypeOK
  <2>7. Size[d] \notin 0 .. Size[d] - 1
    BY <1>3
  <2> QED BY <2>4, <2>5, <2>6, <2>7, CellFacts
<1>13. DOMAIN Piece(a, n, o) = {cell[a + p] : p \in o .. q - 1}
  <2>1. \A i \in v .. v + len - 1 : \E p \in o .. q - 1 : i = v + (p - o)
    <3> TAKE i \in v .. v + len - 1
    <3>1. o + (i - v) \in o .. q - 1 /\ i = v + ((o + (i - v)) - o)
      BY <1>0, <1>3, <1>5
    <3> QED BY <3>1
  <2>2. \A i \in v .. v + len - 1 : \E p \in o .. q - 1 : <<d, i>> = cell[a + p]
    BY <1>8, <2>1
  <2>3. \A p \in o .. q - 1 : \E i \in v .. v + len - 1 : <<d, i>> = cell[a + p]
    BY <1>8
  <2>4. {<<d, i>> : i \in v .. v + len - 1} = {cell[a + p] : p \in o .. q - 1}
    BY <2>2, <2>3
  <2>5. DOMAIN Piece(a, n, o) = PieceCells(a + o, k, n - o)
    BY <1>7
  <2> QED BY <1>6, <2>4, <2>5
<1>14. ASSUME NEW p \in o .. q - 1 PROVE Piece(a, n, o)[cell[a + p]] = p + 1
  <2>1. PICK i \in v .. v + len - 1 : i = v + (p - o) /\ cell[a + p] = <<d, i>>
    BY <1>8
  <2>2. <<d, i>> \in PieceCells(a + o, k, n - o) /\ <<d, i>>[2] = i
    BY <1>6
  <2>3. Piece(a, n, o)[<<d, i>>] = o + (i - v) + 1
    BY <1>7, <2>2
  <2>4. o + (i - v) + 1 = p + 1
    BY <1>0, <1>3, <1>5, <2>1
  <2> QED BY <2>1, <2>3, <2>4
<1> QED BY <1>9, <1>11, <1>12, <1>13, <1>14 DEF done, k, q

LEMMA TurnJoins ==
  ASSUME MapInv, NEW a \in Address, NEW n \in Nat, InBounds(a, n), Promised(a, n),
         NEW o \in 0 .. Done(a, n) - 1, Begins(a, n, o), NEW rest,
         PutsFrom(rest, a, n, Ahead(a, n, o))
  PROVE  PutsFrom(Turn(a, n, o, rest), a, n, o)
<1> DEFINE done == Done(a, n)
           q == Ahead(a, n, o)
           piece == Piece(a, n, o)
           r == Turn(a, n, o, rest)
<1>0. done \in 0 .. n /\ o \in Nat /\ a \in Nat
  BY DoneFacts, AddressFacts
<1>1. /\ Stops(a + o, RegionAt(a + o), n - o) = "no"
      /\ q \in o + 1 .. done
      /\ DOMAIN piece = {cell[a + p] : p \in o .. q - 1}
      /\ \A p \in o .. q - 1 : piece[cell[a + p]] = p + 1
  BY TurnGoesOn
<1>2. r = Joined(a, n, o, rest)
  BY <1>1 DEF Turn
<1>3. /\ r.result = rest.result
      /\ DOMAIN r.placed = DOMAIN rest.placed \union DOMAIN piece
      /\ \A c \in DOMAIN rest.placed : r.placed[c] = rest.placed[c]
      /\ \A c \in DOMAIN piece : c \notin DOMAIN rest.placed => r.placed[c] = piece[c]
  BY <1>2, JoinedFacts
<1>4. /\ rest.result = Outcome(a, n)
      /\ DOMAIN rest.placed = {cell[a + p] : p \in q .. done - 1}
      /\ \A c \in DOMAIN rest.placed :
             /\ rest.placed[c] \in q + 1 .. done /\ cell[a + rest.placed[c] - 1] = c
             /\ \A x \in q + 1 .. done : cell[a + x - 1] = c => x <= rest.placed[c]
  BY DEF PutsFrom
<1> HIDE DEF done, q, piece, r
<1>5. DOMAIN r.placed = {cell[a + p] : p \in o .. done - 1}
  <2>1. \A p : p \in o .. done - 1 <=> p \in o .. q - 1 \/ p \in q .. done - 1
    BY <1>0, <1>1
  <2> QED BY <1>1, <1>3, <1>4, <2>1
<1>6. ASSUME NEW c \in DOMAIN rest.placed
      PROVE  /\ r.placed[c] \in o + 1 .. done /\ cell[a + r.placed[c] - 1] = c
             /\ \A x \in o + 1 .. done : cell[a + x - 1] = c => x <= r.placed[c]
  <2>1. r.placed[c] = rest.placed[c] /\ rest.placed[c] \in q + 1 .. done
    BY <1>3, <1>4
  <2>2. rest.placed[c] \in o + 1 .. done
    BY <1>0, <1>1, <2>1
  <2>3. ASSUME NEW x \in o + 1 .. done, cell[a + x - 1] = c PROVE x <= rest.placed[c]
    <3>1. CASE x \in q + 1 .. done
      BY <1>4, <2>3, <3>1
    <3>2. CASE x <= q
      BY <1>0, <1>1, <2>1, <3>2
    <3> QED BY <1>0, <1>1, <3>1, <3>2
  <2> QED BY <1>4, <2>1, <2>2, <2>3
<1>7. ASSUME NEW c \in DOMAIN piece, c \notin DOMAIN rest.placed
      PROVE  /\ r.placed[c] \in o + 1 .. done /\ cell[a + r.placed[c] - 1] = c
             /\ \A x \in o + 1 .. done : cell[a + x - 1] = c => x <= r.placed[c]
  <2>1. PICK p \in o .. q - 1 : c = cell[a + p]
    BY <1>1
  <2>2. r.placed[c] = p + 1
    BY <1>1, <1>3, <1>7, <2>1
  <2>3. p + 1 \in o + 1 .. done /\ a + (p + 1) - 1 = a + p
    BY <1>0, <1>1
  <2>4. ASSUME NEW x \in o + 1 .. done, cell[a + x - 1] = c PROVE x <= p + 1
    <3>1. PICK y \in o .. done - 1 : x = y + 1 /\ a + x - 1 = a + y
      <4>1. x - 1 \in o .. done - 1 /\ x = (x - 1) + 1 /\ a + x - 1 = a + (x - 1)
        BY <1>0
      <4> QED BY <4>1
    <3>2. cell[a + y] = c
      BY <2>4, <3>1
    <3>3. y \notin q .. done - 1
      BY <1>4, <1>7, <3>2
    <3>4. y \in o .. q - 1
      BY <1>0, <1>1, <3>3
    <3>5. piece[c] = y + 1 /\ piece[c] = p + 1
      BY <1>1, <2>1, <3>2, <3>4
    <3> QED BY <1>0, <3>1, <3>5
  <2> QED BY <2>1, <2>2, <2>3, <2>4
<1>8. \A c \in DOMAIN r.placed :
          /\ r.placed[c] \in o + 1 .. done /\ cell[a + r.placed[c] - 1] = c
          /\ \A x \in o + 1 .. done : cell[a + x - 1] = c => x <= r.placed[c]
  BY <1>3, <1>6, <1>7
<1> QED BY <1>3, <1>4, <1>5, <1>8 DEF PutsFrom, done, r

LEMMA FlatPieces ==
  ASSUME MapInv, NEW a \in Address, NEW n \in Nat, InBounds(a, n), Promised(a, n)
  PROVE  PutsFrom(Pieces(a, n), a, n, 0)
<1> DEFINE done == Done(a, n)
<1>0. done \in 0 .. n /\ done \in Nat
  BY DoneFacts
<1>1. PICK w : /\ Pieces(a, n) = w[0]
               /\ \A o \in 0 .. n : w[o] = Turn(a, n, o, w[Ahead(a, n, o)])
  BY PiecesUnfold DEF MapInv
<1> DEFINE Good(o) == Begins(a, n, o) => PutsFrom(w[o], a, n, o)
           I == {k \in Nat : \A o \in 0 .. done : o >= done - k => Good(o)}
<1> HIDE DEF done
<1>2. ASSUME NEW o \in 0 .. done, \A q \in o + 1 .. done : Good(q) PROVE Good(o)
  <2> SUFFICES ASSUME Begins(a, n, o) PROVE PutsFrom(w[o], a, n, o)
    OBVIOUS
  <2>1. w[o] = Turn(a, n, o, w[Ahead(a, n, o)])
    BY <1>0, <1>1
  <2>2. CASE o = done
    BY <2>1, <2>2, TurnStops DEF done
  <2>3. CASE o # done
    <3>1. o \in 0 .. Done(a, n) - 1
      BY <1>0, <2>3 DEF done
    <3>2. Ahead(a, n, o) \in o + 1 .. done /\ Begins(a, n, Ahead(a, n, o))
      BY <3>1, TurnGoesOn DEF done
    <3>3. PutsFrom(w[Ahead(a, n, o)], a, n, Ahead(a, n, o))
      BY <1>2, <3>2
    <3> QED BY <2>1, <3>1, <3>3, TurnJoins
  <2> QED BY <2>2, <2>3
<1> HIDE DEF Good
<1>3. 0 \in I
  <2>1. \A q \in done + 1 .. done : Good(q)
    BY <1>0
  <2>2. done \in 0 .. done
    BY <1>0
  <2>3. Good(done)
    BY <1>2, <2>1, <2>2
  <2>4. \A o \in 0 .. done : o >= done - 0 => o = done
    BY <1>0
  <2> QED BY <2>3, <2>4
<1>4. ASSUME NEW k \in 0 .. done - 1, k \in I PROVE k + 1 \in I
  <2>1. ASSUME NEW o \in 0 .. done, o >= done - (k + 1) PROVE Good(o)
    <3>1. \A q \in o + 1 .. done : q \in 0 .. done /\ q >= done - k
      BY <1>0, <2>1
    <3>2. \A q \in o + 1 .. done : Good(q)
      BY <1>4, <3>1
    <3> QED BY <1>2, <3>2
  <2> QED BY <1>0, <2>1
<1>5. done \in I
  <2> HIDE DEF I
  <2>1. 0 .. done \subseteq I
    BY <1>0, <1>3, <1>4, SetInductionTo
  <2> QED BY <1>0, <2>1
<1>6. Good(0)
  <2>1. 0 \in 0 .. done /\ 0 >= done - done
    BY <1>0
  <2> QED BY <1>5, <2>1
<1>7. Begins(a, n, 0)
  BY DEF Begins, Continues
<1> QED BY <1>1, <1>6, <1>7 DEF Good

\* The bytes an access stores are those of a flat memory, where that is promised.
LEMMA WriteIsFlat ==
  ASSUME MapInv, mem = ideal, NEW a \in Address, NEW n \in Nat, Write(a, n)
  PROVE  mem' = ideal' /\ last'[1] = last'[2]
<1> DEFINE pieces == Pieces(a, n)
           right == IF Promised(a, n) THEN IdealPieces(a, n) ELSE pieces
<1>1. PICK bytes \in [1 .. n -> Values] :
          mem' = Stored(mem, pieces, bytes) /\ ideal' = Stored(ideal, right, bytes)
  BY DEF Write
<1>2. last' = <<pieces.result, right.result>>
  BY DEF Write
<1>3. CASE ~Promised(a, n) \/ ~InBounds(a, n)
  <2>1. pieces = right
    BY <1>3 DEF Pieces, IdealPieces
  <2> HIDE DEF pieces, right
  <2> QED BY <1>1, <1>2, <2>1
<1>4. CASE Promised(a, n) /\ InBounds(a, n)
  <2>1. PutsFrom(right, a, n, 0)
    BY <1>4, IdealFacts
  <2>2. PutsFrom(pieces, a, n, 0)
    BY <1>4, FlatPieces
  <2> HIDE DEF pieces, right
  <2>3. pieces.result = right.result /\ DOMAIN pieces.placed = DOMAIN right.placed
    BY <2>1, <2>2 DEF PutsFrom
  <2>4. ASSUME NEW c \in DOMAIN right.placed PROVE pieces.placed[c] = right.placed[c]
    <3>1. /\ pieces.placed[c] \in 0 + 1 .. Done(a, n) /\ cell[a + pieces.placed[c] - 1] = c
          /\ right.placed[c] \in 0 + 1 .. Done(a, n) /\ cell[a + right.placed[c] - 1] = c
      BY <2>1, <2>2, <2>3, <2>4 DEF PutsFrom
    <3>2. pieces.placed[c] <= right.placed[c] /\ right.placed[c] <= pieces.placed[c]
      BY <2>1, <2>2, <2>3, <2>4, <3>1 DEF PutsFrom
    <3>3. Done(a, n) \in 0 .. n
      BY DoneFacts
    <3> QED BY <3>1, <3>2, <3>3
  <2>5. Stored(mem, pieces, bytes) = Stored(ideal, right, bytes)
    BY <2>3, <2>4 DEF Stored
  <2> QED BY <1>1, <1>2, <2>3, <2>5
<1> QED BY <1>3, <1>4

FlatInv == MapInv /\ mem = ideal /\ last[1] = last[2]

LEMMA FlatStep == FlatInv /\ [Next]_vars => FlatInv'
<1> SUFFICES ASSUME FlatInv, [Next]_vars PROVE FlatInv'
  OBVIOUS
<1>0. MapInv /\ MapInv' /\ mem = ideal /\ last[1] = last[2] /\ version \in Versions /\ MaxLength[version] \in Nat
  BY MapStep, BusAssumption DEF FlatInv, MapInv, MapTypeOK
<1>1. ASSUME NEW at, NEW d, NEW offset, Attach(at, d, offset) PROVE mem' = ideal' /\ last'[1] = last'[2]
  BY <1>0, <1>1 DEF Attach
<1>2. ASSUME RemoveAllTargets PROVE mem' = ideal' /\ last'[1] = last'[2]
  BY <1>0, <1>2 DEF RemoveAllTargets
<1>3. ASSUME NEW a \in Address, NEW n \in 1 .. MaxLength[version], Write(a, n)
      PROVE  mem' = ideal' /\ last'[1] = last'[2]
  <2>1. n \in Nat
    BY <1>0
  <2> QED BY <1>0, <1>3, <2>1, WriteIsFlat
<1>4. ASSUME NEW v \in Values, Clear(v) PROVE mem' = ideal' /\ last'[1] = last'[2]
  BY <1>0, <1>4 DEF Clear
<1>5. CASE UNCHANGED vars
  BY <1>0, <1>5 DEF vars, FlatInv
<1>6. CASE Next
  <2>1. mem' = ideal' /\ last'[1] = last'[2]
    BY <1>1, <1>2, <1>3, <1>4, <1>6 DEF Next, Operation, PushFrontTarget, InitializeMapping
  <2> QED BY <1>0, <2>1 DEF FlatInv
<1> QED BY <1>5, <1>6

\* dump() shows each byte of the map, where no range behind has lost its beginning.
LEMMA DumpLeads ==
  ASSUME MapInv, version = "sim3", NEW a \in Address, Settled(a), cell[a] # Unmapped, ~Beheaded(a)
  PROVE  DumpAt(a) = mem[cell[a]]
<1> DEFINE k == RegionAt(a)
           hits == {j \in DOMAIN elements : Holds(elements[j].from, a)}
<1>1. k \in DOMAIN elements /\ Best(elements, k, a) /\ Finds(elements, k, a, cell[a])
  BY RegionLeads
<1>2. \A j \in hits : /\ elements[j].to.lo = 0
                      /\ \A i \in DOMAIN elements \ {j} : elements[i].from.lo = a => elements[j].from.lo # a
  BY DEF Beheaded
<1>3. /\ \A j \in DOMAIN elements : elements[j].from.lo \in Nat /\ elements[j].from.hi \in Nat /\ j \in Nat
      /\ a \in Nat
  BY Numbers, AddressFacts
<1> HIDE DEF k
<1>4. k \in hits
  BY <1>1 DEF Finds
<1>5. ASSUME NEW j \in hits PROVE j <= k
  <2> SUFFICES ASSUME k < j PROVE FALSE
    BY <1>1, <1>3
  <2>0. j \in DOMAIN elements /\ Holds(elements[j].from, a) /\ j # k
    BY <1>1, <1>3
  <2>1. ~Before(elements[j].from, elements[k].from)
    BY <1>1, <2>0 DEF MapInv, InOrder
  <2>2. elements[k].from.lo <= elements[j].from.lo /\ elements[j].from.lo <= a
    BY <1>1, <1>3, <2>0, <2>1 DEF Before, Holds
  <2>3. CASE elements[k].from.lo = a
    <3>1. elements[j].from.lo = a
      BY <1>1, <1>3, <2>0, <2>2, <2>3
    <3> QED BY <1>1, <1>2, <1>4, <2>0, <2>3, <3>1
  <2>4. CASE elements[k].from.lo < a
    <3>1. elements[j].from.lo = elements[k].from.lo
      BY <1>1, <1>3, <2>0, <2>2, <2>4 DEF Best
    <3>2. elements[j].from.hi = elements[k].from.lo
      BY <1>1, <1>3, <2>0, <2>4, <3>1 DEF Finds
    <3> QED BY <1>1, <1>3, <2>0, <2>4, <3>2 DEF Holds
  <2> QED BY <1>1, <1>3, <2>2, <2>3, <2>4
<1>6. Greatest(hits) = k
  <2>1. \A g \in hits : (\A j \in hits : j <= g) => g = k
    BY <1>3, <1>4, <1>5
  <2> HIDE DEF hits
  <2> QED BY <1>4, <1>5, <2>1 DEF Greatest
<1>7. DumpAt(a) = mem[<<elements[k].device, a - elements[k].from.lo>>]
  BY <1>6 DEF DumpAt
<1>8. elements[k].to.lo + (a - elements[k].from.lo) = a - elements[k].from.lo
  BY <1>1, <1>2, <1>3, <1>4
<1> QED BY <1>1, <1>7, <1>8 DEF Finds, Lead

(***************************************************************************)
(* Writes through either bus, of any length, across any targets and from   *)
(* inside any of them, leave the targets as those of one flat memory, and  *)
(* report what it would (the loop of SimpleBus::write()), as far as the    *)
(* map promises where their bytes go and each target they cross is shown   *)
(* to its end; dump() of sim3 shows it where no range lost its beginning.  *)
(***************************************************************************)
THEOREM BusStaysFlat == Spec => []BusIsFlat
<1>1. Init => FlatInv
  <2> SUFFICES ASSUME Init PROVE FlatInv
    OBVIOUS
  <2>1. MapInv
    BY MapInitial
  <2> QED BY <2>1 DEF Init, FlatInv
<1>2. FlatInv /\ [Next]_vars => FlatInv'
  BY FlatStep
<1>3. FlatInv => BusIsFlat
  <2> SUFFICES ASSUME FlatInv PROVE BusIsFlat
    OBVIOUS
  <2>1. MapInv /\ mem = ideal /\ last[1] = last[2]
    BY DEF FlatInv
  <2>2. ASSUME version = "sim3", NEW a \in Address, Settled(a), cell[a] # Unmapped, ~Beheaded(a)
        PROVE  DumpAt(a) = ideal[cell[a]]
    BY <2>1, <2>2, DumpLeads
  <2> QED BY <2>1, <2>2 DEF BusIsFlat
<1> QED BY <1>1, <1>2, <1>3, PTL DEF Spec
=============================================================================
