---------------------------- MODULE BackOffice_proofs ----------------------------
(***************************************************************************)
(* Proofs about what the back office works on, for every value of the      *)
(* constants: the plans of RoutePlanning (every roster, any number of      *)
(* commands in flight), the packages of PackageImport and the backups of   *)
(* HistoryImport (every number of processes, messages and uploads).        *)
(***************************************************************************)
EXTENDS RoutePlanning, PackageImport, HistoryImport, FiniteSetTheorems, WellFoundedInduction, TLAPS

(***************************************************************************)
(* RoutePlanning: the invariant.                                           *)
(***************************************************************************)

\* A plan that leaves nobody without a seat.
Fits(plan, capacity) == Cardinality(Assigned(plan)) <= capacity

\* What holds of a row unless commands ran into one another.
RowSound(row) ==
    /\ row.status \in {"approved", "published"} => row.approvedVersion # 0
    /\ Fits(row.plan, row.capacity) \/ row.needsRerouting

RoutesInv ==
    /\ DOMAIN versions = Routes
    /\ \A r \in Routes : route[r] # None =>
        /\ route[r].approvedVersion <= route[r].version
        /\ r \notin overtaken => RowSound(route[r])

Operations == {"update", "recalculate", "editPlan", "transition", "approve", "publish"}
Snapshot == [version : Nat, status : Statuses, planVersion : Nat]

CommandTyped(c) ==
    c \in [command : {c.command}, op : Operations, route : Routes, expected : Nat,
           to : {"draft", "in-review", "pending-approval", "routed"}, capacity : Nat,
           plan : Plans, step : {"read", "checked"}, before : Snapshot]

\* What a command took for granted when it was sent.
Justified(c, row) ==
    /\ c.op = "approve" => /\ row.status = "pending-approval"
                           /\ row.plan # NoPlan
                           /\ Assigned(row.plan) = DOMAIN row.plan
    /\ c.op = "publish" => row.approvedVersion # 0
    /\ c.op \in {"recalculate", "editPlan"} => Fits(c.plan, row.capacity)
    /\ c.step = "checked" => c.before = Before(row)

\* A command still fits its row as long as the row has the version it expects;
\* and the snapshot an approval under way will name is kept for it.
CommandInv(c) ==
    /\ CommandTyped(c)
    /\ route[c.route] # None
    /\ c.expected <= route[c.route].version
    /\ c.step = "checked" => c.before.version = c.expected
    /\ c.expected = route[c.route].version => Justified(c, route[c.route])
    /\ c.step = "checked" /\ c.op = "approve" /\ c.expected < route[c.route].version
            => c.expected + 1 \in DOMAIN versions[c.route]

RequestsInv ==
    /\ DOMAIN request = Requests
    /\ \A q \in Requests : request[q] # None => CommandInv(request[q])

Working == generation.phase \in {"create", "plan", "save"}

GenerationTyped ==
    generation \in [phase : {"idle", "create", "plan", "save", "done"}, command : 1..2,
                    vehicle : Routes,
                    seen : [Passengers -> [active : BOOLEAN, ready : BOOLEAN,
                                           documents : BOOLEAN]],
                    route : Routes, expected : Nat, plan : Plans, before : Snapshot]

\* A generation plans the route of its vehicle, for the passengers it has seen.
PlanJustified(g, row) ==
    /\ g.route = g.vehicle
    /\ row # None
    /\ g.expected <= row.version
    /\ DOMAIN g.plan = Group(g.vehicle, g.seen)
    /\ g.expected = row.version => Fits(g.plan, row.capacity)
    /\ g.phase = "save" => /\ g.before.version = g.expected
                           /\ g.expected = row.version => g.before = Before(row)

GenerationInv ==
    /\ GenerationTyped
    /\ generation.phase \in {"plan", "save"}
            => PlanJustified(generation, route[generation.route])

\* Every route has the generation that created it in the history.
HistoryInv ==
    /\ \A x \in DOMAIN generated :
        /\ x[2] \in Routes
        /\ generated[x] = x[2]
        /\ route[x[2]] # None
    /\ \A r \in Routes : route[r] # None => DOMAIN generated # {}

\* The route of vehicle v is as the passengers of now make it.
Complete(v) ==
    \/ Group(v, passenger) = {} /\ route[v] = None
    \/ route[v] # None /\ DOMAIN route[v].plan = Group(v, passenger)

\* While nothing else writes, the generation completes a vehicle after another.
QuietInv ==
    quiet =>
        /\ \A x \in DOMAIN generated : x[3] = "plan" => Complete(x[2])
        /\ \A r \in Routes : route[r] # None =>
            /\ Group(r, passenger) # {}
            /\ DOMAIN route[r].plan \in {{}, Group(r, passenger)}
        /\ Working => /\ generation.seen = passenger
                      /\ \A v \in Routes : v < generation.vehicle => Complete(v)
        /\ generation.phase = "done" => \A v \in Routes : Complete(v)

PlanningInv ==
    TypeOK /\ RoutesInv /\ RequestsInv /\ GenerationInv /\ HistoryInv /\ QuietInv
-------------------------------------------------------------------------------
(* Ranks: the passengers of a group in the order of the roster.            *)

LEMMA IntervalIsFinite ==
    ASSUME NEW n \in Nat
    PROVE  IsFiniteSet(1 .. n) /\ Cardinality(1 .. n) = n
  BY FS_Interval

\* Nobody is on the roster twice.
LEMMA RosterIsInjective ==
    \A i, j \in DOMAIN Roster : Roster[i] = Roster[j] => i = j
<1>1. Roster \in [1 .. Len(Roster) -> Passengers] /\ Len(Roster) \in Nat
  BY RoutePlanningAssumption
<1>2. Roster \in Surjection(1 .. Len(Roster), Passengers)
  BY <1>1 DEF Surjection, Passengers, Range
<1>3. IsFiniteSet(1 .. Len(Roster)) /\ Cardinality(1 .. Len(Roster)) = Len(Roster)
  BY <1>1, IntervalIsFinite
<1>4. Roster \in Injection(1 .. Len(Roster), Passengers)
  BY <1>2, <1>3, FS_Surjection, RoutePlanningAssumption
<1>5. QED
  BY <1>1, <1>4 DEF Injection, IsInjective

LEMMA PassengersAreFinite == IsFiniteSet(Passengers)
<1>1. Roster \in [1 .. Len(Roster) -> Passengers] /\ Len(Roster) \in Nat
  BY RoutePlanningAssumption
<1>2. Roster \in Surjection(1 .. Len(Roster), Passengers)
  BY <1>1 DEF Surjection, Passengers, Range
<1>3. QED
  BY <1>1, <1>2, IntervalIsFinite, FS_Surjection

\* Those of S who come before p.
Ahead(p, S) == {i \in DOMAIN Roster : /\ Roster[i] \in S
                                     /\ \E j \in DOMAIN Roster :
                                            j > i /\ Roster[j] = p}

LEMMA RankIsNatural ==
    ASSUME NEW p, NEW S
    PROVE  IsFiniteSet(Ahead(p, S)) /\ Rank(p, S) \in Nat
<1>1. Ahead(p, S) \in SUBSET (1 .. Len(Roster)) /\ Len(Roster) \in Nat
  BY RoutePlanningAssumption DEF Ahead
<1>2. IsFiniteSet(Ahead(p, S))
  BY <1>1, IntervalIsFinite, FS_Subset
<1>3. QED
  BY <1>2, FS_CardinalityType DEF Rank, Ahead

\* Of two passengers of a set, the later one has the higher rank in it.
LEMMA RanksDiffer ==
    ASSUME NEW S, NEW p \in Passengers \cap S, NEW q \in Passengers \cap S, p # q
    PROVE  Rank(p, S) # Rank(q, S)
<1>1. PICK i \in DOMAIN Roster, j \in DOMAIN Roster : Roster[i] = p /\ Roster[j] = q
  BY DEF Passengers, Range
<1>2. i \in Nat /\ j \in Nat /\ DOMAIN Roster \subseteq Nat /\ i # j
  BY <1>1, RoutePlanningAssumption
<1>3. ASSUME NEW a \in DOMAIN Roster, NEW b \in DOMAIN Roster, a < b,
             Roster[a] \in S
      PROVE  Rank(Roster[a], S) # Rank(Roster[b], S)
  <2>1. \A k \in DOMAIN Roster : Roster[k] = Roster[a] => k = a
    BY RosterIsInjective
  <2>2. Ahead(Roster[a], S) \in SUBSET Ahead(Roster[b], S)
    BY <1>2, <1>3, <2>1 DEF Ahead
  <2>3. a \in Ahead(Roster[b], S) /\ a \notin Ahead(Roster[a], S)
    BY <1>2, <1>3, <2>1 DEF Ahead
  <2>4. Cardinality(Ahead(Roster[a], S)) # Cardinality(Ahead(Roster[b], S))
    BY <2>2, <2>3, RankIsNatural, FS_Subset
  <2>5. QED
    BY <2>4 DEF Rank, Ahead
<1>4. CASE i < j
  BY <1>1, <1>3, <1>4
<1>5. CASE j < i
  BY <1>1, <1>3, <1>5
<1>6. QED
  BY <1>2, <1>4, <1>5

\* At most n passengers have a rank below n.
LEMMA RanksBound ==
    ASSUME NEW S, NEW n \in Nat, NEW A \in SUBSET (Passengers \cap S),
           \A p \in A : Rank(p, S) < n
    PROVE  Cardinality(A) <= n
<1> DEFINE f == [p \in A |-> Rank(p, S) + 1]
<1>1. f \in Injection(A, 1 .. n)
  <2>1. ASSUME NEW p \in A PROVE f[p] \in 1 .. n
    <3>1. Rank(p, S) \in Nat
      BY RankIsNatural
    <3>2. QED
      BY <3>1
  <2>2. ASSUME NEW p \in A, NEW q \in A, f[p] = f[q] PROVE p = q
    <3>1. Rank(p, S) \in Nat /\ Rank(q, S) \in Nat
      BY RankIsNatural
    <3>2. Rank(p, S) = Rank(q, S)
      BY <2>2, <3>1
    <3>3. QED
      BY <3>2, RanksDiffer
  <2>3. QED
    BY <2>1, <2>2 DEF Injection, IsInjective
<1>2. IsFiniteSet(1 .. n) /\ Cardinality(1 .. n) = n
  BY IntervalIsFinite
<1>3. QED
  BY <1>1, <1>2, FS_Injection
-------------------------------------------------------------------------------
(* Plans.                                                                  *)

LEMMA PlanTyped ==
    ASSUME NEW S \in SUBSET Passengers, NEW f \in [S -> Placements]
    PROVE  f \in Plans
  BY DEF Plans

LEMMA NoPlanTyped == NoPlan \in Plans /\ DOMAIN NoPlan = {} /\ \A n \in Nat : Fits(NoPlan, n)
<1>1. NoPlan \in [{} -> Placements] /\ DOMAIN NoPlan = {} /\ Assigned(NoPlan) = {}
  BY DEF NoPlan, Assigned
<1>2. Cardinality({}) = 0
  BY FS_EmptySet
<1>3. NoPlan \in Plans
  BY <1>1, PlanTyped
<1>4. \A n \in Nat : Fits(NoPlan, n)
  BY <1>1, <1>2 DEF Fits
<1>5. QED
  BY <1>1, <1>3, <1>4

\* A calculated plan is for the whole group and leaves nobody without a seat.
LEMMA CalculatedPlan ==
    ASSUME NEW capacity \in Nat, NEW group \in SUBSET Passengers, NEW seen
    PROVE  LET plan == Calculated(capacity, group, seen)
           IN  plan \in Plans /\ DOMAIN plan = group /\ Fits(plan, capacity)
<1> DEFINE plan == Calculated(capacity, group, seen)
           S == group \cap Routable(seen)
<1>1. DOMAIN plan = group /\ plan \in [group -> Placements]
  BY DEF Calculated, Placements
<1>2. \A p \in Assigned(plan) : p \in S /\ ~(Rank(p, S) >= capacity)
  BY <1>1 DEF Assigned, Calculated, Routable
<1>3. \A p \in Assigned(plan) : Rank(p, S) \in Nat
  BY RankIsNatural
<1>4. \A p \in Assigned(plan) : Rank(p, S) < capacity
  BY <1>2, <1>3
<1>5. Assigned(plan) \in SUBSET (Passengers \cap S)
  BY <1>2
<1>6. Cardinality(Assigned(plan)) <= capacity
  BY <1>4, <1>5, RanksBound
<1>7. QED
  BY <1>1, <1>6, PlanTyped DEF Fits

\* A plan people may save leaves nobody without a seat.
LEMMA EditedPlan ==
    ASSUME NEW capacity \in Nat, NEW plan \in Edits(capacity)
    PROVE  plan \in Plans /\ Fits(plan, capacity)
<1>1. PICK S \in Boards : \E A \in SUBSET S :
            /\ Cardinality(A) <= capacity
            /\ plan = [p \in S |-> IF p \in A THEN "assigned" ELSE "overflow"]
  BY DEF Edits
<1>5. PICK A \in SUBSET S :
            /\ Cardinality(A) <= capacity
            /\ plan = [p \in S |-> IF p \in A THEN "assigned" ELSE "overflow"]
  BY <1>1
<1>2. S \in SUBSET Passengers /\ plan \in [S -> Placements]
  BY <1>5, RoutePlanningAssumption DEF Placements
<1>3. Assigned(plan) = A
  BY <1>5 DEF Assigned
<1>4. QED
  BY <1>5, <1>2, <1>3, PlanTyped DEF Fits

\* The groups of the vehicles share the passengers out.
LEMMA GroupsPartition ==
    ASSUME NEW seen, NEW p \in Passengers
    PROVE  \E v \in Routes : \A w \in Routes : p \in Group(w, seen) <=> w = v
<1> DEFINE fit == Routable(seen)
           turn == Rank(p, fit) \div Seats
<1>1. turn \in Nat /\ Vehicles \in Nat \ {0}
  <2>1. Rank(p, fit) \in Nat /\ Seats \in Nat /\ Seats > 0
    BY RankIsNatural, RoutePlanningAssumption
  <2> HIDE DEF fit
  <2>2. \A x, y \in Nat : y > 0 => x \div y \in Nat
    OBVIOUS
  <2>3. QED
    BY <2>1, <2>2, RoutePlanningAssumption
<1> HIDE DEF turn
<1>2. CASE p \notin fit
  BY <1>1, <1>2 DEF Group, Routes
<1>3. CASE p \in fit /\ turn >= Vehicles
  BY <1>1, <1>3 DEF Group, Routes, turn
<1>4. CASE p \in fit /\ turn < Vehicles
  <2>1. turn + 1 \in Routes
    BY <1>1, <1>4 DEF Routes
  <2>2. \A w \in Routes : p \in Group(w, seen) <=> w = turn + 1
    BY <1>1, <1>4 DEF Group, Routes, turn
  <2>3. QED
    BY <2>1, <2>2
<1>5. QED
  BY <1>1, <1>2, <1>3, <1>4

LEMMA GroupsAboard ==
    ASSUME NEW v, NEW seen
    PROVE  Group(v, seen) \in SUBSET Passengers
  BY DEF Group, Routable
-------------------------------------------------------------------------------
(* What a command makes of a row.                                          *)

LEMMA StatusNames ==
    Statuses = {"draft", "routed", "in-review", "pending-approval", "approved", "published"}
  BY DEF Statuses, allowedTransitions

\* A row with a status, a need, an approval, a capacity and a plan of its own.
Remade(row, s, need, approved, capacity, plan, planVersion) ==
    [status |-> s, needsRerouting |-> need, version |-> row.version + 1,
     planVersion |-> planVersion, approvedVersion |-> approved, capacity |-> capacity,
     plan |-> plan]

LEMMA RemadeTyped ==
    ASSUME NEW row \in Row, NEW s \in Statuses, NEW need \in BOOLEAN, NEW approved \in Nat,
           NEW capacity \in Nat, NEW plan \in Plans, NEW planVersion \in Nat
    PROVE  Remade(row, s, need, approved, capacity, plan, planVersion) \in Row
<1>1. row.version + 1 \in Nat
  BY DEF Row
<1>2. QED
  BY <1>1 DEF Remade, Row

LEMMA NewRouteTyped == NewRoute \in Row /\ RowSound(NewRoute) /\ NewRoute # None
<1>1. Seats \in Nat
  BY RoutePlanningAssumption
<1>2. NewRoute \in Row
  BY <1>1, NoPlanTyped, StatusNames DEF NewRoute, Row
<1>3. RowSound(NewRoute)
  BY <1>1, NoPlanTyped DEF RowSound, NewRoute
<1>4. QED
  BY <1>2, <1>3, NoneIsNoRow

LEMMA BeforeTyped ==
    ASSUME NEW row \in Row
    PROVE  Before(row) \in Snapshot /\ Before(row).version = row.version
  BY DEF Before, Snapshot, Row

LEMMA StoredTyped ==
    ASSUME NEW row \in Row, NEW before \in Snapshot, NEW plan \in Plans,
           NEW p \in Stored(row, before, plan)
    PROVE  p \in Plans /\ (before = Before(row) => p = plan)
<1> DEFINE kept == DOMAIN row.plan
           both == [x \in kept \cup DOMAIN plan |->
                        IF x \in kept THEN row.plan[x] ELSE plan[x]]
<1>1. PICK S \in SUBSET Passengers : plan \in [S -> Placements]
  BY DEF Plans
<1>2. PICK K \in SUBSET Passengers : row.plan \in [K -> Placements]
  BY DEF Plans, Row
<1>3. both \in [K \cup S -> Placements] /\ K \cup S \in SUBSET Passengers
  BY <1>1, <1>2
<1>4. both \in Plans
  BY <1>3, PlanTyped
<1>5. p \in {plan, both}
  BY DEF Stored
<1>6. before = Before(row) => p = plan
  BY DEF Stored, Before
<1>7. QED
  BY <1>4, <1>5, <1>6

\* A plan that is stored.
LEMMA PlannedRow ==
    ASSUME NEW row \in Row, NEW before \in Snapshot, NEW plan \in Plans,
           NEW status \in {"routed", "in-review"},
           NEW new \in Planned(row, before, plan, status)
    PROVE  /\ new \in Row
           /\ new.version = row.version + 1
           /\ new.approvedVersion = 0
           /\ new.status = status
           /\ new.plan \in Stored(row, before, plan)
           /\ before = Before(row) /\ Fits(plan, row.capacity) => RowSound(new)
<1>1. PICK p \in Stored(row, before, plan) :
        new = [row EXCEPT !.status = status, !.needsRerouting = FALSE,
                          !.approvedVersion = 0, !.plan = p,
                          !.planVersion = @ + 1, !.version = @ + 1]
  BY DEF Planned
<1>2. p \in Plans /\ (before = Before(row) => p = plan)
  BY StoredTyped
<1>3. new \in Row
  <2>1. new = Remade(row, status, FALSE, 0, row.capacity, p, row.planVersion + 1)
    BY <1>1 DEF Remade, Row
  <2>2. row.capacity \in Nat /\ row.planVersion + 1 \in Nat /\ status \in Statuses
    BY StatusNames DEF Row
  <2>3. QED
    BY <1>2, <2>1, <2>2, RemadeTyped
<1>4. /\ new.version = row.version + 1 /\ new.approvedVersion = 0
      /\ new.status = status /\ new.plan = p /\ new.capacity = row.capacity
  BY <1>1 DEF Row
<1>5. before = Before(row) /\ Fits(plan, row.capacity) => RowSound(new)
  BY <1>2, <1>4 DEF RowSound
<1>6. QED
  BY <1>3, <1>4, <1>5

\* What a command leaves: the next version, and, if nobody came before it, a
\* sound row; an approval names the plan that was pending.
LEMMA ResultSound ==
    ASSUME NEW row \in Row, NEW c, CommandTyped(c), c.step = "checked",
           c.before.version = c.expected,
           c.expected = row.version => Justified(c, row),
           NEW new \in Results(row, c)
    PROVE  /\ new \in Row
           /\ new.version = row.version + 1
           /\ \/ new.approvedVersion \in {0, row.approvedVersion}
              \/ c.op = "approve" /\ new.approvedVersion = c.expected + 1
           /\ c.expected = row.version =>
                /\ RowSound(row) => RowSound(new)
                /\ \/ new.approvedVersion \in {0, row.approvedVersion}
                   \/ /\ row.status = "pending-approval" /\ new.status = "approved"
                      /\ row.plan # NoPlan /\ Assigned(row.plan) = DOMAIN row.plan
                      /\ new.plan = row.plan /\ new.approvedVersion = new.version
<1>1. /\ c.op \in Operations /\ c.expected \in Nat /\ c.capacity \in Nat
      /\ c.to \in {"draft", "in-review", "pending-approval", "routed"}
      /\ c.plan \in Plans /\ c.before \in Snapshot
  BY DEF CommandTyped
<1>2. /\ row.status \in Statuses /\ row.needsRerouting \in BOOLEAN
      /\ row.approvedVersion \in Nat /\ row.capacity \in Nat /\ row.plan \in Plans
      /\ row.planVersion \in Nat
  BY DEF Row
<1>3. CASE c.op = "update"
  <2>1. new = Updated(row, c.before, c.capacity)
    BY <1>3 DEF Results
  <2>2. /\ new \in Row /\ new.version = row.version + 1 /\ new.approvedVersion = 0
        /\ new.needsRerouting /\ new.status \in {"in-review", "draft"}
    <3> DEFINE s == IF c.before.status \in {"approved", "published"}
                    THEN "in-review" ELSE "draft"
    <3>1. new = Remade(row, s, TRUE, 0, c.capacity, row.plan, row.planVersion)
      BY <2>1 DEF Updated, Remade, Row
    <3>2. new \in Row
      BY <1>1, <1>2, <3>1, StatusNames, RemadeTyped
    <3>3. QED
      BY <3>1, <3>2 DEF Remade
  <2>3. QED
    BY <2>2 DEF RowSound
<1>4. CASE c.op \in {"recalculate", "editPlan"}
  <2>1. PICK status \in {"routed", "in-review"} :
            new \in Planned(row, c.before, c.plan, status)
    BY <1>4 DEF Results
  <2>2. c.expected = row.version => c.before = Before(row) /\ Fits(c.plan, row.capacity)
    BY <1>4 DEF Justified
  <2>3. QED
    BY <1>1, <2>1, <2>2, PlannedRow
<1>5. CASE c.op = "transition"
  <2>1. new = [row EXCEPT !.status = c.to, !.version = @ + 1]
    BY <1>5 DEF Results
  <2>2. /\ new \in Row /\ new.version = row.version + 1 /\ new.status = c.to
        /\ new.approvedVersion = row.approvedVersion /\ new.plan = row.plan
        /\ new.capacity = row.capacity /\ new.needsRerouting = row.needsRerouting
    <3>1. new = Remade(row, c.to, row.needsRerouting, row.approvedVersion,
                       row.capacity, row.plan, row.planVersion)
      BY <2>1 DEF Remade, Row
    <3>2. new \in Row
      BY <1>1, <1>2, <3>1, StatusNames, RemadeTyped
    <3>3. QED
      BY <3>1, <3>2 DEF Remade
  <2>3. QED
    BY <1>1, <2>2 DEF RowSound
<1>6. CASE c.op = "approve"
  <2>1. new = Approved(row, c.before)
    BY <1>6 DEF Results
  <2>2. /\ new \in Row /\ new.version = row.version + 1 /\ new.status = "approved"
        /\ new.approvedVersion = c.expected + 1 /\ new.plan = row.plan
        /\ new.capacity = row.capacity /\ new.needsRerouting = row.needsRerouting
    <3>1. new = Remade(row, "approved", row.needsRerouting, c.expected + 1,
                       row.capacity, row.plan, row.planVersion)
      BY <2>1 DEF Approved, Remade, Row
    <3>2. "approved" \in Statuses /\ c.expected + 1 \in Nat
      BY <1>1, StatusNames
    <3>3. new \in Row
      BY <1>2, <3>1, <3>2, RemadeTyped
    <3>4. QED
      BY <3>1, <3>3 DEF Remade
  <2>3. new.approvedVersion # 0
    BY <1>1, <2>2
  <2>4. QED
    BY <1>6, <2>2, <2>3 DEF RowSound, Justified
<1>7. CASE c.op = "publish"
  <2>1. new = [row EXCEPT !.status = "published", !.version = @ + 1]
    BY <1>7 DEF Results
  <2>2. /\ new \in Row /\ new.version = row.version + 1
        /\ new.approvedVersion = row.approvedVersion /\ new.plan = row.plan
        /\ new.capacity = row.capacity /\ new.needsRerouting = row.needsRerouting
    <3>1. new = Remade(row, "published", row.needsRerouting, row.approvedVersion,
                       row.capacity, row.plan, row.planVersion)
      BY <2>1 DEF Remade, Row
    <3>2. new \in Row
      BY <1>1, <1>2, <3>1, StatusNames, RemadeTyped
    <3>3. QED
      BY <3>1, <3>2 DEF Remade
  <2>3. QED
    BY <1>7, <2>2 DEF RowSound, Justified
<1>8. QED
  BY <1>1, <1>3, <1>4, <1>5, <1>6, <1>7 DEF Operations
-------------------------------------------------------------------------------
(* Storing a row.                                                          *)

\* The types of the tables without what the invariant says of routes.
LEMMA Tables ==
    ASSUME TypeOK, NEW r \in Routes, route[r] # None
    PROVE  /\ route[r] \in Row
           /\ route[r].version \in Nat /\ route[r].approvedVersion \in Nat
           /\ route[r].capacity \in Nat /\ route[r].plan \in Plans
           /\ route[r].status \in Statuses
<1>1. route[r] \in Row
  BY DEF TypeOK
<1>2. QED
  BY <1>1 DEF Row

\* The route and the snapshots of r after a row was stored.
LEMMA RecordEffect ==
    ASSUME TypeOK, RoutesInv, NEW r \in Routes, NEW row \in Row, Record(r, row)
    PROVE  /\ route' \in [Routes -> Row \cup {None}]
           /\ DOMAIN versions' = Routes
           /\ route'[r] = row
           /\ \A x \in Routes : x # r => route'[x] = route[x] /\ versions'[x] = versions[x]
           /\ \A v \in (DOMAIN versions[r] \cup {row.version})
                            \cap ({row.approvedVersion} \cup ToApprove(r)) :
                /\ v \in DOMAIN versions'[r]
                /\ versions'[r][v] = IF v = row.version THEN row ELSE versions[r][v]
  BY DEF TypeOK, RoutesInv, Record, Restrict

LEMMA RecordKeepsRoutes ==
    ASSUME TypeOK, RoutesInv, NEW r \in Routes, NEW row \in Row, Record(r, row),
           passenger' = passenger, overtaken \subseteq overtaken',
           row.approvedVersion <= row.version,
           row.approvedVersion \in {0, row.version} \cup DOMAIN versions[r],
           r \notin overtaken' => RowSound(row)
    PROVE  TypeOK' /\ RoutesInv'
<1>1. \A x \in Routes : route'[x] # None =>
        /\ route'[x].approvedVersion \in {0} \cup DOMAIN versions'[x]
        /\ route'[x].approvedVersion <= route'[x].version
        /\ x \notin overtaken' => RowSound(route'[x])
  <2> TAKE x \in Routes
  <2>1. CASE x = r
    BY <2>1, RecordEffect
  <2>2. CASE x # r
    BY <2>2, RecordEffect DEF TypeOK, RoutesInv
  <2>3. QED
    BY <2>1, <2>2
<1>2. QED
  BY <1>1, RecordEffect DEF TypeOK, RoutesInv

\* The other commands on a route still fit it, or are behind it.
LEMMA RecordKeepsCommand ==
    ASSUME TypeOK, RoutesInv, NEW r \in Routes, NEW row \in Row, Record(r, row),
           route[r] # None => row.version = route[r].version + 1,
           NEW q \in Requests, request[q] # None, CommandInv(request[q])
    PROVE  CommandInv(request[q])'
           \/ request'[q] # request[q]
<1> DEFINE c == request[q]
<1> SUFFICES ASSUME request'[q] = c PROVE CommandInv(request[q])'
  OBVIOUS
<1>1. c.route \in Routes /\ c.expected \in Nat /\ CommandTyped(c) /\ route[c.route] # None
  BY DEF CommandInv, CommandTyped
<1>2. CASE c.route # r
  <2>1. route'[c.route] = route[c.route] /\ versions'[c.route] = versions[c.route]
    BY <1>1, <1>2, RecordEffect
  <2>2. QED
    BY <1>1, <2>1 DEF CommandInv, CommandTyped
<1>3. CASE c.route = r
  <2>1. route'[r] = row /\ row # None /\ row.version \in Nat
    BY RecordEffect, NoneIsNoRow DEF Row
  <2>2. row.version = route[r].version + 1 /\ route[r].version \in Nat
    BY <1>1, <1>3, Tables
  <2>3. c.expected < row.version
    BY <1>1, <1>3, <2>2 DEF CommandInv
  <2>4. ASSUME c.step = "checked", c.op = "approve" PROVE c.expected + 1 \in DOMAIN versions'[r]
    <3>1. c.expected + 1 \in ToApprove(r)
      BY <1>3, <2>4 DEF ToApprove, CommandInv
    <3>2. c.expected + 1 \in DOMAIN versions[r] \cup {row.version}
      BY <1>1, <1>3, <2>2, <2>4 DEF CommandInv
    <3>3. QED
      BY <3>1, <3>2, RecordEffect
  <2>5. QED
    BY <1>1, <1>3, <2>1, <2>2, <2>3, <2>4 DEF CommandInv, CommandTyped
<1>4. QED
  BY <1>2, <1>3
-------------------------------------------------------------------------------
(* Steps that leave a part of the state alone.                             *)

LEMMA RoutesSame ==
    ASSUME TypeOK, RoutesInv, UNCHANGED <<passenger, route, versions, overtaken>>
    PROVE  TypeOK' /\ RoutesInv'
  BY DEF TypeOK, RoutesInv

LEMMA CommandSame ==
    ASSUME NEW c, CommandInv(c), UNCHANGED <<route, versions>>
    PROVE  CommandInv(c)'
  BY DEF CommandInv, CommandTyped

LEMMA RequestsSame ==
    ASSUME RequestsInv, UNCHANGED <<route, versions, request>>
    PROVE  RequestsInv'
  BY DEF RequestsInv, CommandInv, CommandTyped

LEMMA GenerationSame ==
    ASSUME GenerationInv, HistoryInv, QuietInv,
           UNCHANGED <<passenger, route, generationVars, quiet>>
    PROVE  GenerationInv' /\ HistoryInv' /\ QuietInv'
<1>1. GenerationInv'
  BY DEF generationVars, GenerationInv, GenerationTyped
<1>2. HistoryInv'
  BY DEF generationVars, HistoryInv
<1>3. QuietInv'
  BY DEF generationVars, QuietInv, Complete, Working
<1>4. QED
  BY <1>1, <1>2, <1>3
-------------------------------------------------------------------------------
(* Commands of people.                                                     *)

\* A command as it is sent: with the version its sender has on screen.
Sent(r, k, op, to, capacity, plan) ==
    [command |-> k, op |-> op, route |-> r, expected |-> route[r].version,
     to |-> to, capacity |-> capacity, plan |-> plan, step |-> "read",
     before |-> Before(route[r])]

LEMMA SentFits ==
    ASSUME TypeOK, NEW r \in Routes, route[r] # None, NEW k, NEW op \in Operations,
           NEW to \in {"draft", "in-review", "pending-approval", "routed"},
           NEW capacity \in Nat, NEW plan \in Plans,
           Justified(Sent(r, k, op, to, capacity, plan), route[r])
    PROVE  CommandInv(Sent(r, k, op, to, capacity, plan))
<1>1. route[r] \in Row /\ route[r].version \in Nat /\ Before(route[r]) \in Snapshot
  BY Tables, BeforeTyped
<1>2. CommandTyped(Sent(r, k, op, to, capacity, plan))
  BY <1>1 DEF CommandTyped, Sent
<1>3. QED
  BY <1>1, <1>2 DEF CommandInv, Sent

LEMMA SendKeeps ==
    ASSUME PlanningInv, NEW q \in Requests, NEW c, CommandInv(c), Send(q, c)
    PROVE  PlanningInv'
<1>1. TypeOK' /\ RoutesInv'
  BY RoutesSame DEF PlanningInv, Send
<1>2. GenerationInv' /\ HistoryInv' /\ QuietInv'
  BY GenerationSame DEF PlanningInv, Send
<1>3. RequestsInv'
  <2>1. DOMAIN request' = Requests
    BY DEF PlanningInv, Send, RequestsInv
  <2>2. ASSUME NEW x \in Requests, request'[x] # None PROVE CommandInv(request[x])'
    <3>1. CASE x = q
      <4>1. request'[x] = c
        BY <3>1 DEF PlanningInv, Send, RequestsInv
      <4>2. CommandInv(c)'
        BY CommandSame DEF Send
      <4>3. QED
        BY <4>1, <4>2 DEF CommandInv, CommandTyped
    <3>2. CASE x # q
      <4>1. request'[x] = request[x]
        BY <3>2 DEF PlanningInv, Send, RequestsInv
      <4>2. CommandInv(request[x])
        BY <2>2, <4>1 DEF PlanningInv, RequestsInv
      <4>3. QED
        BY <4>1, <4>2 DEF CommandInv, CommandTyped, Send
    <3>3. QED
      BY <3>1, <3>2
  <2>3. QED
    BY <2>1, <2>2 DEF RequestsInv
<1>4. QED
  BY <1>1, <1>2, <1>3 DEF PlanningInv

LEMMA AskKeeps ==
    ASSUME PlanningInv, NEW q \in Requests, NEW r \in Edited,
           \/ AskUpdate(q, r) \/ AskRecalculate(q, r) \/ AskEditPlan(q, r)
           \/ AskTransition(q, r) \/ AskApprove(q, r) \/ AskPublish(q, r)
    PROVE  PlanningInv'
<1>1. r \in Routes /\ TypeOK
  BY RoutePlanningAssumption DEF PlanningInv
<1>2. route[r] # None
  BY DEF AskUpdate, AskRecalculate, AskEditPlan, AskTransition, AskApprove, AskPublish, MayAsk
<1>3. route[r] \in Row /\ route[r].capacity \in Nat /\ route[r].plan \in Plans
  BY <1>1, <1>2, Tables
<1>4. ASSUME NEW op \in Operations, NEW to, NEW capacity \in Nat, NEW plan \in Plans,
             to \in {"draft", "in-review", "pending-approval", "routed"},
             NEW c, c = Sent(r, FreeCommand, op, to, capacity, plan), Send(q, c),
             /\ op = "approve" => Approvable(route[r])
             /\ op = "publish" => route[r].approvedVersion # 0
             /\ op \in {"recalculate", "editPlan"} => Fits(plan, route[r].capacity)
      PROVE  PlanningInv'
  <2>1. Approvable(route[r]) => /\ route[r].status = "pending-approval"
                                /\ route[r].plan # NoPlan
                                /\ Assigned(route[r].plan) = DOMAIN route[r].plan
    BY DEF Approvable, allowedTransitions, Assigned
  <2>2. Justified(c, route[r])
    BY <1>4, <2>1 DEF Justified, Sent
  <2>3. CommandInv(c)
    BY <1>1, <1>2, <1>4, <2>2, SentFits
  <2>4. QED
    BY <1>4, <2>3, SendKeeps
<1>5. NoPlan \in Plans
  BY NoPlanTyped
<1>6. CASE AskUpdate(q, r)
  <2>1. PICK capacity \in Capacities :
            Send(q, [Command("update", r) EXCEPT !.capacity = capacity])
    BY <1>6 DEF AskUpdate
  <2>2. [Command("update", r) EXCEPT !.capacity = capacity]
            = Sent(r, FreeCommand, "update", "draft", capacity, NoPlan)
    BY DEF Command, Sent
  <2>3. capacity \in Nat
    BY RoutePlanningAssumption
  <2>4. QED
    BY <1>4, <1>5, <2>1, <2>2, <2>3 DEF Operations
<1>7. CASE AskRecalculate(q, r)
  <2> DEFINE plan == Calculated(route[r].capacity, Candidates(r), passenger)
  <2>1. Send(q, [Command("recalculate", r) EXCEPT !.plan = plan])
    BY <1>7 DEF AskRecalculate
  <2>2. [Command("recalculate", r) EXCEPT !.plan = plan]
            = Sent(r, FreeCommand, "recalculate", "draft", 0, plan)
    BY DEF Command, Sent
  <2>3. Candidates(r) \in SUBSET Passengers
    BY <1>3 DEF Candidates, Plans
  <2>4. plan \in Plans /\ Fits(plan, route[r].capacity)
    BY <1>3, <2>3, CalculatedPlan
  <2>5. QED
    BY <1>4, <2>1, <2>2, <2>4 DEF Operations
<1>8. CASE AskEditPlan(q, r)
  <2>1. PICK plan \in Edits(route[r].capacity) :
            Send(q, [Command("editPlan", r) EXCEPT !.plan = plan])
    BY <1>8 DEF AskEditPlan
  <2>2. [Command("editPlan", r) EXCEPT !.plan = plan]
            = Sent(r, FreeCommand, "editPlan", "draft", 0, plan)
    BY DEF Command, Sent
  <2>3. plan \in Plans /\ Fits(plan, route[r].capacity)
    BY <1>3, EditedPlan
  <2>4. QED
    BY <1>4, <2>1, <2>2, <2>3 DEF Operations
<1>9. CASE AskTransition(q, r)
  <2>1. PICK to \in {"in-review", "pending-approval", "routed"} :
            Send(q, [Command("transition", r) EXCEPT !.to = to])
    BY <1>9 DEF AskTransition
  <2>2. [Command("transition", r) EXCEPT !.to = to]
            = Sent(r, FreeCommand, "transition", to, 0, NoPlan)
    BY DEF Command, Sent
  <2>3. QED
    BY <1>4, <1>5, <2>1, <2>2 DEF Operations
<1>10. CASE AskApprove(q, r)
  <2>1. Send(q, Command("approve", r)) /\ Approvable(route[r])
    BY <1>10 DEF AskApprove
  <2>2. Command("approve", r) = Sent(r, FreeCommand, "approve", "draft", 0, NoPlan)
    BY DEF Command, Sent
  <2>3. QED
    BY <1>4, <1>5, <2>1, <2>2 DEF Operations
<1>11. CASE AskPublish(q, r)
  <2>1. Send(q, Command("publish", r)) /\ route[r].approvedVersion # 0
    BY <1>11 DEF AskPublish
  <2>2. Command("publish", r) = Sent(r, FreeCommand, "publish", "draft", 0, NoPlan)
    BY DEF Command, Sent
  <2>3. QED
    BY <1>4, <1>5, <2>1, <2>2 DEF Operations
<1>12. QED
  BY <1>6, <1>7, <1>8, <1>9, <1>10, <1>11


\* A command moved to another step.
Moved(c, step, before) == [c EXCEPT !.step = step, !.before = before]

LEMMA MovedTyped ==
    ASSUME NEW c, CommandTyped(c), NEW step \in {"read", "checked"}, NEW before \in Snapshot,
           NEW m, m = Moved(c, step, before)
    PROVE  /\ CommandTyped(m) /\ m.step = step /\ m.before = before /\ m.op = c.op
           /\ m.route = c.route /\ m.expected = c.expected /\ m.plan = c.plan
<1>1. m = [command |-> c.command, op |-> c.op, route |-> c.route, expected |-> c.expected,
           to |-> c.to, capacity |-> c.capacity, plan |-> c.plan, step |-> step,
           before |-> before]
  BY DEF CommandTyped, Moved
<1>2. /\ c.op \in Operations /\ c.route \in Routes /\ c.expected \in Nat
      /\ c.to \in {"draft", "in-review", "pending-approval", "routed"}
      /\ c.capacity \in Nat /\ c.plan \in Plans
  BY DEF CommandTyped
<1>3. QED
  BY <1>1, <1>2 DEF CommandTyped

LEMMA AskAgainKeeps ==
    ASSUME PlanningInv, NEW q \in Requests, AskAgain(q)
    PROVE  PlanningInv'
<1>1. PICK first \in Requests \ {q} :
        /\ request[first] # None
        /\ request[first].expected = route[request[first].route].version
        /\ Send(q, [request[first] EXCEPT !.step = "read"])
  BY DEF AskAgain
<1> DEFINE c == request[first]
           m == [c EXCEPT !.step = "read"]
<1>2. CommandInv(c)
  BY <1>1 DEF PlanningInv, RequestsInv
<1>3. /\ CommandTyped(m) /\ m.step = "read" /\ m.op = c.op /\ m.route = c.route
      /\ m.expected = c.expected /\ m.plan = c.plan
  <2>1. CommandTyped(c) /\ c.before \in Snapshot
    BY <1>2 DEF CommandInv, CommandTyped
  <2>2. m = Moved(c, "read", c.before)
    BY <2>1 DEF CommandTyped, Moved
  <2> HIDE DEF m, c
  <2>3. QED
    BY <2>1, <2>2, MovedTyped
<1>4. CommandInv(m)
  BY <1>2, <1>3 DEF CommandInv, Justified
<1>5. QED
  BY <1>1, <1>4, SendKeeps

\* A step that changes nothing but a request.
LEMMA RequestStep ==
    ASSUME PlanningInv, NEW q \in Requests, NEW c, c # None => CommandInv(c),
           request' = [request EXCEPT ![q] = c],
           UNCHANGED <<passenger, route, versions, generationVars, overtaken, quiet>>
    PROVE  PlanningInv'
<1>1. TypeOK' /\ RoutesInv'
  BY RoutesSame DEF PlanningInv
<1>2. GenerationInv' /\ HistoryInv' /\ QuietInv'
  BY GenerationSame DEF PlanningInv
<1>3. ASSUME NEW x \in Requests, request'[x] # None PROVE CommandInv(request[x])'
  <2>1. CommandInv(request'[x])
    BY <1>3 DEF PlanningInv, RequestsInv
  <2>2. QED
    BY <2>1 DEF CommandInv, CommandTyped
<1>4. RequestsInv'
  BY <1>3 DEF PlanningInv, RequestsInv
<1>5. QED
  BY <1>1, <1>2, <1>4 DEF PlanningInv

LEMMA CheckKeeps ==
    ASSUME PlanningInv, NEW q \in Requests, Check(q)
    PROVE  PlanningInv'
<1> DEFINE c == request[q]
           row == route[c.route]
<1>1. c # None /\ c.step = "read" /\ CommandInv(c)
  BY DEF Check, PlanningInv, RequestsInv
<1>2. CASE Accepts(c) /\ request' = [request EXCEPT ![q].step = "checked",
                                                    ![q].before = Before(row)]
  <2> DEFINE m == [c EXCEPT !.step = "checked", !.before = Before(row)]
  <2>1. request' = [request EXCEPT ![q] = m]
    BY <1>2 DEF PlanningInv, RequestsInv
  <2>2. CommandTyped(c) /\ row \in Row /\ c.expected = row.version
    BY <1>1, <1>2, Tables DEF CommandInv, CommandTyped, PlanningInv, Accepts
  <2>3. Before(row) \in Snapshot /\ Before(row).version = row.version
    BY <2>2, BeforeTyped
  <2>4. /\ CommandTyped(m) /\ m.step = "checked" /\ m.op = c.op /\ m.route = c.route
        /\ m.expected = c.expected /\ m.plan = c.plan /\ m.before = Before(row)
    <3>1. m = Moved(c, "checked", Before(row))
      BY DEF Moved
    <3> HIDE DEF m, c, row
    <3>2. QED
      BY <2>2, <2>3, <3>1, MovedTyped
  <2>5. row.version \in Nat
    BY <2>2 DEF Row
  <2>6. CommandInv(m)
    BY <1>1, <2>2, <2>3, <2>4, <2>5 DEF CommandInv, Justified
  <2>7. QED
    BY <2>1, <2>6, RequestStep DEF Check
<1>3. CASE request' = [request EXCEPT ![q] = None]
  BY <1>3, RequestStep DEF Check
<1>4. QED
  BY <1>2, <1>3 DEF Check, End

LEMMA LoseKeeps ==
    ASSUME PlanningInv, NEW q \in Requests, Lose(q)
    PROVE  PlanningInv'
  BY RequestStep DEF Lose, End
-------------------------------------------------------------------------------
(* Commands are written.                                                   *)

\* A generation whose route was written by somebody else is behind it.
LEMMA GenerationBehind ==
    ASSUME TypeOK, RoutesInv, GenerationInv, HistoryInv,
           NEW r \in Routes, NEW row \in Row, Record(r, row), route[r] # None,
           row.version = route[r].version + 1, UNCHANGED generationVars
    PROVE  GenerationInv' /\ HistoryInv'
<1>1. route'[r] = row /\ row # None /\ route[r].version \in Nat
  BY RecordEffect, NoneIsNoRow, Tables
<1>2. \A x \in Routes : x # r => route'[x] = route[x]
  BY RecordEffect
<1>3. HistoryInv'
  BY <1>1, <1>2 DEF HistoryInv, generationVars
<1>4. GenerationTyped /\ GenerationTyped'
  BY DEF GenerationInv, GenerationTyped, generationVars
<1>5. generation.route \in Routes /\ generation.expected \in Nat
  BY <1>4 DEF GenerationTyped
<1>6. CASE generation.route # r
  <2>1. generation' = generation /\ route'[generation'.route] = route[generation.route]
    BY <1>2, <1>5, <1>6 DEF generationVars
  <2>2. generation.phase \in {"plan", "save"}
            => PlanJustified(generation, route[generation.route])
    BY DEF GenerationInv
  <2>3. QED
    BY <1>3, <1>4, <2>1, <2>2 DEF GenerationInv
<1>7. CASE generation.route = r
  <2>1. generation.phase \in {"plan", "save"} => generation.expected < row.version
    BY <1>1, <1>5, <1>7 DEF GenerationInv, PlanJustified
  <2>2. row.version \in Nat
    BY DEF Row
  <2>3. generation.phase \in {"plan", "save"} => PlanJustified(generation, row)
    BY <1>1, <1>5, <1>7, <2>1, <2>2 DEF GenerationInv, PlanJustified
  <2>4. QED
    <3>1. generation' = generation /\ route'[generation'.route] = row
      BY <1>1, <1>7 DEF generationVars
    <3>2. QED
      BY <1>3, <1>4, <2>3, <3>1 DEF GenerationInv
<1>8. QED
  BY <1>3, <1>6, <1>7

\* What a person's write does to its row.
LEMMA WriteEffect ==
    ASSUME PlanningInv, NEW q \in Requests, Write(q)
    PROVE  LET c == request[q]
               r == c.route
           IN  /\ CommandInv(c) /\ c.step = "checked"
               /\ r \in Routes /\ route[r] # None /\ route[r] \in Row
               /\ r \notin overtaken' => /\ c.expected = route[r].version
                                         /\ r \notin overtaken
               /\ \E row \in Results(route[r], c) : Record(r, row)
<1>1. CommandInv(request[q]) /\ request[q].step = "checked"
  BY DEF PlanningInv, RequestsInv, Write
<1>2. request[q].route \in Routes
  BY <1>1 DEF CommandInv, CommandTyped
<1>3. route[request[q].route] \in Row
  BY <1>1, <1>2, Tables DEF CommandInv, PlanningInv
<1>4. QED
  BY <1>1, <1>2, <1>3 DEF CommandInv, Write, Observe

LEMMA WriteKeeps ==
    ASSUME PlanningInv, NEW q \in Requests, Write(q)
    PROVE  PlanningInv'
<1> DEFINE c == request[q]
           r == c.route
           old == route[r]
<1>1. /\ CommandInv(c) /\ c.step = "checked"
      /\ r \in Routes /\ old # None /\ old \in Row
      /\ r \notin overtaken' => c.expected = old.version /\ r \notin overtaken
  BY WriteEffect
<1>2. PICK row \in Results(old, c) : Record(r, row)
  BY WriteEffect
<1>3. /\ CommandTyped(c) /\ c.before.version = c.expected /\ c.expected <= old.version
      /\ c.expected = old.version => Justified(c, old)
      /\ c.op = "approve" /\ c.expected < old.version
            => c.expected + 1 \in DOMAIN versions[r]
  BY <1>1 DEF CommandInv
<1>4. /\ row \in Row /\ row.version = old.version + 1
      /\ \/ row.approvedVersion \in {0, old.approvedVersion}
         \/ c.op = "approve" /\ row.approvedVersion = c.expected + 1
      /\ c.expected = old.version /\ RowSound(old) => RowSound(row)
  <2> HIDE DEF c, old
  <2>1. QED
    BY <1>1, <1>2, <1>3, ResultSound
<1>5. /\ old.version \in Nat /\ old.approvedVersion \in Nat /\ c.expected \in Nat
      /\ old.approvedVersion <= old.version
      /\ old.approvedVersion \in {0} \cup DOMAIN versions[r]
      /\ r \notin overtaken => RowSound(old)
  BY <1>1, <1>3, Tables DEF PlanningInv, TypeOK, RoutesInv, CommandTyped
<1>6. /\ row.approvedVersion <= row.version
      /\ row.approvedVersion \in {0, row.version} \cup DOMAIN versions[r]
  BY <1>3, <1>4, <1>5
<1>7. r \notin overtaken' => RowSound(row)
  BY <1>1, <1>4, <1>5
<1>8. passenger' = passenger /\ overtaken \subseteq overtaken' /\ UNCHANGED generationVars
      /\ request' = [request EXCEPT ![q] = None] /\ quiet' = FALSE
  BY DEF Write, Observe
<1> HIDE DEF c, r, old
<1>9. TypeOK' /\ RoutesInv'
  BY <1>1, <1>2, <1>4, <1>6, <1>7, <1>8, RecordKeepsRoutes DEF PlanningInv
<1>10. GenerationInv' /\ HistoryInv'
  BY <1>1, <1>2, <1>4, <1>8, GenerationBehind DEF PlanningInv, old
<1>11. RequestsInv'
  <2>1. ASSUME NEW x \in Requests, request'[x] # None PROVE CommandInv(request[x])'
    <3>1. request'[x] = request[x] /\ request[x] # None /\ CommandInv(request[x])
      BY <1>8, <2>1 DEF PlanningInv, RequestsInv
    <3>2. QED
      BY <1>1, <1>2, <1>4, <3>1, RecordKeepsCommand DEF PlanningInv, old
  <2>2. QED
    BY <1>8, <2>1 DEF PlanningInv, RequestsInv
<1>12. QED
  BY <1>8, <1>9, <1>10, <1>11 DEF PlanningInv, QuietInv
-------------------------------------------------------------------------------
(* The generation.                                                         *)

PassengerState == [active : BOOLEAN, ready : BOOLEAN, documents : BOOLEAN]

LEMMA FirstVehicle == 1 \in Routes /\ Vehicles \in Nat /\ Vehicles > 0
  BY RoutePlanningAssumption DEF Routes

\* A generation that has planned nothing yet.
Begun(phase, command, seen) ==
    [phase |-> phase, command |-> command, vehicle |-> 1, seen |-> seen,
     route |-> 1, expected |-> 0, plan |-> NoPlan, before |-> Before(NewRoute)]

GenerationState ==
    [phase : {"idle", "create", "plan", "save", "done"}, command : 1 .. 2,
     vehicle : Routes, seen : [Passengers -> PassengerState],
     route : Routes, expected : Nat, plan : Plans, before : Snapshot]

LEMMA BegunTyped ==
    ASSUME NEW phase \in {"idle", "create", "done"}, NEW command \in 1 .. 2,
           NEW seen \in [Passengers -> PassengerState]
    PROVE  LET g == Begun(phase, command, seen)
           IN  g \in GenerationState /\ g.phase = phase /\ g.seen = seen /\ g.vehicle = 1
<1>1. NoPlan \in Plans /\ Before(NewRoute) \in Snapshot
  BY NoPlanTyped, NewRouteTyped, BeforeTyped
<1>2. Begun(phase, command, seen) \in GenerationState
  BY <1>1, FirstVehicle DEF Begun, GenerationState
<1>3. QED
  BY <1>2 DEF Begun

LEMMA IdleTyped ==
    ASSUME NEW phase \in {"idle", "done"}
    PROVE  LET g == [NoGeneration EXCEPT !.phase = phase]
           IN  g \in GenerationState /\ g.phase = phase
<1> DEFINE seen == [p \in Passengers |-> Registered]
<1>1. seen \in [Passengers -> PassengerState]
  BY DEF Registered, PassengerState
<1>2. [NoGeneration EXCEPT !.phase = phase] = Begun(phase, 1, seen)
  BY DEF NoGeneration, Begun
<1> HIDE DEF seen
<1>3. QED
  BY <1>1, <1>2, BegunTyped

LEMMA NoGenerationIsIdle == NoGeneration = [NoGeneration EXCEPT !.phase = "idle"]
  BY DEF NoGeneration

\* Steps that change the generation only.
LEMMA GenerationStep ==
    ASSUME PlanningInv, GenerationInv', QuietInv',
           UNCHANGED <<passenger, route, versions, request, generated, overtaken>>
    PROVE  PlanningInv'
<1>1. TypeOK' /\ RoutesInv' /\ RequestsInv'
  BY RoutesSame, RequestsSame DEF PlanningInv
<1>2. HistoryInv'
  BY DEF PlanningInv, HistoryInv
<1>3. QED
  BY <1>1, <1>2 DEF PlanningInv

LEMMA GenerateKeeps ==
    ASSUME PlanningInv, NEW c \in 1 .. 2, Generate(c)
    PROVE  PlanningInv'
<1>1. passenger \in [Passengers -> PassengerState]
  BY DEF PlanningInv, TypeOK, PassengerState
<1>2. /\ GenerationTyped' /\ generation'.phase = "create" /\ generation'.seen = passenger
      /\ generation'.vehicle = 1
  <2>1. generation' = Begun("create", c, passenger)
    BY DEF Generate, NoGeneration, Begun
  <2>2. QED
    BY <1>1, <2>1, BegunTyped DEF GenerationTyped, GenerationState, PassengerState
<1>3. GenerationInv'
  BY <1>2 DEF GenerationInv
<1>4. UNCHANGED <<passenger, route, generated>> /\ quiet' = (quiet \/ DOMAIN generated = {})
  BY DEF Generate
<1>5. QuietInv'
  <2> SUFFICES ASSUME quiet' PROVE QuietInv'
    BY DEF QuietInv
  <2>1. /\ \A x \in DOMAIN generated : x[3] = "plan" => Complete(x[2])
        /\ \A r \in Routes : route[r] # None =>
                /\ Group(r, passenger) # {}
                /\ DOMAIN route[r].plan \in {{}, Group(r, passenger)}
    BY <1>4 DEF PlanningInv, QuietInv, HistoryInv
  <2>2. \A v \in Routes : ~(v < 1)
    BY FirstVehicle DEF Routes
  <2>3. QED
    BY <1>2, <1>4, <2>1, <2>2 DEF QuietInv, Complete, Working
<1>6. QED
  BY <1>3, <1>5, GenerationStep DEF Generate

\* After a vehicle comes the next one, or the generation is done.
LEMMA VehicleAfterVehicle ==
    ASSUME GenerationTyped, generation' = NextVehicle
    PROVE  /\ GenerationInv'
           /\ \/ /\ generation'.phase = "create"
                 /\ generation'.vehicle = generation.vehicle + 1
                 /\ generation'.seen = generation.seen
              \/ /\ generation'.phase = "done"
                 /\ generation.vehicle = Vehicles
<1>1. CASE generation.vehicle = Vehicles
  <2>1. generation' = [NoGeneration EXCEPT !.phase = "done"]
    BY <1>1 DEF NextVehicle
  <2>2. GenerationTyped' /\ generation'.phase = "done"
    BY <2>1, IdleTyped DEF GenerationTyped, GenerationState, PassengerState
  <2>3. QED
    BY <1>1, <2>2 DEF GenerationInv
<1>2. CASE generation.vehicle # Vehicles
  <2>1. generation' = [generation EXCEPT !.phase = "create", !.vehicle = @ + 1]
    BY <1>2 DEF NextVehicle
  <2>2. generation.vehicle + 1 \in Routes
    BY <1>2, FirstVehicle DEF GenerationTyped, Routes
  <2>3. generation' = [phase |-> "create", command |-> generation.command,
                       vehicle |-> generation.vehicle + 1, seen |-> generation.seen,
                       route |-> generation.route, expected |-> generation.expected,
                       plan |-> generation.plan, before |-> generation.before]
    BY <2>1 DEF GenerationTyped
  <2>4. GenerationTyped'
    BY <2>2, <2>3 DEF GenerationTyped
  <2>5. QED
    BY <2>3, <2>4 DEF GenerationInv
<1>3. QED
  BY <1>1, <1>2

\* The vehicle is complete: so are those up to the next one.
LEMMA NextVehicleIsQuiet ==
    ASSUME PlanningInv, Working, generation' = NextVehicle,
           NEW n, n = generation.vehicle,
           quiet' => quiet, passenger' = passenger,
           quiet => /\ \A v \in Routes : Complete(v) => Complete(v)'
                    /\ Complete(n)'
                    /\ \A x \in DOMAIN generated' : x[3] = "plan" => Complete(x[2])'
                    /\ \A r \in Routes : route'[r] # None =>
                        /\ Group(r, passenger) # {}
                        /\ DOMAIN route'[r].plan \in {{}, Group(r, passenger)}
    PROVE  QuietInv'
<1> SUFFICES ASSUME quiet' PROVE QuietInv'
  BY DEF QuietInv
<1>1. GenerationTyped
  BY DEF PlanningInv, GenerationInv
<1>2. /\ generation.seen = passenger
      /\ \A v \in Routes : v < generation.vehicle => Complete(v)'
  BY DEF PlanningInv, QuietInv
<1>3. generation.vehicle \in Nat /\ Routes \subseteq Nat /\ \A v \in Routes : v <= Vehicles
  BY <1>1 DEF GenerationTyped, Routes
<1>4. ASSUME NEW v \in Routes, v <= generation.vehicle PROVE Complete(v)'
  <2>1. CASE v < generation.vehicle
    BY <1>2, <2>1
  <2>2. CASE v = generation.vehicle
    BY <2>2
  <2>3. QED
    BY <1>3, <1>4, <2>1, <2>2
<1>5. CASE /\ generation'.phase = "create"
           /\ generation'.vehicle = generation.vehicle + 1
           /\ generation'.seen = generation.seen
  <2>1. \A v \in Routes : v < generation'.vehicle => Complete(v)'
    BY <1>3, <1>4, <1>5
  <2>2. QED
    BY <1>2, <1>5, <2>1 DEF QuietInv, Working
<1>6. CASE generation'.phase = "done" /\ generation.vehicle = Vehicles
  <2>1. \A v \in Routes : Complete(v)'
    BY <1>3, <1>4, <1>6
  <2>2. QED
    BY <1>6, <2>1 DEF QuietInv, Working
<1>7. QED
  BY <1>1, <1>5, <1>6, VehicleAfterVehicle

LEMMA SkipVehicleKeeps ==
    ASSUME PlanningInv, SkipVehicle
    PROVE  PlanningInv'
<1>1. GenerationTyped /\ Working /\ generation' = NextVehicle
  BY DEF PlanningInv, GenerationInv, SkipVehicle, Working
<1>2. GenerationInv'
  BY <1>1, VehicleAfterVehicle
<1>3. UNCHANGED <<passenger, route, generated, quiet>>
  BY DEF SkipVehicle
<1> PICK n : n = generation.vehicle
  OBVIOUS
<1>4. quiet => Complete(n)
  <2> SUFFICES ASSUME quiet PROVE Complete(n)
    OBVIOUS
  <2>1. generation.vehicle \in Routes /\ generation.seen = passenger
    BY <1>1 DEF PlanningInv, QuietInv, GenerationTyped
  <2>2. Group(generation.vehicle, passenger) = {}
    BY <2>1 DEF SkipVehicle, Waiting
  <2>3. QED
    BY <2>1, <2>2 DEF PlanningInv, QuietInv, Complete
<1>5. \A v : Complete(v)' <=> Complete(v)
  BY <1>3 DEF Complete
<1>6. QuietInv'
  <2>1. quiet => /\ \A v \in Routes : Complete(v) => Complete(v)'
                 /\ \A x \in DOMAIN generated' : x[3] = "plan" => Complete(x[2])'
                 /\ \A r \in Routes : route'[r] # None =>
                        /\ Group(r, passenger) # {}
                        /\ DOMAIN route'[r].plan \in {{}, Group(r, passenger)}
    BY <1>3 DEF PlanningInv, QuietInv, Complete
  <2>2. quiet => Complete(n)'
    BY <1>3, <1>4 DEF Complete
  <2>3. QED
    BY <1>1, <1>3, <2>1, <2>2, NextVehicleIsQuiet
<1>7. QED
  BY <1>2, <1>6, GenerationStep DEF SkipVehicle
\* A generation that ends early leaves what it stored.
LEMMA IdleKeeps ==
    ASSUME PlanningInv, generation' = NoGeneration,
           UNCHANGED <<passenger, route, versions, request, generated, overtaken, quiet>>
    PROVE  PlanningInv'
<1>1. GenerationTyped' /\ generation'.phase = "idle"
  BY IdleTyped, NoGenerationIsIdle DEF GenerationTyped, GenerationState, PassengerState
<1>2. GenerationInv'
  BY <1>1 DEF GenerationInv
<1>3. QuietInv'
  BY <1>1 DEF PlanningInv, QuietInv, Complete, Working
<1>4. QED
  BY <1>2, <1>3, GenerationStep

LEMMA CutShortKeeps ==
    ASSUME PlanningInv, CutShort
    PROVE  PlanningInv'
  BY IdleKeeps DEF CutShort

\* The plan for the waiting passengers fits the row it is calculated for.
LEMMA ToPlanJustified ==
    ASSUME GenerationTyped, NEW row \in Row, row # None
    PROVE  LET g == ToPlan(generation.vehicle, row)
           IN  /\ g \in GenerationState /\ g.phase = "plan" /\ PlanJustified(g, row)
               /\ g.route = generation.vehicle
               /\ g.vehicle = generation.vehicle /\ g.seen = generation.seen
<1> DEFINE g == ToPlan(generation.vehicle, row)
           plan == Calculated(row.capacity, Waiting, generation.seen)
<1>1. row.capacity \in Nat /\ row.version \in Nat
  BY DEF Row
<1>2. Waiting \in SUBSET Passengers /\ Waiting = Group(generation.vehicle, generation.seen)
  BY GroupsAboard DEF Waiting
<1>3. plan \in Plans /\ DOMAIN plan = Waiting /\ Fits(plan, row.capacity)
  BY <1>1, <1>2, CalculatedPlan
<1>4. g = [generation EXCEPT !.phase = "plan", !.route = generation.vehicle,
                             !.expected = row.version, !.plan = plan]
  BY DEF ToPlan
<1> HIDE DEF g, plan
<1>5. g = [phase |-> "plan", command |-> generation.command,
           vehicle |-> generation.vehicle, seen |-> generation.seen,
           route |-> generation.vehicle, expected |-> row.version,
           plan |-> plan, before |-> generation.before]
  BY <1>4 DEF GenerationTyped
<1>6. g \in GenerationState
  BY <1>1, <1>3, <1>5 DEF GenerationTyped, GenerationState, PassengerState
<1>7. PlanJustified(g, row)
  BY <1>1, <1>2, <1>3, <1>5 DEF PlanJustified
<1>8. QED
  BY <1>5, <1>6, <1>7 DEF g

LEMMA CreateRouteKeeps ==
    ASSUME PlanningInv, CreateRoute
    PROVE  PlanningInv'
<1> PICK v : v = generation.vehicle
  OBVIOUS
<1> PICK command : command = Derived("route")
  OBVIOUS
<1>1. /\ GenerationTyped /\ Working /\ v \in Routes /\ command[2] = v /\ command[3] = "route"
      /\ UNCHANGED <<passenger, request, overtaken, quiet>>
  BY DEF PlanningInv, GenerationInv, GenerationTyped, CreateRoute, Working, Derived
<1>2. CASE /\ command \in DOMAIN generated
           /\ generation' = ToPlan(generated[command], route[generated[command]])
           /\ UNCHANGED <<route, versions, generated>>
  <2>1. generated[command] = v /\ route[v] # None
    BY <1>1, <1>2 DEF PlanningInv, HistoryInv
  <2>2. route[v] \in Row /\ generation' = ToPlan(generation.vehicle, route[v])
    BY <1>1, <1>2, <2>1, Tables DEF PlanningInv
  <2>3. /\ generation' \in GenerationState /\ generation'.phase = "plan"
        /\ PlanJustified(generation', route[v]) /\ generation'.route = v
        /\ generation'.vehicle = v /\ generation'.seen = generation.seen
    BY <1>1, <2>1, <2>2, ToPlanJustified
  <2>4. GenerationInv'
    BY <1>2, <2>3 DEF GenerationInv, GenerationTyped, GenerationState, PassengerState
  <2>5. QuietInv'
    BY <1>1, <1>2, <2>3 DEF PlanningInv, QuietInv, Complete, Working
  <2>6. QED
    BY <1>1, <1>2, <2>4, <2>5, GenerationStep
<1>3. CASE /\ route[v] = None /\ Record(v, NewRoute) /\ Waiting # {}
           /\ generated' = [x \in DOMAIN generated \cup {command} |->
                                    IF x = command THEN v ELSE generated[x]]
           /\ generation' = ToPlan(v, NewRoute)
  <2>1. NewRoute \in Row /\ RowSound(NewRoute) /\ NewRoute # None
    BY NewRouteTyped
  <2>2. NewRoute.version = 1 /\ NewRoute.approvedVersion = 0 /\ DOMAIN NewRoute.plan = {}
    BY NoPlanTyped DEF NewRoute
  <2>3. TypeOK' /\ RoutesInv'
    BY <1>1, <1>3, <2>1, <2>2, RecordKeepsRoutes DEF PlanningInv
  <2>4. route'[v] = NewRoute /\ \A x \in Routes : x # v => route'[x] = route[x]
    BY <1>1, <1>3, <2>1, RecordEffect DEF PlanningInv
  <2>5. RequestsInv'
    <3>1. ASSUME NEW q \in Requests, request'[q] # None PROVE CommandInv(request[q])'
      <4>1. request'[q] = request[q] /\ CommandInv(request[q])
        BY <1>1, <3>1 DEF PlanningInv, RequestsInv
      <4>2. QED
        BY <1>1, <1>3, <2>1, <3>1, <4>1, RecordKeepsCommand DEF PlanningInv
    <3>2. QED
      BY <1>1, <3>1 DEF PlanningInv, RequestsInv
  <2>6. /\ generation' \in GenerationState /\ generation'.phase = "plan"
        /\ PlanJustified(generation', NewRoute) /\ generation'.route = v
        /\ generation'.vehicle = v /\ generation'.seen = generation.seen
    BY <1>1, <1>3, <2>1, ToPlanJustified
  <2>7. GenerationInv'
    BY <2>4, <2>6 DEF GenerationInv, GenerationTyped, GenerationState, PassengerState
  <2>8. HistoryInv'
    BY <1>1, <1>3, <2>1, <2>4 DEF PlanningInv, HistoryInv
  <2>9. QuietInv'
    <3> SUFFICES ASSUME quiet PROVE QuietInv'
      BY <1>1 DEF QuietInv
    <3>1. generation.seen = passenger /\ \A w \in Routes : w < v => Complete(w)
      BY <1>1 DEF PlanningInv, QuietInv
    <3>2. Group(v, passenger) # {}
      BY <1>3, <3>1 DEF Waiting
    <3>3. \A w \in Routes : w # v /\ Complete(w) => Complete(w)'
      BY <1>1, <2>4 DEF Complete
    <3>4. ASSUME NEW x \in DOMAIN generated', x[3] = "plan" PROVE Complete(x[2])'
      <4>1. x \in DOMAIN generated
        BY <1>1, <1>3, <3>4
      <4>2. x[2] \in Routes /\ x[2] # v /\ Complete(x[2])
        BY <1>3, <3>4, <4>1 DEF PlanningInv, HistoryInv, QuietInv
      <4>3. QED
        BY <3>3, <4>2
    <3>5. ASSUME NEW w \in Routes, w < v PROVE Complete(w)'
      <4>1. w # v
        BY <1>1, <3>5 DEF Routes
      <4>2. QED
        BY <3>1, <3>3, <3>5, <4>1
    <3>6. \A r \in Routes : route'[r] # None =>
                /\ Group(r, passenger) # {}
                /\ DOMAIN route'[r].plan \in {{}, Group(r, passenger)}
      BY <2>2, <2>4, <3>2 DEF PlanningInv, QuietInv
    <3>7. QED
      BY <1>1, <2>6, <3>1, <3>4, <3>5, <3>6 DEF QuietInv, Working
  <2>10. QED
    BY <2>3, <2>5, <2>7, <2>8, <2>9 DEF PlanningInv
<1>4. CASE generation' = NoGeneration /\ UNCHANGED <<route, versions, generated>>
  BY <1>1, <1>4, IdleKeeps
<1>5. QED
  BY <1>2, <1>3, <1>4 DEF CreateRoute

LEMMA CheckPlanKeeps ==
    ASSUME PlanningInv, CheckPlan
    PROVE  PlanningInv'
<1> PICK n : n = generation.vehicle
  OBVIOUS
<1> PICK row : row = route[generation.route]
  OBVIOUS
<1>1. /\ GenerationTyped /\ Working /\ n \in Routes /\ generation.route = n
      /\ PlanJustified(generation, row) /\ row # None /\ row = route[n]
      /\ UNCHANGED <<passenger, route, versions, request, generated, overtaken, quiet>>
  BY DEF PlanningInv, GenerationInv, GenerationTyped, CheckPlan, Working, PlanJustified
<1>2. CASE Derived("plan") \in DOMAIN generated /\ generation' = NextVehicle
  <2>1. quiet => Complete(n)'
    <3>1. Derived("plan")[2] = n /\ Derived("plan")[3] = "plan"
      BY DEF Derived
    <3>2. quiet => Complete(n)
      BY <1>2, <3>1 DEF PlanningInv, QuietInv
    <3>3. QED
      BY <1>1, <3>2 DEF Complete
  <2>2. quiet => /\ \A v \in Routes : Complete(v) => Complete(v)'
                 /\ \A x \in DOMAIN generated' : x[3] = "plan" => Complete(x[2])'
                 /\ \A r \in Routes : route'[r] # None =>
                        /\ Group(r, passenger) # {}
                        /\ DOMAIN route'[r].plan \in {{}, Group(r, passenger)}
    BY <1>1 DEF PlanningInv, QuietInv, Complete
  <2>3. QuietInv'
    BY <1>1, <1>2, <2>1, <2>2, NextVehicleIsQuiet
  <2>4. QED
    BY <1>1, <1>2, <2>3, VehicleAfterVehicle, GenerationStep
<1>3. CASE /\ row.version = generation.expected
           /\ generation' = [generation EXCEPT !.phase = "save", !.before = Before(row)]
  <2>1. row \in Row
    BY <1>1, Tables DEF PlanningInv
  <2>2. Before(row) \in Snapshot /\ Before(row).version = row.version
    BY <2>1, BeforeTyped
  <2>3. generation' = [phase |-> "save", command |-> generation.command,
                       vehicle |-> generation.vehicle, seen |-> generation.seen,
                       route |-> generation.route, expected |-> generation.expected,
                       plan |-> generation.plan, before |-> Before(row)]
    BY <1>1, <1>3 DEF GenerationTyped
  <2>4. GenerationTyped'
    BY <1>1, <2>2, <2>3 DEF GenerationTyped
  <2>5. PlanJustified(generation', row)
    BY <1>1, <1>3, <2>2, <2>3 DEF PlanJustified
  <2>6. GenerationInv'
    BY <1>1, <2>3, <2>4, <2>5 DEF GenerationInv
  <2>7. QuietInv'
    BY <1>1, <2>3 DEF PlanningInv, QuietInv, Complete, Working
  <2>8. QED
    BY <1>1, <2>6, <2>7, GenerationStep
<1>4. CASE generation' = NoGeneration
  BY <1>1, <1>4, IdleKeeps
<1>5. QED
  BY <1>2, <1>3, <1>4 DEF CheckPlan

LEMMA StoredDomain ==
    ASSUME NEW row, NEW before, NEW plan, NEW p \in Stored(row, before, plan),
           DOMAIN row.plan \in {{}, DOMAIN plan}
    PROVE  DOMAIN p = DOMAIN plan
  BY DEF Stored

LEMMA SavePlanKeeps ==
    ASSUME PlanningInv, SavePlan
    PROVE  PlanningInv'
<1> PICK n : n = generation.vehicle
  OBVIOUS
<1> PICK old : old = route[generation.route]
  OBVIOUS
<1> PICK command : command = Derived("plan")
  OBVIOUS
<1>1. /\ GenerationTyped /\ Working /\ n \in Routes /\ generation.route = n
      /\ PlanJustified(generation, old) /\ old # None /\ old = route[n]
      /\ command[2] = n
      /\ UNCHANGED <<passenger, request, quiet>>
  BY DEF PlanningInv, GenerationInv, GenerationTyped, SavePlan, Working, PlanJustified, Derived
<1>2. PICK row \in Planned(old, generation.before, generation.plan, "routed") : Record(n, row)
  BY <1>1 DEF SavePlan
<1>3. /\ generation' = NextVehicle
      /\ generated' = [x \in DOMAIN generated \cup {command} |->
                            IF x = command THEN n ELSE generated[x]]
      /\ overtaken \subseteq overtaken'
      /\ n \notin overtaken' => old.version = generation.before.version /\ n \notin overtaken
  BY <1>1 DEF SavePlan, Observe
<1>4. old \in Row /\ generation.before \in Snapshot /\ generation.plan \in Plans
  BY <1>1, Tables DEF PlanningInv, GenerationTyped
<1>5. /\ row \in Row /\ row.version = old.version + 1 /\ row.approvedVersion = 0
      /\ row.plan \in Stored(old, generation.before, generation.plan)
      /\ generation.before = Before(old) /\ Fits(generation.plan, old.capacity)
            => RowSound(row)
  BY <1>2, <1>4, PlannedRow
<1>6. n \notin overtaken' => RowSound(row)
  BY <1>1, <1>3, <1>5 DEF PlanJustified, SavePlan
<1>7. row.version \in Nat /\ row # None
  BY <1>5, NoneIsNoRow DEF Row
<1>8. TypeOK' /\ RoutesInv'
  BY <1>1, <1>2, <1>3, <1>5, <1>6, <1>7, RecordKeepsRoutes DEF PlanningInv
<1>9. route'[n] = row /\ \A x \in Routes : x # n => route'[x] = route[x]
  BY <1>1, <1>2, <1>5, RecordEffect DEF PlanningInv
<1>10. RequestsInv'
  <2>1. ASSUME NEW q \in Requests, request'[q] # None PROVE CommandInv(request[q])'
    <3>1. request'[q] = request[q] /\ CommandInv(request[q])
      BY <1>1, <2>1 DEF PlanningInv, RequestsInv
    <3>2. QED
      BY <1>1, <1>2, <1>5, <2>1, <3>1, RecordKeepsCommand DEF PlanningInv
  <2>2. QED
    BY <1>1, <2>1 DEF PlanningInv, RequestsInv
<1>11. HistoryInv'
  BY <1>1, <1>3, <1>7, <1>9 DEF PlanningInv, HistoryInv
<1>12. QuietInv'
  <2>1. ASSUME quiet
        PROVE  /\ Group(n, passenger) # {} /\ DOMAIN row.plan = Group(n, passenger)
    <3>1. /\ Group(n, passenger) # {} /\ DOMAIN old.plan \in {{}, Group(n, passenger)}
          /\ generation.seen = passenger
      BY <1>1, <2>1 DEF PlanningInv, QuietInv
    <3>2. DOMAIN generation.plan = Group(n, passenger)
      BY <1>1, <3>1 DEF PlanJustified
    <3>3. QED
      BY <1>5, <3>1, <3>2, StoredDomain
  <2>2. quiet => Complete(n)'
    BY <1>1, <1>7, <1>9, <2>1 DEF Complete
  <2>3. quiet => \A v \in Routes : Complete(v) => Complete(v)'
    BY <1>1, <1>9, <2>2 DEF Complete
  <2>4. quiet => \A x \in DOMAIN generated' : x[3] = "plan" => Complete(x[2])'
    BY <1>1, <1>3, <2>2, <2>3 DEF PlanningInv, QuietInv, HistoryInv
  <2>5. quiet => \A r \in Routes : route'[r] # None =>
                        /\ Group(r, passenger) # {}
                        /\ DOMAIN route'[r].plan \in {{}, Group(r, passenger)}
    BY <1>9, <2>1 DEF PlanningInv, QuietInv
  <2>6. QED
    BY <1>1, <1>3, <2>2, <2>3, <2>4, <2>5, NextVehicleIsQuiet
<1>13. QED
  BY <1>1, <1>3, <1>8, <1>10, <1>11, <1>12, VehicleAfterVehicle DEF PlanningInv

\* Whoever changes a passenger ends the quiet.
LEMMA PassengersKeep ==
    ASSUME PlanningInv, NEW p \in Passengers, UpdatePassenger(p) \/ ChangeStatus(p)
    PROVE  PlanningInv'
<1>1. passenger \in [Passengers -> PassengerState]
  BY DEF PlanningInv, TypeOK, PassengerState
<1>2. PICK to \in PassengerState : Changed(p, to)
  BY <1>1 DEF UpdatePassenger, ChangeStatus, PassengerState
<1>3. /\ passenger' \in [Passengers -> PassengerState] /\ quiet' = FALSE
      /\ UNCHANGED <<route, versions, request, generation, generated, overtaken>>
  BY <1>1, <1>2 DEF Changed, generationVars
<1>4. TypeOK' /\ RoutesInv'
  BY <1>3 DEF PlanningInv, TypeOK, RoutesInv, PassengerState
<1>5. RequestsInv'
  BY <1>3, RequestsSame DEF PlanningInv
<1>6. GenerationInv' /\ HistoryInv' /\ QuietInv'
  BY <1>3 DEF PlanningInv, GenerationInv, GenerationTyped, HistoryInv, QuietInv
<1>7. QED
  BY <1>4, <1>5, <1>6 DEF PlanningInv
-------------------------------------------------------------------------------
(* The specification.                                                      *)

\* A route that was generated: under review, or as the generation left it.
InitialRow(status, version, plan) ==
    [status |-> status, needsRerouting |-> FALSE, version |-> version, planVersion |-> 1,
     approvedVersion |-> 0, capacity |-> Seats, plan |-> plan]

LEMMA InitialRowSound ==
    ASSUME NEW status \in Statuses, NEW version \in Nat, NEW plan \in Plans,
           status \notin {"approved", "published"}, Fits(plan, Seats)
    PROVE  LET row == InitialRow(status, version, plan)
           IN  /\ row \in Row /\ row.approvedVersion = 0 /\ RowSound(row)
               /\ row.version = version
<1>1. Seats \in Nat
  BY RoutePlanningAssumption
<1>2. InitialRow(status, version, plan) \in Row
  BY <1>1 DEF InitialRow, Row
<1>3. QED
  BY <1>2 DEF InitialRow, RowSound

LEMMA InitPlanning == Init => PlanningInv
<1> SUFFICES ASSUME Init PROVE PlanningInv
  OBVIOUS
<1>1. passenger \in [Passengers -> PassengerState]
  BY DEF Init, Registered, PassengerState
<1>2. /\ DOMAIN versions = Routes /\ DOMAIN request = Requests
      /\ \A q \in Requests : request[q] = None
  BY DEF Init
<1>3. GenerationTyped /\ generation.phase = "idle"
  BY IdleTyped, NoGenerationIsIdle DEF Init, GenerationTyped, GenerationState, PassengerState
<1>4. RequestsInv /\ GenerationInv /\ ~Working
  BY <1>2, <1>3 DEF RequestsInv, GenerationInv, Working
<1>5. CASE /\ route = [r \in Routes |-> None] /\ generated = [x \in {} |-> 1]
  BY <1>1, <1>2, <1>3, <1>4, <1>5
  DEF PlanningInv, TypeOK, RoutesInv, HistoryInv, QuietInv, PassengerState
<1>6. CASE /\ route = [r \in Routes |->
                [Reviewed EXCEPT
                    !.status = IF r \in Edited THEN @ ELSE "routed",
                    !.version = IF r \in Edited THEN @ ELSE 2,
                    !.plan = Calculated(Seats, Group(r, passenger), passenger)]]
           /\ generated = [x \in {1} \X Routes \X {"route", "plan"} |-> x[2]]
  <2>1. ASSUME NEW r \in Routes
        PROVE  /\ route[r] \in Row /\ route[r].approvedVersion = 0
               /\ RowSound(route[r]) /\ route[r].version \in Nat
    <3> DEFINE status == IF r \in Edited THEN "pending-approval" ELSE "routed"
               version == IF r \in Edited THEN 4 ELSE 2
               plan == Calculated(Seats, Group(r, passenger), passenger)
    <3>1. route[r] = InitialRow(status, version, plan)
      BY <1>6 DEF Reviewed, NewRoute, InitialRow
    <3>2. status \in Statuses /\ status \notin {"approved", "published"}
      BY StatusNames
    <3>3. version \in Nat
      OBVIOUS
    <3>4. plan \in Plans /\ Fits(plan, Seats)
      BY CalculatedPlan, GroupsAboard, RoutePlanningAssumption
    <3> HIDE DEF status, version, plan
    <3>5. QED
      BY <3>1, <3>2, <3>3, <3>4, InitialRowSound
  <2>2. TypeOK /\ RoutesInv
    <3>1. route \in [Routes -> Row \cup {None}]
      <4>1. route = [r \in Routes |-> route[r]]
        BY <1>6
      <4>2. QED
        BY <2>1, <4>1
    <3>2. QED
      BY <1>1, <1>2, <2>1, <3>1 DEF TypeOK, RoutesInv, PassengerState
  <2>3. \A r \in Routes : route[r] # None
    BY <2>1, NoneIsNoRow
  <2>4. <<1, 1, "route">> \in DOMAIN generated
    BY <1>6, FirstVehicle
  <2>5. HistoryInv
    BY <1>6, <2>3, <2>4 DEF HistoryInv
  <2>6. QuietInv
    BY <2>4 DEF Init, QuietInv
  <2>7. QED
    BY <1>4, <2>2, <2>5, <2>6 DEF PlanningInv
<1>7. QED
  BY <1>5, <1>6 DEF Init

LEMMA NextKeeps == PlanningInv /\ [Next]_vars => PlanningInv'
<1> SUFFICES ASSUME PlanningInv, [Next]_vars PROVE PlanningInv'
  OBVIOUS
<1>1. CASE UNCHANGED vars
  <2>1. UNCHANGED <<passenger, route, versions, request, generation, generated,
                    overtaken, quiet>>
    BY <1>1 DEF vars
  <2>2. QED
    BY <2>1, RoutesSame, RequestsSame, GenerationSame DEF PlanningInv, generationVars
<1>2. ASSUME NEW q \in Requests, NEW r \in Edited,
             \/ AskUpdate(q, r) \/ AskRecalculate(q, r) \/ AskEditPlan(q, r)
             \/ AskTransition(q, r) \/ AskApprove(q, r) \/ AskPublish(q, r)
      PROVE  PlanningInv'
  BY <1>2, AskKeeps
<1>3. ASSUME NEW q \in Requests, AskAgain(q) \/ Check(q) \/ Write(q) \/ Lose(q)
      PROVE  PlanningInv'
  BY <1>3, AskAgainKeeps, CheckKeeps, WriteKeeps, LoseKeeps
<1>4. ASSUME NEW c \in 1 .. 2, Generate(c) PROVE PlanningInv'
  BY <1>4, GenerateKeeps
<1>5. CASE SkipVehicle \/ CreateRoute \/ CheckPlan \/ SavePlan \/ CutShort
  BY <1>5, SkipVehicleKeeps, CreateRouteKeeps, CheckPlanKeeps, SavePlanKeeps, CutShortKeeps
<1>6. ASSUME NEW p \in Passengers, UpdatePassenger(p) \/ ChangeStatus(p)
      PROVE  PlanningInv'
  BY <1>6, PassengersKeep
<1>7. QED
  BY <1>1, <1>2, <1>3, <1>4, <1>5, <1>6 DEF Next

\* What routes, commands in flight and the generation know of one another.
THEOREM PlanningInductive == Spec => []PlanningInv
<1>1. QED
  BY InitPlanning, NextKeeps, PTL DEF Spec

\* Each passenger is in the group of one vehicle, so on one route when all of
\* them are complete.
LEMMA CompleteMeansOneRoute ==
    ASSUME \A v \in Routes : Complete(v), NEW p \in Passengers
    PROVE  Cardinality({r \in Routes : route[r] # None /\ p \in DOMAIN route[r].plan}) = 1
<1>1. PICK v \in Routes : \A w \in Routes : p \in Group(w, passenger) <=> w = v
  BY GroupsPartition
<1>2. {r \in Routes : route[r] # None /\ p \in DOMAIN route[r].plan} = {v}
  BY <1>1 DEF Complete
<1>3. QED
  BY <1>2, FS_Singleton

\* The plans of the day hold: rows and passengers have the values the code gives
\* them, no vehicle is planned beyond its seats unless the route says that it
\* needs a new plan or one command was written over another on it, and a
\* generation that nobody disturbed puts everyone on exactly one route.
THEOREM PlansAlwaysHold == Spec => []PlansHold
<1>1. PlanningInv => PlansHold
  <2> SUFFICES ASSUME PlanningInv PROVE PlansHold
    OBVIOUS
  <2>1. FitsUnlessFlagged
    BY DEF PlanningInv, RoutesInv, RowSound, Fits, FitsUnlessFlagged
  <2>2. EveryoneOnOneRoute
    BY CompleteMeansOneRoute DEF PlanningInv, QuietInv, EveryoneOnOneRoute
  <2>3. QED
    BY <2>1, <2>2 DEF PlanningInv, PlansHold
<1>2. QED
  BY <1>1, PlanningInductive, PTL

\* How the approved version of a route may change in a step.
Honest(r, old, new) ==
    /\ new.status \in {"approved", "published"} => new.approvedVersion # 0
    /\ new.approvedVersion # 0 =>
        LET approved == versions'[r][new.approvedVersion]
        IN  \/ /\ new.approvedVersion = old.approvedVersion
               /\ approved = versions[r][old.approvedVersion]
            \/ /\ old.status = "pending-approval"
               /\ approved.status = "approved"
               /\ approved.plan = old.plan
               /\ approved.plan # NoPlan
               /\ Assigned(approved.plan) = DOMAIN approved.plan

\* A version is approved as it was reviewed, and its snapshot is never another,
\* unless commands on the route ran into one another.
THEOREM ApprovedAsReviewedHolds == Spec => ApprovedAsReviewed
<1>1. ASSUME PlanningInv, PlanningInv', [Next]_vars,
             NEW r \in Routes \ overtaken', route'[r] # None
      PROVE  Honest(r, route[r], route'[r])
  <2>1. route'[r].status \in {"approved", "published"} => route'[r].approvedVersion # 0
    BY <1>1 DEF PlanningInv, RoutesInv, RowSound
  <2>2. CASE UNCHANGED <<route[r], versions[r]>>
    BY <2>1, <2>2 DEF Honest
  <2>3. CASE route'[r].approvedVersion = 0
    BY <2>1, <2>3 DEF Honest
  <2>4. ASSUME NEW q \in Requests, Write(q), request[q].route = r
        PROVE  Honest(r, route[r], route'[r])
    <3> PICK c : c = request[q]
      OBVIOUS
    <3> PICK old : old = route[r]
      OBVIOUS
    <3>1. /\ CommandInv(c) /\ c.step = "checked" /\ c.route = r /\ old # None /\ old \in Row
          /\ c.expected = old.version
      BY <1>1, <2>4, WriteEffect
    <3>2. PICK row \in Results(old, c) : Record(r, row)
      BY <1>1, <2>4, WriteEffect
    <3>3. CommandTyped(c) /\ c.before.version = c.expected /\ Justified(c, old)
      BY <3>1 DEF CommandInv
    <3>4. /\ row \in Row /\ row.version = old.version + 1
          /\ \/ row.approvedVersion \in {0, old.approvedVersion}
             \/ /\ old.status = "pending-approval" /\ row.status = "approved"
                /\ old.plan # NoPlan /\ Assigned(old.plan) = DOMAIN old.plan
                /\ row.plan = old.plan /\ row.approvedVersion = row.version
      BY <3>1, <3>2, <3>3, ResultSound
    <3>5. /\ old.version \in Nat /\ old.approvedVersion <= old.version
          /\ old.approvedVersion \in Nat
          /\ old.approvedVersion \in {0} \cup DOMAIN versions[r]
      BY <1>1, <3>1, Tables DEF PlanningInv, TypeOK, RoutesInv
    <3>6. /\ route'[r] = row
          /\ \A v \in (DOMAIN versions[r] \cup {row.version})
                            \cap ({row.approvedVersion} \cup ToApprove(r)) :
                versions'[r][v] = IF v = row.version THEN row ELSE versions[r][v]
      BY <1>1, <3>2, <3>4, RecordEffect DEF PlanningInv
    <3>7. CASE row.approvedVersion = 0
      BY <2>3, <3>6, <3>7
    <3>8. CASE row.approvedVersion = old.approvedVersion /\ row.approvedVersion # 0
      <4>1. versions'[r][old.approvedVersion] = versions[r][old.approvedVersion]
        BY <3>4, <3>5, <3>6, <3>8
      <4>2. QED
        BY <2>1, <3>6, <3>8, <4>1 DEF Honest
    <3>9. CASE /\ old.status = "pending-approval" /\ row.status = "approved"
               /\ old.plan # NoPlan /\ Assigned(old.plan) = DOMAIN old.plan
               /\ row.plan = old.plan /\ row.approvedVersion = row.version
      <4>1. versions'[r][row.approvedVersion] = row
        BY <3>6, <3>9
      <4>2. QED
        BY <2>1, <3>6, <3>9, <4>1 DEF Honest
    <3>10. QED
      BY <3>4, <3>7, <3>8, <3>9
  <2>5. ASSUME NEW q \in Requests, Write(q), request[q].route # r
        PROVE  Honest(r, route[r], route'[r])
    <3>1. PICK row \in Results(route[request[q].route], request[q]) :
                Record(request[q].route, row)
      BY <1>1, <2>5, WriteEffect
    <3>2. request[q].route \in Routes
      BY <1>1, <2>5, WriteEffect
    <3>3. UNCHANGED <<route[r], versions[r]>>
      BY <1>1, <2>5, <3>1, <3>2 DEF Record, PlanningInv, RoutesInv, TypeOK
    <3>4. QED
      BY <2>2, <3>3
  <2>6. CASE CreateRoute
    <3>1. \/ UNCHANGED <<route, versions>>
          \/ Record(generation.vehicle, NewRoute)
      BY <2>6 DEF CreateRoute
    <3>2. generation.vehicle \in Routes /\ NewRoute.approvedVersion = 0
      BY <1>1 DEF PlanningInv, GenerationInv, GenerationTyped, NewRoute
    <3>3. \/ UNCHANGED <<route[r], versions[r]>>
          \/ route'[r].approvedVersion = 0
      BY <1>1, <3>1, <3>2 DEF Record, PlanningInv, RoutesInv, TypeOK
    <3>4. QED
      BY <2>2, <2>3, <3>3
  <2>7. CASE SavePlan
    <3>1. PICK row \in Planned(route[generation.route], generation.before,
                               generation.plan, "routed") : Record(generation.route, row)
      BY <2>7 DEF SavePlan
    <3>2. /\ generation.route \in Routes /\ generation.before \in Snapshot
          /\ generation.plan \in Plans /\ route[generation.route] # None
      BY <1>1, <2>7 DEF PlanningInv, GenerationInv, GenerationTyped, SavePlan, PlanJustified
    <3>3. route[generation.route] \in Row
      BY <1>1, <3>2, Tables DEF PlanningInv
    <3>4. row.approvedVersion = 0
      BY <3>1, <3>2, <3>3, PlannedRow
    <3>5. \/ UNCHANGED <<route[r], versions[r]>>
          \/ route'[r].approvedVersion = 0
      BY <1>1, <3>1, <3>2, <3>4 DEF Record, PlanningInv, RoutesInv, TypeOK
    <3>6. QED
      BY <2>2, <2>3, <3>5
  <2>8. \/ UNCHANGED <<route, versions>>
        \/ \E q \in Requests : Write(q)
        \/ CreateRoute \/ SavePlan
    BY <1>1
    DEF Next, vars, AskUpdate, AskRecalculate, AskEditPlan, AskTransition, AskApprove,
        AskPublish, AskAgain, Send, Check, Lose, Generate, SkipVehicle, CheckPlan, CutShort,
        UpdatePassenger, ChangeStatus, Changed
  <2>9. QED
    BY <2>2, <2>4, <2>5, <2>6, <2>7, <2>8
<1>2. PlanningInv /\ PlanningInv' /\ [Next]_vars =>
        \A r \in Routes \ overtaken' :
            route'[r] # None => Honest(r, route[r], route'[r])
  BY <1>1
<1>3. QED
  BY <1>2, PlanningInductive, PTL DEF Spec, ApprovedAsReviewed, Honest
-------------------------------------------------------------------------------
(***************************************************************************)
(* PackageImport: the invariant.                                           *)
(***************************************************************************)
\* What the tables hold, as in the schema.
BatchRow == [status : {Absent, "applying", "applied", "failed", "rolled-back"},
          claim : Workers \cup {Absent}, leased : BOOLEAN, counts : Nat \X Nat]
RecordRow == [batch : Batches, ext : Exts, conv : Nat \ {0}, before : ConvRow \cup {Absent},
           after : ConvRow, msgs : SUBSET Messages, newRef : BOOLEAN,
           status : {"applied", "rolled-back"}]

ShapeInv ==
    /\ batch \in [Batches -> BatchRow] /\ cut \subseteq Batches
    /\ \A b \in Batches :
          batch[b].claim # Absent => batch[b].status \in {"applying", "applied"}
    /\ conv \in [Phones -> ConvRow \cup {Absent}]
    /\ ref \in [Exts -> [conv : Nat, batch : Batches] \cup {Absent}]
    /\ mref \in [Messages -> Batches \cup {Absent}]
    /\ rows \in [Messages -> [conv : Nat, after : SUBSET Batches] \cup {Absent}]
    /\ live \subseteq [conv : Nat, after : SUBSET Batches, seen : Nat]
    /\ records \in Seq(RecordRow) /\ Len(records) \in Nat
    /\ raced \subseteq DOMAIN records
    /\ made \in Nat

Applied == {k \in DOMAIN records : records[k].status = "applied"}
Phone(k) == PhoneOf[records[k].ext]

\* A conversation has one phone and its identifier is never given again.
IdsInv ==
    /\ \A p \in Phones : conv[p] # Absent =>
          /\ conv[p].id <= made
          /\ \A q \in Phones : conv[q] # Absent /\ conv[q].id = conv[p].id => p = q
          /\ \A k \in DOMAIN records : records[k].conv = conv[p].id => Phone(k) = p
    /\ \A l \in live : l.conv <= made
    /\ \A k \in DOMAIN records :
          /\ records[k].conv <= made
          /\ records[k].after.id = records[k].conv
          /\ records[k].before # Absent => records[k].before.id = records[k].conv
          /\ \A l \in DOMAIN records : records[l].conv = records[k].conv => Phone(l) = Phone(k)
    /\ \A e \in Exts : ref[e] # Absent => ref[e].conv \in 1 .. made

\* A record is one of the package, and its batch was cut off before.
PackageInv ==
    \A k \in DOMAIN records :
        LET r == records[k]
        IN  /\ r.ext \in DOMAIN Package[r.batch] /\ r.msgs \subseteq Package[r.batch][r.ext]
            /\ r.after.content = r.batch /\ r.batch \in cut
            /\ batch[r.batch].status # Absent
            /\ r.status = "rolled-back" <=> batch[r.batch].status = "rolled-back"
            /\ \A l \in DOMAIN records :
                  records[l].batch = r.batch /\ records[l].ext = r.ext => l = k

\* What refers to a batch was made by an applied record of it, once.
ReferencesInv ==
    /\ \A k \in Applied : \A m \in records[k].msgs :
          /\ mref[m] = records[k].batch
          /\ \A l \in Applied : m \in records[l].msgs => l = k
          /\ rows[m] # Absent => rows[m].conv = records[k].conv
    /\ \A m \in Messages : mref[m] # Absent =>
          \E k \in AppliedOf(mref[m]) : m \in records[k].msgs
    /\ \A e \in Exts : ref[e] # Absent =>
          \E k \in AppliedOf(ref[e].batch) : records[k].ext = e /\ records[k].newRef

\* The applied records of a conversation that was not raced stand in the order
\* of their versions, the last one at most that of the conversation.
ChainInv ==
    \A k \in Applied : Unraced(records[k].conv) =>
        /\ conv[Phone(k)] # Absent /\ conv[Phone(k)].id = records[k].conv
        /\ records[k].after.version <= conv[Phone(k)].version
        /\ IF records[k].before = Absent THEN records[k].after.version = 1
           ELSE records[k].after.version = records[k].before.version + 1
        /\ \A l \in Applied : k < l /\ records[l].conv = records[k].conv =>
              /\ records[k].after.version < records[l].after.version
              /\ Package[records[k].batch][records[k].ext] \cap records[l].msgs = {}
        /\ \A m \in Package[records[k].batch][records[k].ext] :
              rows[m] # Absent /\ rows[m].conv = records[k].conv
        /\ \/ conv[Phone(k)] = records[k].after
           \/ \E l \in live : l.conv = records[k].conv
           \/ \E l \in DOMAIN records : l # k /\ records[l].conv = records[k].conv

\* Real messages of a conversation an import created came after its cut-off.
LiveInv ==
    \A l \in live : \A k \in Applied :
        records[k].before = Absent /\ records[k].conv = l.conv => records[k].batch \in l.after

\* A batch whose run is over has a record of everything, and its counts.
BatchInv ==
    \A b \in Batches :
        /\ batch[b].status \in {"applied", "rolled-back"} =>
              \A e \in DOMAIN Package[b] : Recorded(b, e)
        /\ batch[b].status = "applied" => batch[b].counts = Counts(b)

\* What a run knows.
JobOK(j) ==
    /\ j.op \in {"idle", "claim", "apply", "write", "fail", "rollback"}
    /\ j.op # "idle" => j.b \in Batches
    /\ j.op = "apply" => j = [op |-> "apply", b |-> j.b, done |-> j.done]
    /\ j.op \in {"claim", "apply", "write"} => j.b \in cut
    /\ j.op \in {"apply", "write"} =>
          /\ batch[j.b].status # Absent
          /\ j.done \subseteq DOMAIN Package[j.b]
          /\ \A e \in j.done : Recorded(j.b, e)
    /\ j.op = "write" =>
          /\ j.e \in DOMAIN Package[j.b]
          /\ j.conv \in ConvRow \cup {Absent}
          /\ j.ref # Absent => j.conv # Absent /\ j.conv.content # "live"

JobsInv == job = [w \in Workers |-> job[w]] /\ \A w \in Workers : JobOK(job[w])

ImportInv == /\ ShapeInv /\ IdsInv /\ PackageInv /\ ReferencesInv /\ ChainInv /\ LiveInv
             /\ BatchInv /\ JobsInv
-------------------------------------------------------------------------------
\* A set of naturals has a least element, a bounded one a greatest.
LEMMA LeastOf ==
    ASSUME NEW S \in SUBSET Nat, S # {}
    PROVE  \E m \in S : \A n \in S : m <= n
<1>1. PICK m \in S : \A n \in S : <<n, m>> \notin OpToRel(<, Nat)
  BY NatLessThanWellFounded, WFMin, Zenon
<1>2. ASSUME NEW n \in S PROVE m <= n
  <2>1. CASE n < m
    <3>1. <<n, m>> \in OpToRel(<, Nat)
      BY <2>1 DEF OpToRel
    <3>2. QED
      BY <3>1, <1>1
  <2>2. QED
    BY <2>1
<1>3. QED
  BY <1>2

LEMMA GreatestOf ==
    ASSUME NEW N \in Nat, NEW S \in SUBSET (1 .. N), S # {}
    PROVE  \E m \in S : \A n \in S : n <= m
<1> DEFINE T == {N - n : n \in S}
<1>1. T \in SUBSET Nat /\ T # {}
  OBVIOUS
<1>2. PICK t \in T : \A u \in T : t <= u
  BY <1>1, LeastOf
<1>3. PICK m \in S : t = N - m
  OBVIOUS
<1>4. ASSUME NEW n \in S PROVE n <= m
  <2>1. N - n \in T
    OBVIOUS
  <2>2. N - m <= N - n
    BY <1>2, <1>3, <2>1
  <2>3. n \in Nat /\ m \in Nat
    OBVIOUS
  <2>4. QED
    BY <2>2, <2>3
<1>5. QED
  BY <1>4

\* What the tables hold, one by one.
LEMMA Shapes ==
    ASSUME ImportInv
    PROVE  /\ batch \in [Batches -> BatchRow] /\ cut \subseteq Batches
           /\ conv \in [Phones -> ConvRow \cup {Absent}]
           /\ DOMAIN records = 1 .. Len(records) /\ Len(records) \in Nat
           /\ \A k \in DOMAIN records : records[k] \in RecordRow
           /\ raced \subseteq DOMAIN records /\ made \in Nat
           /\ job = [w \in Workers |-> job[w]]
           /\ \A w \in Workers : JobOK(job[w])
<1>1. records \in Seq(RecordRow)
  BY DEF ImportInv, ShapeInv
<1>2. job = [w \in Workers |-> job[w]] /\ \A w \in Workers : JobOK(job[w])
  BY DEF ImportInv, JobsInv
<1>3. QED
  BY <1>1, <1>2 DEF ImportInv, ShapeInv

\* What a package brings for a conversation.
LEMMA PackageRows ==
    /\ PhoneOf \in [Exts -> Phones]
    /\ \A b \in Batches : DOMAIN Package[b] \subseteq Exts
    /\ \A b \in Batches : \A e \in DOMAIN Package[b] : Package[b][e] \subseteq Messages
    /\ IsFiniteSet(Messages) /\ "live" \notin Batches
  BY PackagesAreRows

\* The counts of a batch are numbers.
LEMMA CountsTyped ==
    ASSUME ImportInv, NEW b \in Batches
    PROVE  Counts(b) \in Nat \X Nat
<1>1. IsFiniteSet(1 .. Len(records)) /\ AppliedOf(b) \subseteq 1 .. Len(records)
  BY Shapes, FS_Interval DEF AppliedOf
<1>2. Cardinality(AppliedOf(b)) \in Nat
  BY <1>1, FS_Subset, FS_CardinalityType
<1>3. Cardinality({m \in Messages : mref[m] = b}) \in Nat
  BY PackageRows, FS_Subset, FS_CardinalityType
<1>4. QED
  BY <1>2, <1>3 DEF Counts

\* What a step leaves of the runs of the others.
BatchesGoOn ==
    /\ cut \subseteq cut'
    /\ \A b \in Batches : batch[b].status # Absent => batch'[b].status # Absent
    /\ \A b \in Batches : \A e \in Exts : Recorded(b, e) => Recorded(b, e)'

\* What a run knows stays true.
LEMMA RunsGoOn ==
    ASSUME ImportInv, BatchesGoOn, NEW w \in Workers, JobOK(job[w])
    PROVE  job'[w] = job[w] => JobOK(job[w])'
<1> SUFFICES ASSUME job'[w] = job[w] PROVE JobOK(job[w])'
  OBVIOUS
<1> DEFINE j == job[w]
<1>1. j.op \in {"apply", "write"} => j.b \in Batches /\ j.done \subseteq Exts
  BY PackageRows DEF JobOK
<1>2. QED
  BY <1>1 DEF JobOK, BatchesGoOn

\* A step changes one run.
LEMMA OneRunChanges ==
    ASSUME ImportInv, BatchesGoOn, NEW w \in Workers, NEW j,
           job' = [job EXCEPT ![w] = j], JobOK(j)'
    PROVE  JobsInv'
<1>1. /\ job' = [v \in Workers |-> job'[v]] /\ job'[w] = j
      /\ \A v \in Workers : v # w => job'[v] = job[v]
  BY Shapes
<1>2. ASSUME NEW v \in Workers PROVE JobOK(job[v])'
  <2>1. CASE v = w
    BY <1>1, <2>1
  <2>2. CASE v # w
    BY <1>1, <2>2, RunsGoOn, Shapes
  <2>3. QED
    BY <2>1, <2>2
<1>3. QED
  BY <1>1, <1>2 DEF JobsInv

\* A step of the database, the clock or a customer changes none.
LEMMA NoRunChanges ==
    ASSUME ImportInv, BatchesGoOn, UNCHANGED job
    PROVE  JobsInv'
  BY Shapes, RunsGoOn DEF JobsInv
-------------------------------------------------------------------------------
(* The steps that only move batches and runs.                              *)

\* What may become of the row of a batch while the rest stays.
BatchOK(b, r) ==
    /\ r \in BatchRow
    /\ r.claim # Absent => r.status \in {"applying", "applied"}
    /\ batch[b].status # Absent => r.status # Absent
    /\ r.status = "rolled-back" <=> batch[b].status = "rolled-back"
    /\ \/ r.status \notin {"applied", "rolled-back"}
       \/ r.status = batch[b].status /\ r.counts = batch[b].counts
       \/ /\ r.status = "applied" /\ r.counts = Counts(b)
          /\ \A e \in DOMAIN Package[b] : Recorded(b, e)

\* A batch may stay as it is.
LEMMA SameBatchOK ==
    ASSUME ImportInv, NEW b \in Batches
    PROVE  BatchOK(b, batch[b])
  BY DEF ImportInv, ShapeInv, BatchOK

\* A step that touches no row of a conversation moves batches and runs only.
LEMMA DataKept ==
    ASSUME ImportInv, UNCHANGED data, cut \subseteq cut', cut' \subseteq Batches,
           batch' = [b \in Batches |-> batch'[b]],
           \A b \in Batches : BatchOK(b, batch'[b])
    PROVE  /\ BatchesGoOn
           /\ JobsInv' => ImportInv'
<1> USE DEF data
<1>1. /\ UNCHANGED <<conv, ref, mref, rows, live, records, made, raced>>
      /\ Applied' = Applied /\ \A b : AppliedOf(b)' = AppliedOf(b)
      /\ \A b, e : Recorded(b, e)' = Recorded(b, e)
      /\ \A c : Unraced(c)' = Unraced(c)
      /\ \A k : Phone(k)' = Phone(k)
      /\ \A b : Counts(b)' = Counts(b)
  BY DEF Applied, AppliedOf, Recorded, Unraced, Phone, Counts
<1>2. \A b \in Batches : /\ batch[b].status # Absent => batch'[b].status # Absent
                         /\ batch'[b].status = "rolled-back" <=> batch[b].status = "rolled-back"
  BY DEF BatchOK
<1>3. BatchesGoOn
  BY <1>1, <1>2 DEF BatchesGoOn
<1>4. ShapeInv'
  <2>1. batch' \in [Batches -> BatchRow]
    BY DEF BatchOK
  <2>2. \A b \in Batches :
           batch'[b].claim # Absent => batch'[b].status \in {"applying", "applied"}
    BY DEF BatchOK
  <2>3. QED
    BY <1>1, <2>1, <2>2 DEF ImportInv, ShapeInv
<1>5. IdsInv'
  BY <1>1 DEF ImportInv, IdsInv, Phone
<1>6. PackageInv'
  <2>1. \A k \in DOMAIN records : records[k].batch \in Batches
    BY Shapes DEF RecordRow
  <2>2. QED
    BY <1>1, <1>2, <2>1 DEF ImportInv, PackageInv
<1>7. ReferencesInv'
  BY <1>1 DEF ImportInv, ReferencesInv, Applied, AppliedOf
<1>8. ChainInv'
  BY <1>1 DEF ImportInv, ChainInv, Applied, Phone, Unraced
<1>9. LiveInv'
  BY <1>1 DEF ImportInv, LiveInv, Applied
<1>10. BatchInv'
  <2>1. ASSUME NEW b \in Batches
        PROVE  /\ batch'[b].status \in {"applied", "rolled-back"} =>
                     \A e \in DOMAIN Package[b] : Recorded(b, e)
               /\ batch'[b].status = "applied" => batch'[b].counts = Counts(b)
    <3>1. BatchOK(b, batch'[b])
      OBVIOUS
    <3>2. /\ batch[b].status \in {"applied", "rolled-back"} =>
                \A e \in DOMAIN Package[b] : Recorded(b, e)
          /\ batch[b].status = "applied" => batch[b].counts = Counts(b)
      BY DEF ImportInv, BatchInv
    <3>3. QED
      BY <3>1, <3>2 DEF BatchOK
  <2>2. QED
    BY <1>1, <2>1 DEF BatchInv
<1>11. QED
  BY <1>3, <1>4, <1>5, <1>6, <1>7, <1>8, <1>9, <1>10 DEF ImportInv

\* One run goes on, and one batch with it.
LEMMA RunMoves ==
    ASSUME ImportInv, UNCHANGED data, UNCHANGED cut, NEW w \in Workers, NEW j,
           job' = [job EXCEPT ![w] = j], JobOK(j)',
           \/ UNCHANGED batch
           \/ \E b \in Batches : \E r : batch' = [batch EXCEPT ![b] = r] /\ BatchOK(b, r)
    PROVE  ImportInv'
<1>1. batch' = [b \in Batches |-> batch'[b]] /\ \A b \in Batches : BatchOK(b, batch'[b])
  <2>1. CASE UNCHANGED batch
    BY <2>1, Shapes, SameBatchOK
  <2>2. ASSUME NEW b \in Batches, NEW r, batch' = [batch EXCEPT ![b] = r], BatchOK(b, r)
        PROVE  /\ batch' = [a \in Batches |-> batch'[a]]
               /\ \A a \in Batches : BatchOK(a, batch'[a])
    <3>1. \A a \in Batches : batch'[a] = IF a = b THEN r ELSE batch[a]
      BY <2>2, Shapes
    <3>2. ASSUME NEW a \in Batches PROVE BatchOK(a, batch'[a])
      BY <2>2, <3>1, SameBatchOK
    <3>3. QED
      BY <2>2, <3>2, Shapes
  <2>3. QED
    BY <2>1, <2>2
<1>2. cut \subseteq cut' /\ cut' \subseteq Batches
  BY Shapes
<1>3. BatchesGoOn /\ (JobsInv' => ImportInv')
  BY <1>1, <1>2, DataKept
<1>4. QED
  BY <1>3, OneRunChanges

\* The jobs that know nothing of the records.
LEMMA PlainJobs ==
    ASSUME NEW b \in Batches
    PROVE  /\ JobOK(Idle)' /\ JobOK([op |-> "fail", b |-> b])'
           /\ JobOK([op |-> "rollback", b |-> b])'
           /\ \A new : b \in cut' => JobOK([op |-> "claim", b |-> b, new |-> new])'
  BY DEF JobOK, Idle

\* A conversation that is as the last import left it is a batch's.
LEMMA UnchangedMeans ==
    ASSUME ImportInv, NEW e \in Exts, Unchanged(e), ref[e] # Absent
    PROVE  conv[PhoneOf[e]] # Absent /\ conv[PhoneOf[e]].content # "live"
<1> DEFINE of == {k \in DOMAIN records : /\ records[k].conv = ref[e].conv
                                         /\ records[k].status = "applied"}
           last == CHOOSE k \in of : \A l \in of : l <= k
<1>1. of # {} /\ conv[PhoneOf[e]] = records[last].after
  BY DEF Unchanged
<1>2. last \in of
  <2>1. of \in SUBSET (1 .. Len(records)) /\ Len(records) \in Nat
    BY Shapes
  <2>2. \E k \in of : \A l \in of : l <= k
    BY <1>1, <2>1, GreatestOf
  <2>3. QED
    BY <2>2
<1> HIDE DEF last
<1>3. last \in DOMAIN records /\ records[last] \in RecordRow
  BY <1>2, Shapes
<1>4. records[last].after \in ConvRow /\ records[last].after.content \in Batches
  BY <1>3 DEF RecordRow, ImportInv, PackageInv
<1>5. QED
  BY <1>1, <1>4, PackageRows, AbsentIsNoRow

\* A run of apply, from its claim to its end.
LEMMA StartApplyKeeps ==
    ASSUME ImportInv, NEW w \in Workers, NEW b \in Batches, StartApply(w, b)
    PROVE  ImportInv'
<1> DEFINE j == [op |-> "claim", b |-> b, new |-> batch[b].status = Absent]
<1>1. /\ b \in cut /\ job' = [job EXCEPT ![w] = j]
      /\ UNCHANGED data /\ UNCHANGED cut /\ UNCHANGED batch
  BY DEF StartApply, Run
<1>2. JobOK(j)'
  BY <1>1, PlainJobs
<1>3. QED
  BY <1>1, <1>2, RunMoves

\* The claim takes the batch, or does nothing.
LEMMA ClaimKeeps ==
    ASSUME ImportInv, NEW w \in Workers, Claim(w)
    PROVE  ImportInv'
<1> PICK b : b = job[w].b
  OBVIOUS
<1> PICK r : r = [batch[b] EXCEPT !.status = "applying", !.claim = w, !.leased = TRUE]
  OBVIOUS
<1> PICK j : j = [op |-> "apply", b |-> b, done |-> {}]
  OBVIOUS
<1>1. b \in Batches /\ b \in cut
  BY Shapes DEF Claim, JobOK
<1>2. UNCHANGED data /\ UNCHANGED cut
  BY DEF Claim
<1>3. CASE UNCHANGED batch /\ job' = [job EXCEPT ![w] = Idle]
  BY <1>1, <1>2, <1>3, PlainJobs, RunMoves
<1>4. CASE /\ batch[b].status \notin {"applied", "rolled-back"}
           /\ batch' = [batch EXCEPT ![b] = r] /\ job' = [job EXCEPT ![w] = j]
  <2>1. /\ batch[b] \in BatchRow /\ r \in BatchRow
        /\ r.status = "applying" /\ r.claim = w
    <3>1. batch[b] \in BatchRow
      BY <1>1, Shapes
    <3>2. QED
      BY <3>1 DEF BatchRow
  <2>2. BatchOK(b, r)
    BY <1>4, <2>1, AbsentIsNoRow DEF BatchOK
  <2>3. JobOK(j)'
    <3>1. batch'[b].status = "applying" /\ "applying" # Absent
      BY <1>1, <1>4, <2>1, Shapes, AbsentIsNoRow
    <3>2. QED
      BY <1>1, <1>2, <3>1 DEF JobOK
  <2>4. QED
    BY <1>1, <1>2, <1>4, <2>2, <2>3, RunMoves
<1>5. QED
  <2>1. batch[b].status \in {"applied", "rolled-back"} =>
           batch[b].status # Absent /\ ~Claimable(b)
    BY AbsentIsNoRow DEF Claimable
  <2>2. QED
    BY <1>3, <1>4, <2>1 DEF Claim

\* A conversation is read: passed over, refused, or about to be written.
LEMMA ReadConversationKeeps ==
    ASSUME ImportInv, NEW w \in Workers, job[w].op = "apply", ReadConversation(w)
    PROVE  ImportInv'
<1> PICK b : b = job[w].b
  OBVIOUS
<1> PICK r : r = [batch[b] EXCEPT !.leased = TRUE]
  OBVIOUS
<1> DEFINE failed == [op |-> "fail", b |-> b]
           Skip(e) == [op |-> "apply", b |-> b, done |-> job[w].done \cup {e}]
           Store(e) == [op |-> "write", b |-> b, done |-> job[w].done, e |-> e,
                        conv |-> conv[PhoneOf[e]], ref |-> ref[e]]
<1>1. PICK e \in DOMAIN Package[b] :
         /\ IF batch[b].claim # w
            THEN job' = [job EXCEPT ![w] = failed] /\ UNCHANGED batch
            ELSE /\ batch' = [batch EXCEPT ![b].leased = TRUE]
                 /\ job' = [job EXCEPT ![w] =
                      IF RecordedApplied(b, e) THEN Skip(e)
                      ELSE IF ~Unchanged(e) \/ (ref[e] # Absent /\ ~Referenced(e))
                           THEN failed ELSE Store(e)]
         /\ UNCHANGED <<cut, runs, data>>
  BY DEF ReadConversation
<1>2. /\ b \in Batches /\ b \in cut /\ batch[b].status # Absent
      /\ job[w] = [op |-> "apply", b |-> b, done |-> job[w].done]
      /\ job[w].done \subseteq DOMAIN Package[b]
      /\ \A d \in job[w].done : Recorded(b, d)
  BY Shapes DEF JobOK
<1>3. UNCHANGED data /\ UNCHANGED cut /\ \A d : Recorded(b, d)' = Recorded(b, d)
  BY <1>1 DEF data, Recorded
<1>4. UNCHANGED batch \/ batch' = [batch EXCEPT ![b] = r]
  BY <1>1
<1>5. BatchOK(b, r) /\ batch'[b].status # Absent
  <2>1. /\ batch[b] \in BatchRow /\ r \in BatchRow /\ r.status = batch[b].status
        /\ r.claim = batch[b].claim /\ r.counts = batch[b].counts
    <3>1. batch[b] \in BatchRow
      BY <1>2, Shapes
    <3>2. QED
      BY <3>1 DEF BatchRow
  <2>2. BatchOK(b, r)
    BY <1>2, <2>1, SameBatchOK DEF BatchOK
  <2>3. QED
    BY <1>2, <1>4, <2>1, <2>2, Shapes
<1>6. ASSUME NEW j, job' = [job EXCEPT ![w] = j], JobOK(j)' PROVE ImportInv'
  BY <1>2, <1>3, <1>4, <1>5, <1>6, RunMoves
<1>7. CASE job' = [job EXCEPT ![w] = failed]
  BY <1>2, <1>6, <1>7, PlainJobs
<1>8. CASE RecordedApplied(b, e) /\ job' = [job EXCEPT ![w] = Skip(e)]
  <2> PICK j : j = Skip(e)
    OBVIOUS
  <2>1. Recorded(b, e)
    BY <1>8 DEF RecordedApplied, Recorded, AppliedOf
  <2>2. JobOK(j)'
    BY <1>2, <1>3, <1>5, <2>1 DEF JobOK
  <2>3. QED
    BY <1>6, <1>8, <2>2
<1>9. CASE Unchanged(e) /\ job' = [job EXCEPT ![w] = Store(e)]
  <2> PICK j : j = Store(e)
    OBVIOUS
  <2>1. e \in Exts /\ conv[PhoneOf[e]] \in ConvRow \cup {Absent}
    BY <1>2, Shapes, PackageRows
  <2>2. ref[e] # Absent => conv[PhoneOf[e]] # Absent /\ conv[PhoneOf[e]].content # "live"
    BY <1>9, <2>1, UnchangedMeans
  <2>3. JobOK(j)'
    BY <1>2, <1>3, <1>5, <2>1, <2>2 DEF JobOK
  <2>4. QED
    BY <1>6, <1>9, <2>3
<1>10. \/ job' = [job EXCEPT ![w] = failed]
       \/ RecordedApplied(b, e) /\ job' = [job EXCEPT ![w] = Skip(e)]
       \/ Unchanged(e) /\ job' = [job EXCEPT ![w] = Store(e)]
  <2> HIDE DEF failed, Skip, Store
  <2>1. QED
    BY <1>1
<1>11. QED
  BY <1>7, <1>8, <1>9, <1>10

\* The batch becomes applied with the counts of its records.
LEMMA FinishKeeps ==
    ASSUME ImportInv, NEW w \in Workers, job[w].op = "apply", Finish(w)
    PROVE  ImportInv'
<1> PICK b : b = job[w].b
  OBVIOUS
<1> PICK r : r = [Released(b, "applied") EXCEPT !.counts = Counts(b)]
  OBVIOUS
<1>1. /\ b \in Batches /\ \A e \in DOMAIN Package[b] : Recorded(b, e)
      /\ UNCHANGED data /\ UNCHANGED cut
  BY Shapes DEF JobOK, Finish
<1>2. CASE job' = [job EXCEPT ![w] = [op |-> "fail", b |-> b]] /\ UNCHANGED batch
  BY <1>1, <1>2, PlainJobs, RunMoves
<1>3. CASE /\ batch[b].status = "applying" /\ batch' = [batch EXCEPT ![b] = r]
           /\ job' = [job EXCEPT ![w] = Idle]
  <2>1. /\ batch[b] \in BatchRow /\ r \in BatchRow
        /\ r.status = "applied" /\ r.claim = Absent /\ r.counts = Counts(b)
    <3> PICK c : c = Counts(b)
      OBVIOUS
    <3>1. c \in Nat \X Nat /\ batch[b] \in BatchRow
      BY <1>1, Shapes, CountsTyped
    <3>2. r = [Released(b, "applied") EXCEPT !.counts = c]
      OBVIOUS
    <3>3. QED
      BY <3>1, <3>2 DEF BatchRow, Released
  <2>2. BatchOK(b, r)
    BY <1>1, <1>3, <2>1, AbsentIsNoRow DEF BatchOK
  <2>3. QED
    BY <1>1, <1>3, <2>2, PlainJobs, RunMoves
<1>4. QED
  BY <1>2, <1>3 DEF Finish

\* A run that fails gives the batch back.
LEMMA ReleasedOK ==
    ASSUME ImportInv, NEW b \in Batches, NEW r,
           \/ batch[b].status = "applying" /\ r = Released(b, "failed")
           \/ batch[b].status = "applied" /\ r = Released(b, "applied")
           \/ batch[b].status = "applied" /\ \E w \in Workers :
                 r = [batch[b] EXCEPT !.claim = w, !.leased = TRUE]
           \/ r = [batch[b] EXCEPT !.leased = FALSE]
    PROVE  BatchOK(b, r)
<1>1. batch[b] \in BatchRow /\ BatchOK(b, batch[b])
  BY Shapes, SameBatchOK
<1>2. CASE batch[b].status = "applying" /\ r = Released(b, "failed")
  <2>1. r \in BatchRow /\ r.status = "failed" /\ r.claim = Absent
    BY <1>1, <1>2 DEF BatchRow, Released
  <2>2. QED
    BY <1>2, <2>1, AbsentIsNoRow DEF BatchOK
<1>3. CASE batch[b].status = "applied" /\ r = Released(b, "applied")
  <2>1. r \in BatchRow /\ r.status = "applied" /\ r.claim = Absent /\ r.counts = batch[b].counts
    BY <1>1, <1>3 DEF BatchRow, Released
  <2>2. QED
    BY <1>3, <2>1, AbsentIsNoRow DEF BatchOK
<1>4. ASSUME batch[b].status = "applied", NEW w \in Workers,
             r = [batch[b] EXCEPT !.claim = w, !.leased = TRUE]
      PROVE  BatchOK(b, r)
  <2>1. r \in BatchRow /\ r.status = "applied" /\ r.counts = batch[b].counts
    BY <1>1, <1>4 DEF BatchRow
  <2>2. QED
    BY <1>4, <2>1, AbsentIsNoRow DEF BatchOK
<1>5. CASE r = [batch[b] EXCEPT !.leased = FALSE]
  <2>1. /\ r \in BatchRow /\ r.status = batch[b].status /\ r.claim = batch[b].claim
        /\ r.counts = batch[b].counts
    BY <1>1, <1>5 DEF BatchRow
  <2>2. QED
    BY <1>1, <2>1 DEF BatchOK
<1>6. QED
  BY <1>2, <1>3, <1>4, <1>5

\* A run that fails, is interrupted or crashes.
LEMMA FailuresKeep ==
    ASSUME ImportInv, NEW w \in Workers,
           FailApply(w) \/ Interrupt(w) \/ FailRollback(w) \/ Crash(w)
    PROVE  ImportInv'
<1> PICK b : b = job[w].b
  OBVIOUS
<1>1. UNCHANGED data /\ UNCHANGED cut
  BY DEF FailApply, Interrupt, FailRollback, Crash
<1>2. CASE Crash(w)
  BY <1>1, <1>2, PlainJobs, RunMoves DEF Crash, JobOK, Idle
<1>3. CASE Interrupt(w)
  <2>1. b \in Batches
    BY <1>3, Shapes DEF Interrupt, JobOK
  <2>2. job' = [job EXCEPT ![w] = [op |-> "fail", b |-> b]] /\ UNCHANGED batch
    BY <1>3 DEF Interrupt
  <2>3. QED
    BY <1>1, <2>1, <2>2, PlainJobs, RunMoves
<1>4. CASE FailApply(w) \/ FailRollback(w)
  <2>1. b \in Batches /\ job' = [job EXCEPT ![w] = Idle]
    BY <1>4, Shapes DEF FailApply, FailRollback, JobOK
  <2>2. CASE UNCHANGED batch
    BY <1>1, <2>1, <2>2, PlainJobs, RunMoves
  <2>3. ASSUME NEW r, batch' = [batch EXCEPT ![b] = r],
               \/ batch[b].status = "applying" /\ r = Released(b, "failed")
               \/ batch[b].status = "applied" /\ r = Released(b, "applied")
        PROVE  ImportInv'
    BY <1>1, <2>1, <2>3, ReleasedOK, PlainJobs, RunMoves
  <2>4. QED
    BY <1>4, <2>2, <2>3 DEF FailApply, FailRollback
<1>5. QED
  BY <1>2, <1>3, <1>4

\* A run of rollback begins.
LEMMA StartRollbackKeeps ==
    ASSUME ImportInv, NEW w \in Workers, NEW b \in Batches, StartRollback(w, b)
    PROVE  ImportInv'
<1> PICK r : r = [batch[b] EXCEPT !.claim = w, !.leased = TRUE]
  OBVIOUS
<1>1. /\ job' = [job EXCEPT ![w] = [op |-> "rollback", b |-> b]]
      /\ batch[b].status = "applied" /\ UNCHANGED data /\ UNCHANGED cut
  BY DEF StartRollback, Run
<1>2. batch' = [batch EXCEPT ![b] = r]
  BY Shapes DEF StartRollback
<1>3. QED
  BY <1>1, <1>2, ReleasedOK, PlainJobs, RunMoves

\* The operator and the clock.
LEMMA OutsideKeeps ==
    ASSUME ImportInv, NEW b \in Batches, Cut(b) \/ Expire(b)
    PROVE  ImportInv'
<1>1. UNCHANGED data /\ UNCHANGED job /\ cut \subseteq cut' /\ cut' \subseteq Batches
  BY Shapes DEF Cut, Expire
<1>2. batch' = [a \in Batches |-> batch'[a]] /\ \A a \in Batches : BatchOK(a, batch'[a])
  <2>1. CASE Cut(b)
    BY <2>1, Shapes, SameBatchOK DEF Cut
  <2>2. CASE Expire(b)
    <3> PICK r : r = [batch[b] EXCEPT !.leased = FALSE]
      OBVIOUS
    <3>1. batch' = [batch EXCEPT ![b] = r] /\ BatchOK(b, r)
      BY <2>2, Shapes, ReleasedOK DEF Expire
    <3>2. \A a \in Batches : batch'[a] = IF a = b THEN r ELSE batch[a]
      BY <3>1, Shapes
    <3>3. ASSUME NEW a \in Batches PROVE BatchOK(a, batch'[a])
      BY <3>1, <3>2, SameBatchOK
    <3>4. QED
      BY <3>1, <3>3, Shapes
  <2>3. QED
    BY <2>1, <2>2
<1>3. BatchesGoOn /\ (JobsInv' => ImportInv')
  BY <1>1, <1>2, DataKept
<1>4. QED
  BY <1>1, <1>3, NoRunChanges
-------------------------------------------------------------------------------
(* The transaction of a conversation.                                      *)

\* The transaction that finds a collision changes no row.
LEMMA WriteFails ==
    ASSUME ImportInv, NEW w \in Workers, job[w].op = "write", Collides(job[w]),
           WriteConversation(w)
    PROVE  ImportInv'
<1> PICK b : b = job[w].b
  OBVIOUS
<1>1. b \in Batches
  BY Shapes DEF JobOK
<1>2. job' = [job EXCEPT ![w] = [op |-> "fail", b |-> b]] /\ UNCHANGED <<batch, cut, runs, data>>
  BY DEF WriteConversation
<1>3. QED
  BY <1>1, <1>2, PlainJobs, RunMoves

\* What a transaction that commits has found, and what it writes.
LEMMA WriteFinds ==
    ASSUME ImportInv, NEW j, JobOK(j), j.op = "write", ~Collides(j)
    PROVE  /\ j.b \in Batches /\ j.b \in cut /\ batch[j.b].status # Absent
           /\ j.e \in DOMAIN Package[j.b] /\ j.e \in Exts /\ PhoneOf[j.e] \in Phones
           /\ Package[j.b][j.e] \subseteq Messages
           /\ j.conv \in ConvRow \cup {Absent}
           /\ conv[PhoneOf[j.e]] \in ConvRow \cup {Absent}
           /\ j.conv = Absent <=> conv[PhoneOf[j.e]] = Absent
           /\ j.conv # Absent => conv[PhoneOf[j.e]].id = j.conv.id
           /\ j.ref = Absent => ref[j.e] = Absent
           /\ ~Recorded(j.b, j.e)
           /\ batch[j.b].status \notin {"applied", "rolled-back"}
           /\ \A m \in Package[j.b][j.e] :
                 /\ mref[m] = Absent => rows[m] = Absent
                 /\ mref[m] # Absent => /\ rows[m] # Absent
                                        /\ conv[PhoneOf[j.e]] # Absent
                                        /\ rows[m].conv = conv[PhoneOf[j.e]].id
<1>1. /\ j.b \in Batches /\ j.b \in cut /\ batch[j.b].status # Absent
      /\ j.e \in DOMAIN Package[j.b] /\ j.conv \in ConvRow \cup {Absent}
  BY DEF JobOK
<1>2. j.e \in Exts /\ PhoneOf[j.e] \in Phones /\ Package[j.b][j.e] \subseteq Messages
  BY <1>1, PackageRows
<1>3. conv[PhoneOf[j.e]] \in ConvRow \cup {Absent}
  BY <1>2, Shapes
<1>4. /\ j.conv = Absent <=> conv[PhoneOf[j.e]] = Absent
      /\ j.conv # Absent => conv[PhoneOf[j.e]].id = j.conv.id
      /\ j.ref = Absent => ref[j.e] = Absent
      /\ ~Recorded(j.b, j.e)
      /\ \A m \in Package[j.b][j.e] : ~CollidesMessage(m, conv[PhoneOf[j.e]])
  BY DEF Collides
<1>5. batch[j.b].status \notin {"applied", "rolled-back"}
  BY <1>1, <1>4 DEF ImportInv, BatchInv
<1>6. QED
  BY <1>1, <1>2, <1>3, <1>4, <1>5 DEF CollidesMessage

\* The row it makes is new, or the next version of the one there is.
LEMMA ImportedRow ==
    ASSUME ImportInv, NEW j, JobOK(j), j.op = "write", ~Collides(j)
    PROVE  /\ Imported(j) \in ConvRow /\ Imported(j).content = j.b
           /\ IF conv[PhoneOf[j.e]] = Absent
              THEN Imported(j).id = made + 1 /\ Imported(j).version = 1
              ELSE /\ Imported(j).id = conv[PhoneOf[j.e]].id
                   /\ Imported(j).version = conv[PhoneOf[j.e]].version + 1
<1>1. j.b \in Batches /\ conv[PhoneOf[j.e]] \in ConvRow \cup {Absent} /\ made \in Nat
  BY WriteFinds, Shapes
<1>2. CASE conv[PhoneOf[j.e]] = Absent
  <2>1. Imported(j) = [id |-> made + 1, version |-> 1, content |-> j.b]
    BY <1>2 DEF Imported
  <2>2. QED
    BY <1>1, <1>2, <2>1 DEF ConvRow
<1>3. CASE conv[PhoneOf[j.e]] # Absent
  <2> PICK now : now = conv[PhoneOf[j.e]]
    OBVIOUS
  <2>1. Imported(j) = [now EXCEPT !.version = @ + 1, !.content = j.b]
    BY <1>3 DEF Imported
  <2>2. /\ now \in [id : Nat \ {0}, version : Nat \ {0}, content : Batches \cup {"live"}]
        /\ j.b \in Batches
    BY <1>1, <1>3 DEF ConvRow
  <2> PICK x : x = [now EXCEPT !.version = @ + 1]
    OBVIOUS
  <2>3. /\ x \in [id : Nat \ {0}, version : Nat \ {0}, content : Batches \cup {"live"}]
        /\ x.id = now.id /\ x.version = now.version + 1
    BY <2>2
  <2>4. Imported(j) = [x EXCEPT !.content = j.b]
    BY <2>1, <2>2, Zenon
  <2>5. QED
    BY <1>3, <2>2, <2>3, <2>4 DEF ConvRow
<1>4. QED
  BY <1>2, <1>3

\* The transaction that commits, one step for each part of the invariant.
LEMMA ImportWriteKeeps ==
    ASSUME ImportInv, NEW w \in Workers, job[w].op = "write", ~Collides(job[w]),
           WriteConversation(w)
    PROVE  ImportInv'
<1> PICK j : j = job[w]
  OBVIOUS
<1> PICK b, e, p, now : b = j.b /\ e = j.e /\ p = PhoneOf[e] /\ now = conv[p]
  OBVIOUS
<1> PICK after, c : after = Imported(j) /\ c = after.id
  OBVIOUS
<1> PICK new, n, rec : new = NewMessages(j) /\ n = Len(records) + 1 /\ rec = RecordOf(j)
  OBVIOUS
<1>1. JobOK(j) /\ j.op = "write" /\ ~Collides(j)
  BY Shapes
<1>2. /\ b \in Batches /\ b \in cut /\ batch[b].status # Absent
      /\ e \in DOMAIN Package[b] /\ e \in Exts /\ p \in Phones
      /\ Package[b][e] \subseteq Messages
      /\ j.conv \in ConvRow \cup {Absent} /\ now \in ConvRow \cup {Absent}
      /\ j.conv = Absent <=> now = Absent
      /\ j.conv # Absent => now.id = j.conv.id
      /\ j.ref = Absent => ref[e] = Absent
      /\ ~Recorded(b, e) /\ batch[b].status \notin {"applied", "rolled-back"}
  BY <1>1, WriteFinds
<1>3. \A m \in Package[b][e] :
         /\ mref[m] = Absent => rows[m] = Absent
         /\ mref[m] # Absent => rows[m] # Absent /\ now # Absent /\ rows[m].conv = now.id
  BY <1>1, WriteFinds
<1>4. /\ after \in ConvRow /\ after.content = b /\ c \in Nat \ {0}
      /\ IF now = Absent THEN c = made + 1 /\ after.version = 1
         ELSE c = now.id /\ after.version = now.version + 1
  <2>1. /\ after \in ConvRow /\ after.content = b
        /\ IF now = Absent THEN after.id = made + 1 /\ after.version = 1
           ELSE after.id = now.id /\ after.version = now.version + 1
    BY <1>1, ImportedRow
  <2>2. QED
    BY <2>1 DEF ConvRow
<1>5. /\ new = {m \in Package[b][e] : mref[m] = Absent} /\ new \subseteq Messages
      /\ rec = [batch |-> b, ext |-> e, conv |-> c, before |-> j.conv, after |-> after,
                msgs |-> new, newRef |-> j.ref = Absent, status |-> "applied"]
  BY <1>2 DEF NewMessages, RecordOf
<1>6. /\ conv' = [conv EXCEPT ![p] = after]
      /\ made' = IF now = Absent THEN made + 1 ELSE made
      /\ ref' = IF j.ref = Absent THEN [ref EXCEPT ![e] = [conv |-> c, batch |-> b]] ELSE ref
      /\ mref' = [m \in Messages |-> IF m \in new THEN b ELSE mref[m]]
      /\ rows' = [m \in Messages |-> IF m \in new THEN [conv |-> c, after |-> cut] ELSE rows[m]]
      /\ records' = Append(records, rec)
      /\ raced' = IF j.conv = now /\ j.ref = ref[e] THEN raced ELSE raced \cup {n}
      /\ job' = [job EXCEPT ![w] = [op |-> "apply", b |-> b, done |-> j.done \cup {e}]]
      /\ UNCHANGED <<batch, cut, live, runs>>
  BY DEF WriteConversation
<1>7. /\ n \in Nat \ {0} /\ n \notin DOMAIN records
      /\ DOMAIN records' = DOMAIN records \cup {n} /\ DOMAIN records \subseteq Nat
      /\ records'[n] = rec /\ \A k \in DOMAIN records : records'[k] = records[k] /\ k < n
  <2>1. records \in Seq(RecordRow) /\ Len(records) \in Nat
    BY DEF ImportInv, ShapeInv
  <2>2. QED
    BY <2>1, <1>6
<1>8. rec \in RecordRow
  BY <1>2, <1>4, <1>5 DEF RecordRow
<1>9. /\ conv'[p] = after /\ \A q \in Phones : q # p => conv'[q] = conv[q]
      /\ \A m \in Messages : /\ mref'[m] = IF m \in new THEN b ELSE mref[m]
                             /\ m \in new => rows'[m] = [conv |-> c, after |-> cut]
                             /\ m \notin new => rows'[m] = rows[m]
  BY <1>2, <1>6, Shapes
<1>10. /\ \A d \in Exts : d # e => ref'[d] = ref[d]
       /\ IF j.ref = Absent THEN ref[e] = Absent /\ ref'[e] = [conv |-> c, batch |-> b]
          ELSE ref'[e] = ref[e]
  <2>1. ref \in [Exts -> [conv : Nat, batch : Batches] \cup {Absent}]
    BY DEF ImportInv, ShapeInv
  <2>2. QED
    BY <1>2, <1>6, <2>1
<1>11. made' \in Nat /\ made <= made' /\ c <= made' /\ (now = Absent => c > made)
  <2>1. made \in Nat /\ (now # Absent => now.id <= made)
    BY <1>2, Shapes DEF ImportInv, IdsInv
  <2>2. QED
    BY <2>1, <1>4, <1>6
<1>12. ShapeInv'
  <2>1. records' \in Seq(RecordRow) /\ Len(records') \in Nat /\ raced' \subseteq DOMAIN records'
    <3>1. records \in Seq(RecordRow) /\ raced \subseteq DOMAIN records
      BY DEF ImportInv, ShapeInv
    <3>2. QED
      BY <3>1, <1>6, <1>7, <1>8
  <2>2. /\ batch' = batch /\ cut' = cut /\ live' = live /\ made' \in Nat
    BY <1>6, <1>11
  <2>3. conv' \in [Phones -> ConvRow \cup {Absent}]
    BY <1>4, <1>6, Shapes
  <2>4. ref' \in [Exts -> [conv : Nat, batch : Batches] \cup {Absent}]
    <3>1. ref \in [Exts -> [conv : Nat, batch : Batches] \cup {Absent}]
      BY DEF ImportInv, ShapeInv
    <3>2. [conv |-> c, batch |-> b] \in [conv : Nat, batch : Batches]
      BY <1>2, <1>4
    <3>3. QED
      BY <3>1, <3>2, <1>6
  <2>5. mref' \in [Messages -> Batches \cup {Absent}]
    BY <1>2, <1>6 DEF ImportInv, ShapeInv
  <2>6. rows' \in [Messages -> [conv : Nat, after : SUBSET Batches] \cup {Absent}]
    <3>1. [conv |-> c, after |-> cut] \in [conv : Nat, after : SUBSET Batches]
      BY <1>4, Shapes
    <3>2. rows \in [Messages -> [conv : Nat, after : SUBSET Batches] \cup {Absent}]
      BY DEF ImportInv, ShapeInv
    <3>3. QED
      BY <3>1, <3>2, <1>6
  <2>7. QED
    BY <2>1, <2>2, <2>3, <2>4, <2>5, <2>6 DEF ImportInv, ShapeInv
<1>13. \A k \in DOMAIN records : records[k].conv = c => Phone(k) = p
  BY <1>2, <1>4, Shapes DEF ImportInv, IdsInv, RecordRow
<1>14. \A q \in Phones : conv[q] # Absent /\ conv[q].id = c => q = p
  BY <1>2, <1>4, Shapes DEF ImportInv, IdsInv, ConvRow
<1>15. IdsInv'
  <2>1. ASSUME NEW q \in Phones, conv'[q] # Absent
        PROVE  /\ conv'[q].id <= made'
               /\ \A r \in Phones : conv'[r] # Absent /\ conv'[r].id = conv'[q].id => q = r
               /\ \A k \in DOMAIN records' : records'[k].conv = conv'[q].id => Phone(k)' = q
    <3>1. ASSUME NEW k \in DOMAIN records PROVE Phone(k)' = Phone(k) /\ records'[k] = records[k]
      BY <1>7 DEF Phone
    <3>2. Phone(n)' = p /\ records'[n].conv = c
      BY <1>2, <1>5, <1>7 DEF Phone
    <3>3. CASE q = p
      BY <1>4, <1>7, <1>9, <1>11, <1>13, <1>14, <3>1, <3>2, <3>3
    <3>4. CASE q # p
      <4>1. /\ conv'[q] = conv[q] /\ conv[q].id <= made /\ conv[q].id # c
            /\ conv[q].id \in Nat /\ made \in Nat
            /\ \A r \in Phones : conv[r] # Absent /\ conv[r].id = conv[q].id => q = r
            /\ \A k \in DOMAIN records : records[k].conv = conv[q].id => Phone(k) = q
        BY <1>9, <1>14, <2>1, <3>4, Shapes DEF ImportInv, IdsInv, ConvRow
      <4>2. conv'[q].id <= made'
        BY <4>1, <1>11
      <4>3. \A r \in Phones : conv'[r] # Absent /\ conv'[r].id = conv'[q].id => q = r
        BY <4>1, <1>4, <1>9
      <4>4. QED
        BY <4>1, <4>2, <4>3, <1>7, <3>1, <3>2
    <3>5. QED
      BY <3>3, <3>4
  <2>2. \A l \in live' : l.conv <= made'
    <3>1. \A l \in live : l.conv <= made /\ l.conv \in Nat
      BY DEF ImportInv, IdsInv, ShapeInv
    <3>2. QED
      BY <3>1, <1>6, <1>11, Shapes
  <2>3. ASSUME NEW k \in DOMAIN records'
        PROVE  /\ records'[k].conv <= made'
               /\ records'[k].after.id = records'[k].conv
               /\ records'[k].before # Absent => records'[k].before.id = records'[k].conv
               /\ \A l \in DOMAIN records' : records'[l].conv = records'[k].conv => Phone(l)' = Phone(k)'
    <3>1. ASSUME NEW l \in DOMAIN records PROVE Phone(l)' = Phone(l) /\ records'[l] = records[l]
      BY <1>7 DEF Phone
    <3>2. /\ Phone(n)' = p /\ records'[n].conv = c /\ records'[n].after = after
          /\ records'[n].before = j.conv
      BY <1>2, <1>5, <1>7 DEF Phone
    <3>3. CASE k = n
      BY <1>2, <1>4, <1>7, <1>11, <1>13, <3>1, <3>2, <3>3
    <3>4. CASE k # n
      <4>1. /\ k \in DOMAIN records /\ records'[k] = records[k] /\ Phone(k)' = Phone(k)
            /\ records[k].conv <= made /\ records[k].conv \in Nat /\ made \in Nat
            /\ records[k].after.id = records[k].conv
            /\ records[k].before # Absent => records[k].before.id = records[k].conv
            /\ \A l \in DOMAIN records : records[l].conv = records[k].conv => Phone(l) = Phone(k)
        BY <1>7, <3>1, <3>4, Shapes DEF ImportInv, IdsInv, RecordRow
      <4>2. records'[k].conv <= made'
        BY <4>1, <1>11
      <4>3. QED
        BY <4>1, <4>2, <1>7, <1>13, <3>1, <3>2
    <3>5. QED
      BY <3>3, <3>4
  <2>4. ASSUME NEW d \in Exts, ref'[d] # Absent PROVE ref'[d].conv \in 1 .. made'
    <3>1. ref[d] # Absent => ref[d].conv \in 1 .. made
      BY DEF ImportInv, IdsInv
    <3>2. QED
      BY <3>1, <2>4, <1>4, <1>10, <1>11, Shapes
  <2>5. QED
    BY <2>1, <2>2, <2>3, <2>4 DEF IdsInv
<1>16. PackageInv'
  <2>1. ASSUME NEW k \in DOMAIN records'
        PROVE  LET r == records'[k]
               IN  /\ r.ext \in DOMAIN Package[r.batch] /\ r.msgs \subseteq Package[r.batch][r.ext]
                   /\ r.after.content = r.batch /\ r.batch \in cut'
                   /\ batch'[r.batch].status # Absent
                   /\ r.status = "rolled-back" <=> batch'[r.batch].status = "rolled-back"
                   /\ \A l \in DOMAIN records' :
                         records'[l].batch = r.batch /\ records'[l].ext = r.ext => l = k
    <3>1. CASE k = n
      <4>1. records'[k] = rec /\ batch' = batch /\ cut' = cut
        BY <1>6, <1>7, <3>1
      <4>2. \A l \in DOMAIN records' : records'[l].batch = b /\ records'[l].ext = e => l = n
        BY <1>2, <1>7 DEF Recorded
      <4>3. /\ rec.ext = e /\ rec.batch = b /\ rec.msgs = new /\ rec.after = after
            /\ rec.status = "applied"
        BY <1>5
      <4>4. new \subseteq Package[b][e]
        BY <1>5
      <4>5. QED
        BY <1>2, <1>4, <3>1, <4>1, <4>2, <4>3, <4>4
    <3>2. CASE k # n
      <4>1. k \in DOMAIN records /\ records'[k] = records[k]
        BY <1>7, <3>2
      <4>2. ~(records[k].batch = b /\ records[k].ext = e)
        BY <4>1, <1>2 DEF Recorded
      <4>3. records'[n].batch = b /\ records'[n].ext = e
        BY <1>5, <1>7
      <4>4. QED
        BY <1>6, <1>7, <4>1, <4>2, <4>3 DEF ImportInv, PackageInv
    <3>3. QED
      BY <3>1, <3>2
  <2>2. QED
    BY <2>1 DEF PackageInv
<1>17. /\ Applied' = Applied \cup {n} /\ Applied \subseteq DOMAIN records
       /\ \A a : AppliedOf(a)' = IF a = b THEN AppliedOf(a) \cup {n} ELSE AppliedOf(a)
  <2>1. records'[n].status = "applied" /\ records'[n].batch = b
    BY <1>5, <1>7
  <2>2. QED
    BY <1>7, <2>1 DEF Applied, AppliedOf
<1>18. ASSUME NEW k \in Applied
       PROVE  \A m \in records[k].msgs : m \in Messages /\ mref[m] = records[k].batch /\ m \notin new
  <2>1. records[k] \in RecordRow
    BY <1>17, Shapes
  <2>2. \A m \in records[k].msgs : m \in Messages /\ mref[m] = records[k].batch
    BY <2>1 DEF ImportInv, ReferencesInv, RecordRow
  <2>3. records[k].batch # Absent
    BY <2>1, AbsentIsNoRow DEF RecordRow
  <2>4. QED
    BY <1>5, <2>2, <2>3
<1>19. ReferencesInv'
  <2>1. ASSUME NEW k \in Applied', NEW m \in records'[k].msgs
        PROVE  /\ mref'[m] = records'[k].batch
               /\ \A l \in Applied' : m \in records'[l].msgs => l = k
               /\ rows'[m] # Absent => rows'[m].conv = records'[k].conv
    <3>1. CASE k = n
      <4>1. m \in new /\ records'[n].batch = b /\ records'[n].conv = c
        BY <1>5, <1>7, <3>1
      <4>2. \A l \in Applied : m \notin records'[l].msgs
        BY <4>1, <1>7, <1>17, <1>18
      <4>3. rows'[m].conv = c /\ mref'[m] = b
        BY <4>1, <1>5, <1>9
      <4>4. QED
        BY <3>1, <4>1, <4>2, <4>3, <1>17
    <3>2. CASE k # n
      <4>1. k \in Applied /\ records'[k] = records[k]
        BY <3>2, <1>7, <1>17
      <4>2. m \in Messages /\ m \notin new /\ mref'[m] = mref[m] /\ rows'[m] = rows[m]
        BY <4>1, <1>9, <1>18
      <4>3. /\ mref[m] = records[k].batch
            /\ \A l \in Applied : m \in records[l].msgs => l = k
            /\ rows[m] # Absent => rows[m].conv = records[k].conv
        BY <4>1 DEF ImportInv, ReferencesInv
      <4>4. records'[n].msgs = new
        BY <1>5, <1>7
      <4>5. QED
        BY <4>1, <4>2, <4>3, <4>4, <1>7, <1>17
    <3>3. QED
      BY <3>1, <3>2
  <2>2. ASSUME NEW m \in Messages, mref'[m] # Absent
        PROVE  \E k \in DOMAIN records' :
                  /\ records'[k].batch = mref'[m] /\ records'[k].status = "applied"
                  /\ m \in records'[k].msgs
    <3>1. CASE m \in new
      BY <3>1, <1>5, <1>7, <1>9
    <3>2. CASE m \notin new
      <4>1. mref'[m] = mref[m]
        BY <3>2, <1>9
      <4>2. PICK k \in AppliedOf(mref[m]) : m \in records[k].msgs
        BY <2>2, <4>1 DEF ImportInv, ReferencesInv
      <4>3. /\ k \in DOMAIN records' /\ records'[k] = records[k]
            /\ records[k].batch = mref[m] /\ records[k].status = "applied"
        BY <4>2, <1>7 DEF AppliedOf
      <4>4. QED
        BY <4>1, <4>2, <4>3
    <3>3. QED
      BY <3>1, <3>2
  <2>3. ASSUME NEW d \in Exts, ref'[d] # Absent
        PROVE  \E k \in DOMAIN records' :
                  /\ records'[k].batch = ref'[d].batch /\ records'[k].status = "applied"
                  /\ records'[k].ext = d /\ records'[k].newRef
    <3>1. CASE ref'[d] = ref[d]
      <4>1. PICK k \in AppliedOf(ref[d].batch) : records[k].ext = d /\ records[k].newRef
        BY <2>3, <3>1 DEF ImportInv, ReferencesInv
      <4>2. /\ k \in DOMAIN records' /\ records'[k] = records[k]
            /\ records[k].batch = ref[d].batch /\ records[k].status = "applied"
        BY <4>1, <1>7 DEF AppliedOf
      <4>3. QED
        BY <3>1, <4>1, <4>2
    <3>2. CASE ref'[d] # ref[d]
      <4>1. d = e /\ j.ref = Absent /\ ref'[d].batch = b
        BY <3>2, <1>10
      <4>2. rec.newRef = TRUE
        <5> PICK fresh : fresh = (j.ref = Absent)
          OBVIOUS
        <5>1. rec = [batch |-> b, ext |-> e, conv |-> c, before |-> j.conv, after |-> after,
                     msgs |-> new, newRef |-> fresh, status |-> "applied"]
          BY <1>5, Zenon
        <5>2. fresh = TRUE
          BY <4>1
        <5>3. QED
          BY <5>1, <5>2
      <4>3. rec.batch = b /\ rec.status = "applied" /\ rec.ext = e
        BY <1>5
      <4>4. QED
        BY <4>1, <4>2, <4>3, <1>7
    <3>3. QED
      BY <3>1, <3>2
  <2>4. QED
    BY <2>1, <2>2, <2>3 DEF ReferencesInv, AppliedOf
<1>20. /\ \A a : Unraced(a)' => Unraced(a)
       /\ Unraced(c)' => j.conv = now /\ j.ref = ref[e]
  <2>1. raced \subseteq DOMAIN records /\ raced \subseteq raced'
    BY <1>6, Shapes
  <2>2. \A k \in raced : records'[k] = records[k]
    BY <2>1, <1>7
  <2>3. records'[n].conv = c
    BY <1>5, <1>7
  <2>4. j.conv # now \/ j.ref # ref[e] => n \in raced'
    BY <1>6
  <2>5. QED
    BY <2>1, <2>2, <2>3, <2>4 DEF Unraced
<1>21. ASSUME NEW k \in Applied, Unraced(records[k].conv)
       PROVE  /\ conv[Phone(k)] # Absent /\ conv[Phone(k)].id = records[k].conv
              /\ records[k].after.version <= conv[Phone(k)].version
              /\ IF records[k].before = Absent THEN records[k].after.version = 1
                 ELSE records[k].after.version = records[k].before.version + 1
              /\ \A m \in Package[records[k].batch][records[k].ext] :
                    rows[m] # Absent /\ rows[m].conv = records[k].conv
              /\ \/ conv[Phone(k)] = records[k].after
                 \/ \E l \in live : l.conv = records[k].conv
                 \/ \E l \in DOMAIN records : l # k /\ records[l].conv = records[k].conv
  BY <1>21 DEF ImportInv, ChainInv
<1>22. ASSUME NEW k \in Applied, NEW l \in Applied, Unraced(records[k].conv),
              k < l, records[l].conv = records[k].conv
       PROVE  /\ records[k].after.version < records[l].after.version
              /\ Package[records[k].batch][records[k].ext] \cap records[l].msgs = {}
  BY <1>22 DEF ImportInv, ChainInv
<1>23. ASSUME NEW k \in Applied
       PROVE  /\ records'[k] = records[k] /\ Phone(k)' = Phone(k) /\ k \in DOMAIN records /\ k < n
              /\ Phone(k) \in Phones /\ records[k].conv \in Nat /\ records[k] \in RecordRow
              /\ Package[records[k].batch][records[k].ext] \subseteq Messages
  <2>1. k \in DOMAIN records /\ records'[k] = records[k] /\ k < n
    BY <1>7, <1>17
  <2>2. records[k] \in RecordRow /\ Phone(k)' = Phone(k)
    BY <2>1, Shapes DEF Phone
  <2>3. Phone(k) \in Phones /\ records[k].conv \in Nat
    BY <2>2, PackageRows DEF RecordRow, Phone
  <2>4. records[k].ext \in DOMAIN Package[records[k].batch] /\ records[k].batch \in Batches
    BY <2>1, <2>2 DEF ImportInv, PackageInv, RecordRow
  <2>5. QED
    BY <2>1, <2>2, <2>3, <2>4, PackageRows
\* The new record stands at the end of the chain.
<1>24. ASSUME Unraced(c)'
       PROVE  /\ conv'[Phone(n)'] = after /\ records'[n].conv = c /\ records'[n].after = after
              /\ IF records'[n].before = Absent THEN after.version = 1
                 ELSE after.version = records'[n].before.version + 1
              /\ \A m \in Package[records'[n].batch][records'[n].ext] :
                    rows'[m] # Absent /\ rows'[m].conv = c
  <2>1. j.conv = now /\ j.ref = ref[e]
    BY <1>20, <1>24
  <2>2. /\ records'[n].conv = c /\ records'[n].after = after /\ records'[n].before = now
        /\ records'[n].batch = b /\ records'[n].ext = e /\ Phone(n)' = p
    BY <2>1, <1>2, <1>5, <1>7 DEF Phone
  <2>3. \A m \in Package[b][e] : rows'[m] # Absent /\ rows'[m].conv = c
    <3>1. ASSUME NEW m \in Package[b][e] PROVE rows'[m] # Absent /\ rows'[m].conv = c
      <4>1. CASE m \in new
        <5>1. rows'[m] = [conv |-> c, after |-> cut] /\ rows'[m].conv = c
          BY <4>1, <1>5, <1>9
        <5>2. [conv |-> c, after |-> cut] \in [conv : Nat, after : SUBSET Batches]
          BY <1>4, Shapes
        <5>3. QED
          BY <5>1, <5>2, AbsentIsNoRow
      <4>2. CASE m \notin new
        <5>1. mref[m] # Absent /\ m \in Messages
          BY <4>2, <1>2, <1>5
        <5>2. rows[m] # Absent /\ now # Absent /\ rows[m].conv = now.id
          BY <5>1, <1>3
        <5>3. QED
          BY <4>2, <5>1, <5>2, <1>4, <1>9
      <4>3. QED
        BY <4>1, <4>2
    <3>2. QED
      BY <3>1
  <2>4. QED
    BY <2>2, <2>3, <1>4, <1>9
\* The others of the conversation stand before it.
<1>25. ASSUME NEW k \in Applied, Unraced(records[k].conv)
       PROVE  /\ conv'[Phone(k)] # Absent /\ conv'[Phone(k)].id = records[k].conv
              /\ records[k].after.version <= conv'[Phone(k)].version
              /\ records[k].conv = c => records[k].after.version < after.version
              /\ \/ conv'[Phone(k)] = records[k].after
                 \/ \E l \in live : l.conv = records[k].conv
                 \/ \E l \in DOMAIN records' : l # k /\ records'[l].conv = records[k].conv
  <2>1. /\ conv[Phone(k)] # Absent /\ conv[Phone(k)].id = records[k].conv
        /\ records[k].after.version <= conv[Phone(k)].version
    BY <1>21, <1>25
  <2>2. CASE records[k].conv = c
    <3>1. Phone(k) = p
      BY <2>2, <1>13, <1>23
    <3>2. now # Absent /\ conv'[p] = after /\ after.version = now.version + 1 /\ c = now.id
      BY <2>1, <3>1, <1>4, <1>9
    <3>3. now.version \in Nat /\ records[k].after.version \in Nat /\ after # Absent
      BY <3>2, <1>2, <1>4, <1>23, AbsentIsNoRow DEF ConvRow, RecordRow
    <3>4. n \in DOMAIN records' /\ n # k /\ records'[n].conv = c
      BY <1>5, <1>7, <1>17
    <3>5. records[k].after.version <= now.version
      BY <2>1, <3>1
    <3>6. QED
      BY <2>2, <3>1, <3>2, <3>3, <3>4, <3>5, <1>4
  <2>3. CASE records[k].conv # c
    <3>1. Phone(k) # p
      BY <2>1, <2>3, <1>4
    <3>2. conv'[Phone(k)] = conv[Phone(k)]
      BY <3>1, <1>9, <1>23
    <3>3. \A l \in DOMAIN records : l \in DOMAIN records' /\ records'[l] = records[l]
      BY <1>7
    <3>4. \/ conv[Phone(k)] = records[k].after
          \/ \E l \in live : l.conv = records[k].conv
          \/ \E l \in DOMAIN records : l # k /\ records[l].conv = records[k].conv
      BY <1>21, <1>25
    <3>5. QED
      BY <2>1, <2>3, <3>2, <3>3, <3>4
  <2>4. QED
    BY <2>2, <2>3
<1>26. ASSUME NEW k \in Applied, Unraced(records[k].conv)
       PROVE  \A m \in Package[records[k].batch][records[k].ext] :
                 rows'[m] # Absent /\ rows'[m].conv = records[k].conv /\ m \notin new
  <2>1. ASSUME NEW m \in Package[records[k].batch][records[k].ext]
        PROVE  rows'[m] # Absent /\ rows'[m].conv = records[k].conv /\ m \notin new
    <3>1. m \in Messages /\ rows[m] # Absent /\ rows[m].conv = records[k].conv
      BY <1>21, <1>23, <1>26
    <3>2. m \notin new
      BY <3>1, <1>3, <1>5
    <3>3. QED
      BY <3>1, <3>2, <1>9
  <2>2. QED
    BY <2>1
<1>27. ChainInv'
  <2>1. ASSUME NEW k \in Applied', \A i \in raced' : records'[i].conv # records'[k].conv
        PROVE  /\ conv'[Phone(k)'] # Absent /\ conv'[Phone(k)'].id = records'[k].conv
               /\ records'[k].after.version <= conv'[Phone(k)'].version
               /\ IF records'[k].before = Absent THEN records'[k].after.version = 1
                  ELSE records'[k].after.version = records'[k].before.version + 1
               /\ \A l \in Applied' : k < l /\ records'[l].conv = records'[k].conv =>
                     /\ records'[k].after.version < records'[l].after.version
                     /\ Package[records'[k].batch][records'[k].ext] \cap records'[l].msgs = {}
               /\ \A m \in Package[records'[k].batch][records'[k].ext] :
                     rows'[m] # Absent /\ rows'[m].conv = records'[k].conv
               /\ \/ conv'[Phone(k)'] = records'[k].after
                  \/ \E l \in live' : l.conv = records'[k].conv
                  \/ \E l \in DOMAIN records' : l # k /\ records'[l].conv = records'[k].conv
    <3>1. CASE k = n
      <4>1. records'[n].conv = c /\ records'[n].after = after
        BY <1>5, <1>7
      <4>2. Unraced(c)'
        BY <2>1, <3>1, <4>1 DEF Unraced
      <4>3. \A l \in Applied' : ~(n < l)
        BY <1>7, <1>17
      <4>4. after.id = c /\ after.version \in Nat /\ after # Absent
        BY <1>4, AbsentIsNoRow DEF ConvRow
      <4>5. QED
        BY <3>1, <4>1, <4>2, <4>3, <4>4, <1>24
    <3>2. CASE k # n
      <4>1. k \in Applied
        BY <3>2, <1>17
      <4>2. records'[k] = records[k] /\ Phone(k)' = Phone(k)
        BY <4>1, <1>23
      <4>3. PICK d : d = records[k].conv
        OBVIOUS
      <4>4. Unraced(d)
        BY <2>1, <4>2, <4>3, <1>20 DEF Unraced
      <4>5. ASSUME NEW l \in Applied', k < l, records'[l].conv = records[k].conv
            PROVE  /\ records[k].after.version < records'[l].after.version
                   /\ Package[records[k].batch][records[k].ext] \cap records'[l].msgs = {}
        <5>1. CASE l = n
          <6>1. records'[n].conv = c /\ records'[n].after = after /\ records'[n].msgs = new
            BY <1>5, <1>7
          <6>2. QED
            BY <4>1, <4>3, <4>4, <4>5, <5>1, <6>1, <1>25, <1>26
        <5>2. CASE l # n
          BY <4>1, <4>3, <4>4, <4>5, <5>2, <1>17, <1>22, <1>23
        <5>3. QED
          BY <5>1, <5>2
      <4>6. IF records[k].before = Absent THEN records[k].after.version = 1
            ELSE records[k].after.version = records[k].before.version + 1
        BY <4>1, <4>3, <4>4, <1>21
      <4>7. live' = live
        BY <1>6
      <4>8. \A m \in Package[records[k].batch][records[k].ext] :
               rows'[m] # Absent /\ rows'[m].conv = records[k].conv
        BY <4>1, <4>3, <4>4, <1>26
      <4>9. /\ conv'[Phone(k)] # Absent /\ conv'[Phone(k)].id = records[k].conv
            /\ records[k].after.version <= conv'[Phone(k)].version
            /\ \/ conv'[Phone(k)] = records[k].after
               \/ \E l \in live : l.conv = records[k].conv
               \/ \E l \in DOMAIN records' : l # k /\ records'[l].conv = records[k].conv
        BY <4>1, <4>3, <4>4, <1>25
      <4>10. QED
        BY <4>2, <4>5, <4>6, <4>7, <4>8, <4>9, Zenon
    <3>3. QED
      BY <3>1, <3>2
  <2>2. QED
    BY <2>1 DEF ChainInv, Unraced
<1>28. LiveInv'
  <2>1. ASSUME NEW l \in live, NEW k \in Applied', records'[k].before = Absent,
               records'[k].conv = l.conv
        PROVE  records'[k].batch \in l.after
    <3>1. CASE k = n
      <4>1. records'[n].conv = c /\ records'[n].before = j.conv
        BY <1>5, <1>7
      <4>2. c > made
        BY <2>1, <3>1, <4>1, <1>2, <1>11
      <4>3. l.conv <= made /\ l.conv \in Nat /\ made \in Nat
        BY Shapes DEF ImportInv, IdsInv, ShapeInv
      <4>4. QED
        BY <2>1, <3>1, <4>1, <4>2, <4>3, <1>4
    <3>2. CASE k # n
      <4>1. k \in Applied /\ records'[k] = records[k]
        BY <3>2, <1>17, <1>23
      <4>2. QED
        BY <2>1, <4>1 DEF ImportInv, LiveInv
    <3>3. QED
      BY <3>1, <3>2
  <2>2. QED
    BY <2>1, <1>6 DEF LiveInv
<1>29. ASSUME NEW a \in Batches, NEW d, Recorded(a, d) PROVE Recorded(a, d)'
  BY <1>29, <1>7 DEF Recorded
<1>30. BatchInv'
  <2>1. ASSUME NEW a \in Batches, batch[a].status = "applied" PROVE Counts(a)' = Counts(a)
    <3>1. a # b
      BY <2>1, <1>2
    <3>2. AppliedOf(a)' = AppliedOf(a)
      BY <3>1, <1>17
    <3>3. \A m \in Messages : mref'[m] = a <=> mref[m] = a
      <4>1. ASSUME NEW m \in Messages, m \in new PROVE mref[m] # a /\ mref'[m] # a
        BY <3>1, <4>1, <1>5, <1>9, AbsentIsNoRow
      <4>2. QED
        BY <4>1, <1>9
    <3>4. {m \in Messages : mref'[m] = a} = {m \in Messages : mref[m] = a}
      BY <3>3
    <3>5. QED
      BY <3>2, <3>4 DEF Counts
  <2>2. QED
    BY <2>1, <1>6, <1>29 DEF ImportInv, BatchInv
<1>31. JobsInv'
  <2> PICK next : next = [op |-> "apply", b |-> b, done |-> j.done \cup {e}]
    OBVIOUS
  <2>1. Recorded(b, e)'
    <3>1. n \in DOMAIN records' /\ records'[n].batch = b /\ records'[n].ext = e
      BY <1>5, <1>7
    <3>2. QED
      BY <3>1 DEF Recorded
  <2>2. j.done \subseteq DOMAIN Package[b] /\ \A d \in j.done : Recorded(b, d)
    BY <1>1, <1>2 DEF JobOK
  <2>3. JobOK(next)'
    BY <2>1, <2>2, <1>2, <1>6, <1>29 DEF JobOK
  <2>4. BatchesGoOn
    BY <1>6, <1>29 DEF BatchesGoOn
  <2>5. QED
    BY <2>3, <2>4, <1>6, OneRunChanges
<1>32. QED
  BY <1>12, <1>15, <1>16, <1>19, <1>27, <1>28, <1>30, <1>31 DEF ImportInv
-------------------------------------------------------------------------------
(* A real message.                                                         *)

\* A real message starts or continues a conversation, one step for each part.
LEMMA ActivityKeeps ==
    ASSUME ImportInv, NEW p \in Phones, Activity(p)
    PROVE  ImportInv'
<1> PICK now : now = IF conv[p] = Absent THEN [id |-> made + 1, version |-> 1, content |-> "live"]
                     ELSE [conv[p] EXCEPT !.version = @ + 1, !.content = "live"]
  OBVIOUS
<1> PICK c, message : c = now.id /\ message = [conv |-> c, after |-> cut, seen |-> Len(records)]
  OBVIOUS
<1>1. /\ conv' = [conv EXCEPT ![p] = now]
      /\ made' = IF conv[p] = Absent THEN made + 1 ELSE made
      /\ live' = live \cup {message}
      /\ UNCHANGED <<batch, cut, ref, mref, rows, records, job, runs, raced>>
  BY DEF Activity
<1>2. /\ now \in ConvRow /\ c \in Nat \ {0} /\ now # Absent
      /\ IF conv[p] = Absent THEN c = made + 1
         ELSE c = conv[p].id /\ now.version = conv[p].version + 1
  <2>1. made \in Nat /\ conv[p] \in ConvRow \cup {Absent}
    BY Shapes
  <2>2. CASE conv[p] = Absent
    <3> PICK x : x = [id |-> made + 1, version |-> 1, content |-> "live"]
      OBVIOUS
    <3>1. x \in [id : Nat \ {0}, version : Nat \ {0}, content : {"live"}] /\ x.id = made + 1
      BY <2>1
    <3>2. now = x
      BY <2>2, Zenon
    <3>3. QED
      BY <2>1, <2>2, <3>1, <3>2, AbsentIsNoRow DEF ConvRow
  <2>3. CASE conv[p] # Absent
    <3> PICK old, x : old = conv[p] /\ x = [old EXCEPT !.version = @ + 1]
      OBVIOUS
    <3>1. old \in [id : Nat \ {0}, version : Nat \ {0}, content : Batches \cup {"live"}]
      BY <2>1, <2>3 DEF ConvRow
    <3>2. /\ x \in [id : Nat \ {0}, version : Nat \ {0}, content : Batches \cup {"live"}]
          /\ x.id = old.id /\ x.version = old.version + 1
      BY <3>1
    <3>3. now = [x EXCEPT !.content = "live"]
      BY <2>3, <3>1, Zenon
    <3>4. now \in ConvRow /\ now.id = old.id /\ now.version = old.version + 1
      BY <3>2, <3>3 DEF ConvRow
    <3>5. QED
      BY <2>3, <3>4, AbsentIsNoRow DEF ConvRow
  <2>4. QED
    BY <2>2, <2>3
<1>3. /\ conv'[p] = now /\ \A q \in Phones : q # p => conv'[q] = conv[q]
      /\ made \in Nat /\ made' \in Nat /\ made <= made' /\ c <= made'
  <2>1. made \in Nat /\ (conv[p] # Absent => conv[p].id <= made)
    BY Shapes DEF ImportInv, IdsInv
  <2>2. QED
    BY <2>1, <1>1, <1>2, Shapes
<1>4. /\ Applied' = Applied /\ \A b : AppliedOf(b)' = AppliedOf(b)
      /\ \A b, e : Recorded(b, e)' = Recorded(b, e)
      /\ \A d : Unraced(d)' = Unraced(d)
      /\ \A k : Phone(k)' = Phone(k)
      /\ \A b : Counts(b)' = Counts(b)
  BY <1>1 DEF Applied, AppliedOf, Recorded, Unraced, Phone, Counts
<1>5. ShapeInv'
  <2>1. message \in [conv : Nat, after : SUBSET Batches, seen : Nat]
    BY <1>2, Shapes
  <2>2. conv' \in [Phones -> ConvRow \cup {Absent}]
    BY <1>1, <1>2, Shapes
  <2>3. live' \subseteq [conv : Nat, after : SUBSET Batches, seen : Nat]
    BY <2>1, <1>1 DEF ImportInv, ShapeInv
  <2>4. QED
    BY <2>2, <2>3, <1>1, <1>3 DEF ImportInv, ShapeInv
<1>6. \A q \in Phones : conv[q] # Absent /\ conv[q].id = c => q = p
  BY <1>2, <1>3, Shapes DEF ImportInv, IdsInv, ConvRow
<1>7. IdsInv'
  <2>1. ASSUME NEW q \in Phones, conv'[q] # Absent
        PROVE  /\ conv'[q].id <= made'
               /\ \A r \in Phones : conv'[r] # Absent /\ conv'[r].id = conv'[q].id => q = r
               /\ \A k \in DOMAIN records : records[k].conv = conv'[q].id => Phone(k) = q
    <3>1. CASE q = p
      <4>1. \A r \in Phones : conv'[r] # Absent /\ conv'[r].id = c => r = p
        BY <1>3, <1>6
      <4>2. \A k \in DOMAIN records : records[k].conv = c => Phone(k) = p
        BY <1>2, Shapes DEF ImportInv, IdsInv, RecordRow
      <4>3. QED
        BY <3>1, <4>1, <4>2, <1>3
    <3>2. CASE q # p
      <4>1. /\ conv'[q] = conv[q] /\ conv[q].id <= made /\ conv[q].id # c
            /\ conv[q].id \in Nat
            /\ \A r \in Phones : conv[r] # Absent /\ conv[r].id = conv[q].id => q = r
            /\ \A k \in DOMAIN records : records[k].conv = conv[q].id => Phone(k) = q
        BY <1>3, <1>6, <2>1, <3>2, Shapes DEF ImportInv, IdsInv, ConvRow
      <4>2. conv'[q].id <= made'
        BY <4>1, <1>3
      <4>3. QED
        BY <4>1, <4>2, <1>3
    <3>3. QED
      BY <3>1, <3>2
  <2>2. \A l \in live' : l.conv <= made'
    <3>1. \A l \in live : l.conv <= made /\ l.conv \in Nat
      BY DEF ImportInv, IdsInv, ShapeInv
    <3>2. message.conv = c
      OBVIOUS
    <3>3. QED
      BY <3>1, <3>2, <1>1, <1>3
  <2>3. \A k \in DOMAIN records : records[k].conv <= made'
    <3>1. \A k \in DOMAIN records : records[k].conv <= made /\ records[k].conv \in Nat
      BY Shapes DEF ImportInv, IdsInv, RecordRow
    <3>2. QED
      BY <3>1, <1>3
  <2>4. \A e \in Exts : ref[e] # Absent => ref[e].conv \in 1 .. made'
    BY <1>3 DEF ImportInv, IdsInv
  <2>5. QED
    BY <1>1, <1>4, <2>1, <2>2, <2>3, <2>4 DEF ImportInv, IdsInv
<1>8. PackageInv'
  BY <1>1 DEF ImportInv, PackageInv
<1>9. ReferencesInv'
  BY <1>1 DEF ImportInv, ReferencesInv, Applied, AppliedOf
<1>10. ChainInv'
  <2>1. ASSUME NEW k \in Applied, Unraced(records[k].conv)
        PROVE  /\ conv'[Phone(k)] # Absent /\ conv'[Phone(k)].id = records[k].conv
               /\ records[k].after.version <= conv'[Phone(k)].version
               /\ \/ conv'[Phone(k)] = records[k].after
                  \/ \E l \in live' : l.conv = records[k].conv
                  \/ \E l \in DOMAIN records : l # k /\ records[l].conv = records[k].conv
    <3>1. /\ conv[Phone(k)] # Absent /\ conv[Phone(k)].id = records[k].conv
          /\ records[k].after.version <= conv[Phone(k)].version
          /\ \/ conv[Phone(k)] = records[k].after
             \/ \E l \in live : l.conv = records[k].conv
             \/ \E l \in DOMAIN records : l # k /\ records[l].conv = records[k].conv
      BY <2>1 DEF ImportInv, ChainInv
    <3>2. Phone(k) \in Phones /\ records[k].after.version \in Nat
      BY Shapes, PackageRows DEF Applied, RecordRow, ConvRow, Phone
    <3>3. CASE Phone(k) # p
      BY <3>1, <3>2, <3>3, <1>1, <1>3
    <3>4. CASE Phone(k) = p
      <4>1. conv'[p] = now /\ c = conv[p].id /\ now.version = conv[p].version + 1
        BY <3>1, <3>4, <1>2, <1>3
      <4>2. conv[p].version \in Nat
        BY <3>1, <3>4, Shapes DEF ConvRow
      <4>3. message \in live' /\ message.conv = c
        BY <1>1
      <4>4. records[k].after.version <= now.version
        BY <3>1, <3>2, <3>4, <4>1, <4>2
      <4>5. QED
        BY <3>1, <3>4, <4>1, <4>3, <4>4, <1>2
    <3>5. QED
      BY <3>3, <3>4
  <2>2. QED
    BY <2>1, <1>1, <1>4 DEF ImportInv, ChainInv
<1>11. LiveInv'
  <2>1. \A k \in Applied : records[k].batch \in cut
    BY DEF ImportInv, PackageInv, Applied
  <2>2. message.after = cut
    OBVIOUS
  <2>3. QED
    BY <1>1, <1>4, <2>1, <2>2 DEF ImportInv, LiveInv
<1>12. BatchInv'
  BY <1>1, <1>4 DEF ImportInv, BatchInv
<1>13. JobsInv'
  <2>1. BatchesGoOn
    BY <1>1, <1>4 DEF BatchesGoOn
  <2>2. QED
    BY <1>1, <2>1, NoRunChanges
<1>14. QED
  BY <1>5, <1>7, <1>8, <1>9, <1>10, <1>11, <1>12, <1>13 DEF ImportInv
-------------------------------------------------------------------------------
(* The rollback.                                                           *)

\* All records of a batch that is applied are applied.
LEMMA BatchApplied ==
    ASSUME ImportInv, NEW b \in Batches, batch[b].status = "applied"
    PROVE  \A k \in DOMAIN records :
              /\ k \in AppliedOf(b) <=> records[k].batch = b
              /\ k \in AppliedOf(b) => k \in Applied
<1>1. \A k \in DOMAIN records : records[k].status \in {"applied", "rolled-back"}
  BY Shapes DEF RecordRow
<1>2. \A k \in DOMAIN records : records[k].batch = b => records[k].status # "rolled-back"
  BY DEF ImportInv, PackageInv
<1>3. QED
  BY <1>1, <1>2 DEF AppliedOf, Applied

\* Nothing may have been imported over a batch that is undone.
LEMMA LastOfChain ==
    ASSUME ImportInv, NEW b \in Batches, ~Blocked(b), NEW l \in AppliedOf(b),
           Unraced(records[l].conv), NEW k \in Applied, records[k].conv = records[l].conv
    PROVE  /\ k <= l /\ k \in Nat /\ l \in Nat /\ conv[Phone(l)] = records[l].after
           /\ k # l => records[k].after.version < records[l].after.version
<1>1. l \in Applied /\ k \in Nat /\ l \in Nat
  BY Shapes DEF Applied, AppliedOf
<1>2. conv[Phone(l)] = records[l].after
  BY DEF Blocked, Phone
<1>3. Phone(k) = Phone(l)
  BY <1>1 DEF ImportInv, IdsInv, Applied
<1>4. records[k].after.version <= records[l].after.version
  BY <1>2, <1>3 DEF ImportInv, ChainInv
<1>5. records[k].after.version \in Nat /\ records[l].after.version \in Nat
  BY <1>1, Shapes DEF Applied, RecordRow, ConvRow
<1>6. k < l \/ k = l \/ l < k
  BY <1>1
<1>7. CASE l < k
  <2>1. records[l].after.version < records[k].after.version
    BY <1>1, <1>7 DEF ImportInv, ChainInv
  <2>2. QED
    BY <2>1, <1>4, <1>5
<1>8. CASE k < l
  <2>1. records[k].after.version < records[l].after.version
    BY <1>1, <1>8 DEF ImportInv, ChainInv
  <2>2. QED
    BY <2>1, <1>1, <1>2, <1>8
<1>9. CASE k = l
  BY <1>1, <1>2, <1>9
<1>10. QED
  BY <1>6, <1>7, <1>8, <1>9

\* What a conversation becomes.
LEMMA RestoredRow ==
    ASSUME ImportInv, NEW b \in Batches, ~Blocked(b), NEW p \in Phones
    PROVE  \/ /\ Restored(p, AppliedOf(b)) = conv[p]
              /\ \A k \in AppliedOf(b) : Phone(k) # p
           \/ \E l \in AppliedOf(b) : /\ Phone(l) = p /\ conv[p] = records[l].after
                                      /\ Restored(p, AppliedOf(b)) = records[l].before
<1> DEFINE mine == {k \in AppliedOf(b) : PhoneOf[records[k].ext] = p}
           first == CHOOSE k \in mine : \A l \in mine : k <= l
<1>1. CASE mine = {}
  BY <1>1 DEF Restored, Phone
<1>2. CASE mine # {}
  <2>1. mine \in SUBSET Nat
    BY Shapes DEF AppliedOf
  <2>2. \E k \in mine : \A l \in mine : k <= l
    BY <2>1, <1>2, LeastOf
  <2>3. first \in mine
    BY <2>2
  <2>4. Restored(p, AppliedOf(b)) = records[first].before
    BY <1>2 DEF Restored
  <2> HIDE DEF first
  <2>5. conv[p] = records[first].after
    BY <2>3 DEF Blocked
  <2>6. QED
    BY <2>3, <2>4, <2>5 DEF Phone
<1>3. QED
  BY <1>1, <1>2

\* The rollback that is not blocked, one step for each part of the invariant.
LEMMA RollbackKeeps ==
    ASSUME ImportInv, NEW w \in Workers, Rollback(w)
    PROVE  ImportInv'
<1> PICK b, of : b = job[w].b /\ of = AppliedOf(b)
  OBVIOUS
<1> PICK gone, msgs : /\ gone = {records[k].conv : k \in {l \in of : records[l].before = Absent}}
                      /\ msgs = UNION {records[k].msgs : k \in of}
  OBVIOUS
<1> PICK row : row = Released(b, "rolled-back")
  OBVIOUS
<1>1. /\ b \in Batches /\ batch[b].status = "applied" /\ ~Blocked(b)
      /\ batch' = [batch EXCEPT ![b] = row]
      /\ job' = [job EXCEPT ![w] = Idle] /\ UNCHANGED <<cut, runs>>
  BY Shapes DEF Rollback, JobOK
<1>2. /\ conv' = [p \in Phones |-> Restored(p, of)]
      /\ ref' = [e \in Exts |->
           IF \E k \in of : records[k].ext = e /\ records[k].newRef THEN Absent ELSE ref[e]]
      /\ mref' = [m \in Messages |-> IF m \in msgs THEN Absent ELSE mref[m]]
      /\ rows' = [m \in Messages |->
           IF m \in msgs \/ (rows[m] # Absent /\ rows[m].conv \in gone)
           THEN Absent ELSE rows[m]]
      /\ live' = {l \in live : l.conv \notin gone}
      /\ records' = [k \in DOMAIN records |->
           IF k \in of THEN [records[k] EXCEPT !.status = "rolled-back"] ELSE records[k]]
      /\ UNCHANGED <<made, raced>>
  BY DEF Rollback, Undo
<1>3. \A k \in DOMAIN records : /\ k \in of <=> records[k].batch = b
                                /\ k \in of => k \in Applied
  BY <1>1, BatchApplied
<1>4. of \subseteq DOMAIN records /\ of \subseteq Applied /\ Applied \subseteq DOMAIN records
  BY <1>3 DEF AppliedOf, Applied
<1>5. /\ DOMAIN records' = DOMAIN records
      /\ \A k \in DOMAIN records :
            /\ records'[k] \in RecordRow /\ Phone(k)' = Phone(k)
            /\ records'[k].batch = records[k].batch /\ records'[k].ext = records[k].ext
            /\ records'[k].conv = records[k].conv /\ records'[k].before = records[k].before
            /\ records'[k].after = records[k].after /\ records'[k].msgs = records[k].msgs
            /\ records'[k].newRef = records[k].newRef
            /\ records'[k].status = IF k \in of THEN "rolled-back" ELSE records[k].status
            /\ k \notin of => records'[k] = records[k]
  <2>1. DOMAIN records' = DOMAIN records
    BY <1>2
  <2>2. ASSUME NEW k \in DOMAIN records
        PROVE  /\ records'[k] \in RecordRow
               /\ records'[k].batch = records[k].batch /\ records'[k].ext = records[k].ext
               /\ records'[k].conv = records[k].conv /\ records'[k].before = records[k].before
               /\ records'[k].after = records[k].after /\ records'[k].msgs = records[k].msgs
               /\ records'[k].newRef = records[k].newRef
               /\ records'[k].status = IF k \in of THEN "rolled-back" ELSE records[k].status
               /\ k \notin of => records'[k] = records[k]
    <3>1. records[k] \in RecordRow
      BY Shapes
    <3>2. CASE k \notin of
      BY <1>2, <3>1, <3>2
    <3>3. CASE k \in of
      <4>1. records'[k] = [records[k] EXCEPT !.status = "rolled-back"]
        BY <1>2, <3>3
      <4>2. QED
        BY <3>1, <3>3, <4>1 DEF RecordRow
    <3>4. QED
      BY <3>2, <3>3
  <2>3. QED
    BY <2>1, <2>2 DEF Phone
<1>6. Applied' = Applied \ of
  BY <1>4, <1>5 DEF Applied
<1>7. \A a \in Batches : a # b => AppliedOf(a)' = AppliedOf(a)
  BY <1>3, <1>5 DEF AppliedOf
<1>8. \A a, d : Recorded(a, d)' <=> Recorded(a, d)
  BY <1>5 DEF Recorded
<1>9. \A d : Unraced(d)' <=> Unraced(d)
  <2>1. raced' = raced /\ raced \subseteq DOMAIN records
    BY <1>2, Shapes
  <2>2. QED
    BY <2>1, <1>5 DEF Unraced
<1>10. /\ row \in BatchRow /\ row.status = "rolled-back" /\ row.claim = Absent
       /\ batch'[b] = row /\ \A a \in Batches : a # b => batch'[a] = batch[a]
  <2>1. batch[b] \in BatchRow /\ batch' = [batch EXCEPT ![b] = row]
    BY <1>1, <1>2, Shapes
  <2>2. row \in BatchRow /\ row.status = "rolled-back" /\ row.claim = Absent
    BY <2>1 DEF Released, BatchRow
  <2>3. QED
    BY <1>1, <2>1, <2>2, Shapes
<1>11. \A p \in Phones :
          /\ conv'[p] \in ConvRow \cup {Absent}
          /\ conv'[p] # Absent => conv[p] # Absent /\ conv'[p].id = conv[p].id
          /\ (\A k \in of : Phone(k) # p) => conv'[p] = conv[p]
  <2>1. ASSUME NEW p \in Phones
        PROVE  /\ conv'[p] \in ConvRow \cup {Absent}
               /\ conv'[p] # Absent => conv[p] # Absent /\ conv'[p].id = conv[p].id
               /\ (\A k \in of : Phone(k) # p) => conv'[p] = conv[p]
    <3>1. conv'[p] = Restored(p, AppliedOf(b)) /\ conv[p] \in ConvRow \cup {Absent}
      BY <1>2, Shapes
    <3>2. CASE Restored(p, AppliedOf(b)) = conv[p]
      BY <3>1, <3>2
    <3>3. ASSUME NEW l \in AppliedOf(b), Phone(l) = p, conv[p] = records[l].after,
                 Restored(p, AppliedOf(b)) = records[l].before
          PROVE  /\ conv'[p] \in ConvRow \cup {Absent}
                 /\ conv'[p] # Absent => conv[p] # Absent /\ conv'[p].id = conv[p].id
      <4>1. l \in DOMAIN records /\ records[l] \in RecordRow
        BY Shapes DEF AppliedOf
      <4>2. records[l].after \in ConvRow /\ records[l].before \in ConvRow \cup {Absent}
        BY <4>1 DEF RecordRow
      <4>3. /\ records[l].after.id = records[l].conv
            /\ records[l].before # Absent => records[l].before.id = records[l].conv
        BY <4>1 DEF ImportInv, IdsInv
      <4>4. QED
        BY <3>1, <3>3, <4>2, <4>3, AbsentIsNoRow
    <3>4. QED
      BY <3>2, <3>3, <1>1, RestoredRow
  <2>2. QED
    BY <2>1
<1>12. ShapeInv'
  <2>1. batch' \in [Batches -> BatchRow]
    BY <1>1, <1>10, Shapes
  <2>2. \A a \in Batches :
           batch'[a].claim # Absent => batch'[a].status \in {"applying", "applied"}
    BY <1>10 DEF ImportInv, ShapeInv
  <2>3. conv' \in [Phones -> ConvRow \cup {Absent}]
    BY <1>2, <1>11
  <2>4. records' \in Seq(RecordRow) /\ Len(records') \in Nat
    <3>1. DOMAIN records' = 1 .. Len(records) /\ Len(records) \in Nat
      BY <1>5, Shapes
    <3>2. records' = [k \in 1 .. Len(records) |-> records'[k]]
      BY <1>2, Shapes
    <3>3. records' \in [1 .. Len(records) -> RecordRow]
      BY <1>5, <3>1, <3>2
    <3>4. QED
      BY <3>1, <3>3
  <2>5. /\ cut' = cut /\ cut \subseteq Batches /\ made' = made /\ made \in Nat
        /\ raced' = raced /\ raced \subseteq DOMAIN records'
    BY <1>1, <1>2, <1>5, Shapes
  <2>6. /\ ref' \in [Exts -> [conv : Nat, batch : Batches] \cup {Absent}]
        /\ mref' \in [Messages -> Batches \cup {Absent}]
        /\ live' \subseteq [conv : Nat, after : SUBSET Batches, seen : Nat]
    BY <1>2 DEF ImportInv, ShapeInv
  <2>7. rows' \in [Messages -> [conv : Nat, after : SUBSET Batches] \cup {Absent}]
    BY <1>2 DEF ImportInv, ShapeInv
  <2>8. QED
    BY <2>1, <2>2, <2>3, <2>4, <2>5, <2>6, <2>7 DEF ShapeInv
<1>13. IdsInv'
  <2>1. ASSUME NEW p \in Phones, conv'[p] # Absent
        PROVE  /\ conv'[p].id <= made'
               /\ \A q \in Phones : conv'[q] # Absent /\ conv'[q].id = conv'[p].id => p = q
               /\ \A k \in DOMAIN records' : records'[k].conv = conv'[p].id => Phone(k)' = p
    <3>1. conv[p] # Absent /\ conv'[p].id = conv[p].id /\ made' = made
      BY <2>1, <1>2, <1>11
    <3>2. /\ conv[p].id <= made
          /\ \A q \in Phones : conv[q] # Absent /\ conv[q].id = conv[p].id => p = q
          /\ \A k \in DOMAIN records : records[k].conv = conv[p].id => Phone(k) = p
      BY <3>1 DEF ImportInv, IdsInv
    <3>3. \A q \in Phones : conv'[q] # Absent /\ conv'[q].id = conv'[p].id => p = q
      BY <3>1, <3>2, <1>11
    <3>4. \A k \in DOMAIN records' : records'[k].conv = conv'[p].id => Phone(k)' = p
      BY <3>1, <3>2, <1>5
    <3>5. QED
      BY <3>1, <3>2, <3>3, <3>4
  <2>2. /\ \A l \in live' : l.conv <= made'
        /\ \A e \in Exts : ref'[e] # Absent => ref'[e].conv \in 1 .. made'
    BY <1>2 DEF ImportInv, IdsInv
  <2>3. ASSUME NEW k \in DOMAIN records'
        PROVE  /\ records'[k].conv <= made'
               /\ records'[k].after.id = records'[k].conv
               /\ records'[k].before # Absent => records'[k].before.id = records'[k].conv
               /\ \A l \in DOMAIN records' : records'[l].conv = records'[k].conv => Phone(l)' = Phone(k)'
    <3>1. /\ k \in DOMAIN records /\ records[k].conv <= made
          /\ records[k].after.id = records[k].conv
          /\ records[k].before # Absent => records[k].before.id = records[k].conv
          /\ \A l \in DOMAIN records : records[l].conv = records[k].conv => Phone(l) = Phone(k)
      BY <1>5 DEF ImportInv, IdsInv
    <3>2. \A l \in DOMAIN records' : records'[l].conv = records'[k].conv => Phone(l)' = Phone(k)'
      BY <3>1, <1>5
    <3>3. made' = made
      BY <1>2
    <3>4. QED
      BY <3>1, <3>2, <3>3, <1>5
  <2>4. QED
    BY <2>1, <2>2, <2>3 DEF IdsInv
<1>14. PackageInv'
  <2>1. ASSUME NEW k \in DOMAIN records'
        PROVE  LET r == records'[k]
               IN  /\ r.ext \in DOMAIN Package[r.batch] /\ r.msgs \subseteq Package[r.batch][r.ext]
                   /\ r.after.content = r.batch /\ r.batch \in cut'
                   /\ batch'[r.batch].status # Absent
                   /\ r.status = "rolled-back" <=> batch'[r.batch].status = "rolled-back"
                   /\ \A l \in DOMAIN records' :
                         records'[l].batch = r.batch /\ records'[l].ext = r.ext => l = k
    <3>1. /\ k \in DOMAIN records /\ records[k].batch \in Batches
          /\ records[k].ext \in DOMAIN Package[records[k].batch]
          /\ records[k].msgs \subseteq Package[records[k].batch][records[k].ext]
          /\ records[k].after.content = records[k].batch /\ records[k].batch \in cut
          /\ batch[records[k].batch].status # Absent
          /\ records[k].status = "rolled-back" <=> batch[records[k].batch].status = "rolled-back"
          /\ \A l \in DOMAIN records :
                records[l].batch = records[k].batch /\ records[l].ext = records[k].ext => l = k
      BY <1>5, Shapes DEF ImportInv, PackageInv, RecordRow
    <3>2. \A l \in DOMAIN records' :
             records'[l].batch = records'[k].batch /\ records'[l].ext = records'[k].ext => l = k
      BY <3>1, <1>5
    <3>3. /\ batch'[records[k].batch].status # Absent
          /\ records'[k].status = "rolled-back" <=> batch'[records[k].batch].status = "rolled-back"
      BY <3>1, <1>3, <1>5, <1>10, AbsentIsNoRow
    <3>4. QED
      BY <3>1, <3>2, <3>3, <1>1, <1>5
  <2>2. QED
    BY <2>1 DEF PackageInv
<1>15. ASSUME NEW k \in Applied, k \notin of
       PROVE  \A m \in records[k].msgs : m \in Messages /\ m \notin msgs
  <2>1. \A l \in of : \A m \in records[l].msgs : m \notin records[k].msgs
    BY <1>4, <1>15 DEF ImportInv, ReferencesInv
  <2>2. records[k].msgs \subseteq Messages
    BY <1>4, Shapes DEF RecordRow
  <2>3. QED
    BY <2>1, <2>2
<1>16. ReferencesInv'
  <2>1. ASSUME NEW k \in Applied', NEW m \in records'[k].msgs
        PROVE  /\ mref'[m] = records'[k].batch
               /\ \A l \in Applied' : m \in records'[l].msgs => l = k
               /\ rows'[m] # Absent => rows'[m].conv = records'[k].conv
    <3>1. k \in Applied /\ k \notin of /\ records'[k] = records[k]
      BY <1>4, <1>5, <1>6
    <3>2. m \in Messages /\ m \notin msgs
      BY <3>1, <1>15
    <3>3. /\ mref[m] = records[k].batch
          /\ \A l \in Applied : m \in records[l].msgs => l = k
          /\ rows[m] # Absent => rows[m].conv = records[k].conv
      BY <3>1 DEF ImportInv, ReferencesInv
    <3>4. mref'[m] = mref[m] /\ (rows'[m] # Absent => rows'[m] = rows[m])
      BY <3>2, <1>2
    <3>5. \A l \in Applied' : l \in Applied /\ records'[l] = records[l]
      BY <1>4, <1>5, <1>6
    <3>6. QED
      BY <3>1, <3>3, <3>4, <3>5
  <2>2. ASSUME NEW m \in Messages, mref'[m] # Absent
        PROVE  \E k \in DOMAIN records' :
                  /\ records'[k].batch = mref'[m] /\ records'[k].status = "applied"
                  /\ m \in records'[k].msgs
    <3>1. m \notin msgs /\ mref'[m] = mref[m]
      BY <2>2, <1>2
    <3>2. PICK k \in AppliedOf(mref[m]) : m \in records[k].msgs
      BY <2>2, <3>1 DEF ImportInv, ReferencesInv
    <3>3. /\ k \in DOMAIN records /\ k \notin of
          /\ records[k].batch = mref[m] /\ records[k].status = "applied"
      BY <3>1, <3>2 DEF AppliedOf
    <3>4. QED
      BY <3>1, <3>2, <3>3, <1>5
  <2>3. ASSUME NEW d \in Exts, ref'[d] # Absent
        PROVE  \E k \in DOMAIN records' :
                  /\ records'[k].batch = ref'[d].batch /\ records'[k].status = "applied"
                  /\ records'[k].ext = d /\ records'[k].newRef
    <3>1. ref'[d] = ref[d] /\ ~\E k \in of : records[k].ext = d /\ records[k].newRef
      BY <2>3, <1>2
    <3>2. PICK k \in AppliedOf(ref[d].batch) : records[k].ext = d /\ records[k].newRef
      BY <2>3, <3>1 DEF ImportInv, ReferencesInv
    <3>3. /\ k \in DOMAIN records /\ k \notin of
          /\ records[k].batch = ref[d].batch /\ records[k].status = "applied"
      BY <3>1, <3>2 DEF AppliedOf
    <3>4. QED
      BY <3>1, <3>2, <3>3, <1>5
  <2>4. QED
    BY <2>1, <2>2, <2>3 DEF ReferencesInv, AppliedOf
<1>17. ASSUME NEW k \in Applied, k \notin of, Unraced(records[k].conv)
       PROVE  /\ conv'[Phone(k)] # Absent /\ conv'[Phone(k)].id = records[k].conv
              /\ records[k].after.version <= conv'[Phone(k)].version
              /\ records[k].conv \notin gone
              /\ \A l \in of : records[l].conv = records[k].conv =>
                    Package[records[k].batch][records[k].ext] \cap records[l].msgs = {}
              /\ \/ conv'[Phone(k)] = records[k].after
                 \/ \E l \in live : l.conv = records[k].conv
                 \/ \E l \in DOMAIN records : l # k /\ records[l].conv = records[k].conv
  <2> PICK p, c : p = Phone(k) /\ c = records[k].conv
    OBVIOUS
  <2>1. /\ conv[p] # Absent /\ conv[p].id = c /\ records[k].after.version <= conv[p].version
        /\ \/ conv[p] = records[k].after
           \/ \E l \in live : l.conv = c
           \/ \E l \in DOMAIN records : l # k /\ records[l].conv = c
    BY <1>17 DEF ImportInv, ChainInv
  <2>2. p \in Phones /\ k \in DOMAIN records
    BY <1>4, Shapes, PackageRows DEF RecordRow, Phone
  <2>3. ASSUME NEW l \in of, records[l].conv = c
        PROVE  /\ Phone(l) = p /\ k < l /\ conv[p] = records[l].after
               /\ records[k].after.version < records[l].after.version
               /\ records[l].before # Absent
               /\ records[l].after.version = records[l].before.version + 1
               /\ Package[records[k].batch][records[k].ext] \cap records[l].msgs = {}
    <3>1. /\ k <= l /\ k \in Nat /\ l \in Nat /\ conv[Phone(l)] = records[l].after
          /\ k # l => records[k].after.version < records[l].after.version
      BY <1>1, <1>17, <2>3, LastOfChain
    <3>2. l \in Applied /\ Phone(l) = p
      BY <1>4, <2>2, <2>3 DEF ImportInv, IdsInv
    <3>3. k < l
      BY <3>1, <1>17, <2>3
    <3>4. /\ Package[records[k].batch][records[k].ext] \cap records[l].msgs = {}
          /\ IF records[l].before = Absent THEN records[l].after.version = 1
             ELSE records[l].after.version = records[l].before.version + 1
      BY <1>17, <2>3, <3>2, <3>3 DEF ImportInv, ChainInv
    <3>5. records[k].after.version \in Nat \ {0}
      BY <2>2, Shapes DEF RecordRow, ConvRow
    <3>6. QED
      BY <3>1, <3>2, <3>3, <3>4, <3>5
  <2>4. c \notin gone
    BY <2>3
  <2>5. /\ conv'[p] # Absent /\ conv'[p].id = c /\ records[k].after.version <= conv'[p].version
        /\ conv'[p] = conv[p] \/ \E l \in of : records[l].conv = c
    <3>1. CASE \A l \in of : Phone(l) # p
      BY <2>1, <2>2, <3>1, <1>11
    <3>2. CASE Restored(p, of) = conv[p]
      <4>1. conv'[p] = conv[p]
        BY <2>2, <3>2, <1>2
      <4>2. QED
        BY <2>1, <4>1
    <3>3. ASSUME NEW l \in of, Phone(l) = p, conv[p] = records[l].after,
                 Restored(p, of) = records[l].before
          PROVE  /\ conv'[p] # Absent /\ conv'[p].id = c
                 /\ records[k].after.version <= conv'[p].version
                 /\ \E i \in of : records[i].conv = c
      <4>1. l \in DOMAIN records /\ records[l].after.id = records[l].conv
        BY <1>4 DEF ImportInv, IdsInv
      <4>2. records[l].conv = c
        BY <2>1, <3>3, <4>1
      <4>3. /\ records[l].before # Absent
            /\ records[k].after.version < records[l].after.version
            /\ records[l].after.version = records[l].before.version + 1
        BY <2>3, <4>2
      <4>4. conv'[p] = records[l].before
        BY <2>2, <3>3, <1>2
      <4>5. records[l].before.version \in Nat /\ records[k].after.version \in Nat
        BY <2>2, <4>1, <4>3, Shapes DEF RecordRow, ConvRow
      <4>6. conv'[p].id = c
        BY <2>1, <2>2, <4>3, <4>4, <1>11
      <4>7. QED
        BY <4>2, <4>3, <4>4, <4>5, <4>6
    <3>4. QED
      BY <1>1, <2>2, <3>2, <3>3, <3>1, RestoredRow
  <2>6. \/ conv'[p] = records[k].after
        \/ \E l \in live : l.conv = c
        \/ \E l \in DOMAIN records : l # k /\ records[l].conv = c
    BY <2>1, <2>5, <1>4, <1>17
  <2>7. QED
    BY <2>3, <2>4, <2>5, <2>6
<1>18. ASSUME NEW k \in Applied, k \notin of, Unraced(records[k].conv)
       PROVE  \A m \in Package[records[k].batch][records[k].ext] :
                 rows'[m] # Absent /\ rows'[m].conv = records[k].conv
  <2>1. ASSUME NEW m \in Package[records[k].batch][records[k].ext]
        PROVE  rows'[m] # Absent /\ rows'[m].conv = records[k].conv
    <3>1. rows[m] # Absent /\ rows[m].conv = records[k].conv
      BY <1>18 DEF ImportInv, ChainInv
    <3>2. m \in Messages
      BY <1>4, Shapes, PackageRows DEF ImportInv, PackageInv, RecordRow
    <3>3. ASSUME m \in msgs PROVE FALSE
      <4>1. PICK l \in of : m \in records[l].msgs
        BY <3>3
      <4>2. records[l].conv = records[k].conv
        BY <3>1, <4>1, <1>4 DEF ImportInv, ReferencesInv
      <4>3. QED
        BY <2>1, <4>1, <4>2, <1>17, <1>18
    <3>4. records[k].conv \notin gone
      BY <1>17, <1>18
    <3>5. QED
      BY <3>1, <3>2, <3>3, <3>4, <1>2
  <2>2. QED
    BY <2>1
<1>19. ChainInv'
  <2>1. ASSUME NEW k \in Applied', \A i \in raced' : records'[i].conv # records'[k].conv
        PROVE  /\ conv'[Phone(k)'] # Absent /\ conv'[Phone(k)'].id = records'[k].conv
               /\ records'[k].after.version <= conv'[Phone(k)'].version
               /\ IF records'[k].before = Absent THEN records'[k].after.version = 1
                  ELSE records'[k].after.version = records'[k].before.version + 1
               /\ \A l \in Applied' : k < l /\ records'[l].conv = records'[k].conv =>
                     /\ records'[k].after.version < records'[l].after.version
                     /\ Package[records'[k].batch][records'[k].ext] \cap records'[l].msgs = {}
               /\ \A m \in Package[records'[k].batch][records'[k].ext] :
                     rows'[m] # Absent /\ rows'[m].conv = records'[k].conv
               /\ \/ conv'[Phone(k)'] = records'[k].after
                  \/ \E l \in live' : l.conv = records'[k].conv
                  \/ \E l \in DOMAIN records' : l # k /\ records'[l].conv = records'[k].conv
    <3>1. k \in Applied /\ k \notin of /\ k \in DOMAIN records /\ records'[k] = records[k] /\ Phone(k)' = Phone(k)
      BY <1>4, <1>5, <1>6
    <3>2. PICK d : d = records[k].conv
      OBVIOUS
    <3>3. Unraced(d)
      BY <2>1, <3>1, <3>2, <1>9 DEF Unraced
    <3>4. /\ conv'[Phone(k)] # Absent /\ conv'[Phone(k)].id = records[k].conv
          /\ records[k].after.version <= conv'[Phone(k)].version
          /\ records[k].conv \notin gone
          /\ \/ conv'[Phone(k)] = records[k].after
             \/ \E l \in live : l.conv = records[k].conv
             \/ \E l \in DOMAIN records : l # k /\ records[l].conv = records[k].conv
      BY <3>1, <3>2, <3>3, <1>17
    <3>5. \/ conv'[Phone(k)] = records[k].after
          \/ \E l \in live' : l.conv = records[k].conv
          \/ \E l \in DOMAIN records' : l # k /\ records'[l].conv = records[k].conv
      BY <3>4, <1>2, <1>5
    <3>6. IF records[k].before = Absent THEN records[k].after.version = 1
          ELSE records[k].after.version = records[k].before.version + 1
      BY <3>1, <3>2, <3>3 DEF ImportInv, ChainInv
    <3>7. \A m \in Package[records[k].batch][records[k].ext] :
             rows'[m] # Absent /\ rows'[m].conv = records[k].conv
      BY <3>1, <3>2, <3>3, <1>18
    <3>8. ASSUME NEW l \in Applied', k < l, records'[l].conv = records[k].conv
          PROVE  /\ records[k].after.version < records'[l].after.version
                 /\ Package[records[k].batch][records[k].ext] \cap records'[l].msgs = {}
      <4>1. l \in Applied /\ records'[l] = records[l]
        BY <1>4, <1>5, <1>6
      <4>2. QED
        BY <3>1, <3>2, <3>3, <3>8, <4>1 DEF ImportInv, ChainInv
    <3>9. QED
      BY <3>1, <3>4, <3>5, <3>6, <3>7, <3>8, Zenon
  <2>2. QED
    BY <2>1 DEF ChainInv, Unraced
<1>20. LiveInv'
  <2>1. \A k \in Applied' : k \in Applied /\ records'[k] = records[k]
    BY <1>4, <1>5, <1>6
  <2>2. live' \subseteq live
    BY <1>2
  <2>3. QED
    BY <2>1, <2>2 DEF ImportInv, LiveInv
<1>21. BatchInv'
  <2>1. ASSUME NEW a \in Batches, a # b, batch[a].status = "applied"
        PROVE  Counts(a)' = Counts(a)
    <3>1. AppliedOf(a)' = AppliedOf(a)
      BY <2>1, <1>7
    <3>2. \A m \in msgs : mref[m] = b
      BY <1>3, <1>4 DEF ImportInv, ReferencesInv
    <3>3. \A m \in Messages : mref'[m] = a <=> mref[m] = a
      BY <2>1, <3>2, <1>2, AbsentIsNoRow
    <3>4. {m \in Messages : mref'[m] = a} = {m \in Messages : mref[m] = a}
      BY <3>3
    <3>5. QED
      BY <3>1, <3>4 DEF Counts
  <2>2. ASSUME NEW a \in Batches
        PROVE  /\ batch'[a].status \in {"applied", "rolled-back"} =>
                     \A e \in DOMAIN Package[a] : Recorded(a, e)'
               /\ batch'[a].status = "applied" => batch'[a].counts = Counts(a)'
    <3>1. CASE a = b
      BY <3>1, <1>1, <1>8, <1>10 DEF ImportInv, BatchInv
    <3>2. CASE a # b
      BY <2>1, <3>2, <1>8, <1>10 DEF ImportInv, BatchInv
    <3>3. QED
      BY <3>1, <3>2
  <2>3. QED
    BY <2>2 DEF BatchInv
<1>22. JobsInv'
  <2>1. BatchesGoOn
    BY <1>1, <1>8, <1>10, AbsentIsNoRow DEF BatchesGoOn
  <2>2. QED
    BY <1>1, <2>1, PlainJobs, OneRunChanges
<1>23. QED
  BY <1>12, <1>13, <1>14, <1>16, <1>19, <1>20, <1>21, <1>22 DEF ImportInv

\* A rollback leaves what happened after the import.
LEMMA RollbackRemoves ==
    ASSUME ImportInv, NEW w \in Workers, Rollback(w)
    PROVE  /\ live \subseteq live'
           /\ \A k, l \in DOMAIN records :
                 (/\ records[k].status = "applied" /\ records'[k].status = "rolled-back"
                  /\ k < l /\ records[l].status = "applied"
                  /\ records[l].conv = records[k].conv /\ Unraced(records[k].conv))
                   => records'[l].status = "rolled-back"
<1> PICK b, of : b = job[w].b /\ of = AppliedOf(b)
  OBVIOUS
<1>1. /\ ~Blocked(b) /\ b \in Batches
      /\ live' = {l \in live : l.conv \notin {records[k].conv : k \in {l2 \in of : records[l2].before = Absent}}}
      /\ records' = [k \in DOMAIN records |->
           IF k \in of THEN [records[k] EXCEPT !.status = "rolled-back"] ELSE records[k]]
  BY Shapes DEF Rollback, Undo, JobOK
<1>2. ASSUME NEW l \in live, NEW k \in of, records[k].before = Absent, l.conv = records[k].conv
      PROVE  FALSE
  <2>1. k \in Applied /\ records[k].batch = b
    BY DEF AppliedOf, Applied
  <2>2. b \in l.after
    BY <1>2, <2>1 DEF ImportInv, LiveInv
  <2>3. QED
    BY <1>1, <1>2, <2>2 DEF Blocked, BlockedByMessages
<1>3. ASSUME NEW k \in DOMAIN records, NEW l \in DOMAIN records,
             records[k].status = "applied", records'[k].status = "rolled-back",
             k < l, records[l].status = "applied",
             records[l].conv = records[k].conv, Unraced(records[k].conv)
      PROVE  FALSE
  <2>1. k \in of
    BY <1>1, <1>3
  <2>2. l \in Applied
    BY <1>3 DEF Applied
  <2>3. l <= k /\ k \in Nat /\ l \in Nat
    BY <1>1, <1>3, <2>1, <2>2, LastOfChain
  <2>4. QED
    BY <1>3, <2>3
<1>4. QED
  BY <1>1, <1>2, <1>3
-------------------------------------------------------------------------------
(* The invariant.                                                          *)

\* It holds of the empty database ...
LEMMA InitHolds == ImportInit => ImportInv
<1> SUFFICES ASSUME ImportInit PROVE ImportInv
  OBVIOUS
<1> USE DEF ImportInit
<1>1. DOMAIN records = {} /\ records \in Seq(RecordRow) /\ Len(records) = 0
  OBVIOUS
<1>2. \A b \in Batches : batch[b] = Unclaimed
  OBVIOUS
<1>3. ShapeInv
  BY <1>1, <1>2 DEF ShapeInv, Unclaimed, BatchRow
<1>4. IdsInv /\ PackageInv
  BY <1>1 DEF IdsInv, PackageInv
<1>5. ReferencesInv /\ ChainInv /\ LiveInv
  BY <1>1 DEF ReferencesInv, ChainInv, LiveInv, Applied
<1>6. BatchInv
  BY <1>2, AbsentIsNoRow DEF BatchInv, Unclaimed
<1>7. JobsInv
  BY DEF JobsInv, JobOK, Idle
<1>8. QED
  BY <1>3, <1>4, <1>5, <1>6, <1>7 DEF ImportInv

\* ... and after every step.
LEMMA ImportNextKeeps == ImportInv /\ [ImportNext]_importVars => ImportInv'
<1> SUFFICES ASSUME ImportInv, [ImportNext]_importVars PROVE ImportInv'
  OBVIOUS
<1>1. ASSUME NEW w \in Workers, NEW b \in Batches, StartApply(w, b) \/ StartRollback(w, b)
      PROVE  ImportInv'
  BY <1>1, StartApplyKeeps, StartRollbackKeeps
<1>2. ASSUME NEW w \in Workers, Claim(w) PROVE ImportInv'
  BY <1>2, ClaimKeeps
<1>3. ASSUME NEW w \in Workers, Interrupt(w) \/ FailApply(w) \/ FailRollback(w) \/ Crash(w)
      PROVE  ImportInv'
  BY <1>3, FailuresKeep
<1>4. ASSUME NEW w \in Workers, Rollback(w) PROVE ImportInv'
  BY <1>4, RollbackKeeps
<1>5. ASSUME NEW w \in Workers, job[w].op = "apply", ReadConversation(w) \/ Finish(w)
      PROVE  ImportInv'
  BY <1>5, ReadConversationKeeps, FinishKeeps
<1>6. ASSUME NEW w \in Workers, job[w].op = "write", WriteConversation(w) PROVE ImportInv'
  BY <1>6, WriteFails, ImportWriteKeeps
<1>7. ASSUME NEW b \in Batches, Cut(b) \/ Expire(b) PROVE ImportInv'
  BY <1>7, OutsideKeeps
<1>8. ASSUME NEW p \in Phones, Activity(p) PROVE ImportInv'
  BY <1>8, ActivityKeeps
<1>9. CASE UNCHANGED importVars
  <2>1. UNCHANGED data /\ UNCHANGED <<batch, cut, job>>
    BY <1>9 DEF importVars, data
  <2>2. batch' = [b \in Batches |-> batch'[b]] /\ \A b \in Batches : BatchOK(b, batch'[b])
    BY <2>1, Shapes, SameBatchOK
  <2>3. BatchesGoOn /\ (JobsInv' => ImportInv')
    BY <2>1, <2>2, Shapes, DataKept
  <2>4. QED
    BY <2>1, <2>3, NoRunChanges
<1>10. QED
  BY <1>1, <1>2, <1>3, <1>4, <1>5, <1>6, <1>7, <1>8, <1>9 DEF ImportNext

\* It holds of every state: rows, references and records agree, whatever run of
\* the importer stopped where.
THEOREM ImportInvHolds == ImportSpec => []ImportInv
<1>1. ImportInit => ImportInv
  BY InitHolds
<1>2. ImportInv /\ [ImportNext]_importVars => ImportInv'
  BY ImportNextKeeps
<1>3. QED
  BY <1>1, <1>2, PTL DEF ImportSpec

\* What a run checks follows from it: the types,
LEMMA TypesFollow == ImportInv => ImportTypeOK
<1> SUFFICES ASSUME ImportInv PROVE ImportTypeOK
  OBVIOUS
<1>1. ASSUME NEW b \in Batches
      PROVE  /\ batch[b].status \in {Absent, "applying", "applied", "failed", "rolled-back"}
             /\ batch[b].claim \in Workers \cup {Absent}
             /\ batch[b].leased \in BOOLEAN
             /\ batch[b].claim # Absent => batch[b].status \in {"applying", "applied"}
  BY Shapes DEF ImportInv, ShapeInv, BatchRow
<1>2. made \in Nat
  BY Shapes
<1>3. ASSUME NEW row \in ConvRow, row.id <= made PROVE row \in Conversations
  BY <1>2, <1>3 DEF ConvRow, Conversations
<1>4. \A p \in Phones : conv[p] \in Conversations \cup {Absent}
  BY <1>3, Shapes DEF ImportInv, IdsInv
<1>5. ASSUME NEW k \in DOMAIN records
      PROVE  /\ records[k].before \in Conversations \cup {Absent}
             /\ records[k].after \in Conversations
             /\ records[k].status \in {"applied", "rolled-back"}
  <2>1. records[k] \in RecordRow
    BY Shapes
  <2>2. /\ records[k].before \in ConvRow \cup {Absent} /\ records[k].after \in ConvRow
        /\ records[k].status \in {"applied", "rolled-back"}
    BY <2>1 DEF RecordRow
  <2>3. /\ records[k].conv <= made /\ records[k].after.id = records[k].conv
        /\ records[k].before # Absent => records[k].before.id = records[k].conv
    BY DEF ImportInv, IdsInv
  <2>4. QED
    BY <2>2, <2>3, <1>3
<1>6. \A e \in Exts : ref[e] # Absent => ref[e].conv \in 1 .. made
  BY DEF ImportInv, IdsInv
<1>7. \A m \in Messages : mref[m] \in Batches \cup {Absent}
  BY DEF ImportInv, ShapeInv
<1>8. QED
  BY <1>1, <1>4, <1>5, <1>6, <1>7, Shapes DEF ImportTypeOK

\* What the records of an applied batch say of a conversation that was not raced.
LEMMA AppliedRecord ==
    ASSUME ImportInv, NEW b \in Batches, NEW k \in AppliedOf(b), Unraced(records[k].conv)
    PROVE  /\ conv[Phone(k)] # Absent /\ conv[Phone(k)].id = records[k].conv
           /\ Phone(k) \in Phones /\ k \in DOMAIN records /\ k \in Applied
           /\ records[k].batch = b
           /\ records[k].msgs \subseteq Package[b][records[k].ext]
           /\ \A m \in Package[b][records[k].ext] :
                 rows[m] # Absent /\ rows[m].conv = records[k].conv
           /\ \/ conv[Phone(k)] = records[k].after
              \/ \E l \in live : l.conv = records[k].conv
              \/ \E l \in DOMAIN records : l # k /\ records[l].conv = records[k].conv
<1>1. k \in DOMAIN records /\ k \in Applied /\ records[k].batch = b
  BY DEF AppliedOf, Applied
<1>2. Phone(k) \in Phones
  BY <1>1, Shapes, PackageRows DEF RecordRow, Phone
<1>3. records[k].msgs \subseteq Package[b][records[k].ext]
  BY <1>1 DEF ImportInv, PackageInv
<1>4. QED
  BY <1>1, <1>2, <1>3 DEF ImportInv, ChainInv

\* an applied batch that is complete,
LEMMA CompleteFollows == ImportInv => AppliedIsComplete
<1> SUFFICES ASSUME ImportInv, NEW b \in Batches, batch[b].status = "applied",
                    NEW e \in DOMAIN Package[b]
             PROVE  \E k \in AppliedOf(b) :
                       /\ records[k].ext = e
                       /\ Unraced(records[k].conv) =>
                             \A m \in Package[b][e] :
                                rows[m] # Absent /\ rows[m].conv = records[k].conv
  BY DEF AppliedIsComplete
<1>1. Recorded(b, e)
  BY DEF ImportInv, BatchInv
<1>2. PICK k \in DOMAIN records : records[k].batch = b /\ records[k].ext = e
  BY <1>1 DEF Recorded
<1>3. k \in AppliedOf(b)
  BY <1>2, BatchApplied
<1>4. QED
  BY <1>2, <1>3, AppliedRecord

\* and that its own reconciliation finds valid,
LEMMA ReconcilesFollows == ImportInv => AppliedReconciles
<1> SUFFICES ASSUME ImportInv, NEW b \in Batches, batch[b].status = "applied",
                    \A k \in AppliedOf(b) : Unraced(records[k].conv),
                    NEW issue \in Issues(b)
             PROVE  /\ issue = "drift"
                    /\ \E l \in AppliedOf(b) :
                         \/ \E i \in live : i.conv = records[l].conv
                         \/ \E k \in DOMAIN records :
                               k # l /\ records[k].conv = records[l].conv
  BY DEF AppliedReconciles
<1>1. \A k \in AppliedOf(b) : Present(records[k].conv)
  BY AppliedRecord DEF Present
<1>2. \A m \in ReferencedBy(b) : rows[m] # Absent
  <2>1. ASSUME NEW m \in ReferencedBy(b) PROVE rows[m] # Absent
    <3>1. m \in Messages /\ mref[m] = b /\ b # Absent
      BY AbsentIsNoRow DEF ReferencedBy
    <3>2. PICK k \in AppliedOf(b) : m \in records[k].msgs
      BY <3>1 DEF ImportInv, ReferencesInv
    <3>3. QED
      BY <3>2, AppliedRecord
  <2>2. QED
    BY <2>1
<1>3. \A k \in AppliedOf(b) : \A m \in records[k].msgs :
         rows[m] # Absent /\ rows[m].conv = records[k].conv
  BY AppliedRecord
<1>4. ~Unowned(b)
  <2>1. ASSUME NEW e \in Exts, ref[e] # Absent, ref[e].batch = b
        PROVE  \E k \in AppliedOf(b) : records[k].ext = e /\ records[k].newRef
    BY <2>1 DEF ImportInv, ReferencesInv
  <2>2. ASSUME NEW m \in ReferencedBy(b) PROVE \E k \in AppliedOf(b) : m \in records[k].msgs
    <3>1. m \in Messages /\ mref[m] = b /\ b # Absent
      BY AbsentIsNoRow DEF ReferencedBy
    <3>2. QED
      BY <3>1 DEF ImportInv, ReferencesInv
  <2>3. QED
    BY <2>1, <2>2 DEF Unowned
<1>5. batch[b].counts = <<Cardinality(AppliedOf(b)),
                          Cardinality({m \in ReferencedBy(b) : rows[m] # Absent})>>
  <2>1. {m \in ReferencedBy(b) : rows[m] # Absent} = {m \in Messages : mref[m] = b}
    BY <1>2 DEF ReferencedBy
  <2>2. batch[b].counts = Counts(b)
    BY DEF ImportInv, BatchInv
  <2>3. QED
    BY <2>1, <2>2 DEF Counts
<1>6. issue = "drift" /\ \E k \in AppliedOf(b) : Drifted(k)
  BY <1>1, <1>2, <1>3, <1>4, <1>5 DEF Issues
<1>7. PICK l \in AppliedOf(b) : Drifted(l)
  BY <1>6
<1>8. conv[Phone(l)] # records[l].after
  BY <1>7 DEF Drifted, Phone
<1>9. \/ \E i \in live : i.conv = records[l].conv
      \/ \E k \in DOMAIN records : k # l /\ records[k].conv = records[l].conv
  BY <1>8, AppliedRecord
<1>10. QED
  BY <1>6, <1>9

\* and a rolled back one that left nothing.
LEMMA GoneFollows == ImportInv => RolledBackIsGone
<1> SUFFICES ASSUME ImportInv, NEW b \in Batches, batch[b].status = "rolled-back"
             PROVE  AppliedOf(b) = {} /\ \A m \in Messages : mref[m] # b
  BY DEF RolledBackIsGone
<1>1. AppliedOf(b) = {}
  BY DEF ImportInv, PackageInv, AppliedOf
<1>2. b # Absent
  BY AbsentIsNoRow
<1>3. QED
  BY <1>1, <1>2 DEF ImportInv, ReferencesInv

\* What a batch reports is true of the database, whatever failed, crashed, was
\* resumed or rolled back in between.
THEOREM ReportsAreTrue == ImportSpec => []ReportIsTrue
<1>1. ImportInv => ReportIsTrue
  BY TypesFollow, CompleteFollows, ReconcilesFollows, GoneFollows DEF ReportIsTrue
<1>2. QED
  BY <1>1, ImportInvHolds, PTL

\* A step that is no rollback undoes no record.
LEMMA OnlyRollbackRemoves ==
    ASSUME ImportInv, [ImportNext]_importVars, \A w \in Workers : ~Rollback(w)
    PROVE  live \subseteq live' /\ \A k \in DOMAIN records : records'[k] = records[k]
<1>1. ASSUME NEW w \in Workers, WriteConversation(w)
      PROVE  live' = live /\ \A k \in DOMAIN records : records'[k] = records[k]
  <2>1. CASE Collides(job[w])
    BY <1>1, <2>1 DEF WriteConversation, data
  <2>2. CASE ~Collides(job[w])
    <3>1. records' = Append(records, RecordOf(job[w])) /\ live' = live
      BY <1>1, <2>2 DEF WriteConversation
    <3>2. records \in Seq(RecordRow)
      BY DEF ImportInv, ShapeInv
    <3>3. QED
      BY <3>1, <3>2
  <2>3. QED
    BY <2>1, <2>2
<1>2. ASSUME NEW p \in Phones, Activity(p) PROVE live \subseteq live' /\ records' = records
  BY <1>2 DEF Activity
<1>3. UNCHANGED data => live' = live /\ records' = records
  BY DEF data
<1>4. ASSUME NEW w \in Workers, NEW b \in Batches, StartApply(w, b) \/ StartRollback(w, b)
      PROVE  UNCHANGED data
  BY <1>4 DEF StartApply, StartRollback
<1>5. ASSUME NEW w \in Workers,
             \/ Claim(w) \/ Interrupt(w) \/ FailApply(w) \/ FailRollback(w) \/ Crash(w)
             \/ ReadConversation(w) \/ Finish(w)
      PROVE  UNCHANGED data
  BY <1>5 DEF Claim, Interrupt, FailApply, FailRollback, Crash, ReadConversation, Finish
<1>6. ASSUME NEW b \in Batches, Cut(b) \/ Expire(b) PROVE UNCHANGED data
  BY <1>6 DEF Cut, Expire
<1>7. CASE UNCHANGED importVars
  BY <1>7 DEF importVars
<1>8. QED
  BY <1>1, <1>2, <1>3, <1>4, <1>5, <1>6, <1>7 DEF ImportNext

\* A rollback removes only what its batch created, and not under a later import.
THEOREM RollbacksKeepActivity == ImportSpec => RollbackKeepsActivity
<1> DEFINE Kept == /\ live \subseteq live'
                   /\ \A k, l \in DOMAIN records :
                         (/\ records[k].status = "applied" /\ records'[k].status = "rolled-back"
                          /\ k < l /\ records[l].status = "applied"
                          /\ records[l].conv = records[k].conv /\ Unraced(records[k].conv))
                           => records'[l].status = "rolled-back"
<1>1. ImportInv /\ [ImportNext]_importVars => [Kept]_importVars
  <2> SUFFICES ASSUME ImportInv, [ImportNext]_importVars PROVE Kept
    OBVIOUS
  <2>1. ASSUME NEW w \in Workers, Rollback(w) PROVE Kept
    BY <2>1, RollbackRemoves
  <2>2. CASE \A w \in Workers : ~Rollback(w)
    BY <2>2, OnlyRollbackRemoves
  <2>3. QED
    BY <2>1, <2>2
<1>2. QED
  BY <1>1, ImportInvHolds, PTL DEF ImportSpec, RollbackKeepsActivity

\* Only a conversation that is written adds a record.
LEMMA RecordsGrow ==
    ASSUME ImportInv, [ImportNext]_importVars, Len(records') > Len(records)
    PROVE  \E w \in Workers : job[w].op = "write" /\ WriteConversation(w) /\ ~Collides(job[w])
<1>1. ImportInv' /\ Len(records) \in Nat /\ Len(records') \in Nat
  BY ImportNextKeeps, Shapes DEF ImportInv, ShapeInv
<1>2. ASSUME NEW w \in Workers, Rollback(w) PROVE FALSE
  <2>1. DOMAIN records' = DOMAIN records
    BY <1>2 DEF Rollback, Undo
  <2>2. DOMAIN records = 1 .. Len(records) /\ DOMAIN records' = 1 .. Len(records')
    BY <1>1, Shapes DEF ImportInv, ShapeInv
  <2>3. QED
    BY <1>1, <2>1, <2>2
<1>3. records' # records
  BY <1>1
<1>4. ASSUME NEW w \in Workers, WriteConversation(w), Collides(job[w]) PROVE records' = records
  BY <1>4 DEF WriteConversation, data
<1>5. ASSUME NEW p \in Phones, Activity(p) PROVE records' = records
  BY <1>5 DEF Activity
<1>6. ASSUME NEW w \in Workers, NEW b \in Batches, StartApply(w, b) \/ StartRollback(w, b)
      PROVE  records' = records
  BY <1>6 DEF StartApply, StartRollback, data
<1>7. ASSUME NEW w \in Workers,
             \/ Claim(w) \/ Interrupt(w) \/ FailApply(w) \/ FailRollback(w) \/ Crash(w)
             \/ ReadConversation(w) \/ Finish(w)
      PROVE  records' = records
  BY <1>7 DEF Claim, Interrupt, FailApply, FailRollback, Crash, ReadConversation, Finish, data
<1>8. ASSUME NEW b \in Batches, Cut(b) \/ Expire(b) PROVE records' = records
  BY <1>8 DEF Cut, Expire, data
<1>9. CASE UNCHANGED importVars
  BY <1>3, <1>9 DEF importVars
<1>10. QED
  BY <1>2, <1>3, <1>4, <1>5, <1>6, <1>7, <1>8, <1>9 DEF ImportNext

\* What a conversation was that an import wrote over.
LEMMA WriteOverwrites ==
    ASSUME ImportInv, NEW w \in Workers, job[w].op = "write", WriteConversation(w),
           ~Collides(job[w]), Len(records') \notin raced'
    PROVE  \/ records'[Len(records')].newRef
           \/ conv[PhoneOf[records'[Len(records')].ext]].content # "live"
<1> PICK j, n : j = job[w] /\ n = Len(records) + 1
  OBVIOUS
<1>1. /\ records' = Append(records, RecordOf(j))
      /\ raced' = IF j.conv = conv[PhoneOf[j.e]] /\ j.ref = ref[j.e] THEN raced
                  ELSE raced \cup {n}
  BY DEF WriteConversation
<1>2. Len(records') = n /\ records'[n] = RecordOf(j)
  <2>1. records \in Seq(RecordRow)
    BY DEF ImportInv, ShapeInv
  <2>2. QED
    BY <1>1, <2>1
<1>3. j.conv = conv[PhoneOf[j.e]]
  BY <1>1, <1>2
<1>4. CASE j.ref = Absent
  <2> PICK fresh : fresh = (j.ref = Absent)
    OBVIOUS
  <2>1. RecordOf(j) =
           [batch |-> j.b, ext |-> j.e, conv |-> Imported(j).id, before |-> j.conv,
            after |-> Imported(j), msgs |-> NewMessages(j), newRef |-> fresh, status |-> "applied"]
    BY Zenon DEF RecordOf
  <2>2. fresh = TRUE
    BY <1>4
  <2>3. QED
    BY <1>2, <2>1, <2>2
<1>5. CASE j.ref # Absent
  <2>1. j.conv.content # "live"
    BY <1>5, Shapes DEF JobOK
  <2>2. RecordOf(j).ext = j.e
    BY DEF RecordOf
  <2>3. QED
    BY <1>2, <1>3, <2>1, <2>2
<1>6. QED
  BY <1>4, <1>5

\* An import does not overwrite a conversation that went on after the last one.
THEOREM ImportsKeepActivity == ImportSpec => ImportKeepsActivity
<1>1. ASSUME ImportInv, [ImportNext]_importVars
      PROVE  LET n == Len(records')
             IN  n > Len(records) /\ n \notin raced' =>
                   \/ records'[n].newRef
                   \/ conv[PhoneOf[records'[n].ext]].content # "live"
  BY <1>1, RecordsGrow, WriteOverwrites
<1>2. QED
  BY <1>1, ImportInvHolds, PTL DEF ImportSpec, ImportKeepsActivity

(***************************************************************************)
(* HistoryImport: the invariant.  Requests and jobs hold copies of the     *)
(* manifest and write them back later, so what is said of the manifest is  *)
(* said of every copy, and only of what the tenant has: which grows.       *)
(***************************************************************************)
Stages == {"none", "scheduled", "claimed", "run", "publish", "carry", "chunk", "save", "late",
           "fail", "failed", "ending", "released"}
Busy(t) == t.stage \notin {"none", "scheduled", "released"}
Publishing == {"preview", "validate", "media"}
LockOperations ==
    {"idle", "append", "record", "chunk", "create", "complete", "backup", "close", "resolve",
     "validating", "archive", "apply", "cancel", "drop"} \cup Publishing

Manifest ==
    [status : BatchStatuses, backup : BOOLEAN,
     db : {Nil, "uploading", "processing", "completed", "failed"}, did : DbUploads \cup {Nil},
     cmp : {Nil, "processing", "ready", "failed"}, pending : 0 .. Cardinality(Divergent),
     div : BOOLEAN, cutoff : BOOLEAN,
     media : {Nil, "uploading", "validating", "ready", "processing", "completed", "failed"},
     mid : MediaUploads \cup {Nil}]
Session == [status : SessionStatuses, file : Seq(Nat), received : Nat]
Decisions(D) == [D -> {Nil, "keep-existing", "use-backup"}]

\* What the tenant has of a backup: all but these messages, and a decision
\* about every divergent one but these.
Brought(ids) == \A m \in BackupMessages \ ids : history[m] # "absent"
Decided(d) == history[d] = "backup" \/ d \in accepted
DecidedBut(D) == \A d \in Divergent \ D : Decided(d)

\* What a manifest says is true, whoever has a copy of it.
ManifestOK(m) ==
    /\ m \in Manifest
    /\ m.status = "applied" => Brought({}) /\ DecidedBut({})
    /\ m.media = "completed" => attached = BackupMessages

TenantInv ==
    /\ history \in [BackupMessages -> {"absent", "existing", "backup"}]
    /\ \A d \in Divergent : history[d] # "absent"
    /\ accepted \subseteq Divergent /\ attached \subseteq BackupMessages

\* What a comparison left is still the whole difference, but for what was brought.
DiskInv ==
    /\ disk = [db |-> disk.db, ids |-> disk.ids, refs |-> disk.refs, div |-> disk.div]
    /\ IF disk.ids = Nil THEN disk.div = Nil
       ELSE /\ disk.ids \in SUBSET BackupMessages /\ Brought(disk.ids)
            /\ \E D \in SUBSET Divergent : disk.div \in Decisions(D) /\ DecidedBut(D)

UploadInv ==
    /\ uploads \in [Uploads -> Session]
    /\ \A u \in Uploads : uploads[u].received <= Chunks[u]

\* What holds of a request that has the lock, and of a job.
HandOK(h) ==
    /\ h.op \in LockOperations
    /\ h = Unlocked \/ h = [op |-> h.op, up |-> h.up, new |-> h.new, then |-> h.then,
                            early |-> h.early]
    /\ h.op \in {"append", "record"} =>
          h.up \in Uploads /\ ManifestOK(h.new.man) /\ h.new.n \in 1 .. Chunks[h.up]
    /\ h.op \notin {"idle", "append", "record"} => ManifestOK(h.new)
    /\ h.op = "cancel" => spent.cancelled

TaskOK(j, t) ==
    /\ t.stage \in Stages
    /\ t.stage \in {"claimed", "failed"} => ManifestOK(t.snap)
    /\ t.stage = "publish" /\ j[1] = "preview" => t.found \in 0 .. Cardinality(Divergent)
    /\ t.stage = "publish" /\ j[1] = "media" => attached = BackupMessages
    /\ t.stage \in {"carry", "chunk", "save", "late"} =>
          /\ t = [stage |-> t.stage, snap |-> t.snap, ids |-> t.ids, div |-> t.div]
          /\ ManifestOK(t.snap)
          /\ t.ids \subseteq BackupMessages /\ Brought(t.ids)
          /\ DOMAIN t.div \subseteq Divergent /\ DecidedBut(DOMAIN t.div)
          /\ t.stage # "carry" => DOMAIN t.div = {}

\* A job that publishes waits for its lock.
Linked(h, t) ==
    h.op \in Publishing =>
        <<h.op, h.up>> \in Jobs /\ t[<<h.op, h.up>>].stage \in {"publish", "fail"}

HandInv ==
    /\ hand = [i \in Instances |-> hand[i]]
    /\ \A i \in Instances : HandOK(hand[i]) /\ Linked(hand[i], task[i])

TaskInv ==
    /\ task = [i \in Instances |-> [j \in Jobs |-> task[i][j]]]
    /\ \A i \in Instances : \A j \in Jobs : TaskOK(j, task[i][j])

\* The lease is with the one job that works, unless somebody cancelled.
LeaseInv ==
    /\ lease \in [owner : Instances \cup {Nil, "dead"}, live : BOOLEAN]
    /\ ~spent.cancelled =>
          \A i \in Instances : \A j \in Jobs : Busy(task[i][j]) =>
              /\ lease.owner = i /\ lease.live
              /\ \A k \in Jobs : Busy(task[i][k]) => k = j

SpentInv == spent \in [crashes : Nat, detours : Nat, cancelled : BOOLEAN]

ManifestInv == /\ ManifestOK(man) /\ TenantInv /\ DiskInv /\ UploadInv /\ SpentInv
               /\ HandInv /\ TaskInv /\ LeaseInv

\* The tenant only gets more of the backup, and what was cancelled stays so.
Grows ==
    /\ TenantInv' /\ SpentInv' /\ (spent.cancelled => spent'.cancelled)
    /\ \A m \in BackupMessages : history[m] # "absent" => history'[m] # "absent"
    /\ \A d \in Divergent : Decided(d) => Decided(d)'
    /\ attached \subseteq attached'

\* So what is said of it stays true.
LEMMA TruthStays ==
    ASSUME Grows
    PROVE  /\ \A m : ManifestOK(m) => ManifestOK(m)'
           /\ \A ids : Brought(ids) => Brought(ids)'
           /\ \A D : DecidedBut(D) => DecidedBut(D)'
           /\ \A h : HandOK(h) => HandOK(h)'
           /\ \A j, t : TaskOK(j, t) => TaskOK(j, t)'
<1>1. \A ids : Brought(ids) => Brought(ids)'
  BY DEF Grows, Brought
<1>2. \A D : DecidedBut(D) => DecidedBut(D)'
  BY DEF Grows, DecidedBut
<1>3. attached = BackupMessages => attached' = BackupMessages
  BY DEF Grows, TenantInv
<1>4. ASSUME NEW m, ManifestOK(m) PROVE ManifestOK(m)'
  BY <1>1, <1>2, <1>3, <1>4 DEF ManifestOK
<1>5. ASSUME NEW h, HandOK(h) PROVE HandOK(h)'
  BY <1>4, <1>5 DEF HandOK, Grows
<1>6. ASSUME NEW j, NEW t, TaskOK(j, t) PROVE TaskOK(j, t)'
  BY <1>1, <1>2, <1>3, <1>4, <1>6 DEF TaskOK
<1>7. QED
  BY <1>1, <1>2, <1>4, <1>5, <1>6

LEMMA Kept ==
    ASSUME TenantInv, SpentInv, UNCHANGED tenant, UNCHANGED spent \/ Stray
    PROVE  Grows
<1>1. SpentInv' /\ (spent.cancelled => spent'.cancelled)
  BY DEF SpentInv, Stray
<1>2. QED
  BY <1>1 DEF tenant, TenantInv, Grows, Decided

\* The messages and what is decided grow.
LEMMA GrowsWith ==
    ASSUME TenantInv, SpentInv, UNCHANGED spent, NEW d \in BackupMessages, NEW A \in SUBSET Divergent,
           \/ UNCHANGED history
           \/ history' = [history EXCEPT ![d] = "backup"],
           \/ accepted' = accepted \cup A
           \/ accepted' = accepted \ {d} /\ history' = [history EXCEPT ![d] = "backup"],
           attached' = attached \/ attached' = attached \cup Attachable
    PROVE  Grows
<1>2. ASSUME NEW m \in BackupMessages PROVE history'[m] = history[m] \/ history'[m] = "backup"
  BY DEF TenantInv
<1>1. TenantInv'
  <2>1. history' \in [BackupMessages -> {"absent", "existing", "backup"}]
    BY DEF TenantInv
  <2>2. \A e \in Divergent : history'[e] # "absent"
    BY <1>2, BackupIsRows DEF TenantInv
  <2>3. accepted' \subseteq Divergent /\ attached' \subseteq BackupMessages
    BY DEF TenantInv, Attachable
  <2>4. QED
    BY <2>1, <2>2, <2>3 DEF TenantInv
<1>3. ASSUME NEW e \in Divergent, Decided(e) PROVE Decided(e)'
  BY <1>2, <1>3, BackupIsRows DEF TenantInv, Decided
<1>4. QED
  BY <1>1, <1>2, <1>3 DEF Grows, SpentInv

-------------------------------------------------------------------------------
(* Steps of an instance.                                                   *)

LEMMA JobNames ==
    /\ \A j \in Jobs : j[1] \in {"import"} \cup Publishing /\ j = <<j[1], j[2]>>
    /\ \A a, b : <<a, b>> \in Jobs => a \in {"import"} \cup Publishing
    /\ \A a : <<a, Nil>> \in Jobs <=> a \in {"preview", "import"}
    /\ \A j \in Jobs : j[1] \in {"preview", "import"} => j[2] = Nil
    /\ \A j \in Jobs : j[1] \in {"validate", "media"} => j[2] \in MediaUploads
  BY NilIsNoValue DEF Jobs, Publishing

\* One instance goes on.
LEMMA OneGoesOn ==
    ASSUME HandInv, TaskInv, Grows,
           NEW i \in Instances, NEW h, NEW t,
           hand' = [hand EXCEPT ![i] = h], HandOK(h)',
           task' = [task EXCEPT ![i] = t], t = [j \in Jobs |-> t[j]],
           \A j \in Jobs : TaskOK(j, t[j])', Linked(h, t)
    PROVE  HandInv' /\ TaskInv'
<1>1. \A k \in Instances : /\ hand'[k] = IF k = i THEN h ELSE hand[k]
                           /\ task'[k] = IF k = i THEN t ELSE task[k]
  BY DEF HandInv, TaskInv
<1>2. ASSUME NEW k \in Instances
      PROVE  /\ HandOK(hand[k])' /\ Linked(hand[k], task[k])'
             /\ task'[k] = [j \in Jobs |-> task'[k][j]]
             /\ \A j \in Jobs : TaskOK(j, task[k][j])'
  <2>1. CASE k = i
    BY <1>1, <2>1 DEF Linked
  <2>2. CASE k # i
    <3>1. PICK g, s : g = hand[k] /\ s = task[k]
      OBVIOUS
    <3>2. hand'[k] = g /\ task'[k] = s
      BY <1>1, <2>2, <3>1
    <3>3. HandOK(g) /\ Linked(g, s)
      BY <3>1 DEF HandInv
    <3>4. s = [j \in Jobs |-> s[j]] /\ \A j \in Jobs : TaskOK(j, s[j])
      BY <3>1 DEF TaskInv
    <3>5. HandOK(g)' /\ \A j \in Jobs : TaskOK(j, s[j])'
      BY <3>3, <3>4, TruthStays
    <3>6. QED
      BY <3>2, <3>3, <3>4, <3>5 DEF Linked
  <2>3. QED
    BY <2>1, <2>2
<1>3. hand' = [k \in Instances |-> hand'[k]]
  BY DEF HandInv
<1>4. task' = [k \in Instances |-> [j \in Jobs |-> task'[k][j]]]
  <2>1. task' = [k \in Instances |-> task'[k]]
    BY DEF TaskInv
  <2>2. QED
    BY <1>2, <2>1
<1>5. QED
  BY <1>2, <1>3, <1>4 DEF HandInv, TaskInv

\* None does.
LEMMA NoneGoesOn ==
    ASSUME HandInv, TaskInv, LeaseInv, Grows,
           UNCHANGED <<hand, task>>, lease' = lease \/ lease' = [lease EXCEPT !.live = FALSE],
           lease' = lease \/ lease.owner = "dead"
    PROVE  HandInv' /\ TaskInv' /\ LeaseInv'
<1>1. HandInv'
  <2>1. ASSUME NEW k \in Instances PROVE HandOK(hand[k])' /\ Linked(hand[k], task[k])'
    <3>1. PICK g : g = hand[k]
      OBVIOUS
    <3>2. HandOK(g) /\ Linked(g, task[k])
      BY <3>1 DEF HandInv
    <3>3. QED
      BY <3>1, <3>2, TruthStays DEF Linked
  <2>2. QED
    BY <2>1 DEF HandInv
<1>2. TaskInv'
  <2>1. ASSUME NEW k \in Instances, NEW j \in Jobs PROVE TaskOK(j, task[k][j])'
    <3>1. PICK s : s = task[k][j]
      OBVIOUS
    <3>2. TaskOK(j, s)
      BY <3>1 DEF TaskInv
    <3>3. QED
      BY <3>1, <3>2, TruthStays
  <2>2. QED
    BY <2>1 DEF TaskInv
<1>3. LeaseInv'
  <2>1. /\ lease' \in [owner : Instances \cup {Nil, "dead"}, live : BOOLEAN]
        /\ lease'.owner = lease.owner /\ (lease.owner # "dead" => lease'.live = lease.live)
    BY DEF LeaseInv
  <2>2. \A k \in Instances : k # "dead"
    BY NilIsNoValue
  <2>3. QED
    BY <2>1, <2>2 DEF LeaseInv, Busy, Grows
<1>4. QED
  BY <1>1, <1>2, <1>3

\* No job begins to work.
LEMMA LeaseStays ==
    ASSUME LeaseInv, TaskInv, Grows, NEW i \in Instances, NEW t,
           task' = [task EXCEPT ![i] = t],
           \A j \in Jobs : Busy(t[j]) => Busy(task[i][j]),
           lease' = lease \/ (lease.owner = i /\ lease' = [lease EXCEPT !.live = TRUE])
    PROVE  LeaseInv'
<1>1. \A k \in Instances : task'[k] = IF k = i THEN t ELSE task[k]
  BY DEF TaskInv
<1>2. \A k \in Instances : \A j \in Jobs : Busy(task[k][j])' => Busy(task[k][j])
  BY <1>1 DEF Busy
<1>3. /\ lease' \in [owner : Instances \cup {Nil, "dead"}, live : BOOLEAN]
      /\ lease'.owner = lease.owner /\ (lease.live => lease'.live)
  BY DEF LeaseInv
<1>4. QED
  BY <1>2, <1>3 DEF LeaseInv, Grows

\* What the requests and jobs write into a manifest.
LEMMA ManifestEdits ==
    ASSUME NEW m, ManifestOK(m)
    PROVE  /\ \A u \in DbUploads : ManifestOK([m EXCEPT !.db = "uploading", !.did = u])
           /\ \A x \in {"processing", "completed", "failed"} : ManifestOK([m EXCEPT !.db = x])
           /\ ManifestOK([m EXCEPT !.db = Nil, !.did = Nil])
           /\ \A u \in MediaUploads : \A x \in {"uploading", "validating"} :
                 ManifestOK([m EXCEPT !.media = x, !.mid = u])
           /\ \A x \in {"failed", "processing", "ready"} : ManifestOK([m EXCEPT !.media = x])
           /\ ManifestOK([m EXCEPT !.media = "failed", !.mid = Nil])
           /\ \A n \in 0 .. Cardinality(Divergent) : ManifestOK([m EXCEPT !.pending = n])
           /\ \A n \in 0 .. Cardinality(Divergent), b \in BOOLEAN, x \in {"ready", "failed"} :
                 ManifestOK([m EXCEPT !.cmp = x, !.pending = n, !.div = b])
           /\ ManifestOK([m EXCEPT !.status = "applying", !.cutoff = TRUE])
           /\ \A x \in {"failed", "cancelled", "expired"} : ManifestOK([m EXCEPT !.status = x])
<1> USE DEF ManifestOK, Manifest, BatchStatuses
<1>1. \A u \in DbUploads : ManifestOK([m EXCEPT !.db = "uploading", !.did = u])
  OBVIOUS
<1>2. \A x \in {"processing", "completed", "failed"} : ManifestOK([m EXCEPT !.db = x])
  OBVIOUS
<1>3. ManifestOK([m EXCEPT !.db = Nil, !.did = Nil])
  OBVIOUS
<1>4. \A u \in MediaUploads : \A x \in {"uploading", "validating"} :
         ManifestOK([m EXCEPT !.media = x, !.mid = u])
  OBVIOUS
<1>5. \A x \in {"failed", "processing", "ready"} : ManifestOK([m EXCEPT !.media = x])
  OBVIOUS
<1>6. ManifestOK([m EXCEPT !.media = "failed", !.mid = Nil])
  OBVIOUS
<1>7. \A n \in 0 .. Cardinality(Divergent) : ManifestOK([m EXCEPT !.pending = n])
  OBVIOUS
<1>8. \A n \in 0 .. Cardinality(Divergent), b \in BOOLEAN, x \in {"ready", "failed"} :
         ManifestOK([m EXCEPT !.cmp = x, !.pending = n, !.div = b])
  OBVIOUS
<1>9. ManifestOK([m EXCEPT !.status = "applying", !.cutoff = TRUE])
  OBVIOUS
<1>10. \A x \in {"failed", "cancelled", "expired"} : ManifestOK([m EXCEPT !.status = x])
  OBVIOUS
<1>11. QED
  BY <1>1, <1>2, <1>3, <1>4, <1>5, <1>6, <1>7, <1>8, <1>9, <1>10

\* A backup that is uploaded begins anew.
LEMMA EditBackup ==
    ASSUME NEW m, ManifestOK(m), m.status = "draft", NEW db,
           db = IF m.db = "processing" THEN m.db ELSE Nil
    PROVE  ManifestOK([m EXCEPT !.backup = TRUE, !.cmp = "processing", !.pending = 0,
                                !.div = FALSE, !.cutoff = FALSE, !.media = Nil, !.mid = Nil,
                                !.db = db])
<1>1. 0 \in 0 .. Cardinality(Divergent) /\ db \in {Nil, "processing"}
  <2>1. Cardinality(Divergent) \in Nat
    BY BackupIsRows, FS_Subset, FS_CardinalityType
  <2>2. QED
    BY <2>1
<1>2. PICK n : n = [m EXCEPT !.backup = TRUE, !.cmp = "processing", !.pending = 0, !.div = FALSE]
  OBVIOUS
<1>3. n \in Manifest /\ n.status = "draft"
  BY <1>1, <1>2 DEF ManifestOK, Manifest
<1>4. PICK k : k = [n EXCEPT !.cutoff = FALSE, !.media = Nil, !.mid = Nil, !.db = db]
  OBVIOUS
<1>5. k \in Manifest /\ k.status = "draft" /\ k.media = Nil
  BY <1>1, <1>3, <1>4 DEF Manifest
<1>6. Nil # "completed"
  BY NilIsNoValue
<1>7. QED
  BY <1>2, <1>4, <1>5, <1>6 DEF ManifestOK

\* The media are linked, the batch is applied.
LEMMA ManifestEditsOfTruth ==
    ASSUME NEW m, ManifestOK(m)
    PROVE  /\ attached = BackupMessages => ManifestOK([m EXCEPT !.media = "completed", !.mid = Nil])
           /\ Brought({}) /\ DecidedBut({}) => ManifestOK([m EXCEPT !.status = "applied"])
<1> USE DEF ManifestOK, Manifest, BatchStatuses
<1>1. attached = BackupMessages => ManifestOK([m EXCEPT !.media = "completed", !.mid = Nil])
  OBVIOUS
<1>2. Brought({}) /\ DecidedBut({}) => ManifestOK([m EXCEPT !.status = "applied"])
  OBVIOUS
<1>3. QED
  BY <1>1, <1>2

-------------------------------------------------------------------------------
(* Requests.                                                               *)

LEMMA FilesStay ==
    ASSUME ManifestInv, Grows
    PROVE  /\ UNCHANGED disk => DiskInv'
           /\ UNCHANGED uploads => UploadInv'
<1>1. DiskInv /\ UploadInv
  BY DEF ManifestInv
<1>2. ASSUME UNCHANGED disk PROVE DiskInv'
  <2>1. CASE disk.ids = Nil
    BY <1>1, <1>2, <2>1 DEF DiskInv
  <2>2. CASE disk.ids # Nil
    <3>1. PICK D \in SUBSET Divergent : disk.div \in Decisions(D) /\ DecidedBut(D)
      BY <1>1, <2>2 DEF DiskInv
    <3>2. PICK ids : ids = disk.ids
      OBVIOUS
    <3>3. Brought(ids)' /\ DecidedBut(D)'
      BY <1>1, <2>2, <3>1, <3>2 DEF DiskInv, Grows, Brought, DecidedBut
    <3>4. QED
      BY <1>1, <1>2, <2>2, <3>1, <3>2, <3>3 DEF DiskInv
  <2>3. QED
    BY <2>1, <2>2
<1>3. QED
  BY <1>1, <1>2 DEF UploadInv

\* A session gets a status, or another one takes its place.
LEMMA SessionsChange ==
    ASSUME UploadInv, uploads' = [v \in Uploads |-> uploads'[v]],
           \A v \in Uploads : \E s \in SessionStatuses :
              uploads'[v] \in {uploads[v], Fresh, Gone, [uploads[v] EXCEPT !.status = s],
                               [Fresh EXCEPT !.status = s]}
    PROVE  UploadInv'
<1>1. ASSUME NEW v \in Uploads PROVE uploads'[v] \in Session /\ uploads'[v].received <= Chunks[v]
  <2>1. PICK s \in SessionStatuses :
           uploads'[v] \in {uploads[v], Fresh, Gone, [uploads[v] EXCEPT !.status = s],
                            [Fresh EXCEPT !.status = s]}
    OBVIOUS
  <2>2. uploads[v] \in Session /\ uploads[v].received <= Chunks[v] /\ Chunks[v] \in Nat
    BY BackupIsRows DEF UploadInv, Uploads
  <2>3. [uploads[v] EXCEPT !.status = s] \in Session
    BY <2>2 DEF Session
  <2>4. Fresh \in Session /\ Fresh.received = 0
    BY DEF Session, Fresh, SessionStatuses
  <2>5. Gone \in Session /\ Gone.received = 0
    BY <2>4 DEF Session, Gone, SessionStatuses
  <2>6. [Fresh EXCEPT !.status = s] \in Session /\ [Fresh EXCEPT !.status = s].received = 0
    BY <2>4 DEF Session
  <2>7. [uploads[v] EXCEPT !.status = s].received = uploads[v].received
    BY <2>2 DEF Session
  <2>8. PICK x, y : x = [uploads[v] EXCEPT !.status = s] /\ y = [Fresh EXCEPT !.status = s]
    OBVIOUS
  <2>9. \/ uploads'[v] = uploads[v]
        \/ uploads'[v] = Fresh \/ uploads'[v] = Gone
        \/ uploads'[v] = x \/ uploads'[v] = y
    BY <2>1, <2>8
  <2>10. /\ x \in Session /\ x.received = uploads[v].received
         /\ y \in Session /\ y.received = 0
    BY <2>3, <2>6, <2>7, <2>8
  <2>11. QED
    BY <2>2, <2>4, <2>5, <2>9, <2>10
<1>2. QED
  BY <1>1 DEF UploadInv

\* Who takes the lock reads the manifest.
LEMMA TakeKeeps ==
    ASSUME ManifestInv, NEW i \in Instances, NEW op \in LockOperations \ {"idle"}, NEW up, NEW new,
           NEW then, Take(i, op, up, new, then),
           op = "append" => up \in Uploads /\ ManifestOK(new.man)' /\ new.n \in 1 .. Chunks[up],
           op \notin {"append", "record"} => ManifestOK(new)', op # "record",
           op = "cancel" => spent'.cancelled,
           op \in Publishing => /\ <<op, up>> \in Jobs
                                /\ task[i][<<op, up>>].stage \in {"publish", "fail"},
           Grows, UploadInv', DiskInv'
    PROVE  ManifestInv'
<1>1. PICK early : early = ~Cancelled(i)
  OBVIOUS
<1>2. PICK h : h = [op |-> op, up |-> up, new |-> new, then |-> then, early |-> early]
  OBVIOUS
<1>3. hand' = [hand EXCEPT ![i] = h] /\ UNCHANGED <<man, lease, task>>
  BY <1>1, <1>2 DEF Take
<1>4. PICK t : t = task[i]
  OBVIOUS
<1>5. task' = [task EXCEPT ![i] = t] /\ t = [j \in Jobs |-> t[j]] /\ \A j \in Jobs : TaskOK(j, t[j])
  BY <1>3, <1>4 DEF ManifestInv, TaskInv
<1>6. h.op = op /\ h.up = up /\ h.new = new /\ h.then = then /\ h.early = early
  BY <1>2
<1>7. HandOK(h)'
  BY <1>2, <1>6 DEF HandOK
<1>8. Linked(h, t)
  BY <1>4, <1>6 DEF Linked
<1>9. HandInv /\ TaskInv /\ LeaseInv
  BY DEF ManifestInv
<1>10. \A j \in Jobs : TaskOK(j, t[j])'
  BY <1>5, TruthStays
<1>11. HandInv' /\ TaskInv'
  BY <1>3, <1>5, <1>7, <1>8, <1>9, <1>10, OneGoesOn
<1>12. LeaseInv'
  BY <1>3, <1>4, <1>5, <1>9, LeaseStays
<1>13. ManifestOK(man)' /\ TenantInv' /\ SpentInv'
  <2>1. PICK m : m = man
    OBVIOUS
  <2>2. ManifestOK(m)'
    BY <2>1, TruthStays DEF ManifestInv
  <2>3. QED
    BY <1>3, <2>1, <2>2 DEF Grows
<1>14. QED
  BY <1>11, <1>12, <1>13 DEF ManifestInv

LEMMA UploadRequestsKeep ==
    ASSUME ManifestInv, NEW i \in Instances,
           CreateDatabaseUpload(i) \/ CreateMediaUpload(i) \/ CompleteDatabaseUpload(i)
              \/ CompleteMediaUpload(i)
    PROVE  ManifestInv'
<1>1. UNCHANGED <<disk, tenant, spent>>
  BY DEF CreateDatabaseUpload, CreateMediaUpload, CompleteDatabaseUpload, CompleteMediaUpload
<1>2. Grows /\ DiskInv' /\ UploadInv /\ ManifestOK(man)
  BY <1>1, Kept, FilesStay DEF ManifestInv
<1>3. \A m : ManifestOK(m) => ManifestOK(m)'
  BY <1>1, <1>2, TruthStays
<1> PICK m : m = man
  OBVIOUS
<1>4. CASE CreateDatabaseUpload(i)
  <2>1. PICK u \in DbUploads :
           /\ \/ uploads' = [uploads EXCEPT ![u].status = "uploading"]
              \/ uploads' = [v \in Uploads |->
                   IF v = u THEN [Fresh EXCEPT !.status = "uploading"]
                   ELSE IF v = man.did THEN Gone ELSE uploads[v]]
           /\ Take(i, "create", u, [m EXCEPT !.db = "uploading", !.did = u], {})
    BY <1>4 DEF CreateDatabaseUpload
  <2>2. UploadInv'
    BY <1>2, <2>1, SessionsChange DEF SessionStatuses, UploadInv
  <2>3. PICK new : new = [m EXCEPT !.db = "uploading", !.did = u]
    OBVIOUS
  <2>4. ManifestOK(new)'
    BY <1>2, <1>3, <2>3, ManifestEdits
  <2>5. "create" \in LockOperations \ {"idle"} /\ "create" \notin Publishing
    BY DEF LockOperations, Publishing
  <2>6. QED
    BY <1>1, <1>2, <2>1, <2>2, <2>3, <2>4, <2>5, TakeKeeps
<1>5. CASE CreateMediaUpload(i)
  <2>1. PICK u \in MediaUploads :
           /\ \/ uploads' = [uploads EXCEPT ![u].status = "uploading"]
              \/ uploads' = [v \in Uploads |->
                   IF v = u THEN [Fresh EXCEPT !.status = "uploading"]
                   ELSE IF v = man.mid /\ man.media \in {"failed", "ready"} THEN Gone
                   ELSE uploads[v]]
           /\ Take(i, "create", u, [m EXCEPT !.media = "uploading", !.mid = u], {})
    BY <1>5 DEF CreateMediaUpload
  <2>2. UploadInv'
    BY <1>2, <2>1, SessionsChange DEF SessionStatuses, UploadInv
  <2>3. PICK new : new = [m EXCEPT !.media = "uploading", !.mid = u]
    OBVIOUS
  <2>4. ManifestOK(new)'
    BY <1>2, <1>3, <2>3, ManifestEdits
  <2>5. "create" \in LockOperations \ {"idle"} /\ "create" \notin Publishing
    BY DEF LockOperations, Publishing
  <2>6. QED
    BY <1>1, <1>2, <2>1, <2>2, <2>3, <2>4, <2>5, TakeKeeps
<1>6. CASE CompleteDatabaseUpload(i)
  <2>1. PICK u \in DbUploads :
           /\ uploads' = [uploads EXCEPT ![u].status = "processing"]
           /\ Take(i, "complete", u, [m EXCEPT !.db = "processing"], {})
    BY <1>6 DEF CompleteDatabaseUpload
  <2>2. UploadInv'
    BY <1>2, <2>1, SessionsChange DEF SessionStatuses, UploadInv
  <2>3. PICK new : new = [m EXCEPT !.db = "processing"]
    OBVIOUS
  <2>4. ManifestOK(new)'
    BY <1>2, <1>3, <2>3, ManifestEdits
  <2>5. "complete" \in LockOperations \ {"idle"} /\ "complete" \notin Publishing
    BY DEF LockOperations, Publishing
  <2>6. QED
    BY <1>1, <1>2, <2>1, <2>2, <2>3, <2>4, <2>5, TakeKeeps
<1>7. CASE CompleteMediaUpload(i)
  <2>1. PICK u \in MediaUploads :
           /\ uploads' = [uploads EXCEPT ![u].status = "validating"]
           /\ Take(i, "validating", u, [m EXCEPT !.media = "validating", !.mid = u],
                   {<<"validate", u>>})
    BY <1>7 DEF CompleteMediaUpload
  <2>2. UploadInv'
    BY <1>2, <2>1, SessionsChange DEF SessionStatuses, UploadInv
  <2>3. PICK new, then : /\ new = [m EXCEPT !.media = "validating", !.mid = u]
                         /\ then = {<<"validate", u>>}
    OBVIOUS
  <2>4. ManifestOK(new)'
    BY <1>2, <1>3, <2>3, ManifestEdits
  <2>5. "validating" \in LockOperations \ {"idle"} /\ "validating" \notin Publishing
    BY DEF LockOperations, Publishing
  <2>6. QED
    BY <1>1, <1>2, <2>1, <2>2, <2>3, <2>4, <2>5, TakeKeeps
<1>8. QED
  BY <1>4, <1>5, <1>6, <1>7

LEMMA AddChunkKeeps ==
    ASSUME ManifestInv, NEW i \in Instances, AddChunk(i)
    PROVE  ManifestInv'
<1>1. UNCHANGED <<files, tenant, spent>>
  BY DEF AddChunk
<1>2. Grows /\ DiskInv' /\ UploadInv' /\ UploadInv /\ ManifestOK(man)
  BY <1>1, Kept, FilesStay DEF ManifestInv, files
<1>3. PICK u, m : /\ u \in Uploads /\ m = man /\ uploads[u].received < Chunks[u]
                              /\ Take(i, "append", u, [man |-> m, n |-> uploads[u].received + 1], {})
  BY DEF AddChunk
<1>4. PICK new : new = [man |-> m, n |-> uploads[u].received + 1]
  OBVIOUS
<1>5. new.man = m /\ new.n = uploads[u].received + 1
  BY <1>4
<1>6. new.n \in 1 .. Chunks[u]
  BY <1>2, <1>3, <1>5, BackupIsRows DEF UploadInv, Session, Uploads
<1>7. ManifestOK(new.man)'
  BY <1>1, <1>2, <1>3, <1>5, TruthStays
<1>8. "append" \in LockOperations \ {"idle"} /\ "append" \notin Publishing
  BY DEF LockOperations, Publishing
<1>9. QED
  BY <1>1, <1>2, <1>3, <1>4, <1>6, <1>7, <1>8, TakeKeeps

\* A decision is written into the file, its count into the manifest.
LEMMA ResolveKeeps ==
    ASSUME ManifestInv, NEW i \in Instances, ResolveDivergence(i)
    PROVE  ManifestInv'
<1>1. PICK d, r, div, m :
         /\ d \in DOMAIN disk.div /\ r \in Resolutions
         /\ m = man /\ div = [disk.div EXCEPT ![d] = r]
         /\ disk' = [disk EXCEPT !.div = div]
         /\ Take(i, "resolve", Nil, [m EXCEPT !.pending = Cardinality(Open(div))], {})
  BY DEF ResolveDivergence
<1>2. disk.div # Nil /\ UNCHANGED <<uploads, tenant>> /\ (UNCHANGED spent \/ Stray)
  BY DEF ResolveDivergence
<1>4. Grows /\ UploadInv' /\ DiskInv /\ ManifestOK(man)
  BY <1>2, Kept, FilesStay DEF ManifestInv
<1>5. PICK D \in SUBSET Divergent : disk.div \in Decisions(D) /\ DecidedBut(D)
  BY <1>2, <1>4 DEF DiskInv
<1>6. div \in Decisions(D)
  BY <1>1, <1>5 DEF Decisions, Resolutions
<1>7. DiskInv'
  <2>1. disk.ids # Nil /\ disk.ids \in SUBSET BackupMessages /\ Brought(disk.ids)
    BY <1>2, <1>4 DEF DiskInv
  <2>2. PICK ids : ids = disk.ids
    OBVIOUS
  <2>3. disk'.ids = ids /\ disk'.div = div
        /\ disk' = [db |-> disk'.db, ids |-> disk'.ids, refs |-> disk'.refs, div |-> disk'.div]
    BY <1>1, <1>4, <2>2 DEF DiskInv
  <2>4. Brought(ids)' /\ DecidedBut(D)'
    BY <1>4, <1>5, <2>1, <2>2, TruthStays
  <2>5. QED
    BY <1>6, <2>1, <2>2, <2>3, <2>4 DEF DiskInv
<1>8. PICK n : n = Cardinality(Open(div))
  OBVIOUS
<1>9. n \in 0 .. Cardinality(Divergent)
  <2>1. IsFiniteSet(Divergent)
    BY BackupIsRows, FS_Subset
  <2>2. Open(div) \subseteq Divergent
    BY <1>6 DEF Open, Decisions
  <2>3. QED
    BY <1>8, <2>1, <2>2, FS_Subset, FS_CardinalityType
<1>10. PICK new : new = [m EXCEPT !.pending = n]
  OBVIOUS
<1>11. ManifestOK(new)'
  BY <1>1, <1>4, <1>9, <1>10, ManifestEdits, TruthStays
<1>12. "resolve" \in LockOperations \ {"idle"} /\ "resolve" \notin Publishing
  BY DEF LockOperations, Publishing
<1>13. QED
  BY <1>1, <1>4, <1>7, <1>8, <1>10, <1>11, <1>12, TakeKeeps

\* The media of an applied batch are linked at once.
LEMMA AllIsLinked ==
    ASSUME TenantInv, Brought({}), attached' = attached \cup Attachable
    PROVE  attached' = BackupMessages
  BY DEF TenantInv, Brought, Attachable

LEMMA ArchiveKeeps ==
    ASSUME ManifestInv, NEW i \in Instances, AddMediaArchive(i)
    PROVE  ManifestInv'
<1>1. PICK m : /\ m = man /\ m.status = "applied"
               /\ Take(i, "archive", Nil, [m EXCEPT !.media = "completed", !.mid = Nil], {})
  BY DEF AddMediaArchive
<1>2. UNCHANGED <<files, history, accepted>> /\ Stray /\ attached' = attached \cup Attachable
  BY DEF AddMediaArchive
<1>3. SpentInv' /\ (spent.cancelled => spent'.cancelled)
  BY <1>2 DEF ManifestInv, SpentInv, Stray
<1>4. TenantInv /\ ManifestOK(man)
  BY DEF ManifestInv
<1>5. Grows
  BY <1>2, <1>3, <1>4 DEF Grows, TenantInv, Decided, Attachable
<1>6. UploadInv' /\ DiskInv'
  BY <1>2, <1>5, FilesStay DEF files
<1>7. Brought({}) /\ DecidedBut({}) /\ m \in Manifest
  BY <1>1, <1>4 DEF ManifestOK
<1>8. attached' = BackupMessages
  BY <1>2, <1>4, <1>7, AllIsLinked
<1>9. PICK new : new = [m EXCEPT !.media = "completed", !.mid = Nil]
  OBVIOUS
<1>10. new \in Manifest
  BY <1>7, <1>9 DEF Manifest
<1>11. ManifestOK(new)'
  <2>1. Brought({})' /\ DecidedBut({})'
    BY <1>3, <1>5, <1>7, TruthStays
  <2>2. QED
    BY <1>8, <1>10, <2>1 DEF ManifestOK
<1>12. "archive" \in LockOperations \ {"idle"} /\ "archive" \notin Publishing
  BY DEF LockOperations, Publishing
<1>13. QED
  BY <1>1, <1>3, <1>5, <1>6, <1>9, <1>11, <1>12, TakeKeeps

LEMMA OtherRequestsKeep ==
    ASSUME ManifestInv, NEW i \in Instances, Apply(i) \/ Cancel(i) \/ CancelUpload(i)
    PROVE  ManifestInv'
<1>1. UNCHANGED <<files, tenant>>
  BY DEF Apply, Cancel, CancelUpload
<1>2. SpentInv' /\ (spent.cancelled => spent'.cancelled)
  <2>1. SpentInv
    BY DEF ManifestInv
  <2>2. CASE Apply(i) \/ CancelUpload(i)
    BY <2>1, <2>2 DEF SpentInv, Apply, CancelUpload, Stray
  <2>3. CASE Cancel(i)
    <3>1. PICK s : s = [spent EXCEPT !.detours = @ + 1]
      OBVIOUS
    <3>2. s \in [crashes : Nat, detours : Nat, cancelled : BOOLEAN]
      BY <2>1, <3>1 DEF SpentInv
    <3>3. spent' = [s EXCEPT !.cancelled = TRUE]
      BY <2>3, <3>1 DEF Cancel
    <3>4. QED
      BY <3>2, <3>3 DEF SpentInv
  <2>4. QED
    BY <2>2, <2>3
<1>3. Grows /\ DiskInv' /\ UploadInv' /\ ManifestOK(man)
  <2>1. Grows
    BY <1>1, <1>2 DEF ManifestInv, Grows, TenantInv, Decided, tenant
  <2>2. QED
    BY <1>1, <2>1, FilesStay DEF ManifestInv, files
<1>4. \A m : ManifestOK(m) => ManifestOK(m)'
  BY <1>2, <1>3, TruthStays
<1> PICK m : m = man
  OBVIOUS
<1>5. CASE Apply(i)
  <2>1. PICK new, then :
           /\ new = [m EXCEPT !.status = "applying", !.cutoff = TRUE]
           /\ then = {<<"import", Nil>>} /\ Take(i, "apply", Nil, new, then)
    BY <1>5 DEF Apply
  <2>2. ManifestOK(new)'
    BY <1>3, <1>4, <2>1, ManifestEdits
  <2>3. "apply" \in LockOperations \ {"idle"} /\ "apply" \notin Publishing
    BY DEF LockOperations, Publishing
  <2>4. QED
    BY <1>2, <1>3, <2>1, <2>2, <2>3, TakeKeeps
<1>6. CASE Cancel(i)
  <2>1. PICK new : /\ new = [m EXCEPT !.status = "cancelled"]
                   /\ Take(i, "cancel", Nil, new, {})
    BY <1>6 DEF Cancel
  <2>2. ManifestOK(new)'
    BY <1>3, <1>4, <2>1, ManifestEdits
  <2>3. spent'.cancelled
    BY <1>6 DEF Cancel
  <2>4. "cancel" \in LockOperations \ {"idle"} /\ "cancel" \notin Publishing
    BY DEF LockOperations, Publishing
  <2>5. QED
    BY <1>2, <1>3, <2>1, <2>2, <2>3, <2>4, TakeKeeps
<1>7. CASE CancelUpload(i)
  <2>1. PICK u, new :
           /\ u \in Uploads
           /\ new = IF u = m.did THEN [m EXCEPT !.db = Nil, !.did = Nil]
                    ELSE IF u = m.mid THEN [m EXCEPT !.media = "failed", !.mid = Nil] ELSE m
           /\ Take(i, "drop", u, new, {})
    BY <1>7 DEF CancelUpload
  <2>2. ManifestOK(new)'
    BY <1>3, <1>4, <2>1, ManifestEdits
  <2>3. "drop" \in LockOperations \ {"idle"} /\ "drop" \notin Publishing
    BY DEF LockOperations, Publishing
  <2>4. QED
    BY <1>2, <1>3, <2>1, <2>2, <2>3, TakeKeeps
<1>8. QED
  BY <1>5, <1>6, <1>7
-------------------------------------------------------------------------------
(* What holds the lock goes on.                                            *)

LEMMA FileOfBlocks ==
    ASSUME UploadInv, NEW u \in Uploads, NEW n \in 1 .. Chunks[u],
           \/ uploads' = [uploads EXCEPT ![u].file = Append(@, n)]
           \/ uploads' = [uploads EXCEPT ![u].status = "uploading", ![u].received = n]
    PROVE  UploadInv'
<1>1. uploads \in [Uploads -> Session] /\ Chunks[u] \in Nat /\ n \in Nat /\ n <= Chunks[u]
  BY BackupIsRows DEF UploadInv, Uploads
<1>2. uploads[u] \in Session
  BY <1>1
<1>3. CASE uploads' = [uploads EXCEPT ![u].file = Append(@, n)]
  <2>1. PICK s : s = [uploads[u] EXCEPT !.file = Append(@, n)]
    OBVIOUS
  <2>2. s \in Session /\ s.received = uploads[u].received
    <3>1. PICK f : f = Append(uploads[u].file, n)
      OBVIOUS
    <3>2. f \in Seq(Nat)
      BY <1>1, <1>2, <3>1 DEF Session
    <3>3. s = [uploads[u] EXCEPT !.file = f]
      BY <2>1, <3>1
    <3>4. QED
      BY <1>2, <3>2, <3>3 DEF Session
  <2>3. uploads' = [uploads EXCEPT ![u] = s]
    BY <1>3, <2>1
  <2>4. QED
    BY <1>1, <2>2, <2>3 DEF UploadInv
<1>4. CASE uploads' = [uploads EXCEPT ![u].status = "uploading", ![u].received = n]
  <2>1. PICK r : r = [uploads[u] EXCEPT !.status = "uploading"]
    OBVIOUS
  <2>2. r \in Session
    BY <1>2, <2>1 DEF Session, SessionStatuses
  <2>3. PICK s : s = [r EXCEPT !.received = n]
    OBVIOUS
  <2>4. s \in Session /\ s.received = n
    BY <1>1, <2>2, <2>3 DEF Session
  <2>5. uploads' = [uploads EXCEPT ![u] = s]
    BY <1>1, <1>4, <2>1, <2>3
  <2>6. QED
    BY <1>1, <2>4, <2>5 DEF UploadInv
<1>5. QED
  BY <1>3, <1>4

\* A request goes on with its lock, and no job with it.
LEMMA LockGoesOn ==
    ASSUME ManifestInv, Grows, NEW i \in Instances, NEW h,
           hand' = [hand EXCEPT ![i] = h], HandOK(h)', h.op \notin Publishing,
           UNCHANGED <<man, lease, task>>, UploadInv', DiskInv'
    PROVE  ManifestInv'
<1>1. HandInv /\ TaskInv /\ LeaseInv
  BY DEF ManifestInv
<1>2. PICK t : t = task[i]
  OBVIOUS
<1>3. task' = [task EXCEPT ![i] = t] /\ t = [j \in Jobs |-> t[j]] /\ \A j \in Jobs : TaskOK(j, t[j])
  BY <1>1, <1>2 DEF TaskInv
<1>4. \A j \in Jobs : TaskOK(j, t[j])'
  BY <1>3, TruthStays
<1>5. Linked(h, t)
  BY DEF Linked
<1>6. HandInv' /\ TaskInv'
  BY <1>1, <1>3, <1>4, <1>5, OneGoesOn
<1>7. LeaseInv'
  BY <1>1, <1>2, <1>3, LeaseStays
<1>8. ManifestOK(man)' /\ TenantInv' /\ SpentInv'
  <2>1. PICK m : m = man
    OBVIOUS
  <2>2. ManifestOK(m)'
    BY <2>1, TruthStays DEF ManifestInv
  <2>3. QED
    BY <2>1, <2>2 DEF Grows
<1>9. QED
  BY <1>6, <1>7, <1>8 DEF ManifestInv

LEMMA UnlockedIsOK ==
    /\ HandOK(Unlocked) /\ Unlocked.op = "idle" /\ Unlocked.op \notin Publishing
  BY DEF HandOK, Unlocked, LockOperations, Publishing

\* The bytes of a block, then its record.
LEMMA AppendChunkKeeps ==
    ASSUME ManifestInv, NEW i \in Instances, AppendChunk(i)
    PROVE  ManifestInv'
<1>1. UNCHANGED <<man, lease, disk, tenant, task, spent>>
  BY DEF AppendChunk
<1>2. Grows /\ DiskInv' /\ UploadInv
  BY <1>1, Kept, FilesStay DEF ManifestInv
<1>3. PICK h : h = hand[i]
  OBVIOUS
<1>4. HandOK(h) /\ h.op = "append"
  BY <1>3 DEF ManifestInv, HandInv, AppendChunk
<1>5. h.up \in Uploads /\ ManifestOK(h.new.man) /\ h.new.n \in 1 .. Chunks[h.up] /\ h # Unlocked
  BY <1>4 DEF HandOK, Unlocked
<1>6. CASE uploads[h.up] = Gone
  <2>1. hand' = [hand EXCEPT ![i] = Unlocked] /\ UNCHANGED uploads
    BY <1>3, <1>6 DEF AppendChunk
  <2>2. UploadInv' /\ HandOK(Unlocked)'
    BY <1>2, <2>1, FilesStay, UnlockedIsOK, TruthStays
  <2>3. QED
    BY <1>1, <1>2, <2>1, <2>2, LockGoesOn, UnlockedIsOK
<1>7. CASE uploads[h.up] # Gone
  <2>1. /\ uploads' = [uploads EXCEPT ![h.up].file = Append(@, h.new.n)]
        /\ hand' = [hand EXCEPT ![i].op = "record"]
    BY <1>3, <1>7 DEF AppendChunk
  <2>2. UploadInv'
    BY <1>2, <1>5, <2>1, FileOfBlocks
  <2>3. PICK g : g = [h EXCEPT !.op = "record"]
    OBVIOUS
  <2>4. g = [op |-> "record", up |-> h.up, new |-> h.new, then |-> h.then, early |-> h.early]
    BY <1>4, <1>5, <2>3 DEF HandOK
  <2>5. HandOK(g)
    BY <1>5, <2>4 DEF HandOK, LockOperations
  <2>6. HandOK(g)' /\ g.op \notin Publishing
    BY <1>2, <2>4, <2>5, TruthStays DEF Publishing
  <2>7. hand' = [hand EXCEPT ![i] = g]
    BY <1>3, <2>1, <2>3
  <2>8. QED
    BY <1>1, <1>2, <2>2, <2>6, <2>7, LockGoesOn
<1>8. QED
  BY <1>6, <1>7

LEMMA RecordChunkKeeps ==
    ASSUME ManifestInv, NEW i \in Instances, RecordChunk(i)
    PROVE  ManifestInv'
<1>1. UNCHANGED <<man, lease, disk, tenant, task, spent>>
  BY DEF RecordChunk
<1>2. Grows /\ DiskInv' /\ UploadInv
  BY <1>1, Kept, FilesStay DEF ManifestInv
<1>3. PICK h : h = hand[i]
  OBVIOUS
<1>4. HandOK(h) /\ h.op = "record"
  BY <1>3 DEF ManifestInv, HandInv, RecordChunk
<1>5. h.up \in Uploads /\ ManifestOK(h.new.man) /\ h.new.n \in 1 .. Chunks[h.up] /\ h # Unlocked
  BY <1>4 DEF HandOK, Unlocked
<1>6. /\ uploads' = [uploads EXCEPT ![h.up].status = "uploading", ![h.up].received = h.new.n]
      /\ \/ hand' = [hand EXCEPT ![i] = Unlocked]
         \/ hand' = [hand EXCEPT ![i] = [@ EXCEPT !.op = "chunk", !.new = h.new.man]]
  BY <1>3 DEF RecordChunk
<1>7. UploadInv'
  BY <1>2, <1>5, <1>6, FileOfBlocks
<1>8. CASE hand' = [hand EXCEPT ![i] = Unlocked]
  <2>1. HandOK(Unlocked)'
    BY <1>2, UnlockedIsOK, TruthStays
  <2>2. QED
    BY <1>1, <1>2, <1>7, <1>8, <2>1, LockGoesOn, UnlockedIsOK
<1>9. CASE hand' = [hand EXCEPT ![i] = [@ EXCEPT !.op = "chunk", !.new = h.new.man]]
  <2>1. PICK f, m : f = [h EXCEPT !.op = "chunk"] /\ m = h.new.man
    OBVIOUS
  <2>2. f = [op |-> "chunk", up |-> h.up, new |-> h.new, then |-> h.then, early |-> h.early]
    BY <1>4, <1>5, <2>1 DEF HandOK
  <2>3. PICK g : g = [f EXCEPT !.new = m]
    OBVIOUS
  <2>4. g = [op |-> "chunk", up |-> h.up, new |-> m, then |-> h.then, early |-> h.early]
    BY <2>2, <2>3
  <2>5. HandOK(g)
    BY <1>5, <2>1, <2>4 DEF HandOK, LockOperations
  <2>6. HandOK(g)' /\ g.op \notin Publishing
    BY <1>2, <2>4, <2>5, TruthStays DEF Publishing
  <2>7. [h EXCEPT !.op = "chunk", !.new = m] = g
    BY <2>1, <2>2, <2>3, <2>4, <1>4, <1>5 DEF HandOK
  <2>8. hand' = [hand EXCEPT ![i] = g]
    BY <1>3, <1>9, <2>1, <2>7
  <2>9. QED
    BY <1>1, <1>2, <1>7, <2>6, <2>8, LockGoesOn
<1>10. QED
  BY <1>6, <1>8, <1>9

\* An upload's directory goes.
LEMMA DirectoryGoes ==
    ASSUME UploadInv, NEW u, uploads' = [uploads EXCEPT ![u] = Gone]
    PROVE  UploadInv'
<1>1. uploads' = [v \in Uploads |-> uploads'[v]]
  BY DEF UploadInv
<1>2. \A v \in Uploads : uploads'[v] \in {uploads[v], Gone}
  BY DEF UploadInv
<1>3. "gone" \in SessionStatuses
  BY DEF SessionStatuses
<1>4. QED
  BY <1>1, <1>2, <1>3, SessionsChange

\* The decrypted database comes or goes, what was compared stays.
LEMMA DiskMarks ==
    ASSUME ManifestInv, Grows, NEW b, disk' = [disk EXCEPT !.db = b]
    PROVE  DiskInv'
<1>1. DiskInv
  BY DEF ManifestInv
<1>2. /\ disk'.ids = disk.ids /\ disk'.div = disk.div
      /\ disk' = [db |-> disk'.db, ids |-> disk'.ids, refs |-> disk'.refs, div |-> disk'.div]
  BY <1>1 DEF DiskInv
<1>3. CASE disk.ids = Nil
  BY <1>1, <1>2, <1>3 DEF DiskInv
<1>4. CASE disk.ids # Nil
  <2>1. PICK D \in SUBSET Divergent : disk.div \in Decisions(D) /\ DecidedBut(D)
    BY <1>1, <1>4 DEF DiskInv
  <2>2. PICK ids : ids = disk.ids
    OBVIOUS
  <2>3. ids \subseteq BackupMessages /\ Brought(ids)
    BY <1>1, <1>4, <2>2 DEF DiskInv
  <2>4. Brought(ids)' /\ DecidedBut(D)'
    BY <2>1, <2>3, TruthStays
  <2>5. QED
    BY <1>2, <1>4, <2>1, <2>2, <2>3, <2>4 DEF DiskInv
<1>5. QED
  BY <1>3, <1>4

\* Jobs that are resumed wait to be claimed.
LEMMA ResumedWait ==
    ASSUME NEW t, NEW jobs, NEW m, NEW j \in Jobs
    PROVE  \/ Resumed(t, jobs, m)[j] = t[j]
           \/ t[j] = NoTask /\ Resumed(t, jobs, m)[j] = Scheduled
  BY DEF Resumed

LEMMA IdleStages ==
    /\ \A j : TaskOK(j, NoTask) /\ TaskOK(j, Scheduled)
    /\ \A j : TaskOK(j, Failing) /\ TaskOK(j, [stage |-> "ending"])
              /\ TaskOK(j, [stage |-> "released"]) /\ TaskOK(j, [stage |-> "run"])
    /\ NoTask.stage = "none" /\ Scheduled.stage = "scheduled"
    /\ ~Busy(NoTask) /\ ~Busy(Scheduled) /\ ~Busy([stage |-> "released"])
  BY DEF TaskOK, Stages, NoTask, Scheduled, Busy, Failing

\* The manifest is written, what waits for it begins.
LEMMA CommitKeeps ==
    ASSUME ManifestInv, NEW i \in Instances, Commit(i)
    PROVE  ManifestInv'
<1>1. UNCHANGED <<disk, tenant, spent>>
  BY DEF Commit
<1>2. Grows /\ DiskInv' /\ UploadInv /\ HandInv /\ TaskInv /\ LeaseInv
  BY <1>1, Kept, FilesStay DEF ManifestInv
<1>3. PICK h, t0, new, then : h = hand[i] /\ t0 = task[i] /\ new = h.new /\ then = h.then
  OBVIOUS
<1>4. PICK r : r = Resumed(t0, then, new)
  OBVIOUS
<1>5. PICK t : t = IF <<h.op, h.up>> \in Jobs
                   THEN [r EXCEPT ![<<h.op, h.up>>] = [stage |-> "ending"]] ELSE r
  OBVIOUS
<1>6. /\ h.op \notin {"idle", "append", "record", "cancel"}
      /\ man' = new
      /\ lease' = lease \/ (lease.owner = i /\ lease' = [lease EXCEPT !.live = TRUE])
      /\ hand' = [hand EXCEPT ![i] = Unlocked]
      /\ task' = [task EXCEPT ![i] = t]
      /\ UNCHANGED uploads \/ uploads' = [uploads EXCEPT ![h.up] = Gone]
  BY <1>3, <1>4, <1>5 DEF Commit, Written, Published
<1>7. HandOK(h) /\ Linked(h, t0) /\ ManifestOK(new)
  BY <1>3, <1>6 DEF ManifestInv, HandInv, HandOK
<1>8. UploadInv'
  BY <1>2, <1>6, FilesStay, DirectoryGoes
<1>9. r = [j \in Jobs |-> r[j]] /\ t = [j \in Jobs |-> t[j]]
  <2>1. r = [j \in Jobs |-> r[j]]
    BY <1>4 DEF Resumed
  <2>2. QED
    BY <1>5, <2>1
<1>10. ASSUME NEW j \in Jobs
       PROVE  TaskOK(j, t[j])' /\ (Busy(t[j]) => Busy(t0[j]))
  <2>1. TaskOK(j, t0[j])
    BY <1>3 DEF ManifestInv, TaskInv
  <2>2. TaskOK(j, r[j]) /\ (Busy(r[j]) => Busy(t0[j]))
    BY <1>4, <2>1, ResumedWait, IdleStages
  <2>3. CASE t[j] = r[j]
    BY <1>2, <2>2, <2>3, TruthStays
  <2>4. CASE t[j] # r[j]
    <3>1. <<h.op, h.up>> \in Jobs /\ j = <<h.op, h.up>> /\ t[j] = [stage |-> "ending"]
      BY <1>5, <1>9, <2>4
    <3>2. PICK e : e = [stage |-> "ending"]
      OBVIOUS
    <3>3. TaskOK(j, e)'
      BY <1>2, <3>2, IdleStages, TruthStays
    <3>4. "import" \notin LockOperations
      BY DEF LockOperations, Publishing
    <3>5. h.op \in Publishing
      BY <1>7, <3>1, <3>4, JobNames DEF HandOK
    <3>6. Busy(t0[j])
      BY <1>7, <3>1, <3>5 DEF Linked, Busy
    <3>7. QED
      BY <3>1, <3>2, <3>3, <3>6
  <2>5. QED
    BY <2>3, <2>4
<1>11. HandOK(Unlocked)' /\ Linked(Unlocked, t)
  BY <1>2, UnlockedIsOK, TruthStays DEF Linked
<1>12. HandInv' /\ TaskInv'
  BY <1>2, <1>6, <1>9, <1>10, <1>11, OneGoesOn
<1>13. LeaseInv'
  BY <1>2, <1>3, <1>6, <1>10, LeaseStays
<1>14. ManifestOK(man)' /\ TenantInv' /\ SpentInv'
  BY <1>2, <1>6, <1>7, TruthStays DEF Grows
<1>15. QED
  BY <1>2, <1>8, <1>12, <1>13, <1>14 DEF ManifestInv

LEMMA CommitCancelKeeps ==
    ASSUME ManifestInv, NEW i \in Instances, CommitCancel(i)
    PROVE  ManifestInv'
<1>1. UNCHANGED <<tenant, task, spent>> /\ disk' = EmptyDisk /\ lease' = Unleased
      /\ uploads' = [u \in Uploads |-> IF uploads[u] = Fresh THEN Fresh ELSE Gone]
      /\ hand' = [hand EXCEPT ![i] = Unlocked]
  BY DEF CommitCancel
<1>2. Grows /\ UploadInv /\ HandInv /\ TaskInv /\ LeaseInv
  BY <1>1, Kept DEF ManifestInv
<1>3. PICK h, t : h = hand[i] /\ t = task[i]
  OBVIOUS
<1>4. HandOK(h) /\ h.op = "cancel" /\ man' = h.new
  BY <1>3 DEF ManifestInv, HandInv, CommitCancel
<1>5. ManifestOK(h.new) /\ spent.cancelled
  BY <1>4 DEF HandOK
<1>6. UploadInv'
  <2>1. "gone" \in SessionStatuses
    BY DEF SessionStatuses
  <2>2. QED
    BY <1>1, <1>2, <2>1, SessionsChange
<1>7. DiskInv'
  BY <1>1 DEF DiskInv, EmptyDisk
<1>8. task' = [task EXCEPT ![i] = t] /\ t = [j \in Jobs |-> t[j]] /\ \A j \in Jobs : TaskOK(j, t[j])
  BY <1>1, <1>2, <1>3 DEF TaskInv
<1>9. \A j \in Jobs : TaskOK(j, t[j])'
  BY <1>2, <1>8, TruthStays
<1>10. HandOK(Unlocked)' /\ Linked(Unlocked, t)
  BY <1>2, UnlockedIsOK, TruthStays DEF Linked
<1>11. HandInv' /\ TaskInv'
  BY <1>1, <1>2, <1>8, <1>9, <1>10, OneGoesOn
<1>12. LeaseInv'
  BY <1>1, <1>5 DEF LeaseInv, Unleased
<1>13. ManifestOK(man)' /\ TenantInv' /\ SpentInv'
  BY <1>2, <1>4, <1>5, TruthStays DEF Grows
<1>14. QED
  BY <1>6, <1>7, <1>11, <1>12, <1>13 DEF ManifestInv

LEMMA RefuseKeeps ==
    ASSUME ManifestInv, NEW i \in Instances, Refuse(i)
    PROVE  ManifestInv'
<1>1. UNCHANGED <<man, lease, files, tenant, spent>>
  BY DEF Refuse
<1>2. Grows /\ DiskInv' /\ UploadInv' /\ HandInv /\ TaskInv /\ LeaseInv
  BY <1>1, Kept, FilesStay DEF ManifestInv, files
<1>3. PICK h, t0 : h = hand[i] /\ t0 = task[i]
  OBVIOUS
<1>4. PICK t : t = IF <<h.op, h.up>> \in Jobs
                   THEN [t0 EXCEPT ![<<h.op, h.up>>] = [stage |-> "ending"]] ELSE t0
  OBVIOUS
<1>5. /\ hand' = [hand EXCEPT ![i] = Unlocked]
      /\ task' = [task EXCEPT ![i] = t]
  BY <1>3, <1>4 DEF Refuse, Published
<1>6. HandOK(h) /\ Linked(h, t0)
  BY <1>3 DEF ManifestInv, HandInv
<1>7. t0 = [j \in Jobs |-> t0[j]] /\ \A j \in Jobs : TaskOK(j, t0[j])
  BY <1>2, <1>3 DEF TaskInv
<1>8. t = [j \in Jobs |-> t[j]]
  BY <1>4, <1>7
<1>9. ASSUME NEW j \in Jobs
      PROVE  TaskOK(j, t[j])' /\ (Busy(t[j]) => Busy(t0[j]))
  <2>1. CASE t[j] = t0[j]
    BY <1>2, <1>7, <2>1, TruthStays
  <2>2. CASE t[j] # t0[j]
    <3>1. <<h.op, h.up>> \in Jobs /\ j = <<h.op, h.up>> /\ t[j] = [stage |-> "ending"]
      BY <1>4, <1>7, <2>2
    <3>2. PICK e : e = [stage |-> "ending"]
      OBVIOUS
    <3>3. TaskOK(j, e)'
      BY <1>2, <3>2, IdleStages, TruthStays
    <3>4. "import" \notin LockOperations
      BY DEF LockOperations, Publishing
    <3>5. h.op \in Publishing
      BY <1>6, <3>1, <3>4, JobNames DEF HandOK
    <3>6. Busy(t0[j])
      BY <1>6, <3>1, <3>5 DEF Linked, Busy
    <3>7. QED
      BY <3>1, <3>2, <3>3, <3>6
  <2>3. QED
    BY <2>1, <2>2
<1>10. HandOK(Unlocked)' /\ Linked(Unlocked, t)
  BY <1>2, UnlockedIsOK, TruthStays DEF Linked
<1>11. HandInv' /\ TaskInv'
  BY <1>2, <1>5, <1>8, <1>9, <1>10, OneGoesOn
<1>12. LeaseInv'
  BY <1>1, <1>2, <1>3, <1>5, <1>9, LeaseStays
<1>13. ManifestOK(man)' /\ TenantInv' /\ SpentInv'
  <2>1. PICK m : m = man
    OBVIOUS
  <2>2. ManifestOK(m)'
    BY <1>2, <2>1, TruthStays DEF ManifestInv
  <2>3. QED
    BY <1>1, <1>2, <2>1, <2>2 DEF Grows
<1>14. QED
  BY <1>2, <1>11, <1>12, <1>13 DEF ManifestInv

LEMMA DecryptKeeps ==
    ASSUME ManifestInv, NEW i \in Instances, Decrypt(i)
    PROVE  ManifestInv'
<1>1. UNCHANGED <<uploads, tenant, spent>> /\ disk' = [disk EXCEPT !.db = TRUE]
      /\ man.status = "draft"
  BY DEF Decrypt
<1>2. Grows /\ UploadInv' /\ ManifestOK(man)
  BY <1>1, Kept, FilesStay DEF ManifestInv
<1>3. PICK m, db, new, then :
         /\ m = man /\ db = (IF m.db = "processing" THEN m.db ELSE Nil)
         /\ new = [m EXCEPT !.backup = TRUE, !.cmp = "processing", !.pending = 0, !.div = FALSE,
                            !.cutoff = FALSE, !.media = Nil, !.mid = Nil, !.db = db]
         /\ then = {<<"preview", Nil>>}
  OBVIOUS
<1>4. Take(i, "backup", flow[i].up, new, then)
  BY <1>3 DEF Decrypt
<1>5. ManifestOK(new)'
  BY <1>1, <1>2, <1>3, EditBackup, TruthStays
<1>6. DiskInv'
  BY <1>1, <1>2, DiskMarks
<1>7. "backup" \in LockOperations \ {"idle"} /\ "backup" \notin Publishing
  BY DEF LockOperations, Publishing
<1>8. QED
  BY <1>1, <1>2, <1>4, <1>5, <1>6, <1>7, TakeKeeps

LEMMA DecryptFailsKeeps ==
    ASSUME ManifestInv, NEW i \in Instances, DecryptFails(i)
    PROVE  ManifestInv'
<1>1. /\ UNCHANGED <<man, lease, uploads, tenant, hand, task>> /\ (UNCHANGED spent \/ Stray)
      /\ disk' = [disk EXCEPT !.db = FALSE]
  BY DEF DecryptFails
<1>2. Grows /\ UploadInv'
  BY <1>1, Kept, FilesStay DEF ManifestInv
<1>3. DiskInv'
  BY <1>1, <1>2, DiskMarks
<1>4. HandInv' /\ TaskInv' /\ LeaseInv'
  BY <1>1, <1>2, NoneGoesOn DEF ManifestInv
<1>5. ManifestOK(man)' /\ TenantInv' /\ SpentInv'
  <2>1. PICK m : m = man
    OBVIOUS
  <2>2. ManifestOK(m)'
    BY <1>2, <2>1, TruthStays DEF ManifestInv
  <2>3. QED
    BY <1>1, <1>2, <2>1, <2>2 DEF Grows
<1>6. QED
  BY <1>2, <1>3, <1>4, <1>5 DEF ManifestInv

LEMMA CloseDatabaseUploadKeeps ==
    ASSUME ManifestInv, NEW i \in Instances, CloseDatabaseUpload(i)
    PROVE  ManifestInv'
<1>1. UNCHANGED <<disk, tenant, spent>>
  BY DEF CloseDatabaseUpload
<1>2. Grows /\ DiskInv' /\ UploadInv /\ ManifestOK(man)
  BY <1>1, Kept, FilesStay DEF ManifestInv
<1>3. PICK u, m, mine, x : /\ u = flow[i].up /\ m = man /\ x = flow[i].next
                           /\ mine = (man.db # Nil /\ man.did = u)
  OBVIOUS
<1>4. /\ x \in {"completed", "failed"}
      /\ uploads' = [uploads EXCEPT ![u] =
              IF x = "completed"
              THEN IF mine THEN @ ELSE Gone
              ELSE IF mine THEN [@ EXCEPT !.status = "failed"] ELSE @]
      /\ IF mine THEN Take(i, "close", u, [m EXCEPT !.db = x], {})
         ELSE UNCHANGED <<man, lease, hand, again, task>>
  BY <1>3 DEF CloseDatabaseUpload
<1>5. UploadInv'
  <2>1. "failed" \in SessionStatuses
    BY DEF SessionStatuses
  <2>2. uploads' = [v \in Uploads |-> uploads'[v]]
    BY <1>2, <1>4 DEF UploadInv
  <2>3. ASSUME NEW v \in Uploads
        PROVE  uploads'[v] \in {uploads[v], Gone, [uploads[v] EXCEPT !.status = "failed"]}
    BY <1>2, <1>4 DEF UploadInv
  <2>4. QED
    BY <1>2, <2>1, <2>2, <2>3, SessionsChange
<1>6. CASE mine
  <2>1. PICK new : new = [m EXCEPT !.db = x]
    OBVIOUS
  <2>2. ManifestOK(new)'
    BY <1>2, <1>3, <1>4, <2>1, ManifestEdits, TruthStays
  <2>3. "close" \in LockOperations \ {"idle"} /\ "close" \notin Publishing
    BY DEF LockOperations, Publishing
  <2>4. QED
    BY <1>1, <1>2, <1>4, <1>5, <1>6, <2>1, <2>2, <2>3, TakeKeeps
<1>7. CASE ~mine
  <2>1. UNCHANGED <<man, lease, hand, task>>
    BY <1>4, <1>7
  <2>2. HandInv' /\ TaskInv' /\ LeaseInv'
    BY <1>2, <2>1, NoneGoesOn DEF ManifestInv
  <2>3. ManifestOK(man)' /\ TenantInv' /\ SpentInv'
    BY <1>2, <1>3, <2>1, TruthStays DEF Grows
  <2>4. QED
    BY <1>2, <1>5, <2>2, <2>3 DEF ManifestInv
<1>8. QED
  BY <1>6, <1>7

-------------------------------------------------------------------------------
(* Jobs.                                                                   *)

\* A job goes on by itself.
LEMMA JobGoesOn ==
    ASSUME ManifestInv, Grows, NEW i \in Instances, NEW j \in Jobs, NEW s,
           Becomes(i, j, s), UNCHANGED hand, TaskOK(j, s)',
           \/ task[i][j].stage \notin {"publish", "fail"}
           \/ j[1] = "import" \/ hand[i].op = "idle",
           Busy(s) => Busy(task[i][j]),
           lease' = lease \/ (lease.owner = i /\ lease' = [lease EXCEPT !.live = TRUE]),
           ManifestOK(man)', UploadInv', DiskInv'
    PROVE  ManifestInv'
<1>1. HandInv /\ TaskInv /\ LeaseInv
  BY DEF ManifestInv
<1>2. PICK h, t0 : h = hand[i] /\ t0 = task[i]
  OBVIOUS
<1>3. PICK t : t = [t0 EXCEPT ![j] = s]
  OBVIOUS
<1>4. task' = [task EXCEPT ![i] = t] /\ hand' = [hand EXCEPT ![i] = h]
  BY <1>1, <1>2, <1>3 DEF Becomes, HandInv
<1>5. t0 = [k \in Jobs |-> t0[k]] /\ \A k \in Jobs : TaskOK(k, t0[k])
  BY <1>1, <1>2 DEF TaskInv
<1>6. t = [k \in Jobs |-> t[k]] /\ \A k \in Jobs : t[k] = IF k = j THEN s ELSE t0[k]
  BY <1>3, <1>5
<1>7. ASSUME NEW k \in Jobs PROVE TaskOK(k, t[k])'
  <2>1. CASE k = j
    BY <1>6, <2>1
  <2>2. CASE k # j
    BY <1>5, <1>6, <2>2, TruthStays
  <2>3. QED
    BY <2>1, <2>2
<1>8. HandOK(h) /\ Linked(h, t0)
  BY <1>1, <1>2 DEF HandInv
<1>9. HandOK(h)'
  BY <1>8, TruthStays
<1>10. Linked(h, t)
  <2>1. "import" \notin Publishing /\ "idle" \notin Publishing
    BY DEF Publishing
  <2>2. ASSUME h.op \in Publishing PROVE t[<<h.op, h.up>>] = t0[<<h.op, h.up>>]
    <3>1. PICK k : k = <<h.op, h.up>>
      OBVIOUS
    <3>2. k \in Jobs /\ k[1] = h.op /\ t0[k].stage \in {"publish", "fail"}
      BY <1>8, <2>2, <3>1 DEF Linked
    <3>3. k # j
      BY <1>2, <2>1, <2>2, <3>2
    <3>4. QED
      BY <1>6, <3>1, <3>2, <3>3
  <2>3. QED
    BY <1>8, <2>2 DEF Linked
<1>11. HandInv' /\ TaskInv'
  BY <1>1, <1>4, <1>6, <1>7, <1>9, <1>10, OneGoesOn
<1>12. \A k \in Jobs : Busy(t[k]) => Busy(task[i][k])
  BY <1>2, <1>6
<1>13. LeaseInv'
  BY <1>1, <1>4, <1>12, LeaseStays
<1>14. TenantInv' /\ SpentInv'
  BY DEF Grows
<1>15. QED
  BY <1>11, <1>13, <1>14 DEF ManifestInv

\* And leaves the manifest and the files alone.
LEMMA JobGoesOnAlone ==
    ASSUME ManifestInv, Grows, NEW i \in Instances, NEW j \in Jobs, NEW s,
           Becomes(i, j, s), UNCHANGED <<man, lease, hand, files>>, TaskOK(j, s)',
           \/ task[i][j].stage \notin {"publish", "fail"}
           \/ j[1] = "import" \/ hand[i].op = "idle",
           Busy(s) => Busy(task[i][j])
    PROVE  ManifestInv'
<1>1. UploadInv' /\ DiskInv'
  BY FilesStay DEF files
<1>2. ManifestOK(man)'
  <2>1. PICK m : m = man
    OBVIOUS
  <2>2. ManifestOK(m)'
    BY <2>1, TruthStays DEF ManifestInv
  <2>3. QED
    BY <2>1, <2>2
<1>3. QED
  BY <1>1, <1>2, JobGoesOn

\* A process ends, and its lease is returned or runs out.
LEMMA StopKeeps ==
    ASSUME ManifestInv, Grows, NEW i \in Instances, Stopped(i), UNCHANGED <<man, files>>,
           \/ lease' = IF lease.owner = i THEN Unleased ELSE lease
           \/ lease' = IF lease.owner = i THEN [lease EXCEPT !.owner = "dead"] ELSE lease
    PROVE  ManifestInv'
<1>1. HandInv /\ TaskInv /\ LeaseInv
  BY DEF ManifestInv
<1>2. PICK t : t = [j \in Jobs |-> NoTask]
  OBVIOUS
<1>3. /\ hand' = [hand EXCEPT ![i] = Unlocked] /\ task' = [task EXCEPT ![i] = t]
      /\ t = [j \in Jobs |-> t[j]] /\ \A j \in Jobs : t[j] = NoTask
  BY <1>2 DEF Stopped
<1>4. \A j \in Jobs : TaskOK(j, t[j])' /\ ~Busy(t[j])
  BY <1>3, IdleStages, TruthStays
<1>5. HandOK(Unlocked)' /\ Linked(Unlocked, t)
  BY UnlockedIsOK, TruthStays DEF Linked
<1>6. HandInv' /\ TaskInv'
  BY <1>1, <1>3, <1>4, <1>5, OneGoesOn
<1>7. LeaseInv'
  <2>1. \A k \in Instances : \A j \in Jobs :
           Busy(task[k][j])' => k # i /\ Busy(task[k][j])
    BY <1>1, <1>3, <1>4 DEF TaskInv, Busy
  <2>2. /\ lease' \in [owner : Instances \cup {Nil, "dead"}, live : BOOLEAN]
        /\ lease.owner # i => lease' = lease
    <3>1. PICK l : l = [lease EXCEPT !.owner = "dead"]
      OBVIOUS
    <3>2. l \in [owner : Instances \cup {Nil, "dead"}, live : BOOLEAN]
      BY <1>1, <3>1 DEF LeaseInv
    <3>3. Unleased \in [owner : Instances \cup {Nil, "dead"}, live : BOOLEAN]
      BY DEF Unleased
    <3>4. lease' = (IF lease.owner = i THEN Unleased ELSE lease)
          \/ lease' = (IF lease.owner = i THEN l ELSE lease)
      BY <3>1
    <3>5. QED
      BY <1>1, <3>2, <3>3, <3>4 DEF LeaseInv
  <2>3. QED
    BY <1>1, <2>1, <2>2 DEF LeaseInv, Grows
<1>8. ManifestOK(man)' /\ TenantInv' /\ SpentInv' /\ UploadInv' /\ DiskInv'
  <2>1. PICK m : m = man
    OBVIOUS
  <2>2. ManifestOK(m)'
    BY <2>1, TruthStays DEF ManifestInv
  <2>3. QED
    BY <2>1, <2>2, FilesStay DEF Grows, files
<1>9. QED
  BY <1>6, <1>7, <1>8 DEF ManifestInv

LEMMA PerishKeeps ==
    ASSUME ManifestInv, NEW i \in Instances, Perish(i)
    PROVE  ManifestInv'
<1>1. Grows
  BY Kept DEF ManifestInv, Perish
<1>2. QED
  BY <1>1, StopKeeps DEF Perish

LEMMA InstanceDiesKeeps ==
    ASSUME ManifestInv, NEW i \in Instances, InstanceDies(i)
    PROVE  ManifestInv'
<1>1. SpentInv' /\ (spent.cancelled => spent'.cancelled)
  BY DEF ManifestInv, SpentInv, InstanceDies
<1>2. Grows
  BY <1>1 DEF ManifestInv, Grows, TenantInv, Decided, InstanceDies, tenant
<1>3. QED
  BY <1>2, StopKeeps DEF InstanceDies

\* Who claims the batch finds that nobody works on it.
LEMMA ClaimBatchKeeps ==
    ASSUME ManifestInv, NEW i \in Instances, NEW j \in Jobs, ClaimBatch(i, j)
    PROVE  ManifestInv'
<1>1. UNCHANGED <<man, files, tenant, hand, spent>> /\ task[i][j] = Scheduled
  BY DEF ClaimBatch
<1>2. Grows
  BY <1>1, Kept DEF ManifestInv
<1>3. CASE ~BatchClaimable(i)
  <2>1. Becomes(i, j, NoTask) /\ UNCHANGED lease
    BY <1>3 DEF ClaimBatch
  <2>2. TaskOK(j, NoTask)' /\ ~Busy(NoTask) /\ task[i][j].stage = "scheduled"
    BY <1>1, <1>2, IdleStages, TruthStays
  <2>3. QED
    BY <1>1, <1>2, <2>1, <2>2, JobGoesOnAlone
<1>4. CASE BatchClaimable(i)
  <2>1. PICK early : early = ~Cancelled(i)
    OBVIOUS
  <2>2. PICK s, m : m = man /\ s = [stage |-> "claimed", snap |-> m, early |-> early]
    OBVIOUS
  <2>3. Becomes(i, j, s) /\ lease' = [owner |-> i, live |-> TRUE] /\ ~lease.live
    BY <1>4, <2>1, <2>2 DEF ClaimBatch, BatchClaimable
  <2>4. s.stage = "claimed" /\ s.snap = m
    BY <2>2
  <2>5. ManifestOK(m)'
    BY <1>2, <2>2, TruthStays DEF ManifestInv
  <2>6. TaskOK(j, s)'
    BY <2>4, <2>5 DEF TaskOK, Stages
  <2>7. HandInv /\ TaskInv /\ LeaseInv
    BY DEF ManifestInv
  <2>8. PICK h, t0, t : h = hand[i] /\ t0 = task[i] /\ t = [t0 EXCEPT ![j] = s]
    OBVIOUS
  <2>9. task' = [task EXCEPT ![i] = t] /\ hand' = [hand EXCEPT ![i] = h]
    BY <1>1, <2>3, <2>7, <2>8 DEF Becomes, HandInv
  <2>10. t0 = [k \in Jobs |-> t0[k]] /\ \A k \in Jobs : TaskOK(k, t0[k])
    BY <2>7, <2>8 DEF TaskInv
  <2>11. t = [k \in Jobs |-> t[k]] /\ \A k \in Jobs : t[k] = IF k = j THEN s ELSE t0[k]
    BY <2>8, <2>10
  <2>12. ASSUME NEW k \in Jobs PROVE TaskOK(k, t[k])'
    <3>1. CASE k = j
      BY <2>6, <2>11, <3>1
    <3>2. CASE k # j
      BY <1>2, <2>10, <2>11, <3>2, TruthStays
    <3>3. QED
      BY <3>1, <3>2
  <2>13. HandOK(h) /\ Linked(h, t0)
    BY <2>7, <2>8 DEF HandInv
  <2>14. HandOK(h)'
    BY <1>2, <2>13, TruthStays
  <2>15. Linked(h, t)
    <3>1. t0[j].stage = "scheduled"
      BY <1>1, <2>8, IdleStages
    <3>2. QED
      BY <2>11, <2>13, <3>1 DEF Linked
  <2>16. HandInv' /\ TaskInv'
    BY <1>2, <2>7, <2>9, <2>11, <2>12, <2>14, <2>15, OneGoesOn
  <2>17. LeaseInv'
    <3>1. ~spent.cancelled => \A k \in Instances : \A l \in Jobs : ~Busy(task[k][l])
      BY <2>3, <2>7 DEF LeaseInv
    <3>2. \A k \in Instances : \A l \in Jobs :
             Busy(task[k][l])' => (k = i /\ l = j) \/ Busy(task[k][l])
      BY <2>7, <2>8, <2>9, <2>11 DEF TaskInv, Busy
    <3>3. lease' \in [owner : Instances \cup {Nil, "dead"}, live : BOOLEAN]
          /\ lease'.owner = i /\ lease'.live
      BY <2>3
    <3>4. QED
      BY <1>1, <3>1, <3>2, <3>3 DEF LeaseInv, Busy
  <2>18. ManifestOK(man)' /\ TenantInv' /\ SpentInv' /\ UploadInv' /\ DiskInv'
    BY <1>1, <1>2, <2>2, <2>5, FilesStay DEF Grows, files
  <2>19. QED
    BY <2>16, <2>17, <2>18 DEF ManifestInv
<1>5. QED
  BY <1>3, <1>4

\* A job that has the batch writes its manifest back.
LEMMA StartKeeps ==
    ASSUME ManifestInv, NEW i \in Instances, NEW j \in Jobs, Start(i, j)
    PROVE  ManifestInv'
<1>1. CASE Perish(i)
  BY <1>1, PerishKeeps
<1>2. CASE ~Perish(i)
  <2>1. PICK t, s : t = task[i][j] /\ s = [stage |-> "run"]
    OBVIOUS
  <2>2. /\ t.stage = "claimed" /\ Becomes(i, j, s) /\ Written(i, t.snap)
        /\ UNCHANGED <<files, tenant, hand, spent>>
    BY <1>2, <2>1 DEF Start
  <2>3. Grows
    BY <2>2, Kept DEF ManifestInv
  <2>4. TaskOK(j, t)
    BY <2>1 DEF ManifestInv, TaskInv
  <2>5. ManifestOK(man)'
    BY <2>2, <2>3, <2>4, TruthStays DEF TaskOK, Written
  <2>6. TaskOK(j, s)'
    BY <2>1, <2>3, IdleStages, TruthStays
  <2>7. UploadInv' /\ DiskInv'
    BY <2>2, <2>3, FilesStay DEF files
  <2>8. lease' = lease \/ (lease.owner = i /\ lease' = [lease EXCEPT !.live = TRUE])
    BY <2>2 DEF Written
  <2>9. QED
    BY <2>1, <2>2, <2>3, <2>5, <2>6, <2>7, <2>8, JobGoesOn DEF Busy
<1>3. QED
  BY <1>1, <1>2

\* A comparison leaves the whole difference.
LEMMA CompareKeeps ==
    ASSUME ManifestInv, NEW i \in Instances, NEW j \in Jobs, Compare(i, j)
    PROVE  ManifestInv'
<1>1. /\ j[1] = "preview" /\ task[i][j].stage = "run"
      /\ UNCHANGED <<man, lease, uploads, tenant, hand, spent>>
  BY DEF Compare
<1>2. Grows /\ UploadInv' /\ TenantInv /\ DiskInv
  BY <1>1, Kept, FilesStay DEF ManifestInv
<1>3. ManifestOK(man)'
  <2>1. PICK m : m = man
    OBVIOUS
  <2>2. ManifestOK(m)'
    BY <1>2, <2>1, TruthStays DEF ManifestInv
  <2>3. QED
    BY <1>1, <2>1, <2>2
<1>4. Busy(task[i][j]) /\ task[i][j].stage \notin {"publish", "fail"}
  BY <1>1 DEF Busy
<1>5. CASE UNCHANGED disk /\ (Ends(i, j) \/ Becomes(i, j, Failing))
  <2>1. PICK s : s \in {Failing, [stage |-> "ending"]} /\ Becomes(i, j, s)
    BY <1>5 DEF Ends
  <2>2. TaskOK(j, s)'
    BY <1>2, <2>1, IdleStages, TruthStays
  <2>3. QED
    BY <1>1, <1>2, <1>4, <1>5, <2>1, <2>2, JobGoesOnAlone DEF files
<1>6. CASE ~(UNCHANGED disk /\ (Ends(i, j) \/ Becomes(i, j, Failing)))
  <2>1. PICK ids, open, n, s :
           /\ ids = {m \in BackupMessages : history[m] = "absent"}
           /\ open = [d \in Diverging |-> Nil] /\ n = Cardinality(Diverging)
           /\ s = [stage |-> "publish", found |-> n]
    OBVIOUS
  <2>2. /\ disk' = [disk EXCEPT !.ids = ids, !.refs = TRUE, !.div = open]
        /\ Becomes(i, j, s)
    BY <1>6, <2>1 DEF Compare
  <2>3. n \in 0 .. Cardinality(Divergent)
    <3>1. IsFiniteSet(Divergent) /\ Diverging \subseteq Divergent
      BY BackupIsRows, FS_Subset DEF Diverging
    <3>2. QED
      BY <2>1, <3>1, FS_Subset, FS_CardinalityType
  <2>4. TaskOK(j, s)'
    <3>1. s.stage = "publish" /\ s.found = n
      BY <2>1
    <3>2. QED
      BY <1>1, <2>3, <3>1 DEF TaskOK, Stages
  <2>5. ids \in SUBSET BackupMessages /\ ids # Nil /\ Brought(ids)
    BY <2>1, NilIsNoValue DEF Brought
  <2>6. PICK D : D = Diverging
    OBVIOUS
  <2>7. D \in SUBSET Divergent /\ open \in Decisions(D)
    BY <2>1, <2>6 DEF Diverging, Decisions
  <2>8. DecidedBut(D)
    BY <1>2, <2>6, BackupIsRows DEF DecidedBut, Decided, Diverging, TenantInv
  <2>9. Brought(ids)' /\ DecidedBut(D)'
    BY <1>2, <2>5, <2>8, TruthStays
  <2>10. disk' = [db |-> disk.db, ids |-> ids, refs |-> TRUE, div |-> open]
    <3>1. PICK a : a = [disk EXCEPT !.ids = ids]
      OBVIOUS
    <3>2. a = [db |-> disk.db, ids |-> ids, refs |-> disk.refs, div |-> disk.div]
      BY <1>2, <3>1 DEF DiskInv
    <3>3. PICK b : b = [a EXCEPT !.refs = TRUE]
      OBVIOUS
    <3>4. b = [db |-> disk.db, ids |-> ids, refs |-> TRUE, div |-> disk.div]
      BY <3>2, <3>3
    <3>5. disk' = [b EXCEPT !.div = open]
      BY <2>2, <3>1, <3>3
    <3>6. QED
      BY <3>4, <3>5
  <2>11. disk'.ids = ids /\ disk'.div = open
         /\ disk' = [db |-> disk'.db, ids |-> disk'.ids, refs |-> disk'.refs, div |-> disk'.div]
    BY <2>10
  <2>12. DiskInv'
    BY <2>5, <2>7, <2>9, <2>11 DEF DiskInv
  <2>13. QED
    BY <1>1, <1>2, <1>3, <1>4, <2>2, <2>4, <2>12, JobGoesOn
<1>7. QED
  BY <1>5, <1>6

\* A job takes the lock to publish what it found.
LEMMA PublishPreviewKeeps ==
    ASSUME ManifestInv, NEW i \in Instances, NEW j \in Jobs, PublishPreview(i, j)
    PROVE  ManifestInv'
<1>1. PICK t : t = task[i][j]
  OBVIOUS
<1>2. /\ j[1] = "preview" /\ t.stage \in {"publish", "fail"} /\ hand[i] = Unlocked
      /\ UNCHANGED <<files, tenant, spent>>
  BY <1>1 DEF PublishPreview
<1>3. Grows /\ UploadInv' /\ DiskInv' /\ ManifestOK(man)
  BY <1>2, Kept, FilesStay DEF ManifestInv, files
<1>4. PICK m : m = man
  OBVIOUS
<1>5. CASE man.backup /\ man.status = "draft"
  <2>1. PICK n, b, x : /\ n = (IF t.stage = "publish" THEN t.found ELSE 0)
                       /\ b = (t.stage = "publish" /\ t.found > 0)
                       /\ x = (IF t.stage = "publish" THEN "ready" ELSE "failed")
    OBVIOUS
  <2>2. PICK new : new = [m EXCEPT !.cmp = x, !.pending = n, !.div = b]
    OBVIOUS
  <2>3. Take(i, "preview", j[2], new, {})
    <3>1. CASE t.stage = "publish"
      <4>1. new = [m EXCEPT !.cmp = "ready", !.pending = t.found, !.div = t.found > 0]
        BY <2>1, <2>2, <3>1
      <4>2. QED
        BY <1>1, <1>2, <1>4, <1>5, <3>1, <4>1 DEF PublishPreview
    <3>2. CASE t.stage = "fail"
      <4>1. new = [m EXCEPT !.cmp = "failed", !.pending = 0, !.div = FALSE]
        BY <2>1, <2>2, <3>2
      <4>2. QED
        BY <1>1, <1>2, <1>4, <1>5, <3>2, <4>1 DEF PublishPreview
    <3>3. QED
      BY <1>2, <3>1, <3>2
  <2>4. n \in 0 .. Cardinality(Divergent) /\ b \in BOOLEAN /\ x \in {"ready", "failed"}
    <3>1. Cardinality(Divergent) \in Nat
      BY BackupIsRows, FS_Subset, FS_CardinalityType
    <3>2. TaskOK(j, t)
      BY <1>1 DEF ManifestInv, TaskInv
    <3>3. QED
      BY <1>2, <2>1, <3>1, <3>2 DEF TaskOK
  <2>5. ManifestOK(new)'
    BY <1>3, <1>4, <2>2, <2>4, ManifestEdits, TruthStays
  <2>6. "preview" \in LockOperations \ {"idle"}
    BY DEF LockOperations, Publishing
  <2>7. <<"preview", j[2]>> = j
    BY <1>2, JobNames
  <2>8. QED
    BY <1>1, <1>2, <1>3, <2>3, <2>5, <2>6, <2>7, TakeKeeps
<1>6. CASE ~(man.backup /\ man.status = "draft")
  <2>1. PICK s : s = [stage |-> "ending"]
    OBVIOUS
  <2>2. Becomes(i, j, s) /\ UNCHANGED <<man, lease, hand>>
    BY <1>6, <2>1 DEF PublishPreview, Ends
  <2>3. TaskOK(j, s)'
    BY <1>3, <2>1, IdleStages, TruthStays
  <2>4. hand[i].op = "idle" /\ Busy(task[i][j])
    BY <1>1, <1>2, UnlockedIsOK DEF Busy
  <2>5. QED
    BY <1>2, <1>3, <2>2, <2>3, <2>4, JobGoesOnAlone
<1>7. QED
  BY <1>5, <1>6

\* The import begins with what was compared.
LEMMA LoadKeeps ==
    ASSUME ManifestInv, NEW i \in Instances, NEW j \in Jobs, Load(i, j)
    PROVE  ManifestInv'
<1>1. /\ j[1] = "import" /\ task[i][j].stage = "run"
      /\ UNCHANGED <<man, lease, files, tenant, hand, spent>>
  BY DEF Load
<1>2. Grows /\ DiskInv /\ ManifestOK(man)
  BY <1>1, Kept DEF ManifestInv
<1>3. Busy(task[i][j])
  BY <1>1 DEF Busy
<1>4. CASE Becomes(i, j, Failing)
  <2>1. TaskOK(j, Failing)'
    BY <1>2, IdleStages, TruthStays
  <2>2. QED
    BY <1>1, <1>2, <1>3, <1>4, <2>1, JobGoesOnAlone
<1>5. CASE ~Becomes(i, j, Failing)
  <2>1. PICK m, ids, div : /\ m = man /\ ids = disk.ids
                           /\ div = (IF disk.div = Nil THEN <<>> ELSE disk.div)
    OBVIOUS
  <2>2. PICK s : s = [stage |-> "carry", snap |-> m, ids |-> ids, div |-> div]
    OBVIOUS
  <2>3. disk.ids # Nil /\ Becomes(i, j, s)
    BY <1>5, <2>1, <2>2 DEF Load
  <2>4. ids \subseteq BackupMessages /\ Brought(ids)
    BY <1>2, <2>1, <2>3 DEF DiskInv
  <2>5. PICK D \in SUBSET Divergent : disk.div \in Decisions(D) /\ DecidedBut(D)
    BY <1>2, <2>3 DEF DiskInv
  <2>6. D \in SUBSET BackupMessages
    BY BackupIsRows
  <2>7. disk.div # Nil
    BY <2>5, <2>6, NilIsNoValue DEF Decisions
  <2>8. DOMAIN div = D
    BY <2>1, <2>5, <2>7 DEF Decisions
  <2>9. /\ s.stage = "carry" /\ s.snap = m /\ s.ids = ids /\ s.div = div
        /\ s = [stage |-> s.stage, snap |-> s.snap, ids |-> s.ids, div |-> s.div]
    BY <2>2
  <2>10. TaskOK(j, s)
    BY <1>2, <2>1, <2>4, <2>5, <2>8, <2>9 DEF TaskOK, Stages
  <2>11. TaskOK(j, s)'
    BY <1>2, <2>10, TruthStays
  <2>12. QED
    BY <1>1, <1>2, <1>3, <2>3, <2>11, JobGoesOnAlone
<1>6. QED
  BY <1>4, <1>5

\* What an import does with its record.
LEMMA ImportRecord ==
    ASSUME NEW j, NEW t, TaskOK(j, t), t.stage \in {"carry", "chunk", "save", "late"}
    PROVE  /\ \A x : [t EXCEPT !.stage = x] =
                       [stage |-> x, snap |-> t.snap, ids |-> t.ids, div |-> t.div]
           /\ \A d : [t EXCEPT !.div = d] =
                       [stage |-> t.stage, snap |-> t.snap, ids |-> t.ids, div |-> d]
           /\ \A m : [t EXCEPT !.snap = m] =
                       [stage |-> t.stage, snap |-> m, ids |-> t.ids, div |-> t.div]
           /\ DOMAIN t.div = {} => \A x \in {"chunk", "save", "late"} :
                                     TaskOK(j, [t EXCEPT !.stage = x])
<1>1. /\ t = [stage |-> t.stage, snap |-> t.snap, ids |-> t.ids, div |-> t.div]
      /\ ManifestOK(t.snap)
      /\ t.ids \subseteq BackupMessages /\ Brought(t.ids)
      /\ DOMAIN t.div \subseteq Divergent /\ DecidedBut(DOMAIN t.div)
  BY DEF TaskOK
<1>2. /\ \A x : [t EXCEPT !.stage = x] =
                       [stage |-> x, snap |-> t.snap, ids |-> t.ids, div |-> t.div]
      /\ \A d : [t EXCEPT !.div = d] =
                       [stage |-> t.stage, snap |-> t.snap, ids |-> t.ids, div |-> d]
      /\ \A m : [t EXCEPT !.snap = m] =
                       [stage |-> t.stage, snap |-> m, ids |-> t.ids, div |-> t.div]
  BY <1>1
<1>3. ASSUME DOMAIN t.div = {}, NEW x \in {"chunk", "save", "late"}
      PROVE  TaskOK(j, [t EXCEPT !.stage = x])
  <2>1. PICK s : s = [t EXCEPT !.stage = x]
    OBVIOUS
  <2>2. s = [stage |-> x, snap |-> t.snap, ids |-> t.ids, div |-> t.div]
    BY <1>2, <2>1
  <2>3. /\ s.stage = x /\ s.snap = t.snap /\ s.ids = t.ids /\ s.div = t.div
        /\ s = [stage |-> s.stage, snap |-> s.snap, ids |-> s.ids, div |-> s.div]
    BY <2>2
  <2>4. TaskOK(j, s)
    BY <1>1, <1>3, <2>3 DEF TaskOK, Stages
  <2>5. QED
    BY <2>1, <2>4
<1>4. QED
  BY <1>2, <1>3

\* A decision is carried out.
LEMMA CarryOutKeeps ==
    ASSUME ManifestInv, NEW i \in Instances, NEW j \in Jobs, CarryOut(i, j)
    PROVE  ManifestInv'
<1>1. PICK t : t = task[i][j]
  OBVIOUS
<1>2. /\ j[1] = "import" /\ t.stage = "carry" /\ TaskOK(j, t)
      /\ UNCHANGED <<man, lease, files, attached, hand, spent>>
  BY <1>1 DEF CarryOut, ManifestInv, TaskInv
<1>3. TenantInv /\ SpentInv
  BY DEF ManifestInv
<1>4. Busy(task[i][j])
  BY <1>1, <1>2 DEF Busy
<1>5. CASE DOMAIN t.div = {}
  <2>1. PICK x : x = IF Cancelled(i) THEN "late" ELSE "save"
    OBVIOUS
  <2>2. PICK s : s = [t EXCEPT !.stage = x]
    OBVIOUS
  <2>3. Becomes(i, j, s) /\ UNCHANGED <<history, accepted>>
    BY <1>1, <1>5, <2>1, <2>2 DEF CarryOut, Saving
  <2>4. Grows
    BY <1>2, <1>3, <2>3, Kept DEF tenant
  <2>5. TaskOK(j, s)'
    BY <1>2, <1>5, <2>1, <2>2, <2>4, ImportRecord, TruthStays
  <2>6. QED
    BY <1>2, <1>4, <2>3, <2>4, <2>5, JobGoesOnAlone
<1>6. CASE DOMAIN t.div # {}
  <2>1. PICK d, f, s :
           /\ d \in DOMAIN t.div
           /\ f = [e \in DOMAIN t.div \ {d} |-> t.div[e]] /\ s = [t EXCEPT !.div = f]
           /\ Becomes(i, j, s)
           /\ \/ accepted' = accepted \cup {d} /\ UNCHANGED history
              \/ history' = [history EXCEPT ![d] = "backup"] /\ accepted' = accepted \ {d}
    BY <1>1, <1>6 DEF CarryOut
  <2>2. DOMAIN t.div \subseteq Divergent /\ DecidedBut(DOMAIN t.div)
    BY <1>2 DEF TaskOK
  <2>3. d \in Divergent /\ d \in BackupMessages
    BY <2>1, <2>2, BackupIsRows
  <2>4. PICK A \in SUBSET Divergent : A = {d}
    BY <2>3
  <2>5. Grows
    BY <1>2, <1>3, <2>1, <2>3, <2>4, GrowsWith
  <2>6. Decided(d)'
    BY <1>3, <2>1, <2>3 DEF Decided, TenantInv
  <2>7. PICK D : D = DOMAIN t.div
    OBVIOUS
  <2>8. DOMAIN f = D \ {d}
    BY <2>1, <2>7
  <2>9. DecidedBut(D)'
    BY <2>2, <2>5, <2>7, TruthStays
  <2>10. DecidedBut(D \ {d})'
    BY <2>6, <2>9 DEF DecidedBut
  <2>11. s = [stage |-> "carry", snap |-> t.snap, ids |-> t.ids, div |-> f]
    BY <1>2, <2>1, ImportRecord
  <2>12. /\ s.stage = "carry" /\ s.snap = t.snap /\ s.ids = t.ids /\ s.div = f
         /\ s = [stage |-> s.stage, snap |-> s.snap, ids |-> s.ids, div |-> s.div]
    BY <2>11
  <2>13. TaskOK(j, t)'
    BY <1>2, <2>5, TruthStays
  <2>14. ManifestOK(t.snap)' /\ t.ids \subseteq BackupMessages /\ Brought(t.ids)'
    BY <1>2, <2>13 DEF TaskOK
  <2>15. TaskOK(j, s)'
    BY <2>2, <2>7, <2>8, <2>10, <2>12, <2>14 DEF TaskOK, Stages
  <2>16. QED
    BY <1>2, <1>4, <2>1, <2>5, <2>15, JobGoesOnAlone
<1>7. QED
  BY <1>5, <1>6

\* A block of messages is brought.
LEMMA ImportChunkKeeps ==
    ASSUME ManifestInv, NEW i \in Instances, NEW j \in Jobs, ImportChunk(i, j)
    PROVE  ManifestInv'
<1>1. PICK t, x : t = task[i][j] /\ x = IF Cancelled(i) THEN "late" ELSE "save"
  OBVIOUS
<1>2. PICK s : s = [t EXCEPT !.stage = x]
  OBVIOUS
<1>3. /\ j[1] = "import" /\ t.stage = "chunk" /\ TaskOK(j, t) /\ Becomes(i, j, s)
      /\ UNCHANGED <<man, lease, files, accepted, attached, hand, spent>>
  BY <1>1, <1>2 DEF ImportChunk, ManifestInv, TaskInv, Saving
<1>4. PICK m \in t.ids : history' = [history EXCEPT ![m] = "backup"]
  BY <1>1 DEF ImportChunk
<1>5. t.ids \subseteq BackupMessages /\ DOMAIN t.div = {}
  BY <1>3 DEF TaskOK
<1>6. PICK A \in SUBSET Divergent : A = {}
  OBVIOUS
<1>7. Grows
  BY <1>3, <1>4, <1>5, <1>6, GrowsWith DEF ManifestInv
<1>8. TaskOK(j, s)'
  BY <1>1, <1>2, <1>3, <1>5, <1>7, ImportRecord, TruthStays
<1>9. Busy(task[i][j])
  BY <1>1, <1>3 DEF Busy
<1>10. QED
  BY <1>3, <1>7, <1>8, <1>9, JobGoesOnAlone

\* Every message is there: the batch is applied, and its ZIP handed over.
LEMMA HandOverKeeps ==
    ASSUME ManifestInv, NEW i \in Instances, NEW j \in Jobs, HandOver(i, j)
    PROVE  ManifestInv'
<1>1. PICK t : t = task[i][j]
  OBVIOUS
<1>2. /\ j[1] = "import" /\ t.stage = "chunk" /\ TaskOK(j, t) /\ ImportedAll(t)
      /\ UNCHANGED <<man, lease, disk, tenant, hand, spent>>
  BY <1>1 DEF HandOver, ManifestInv, TaskInv
<1>3. Grows /\ DiskInv' /\ UploadInv
  BY <1>2, Kept, FilesStay DEF ManifestInv
<1>4. Busy(task[i][j])
  BY <1>1, <1>2 DEF Busy
<1>5. ManifestOK(man)'
  <2>1. PICK m : m = man
    OBVIOUS
  <2>2. ManifestOK(m)'
    BY <1>3, <2>1, TruthStays DEF ManifestInv
  <2>3. QED
    BY <1>2, <2>1, <2>2
<1>6. UploadInv'
  <2>1. CASE UNCHANGED uploads
    BY <1>3, <2>1, FilesStay
  <2>2. CASE ~UNCHANGED uploads
    <3>1. PICK u : uploads' = [uploads EXCEPT ![u].status = "processing"]
      BY <2>2 DEF HandOver
    <3>2. uploads' = [v \in Uploads |-> uploads'[v]]
      BY <1>3, <3>1 DEF UploadInv
    <3>3. \A v \in Uploads : uploads'[v] \in {uploads[v], [uploads[v] EXCEPT !.status = "processing"]}
      BY <1>3, <3>1 DEF UploadInv
    <3>4. "processing" \in SessionStatuses
      BY DEF SessionStatuses
    <3>5. QED
      BY <1>3, <3>2, <3>3, <3>4, SessionsChange
  <2>3. QED
    BY <2>1, <2>2
<1>7. CASE Becomes(i, j, Failing)
  <2>1. TaskOK(j, Failing)'
    BY <1>3, IdleStages, TruthStays
  <2>2. QED
    BY <1>2, <1>3, <1>4, <1>5, <1>6, <1>7, <2>1, JobGoesOn
<1>8. CASE ~Becomes(i, j, Failing)
  <2>1. PICK a, b, x : /\ a = [t.snap EXCEPT !.status = "applied"]
                       /\ b = [a EXCEPT !.media = "processing"]
                       /\ x = IF Cancelled(i) THEN "late" ELSE "save"
    OBVIOUS
  <2>2. ManifestOK(t.snap) /\ Brought(t.ids) /\ DecidedBut({}) /\ DOMAIN t.div = {}
        /\ t.ids \subseteq BackupMessages
    BY <1>2 DEF TaskOK
  <2>3. Brought({})
    BY <1>2, <2>2 DEF Brought, ImportedAll
  <2>4. ManifestOK(a) /\ ManifestOK(b)
    BY <2>1, <2>2, <2>3, ManifestEdits, ManifestEditsOfTruth
  <2>5. PICK m, s : /\ m \in {a, b} /\ s = [stage |-> x, snap |-> m, ids |-> t.ids, div |-> t.div]
                               /\ Becomes(i, j, s)
    <3>1. PICK ta, tb : ta = [t EXCEPT !.snap = a] /\ tb = [t EXCEPT !.snap = b]
      OBVIOUS
    <3>2. /\ ta = [stage |-> t.stage, snap |-> a, ids |-> t.ids, div |-> t.div]
          /\ tb = [stage |-> t.stage, snap |-> b, ids |-> t.ids, div |-> t.div]
      BY <1>2, <3>1, ImportRecord
    <3>3. /\ [ta EXCEPT !.stage = x] = [stage |-> x, snap |-> a, ids |-> t.ids, div |-> t.div]
          /\ [tb EXCEPT !.stage = x] = [stage |-> x, snap |-> b, ids |-> t.ids, div |-> t.div]
      BY <3>2
    <3>4. /\ [t EXCEPT !.snap.status = "applied"] = ta
          /\ [t EXCEPT !.snap.status = "applied", !.snap.media = "processing"] = tb
      <4>1. [t EXCEPT !.snap.status = "applied"] = ta
        BY <2>1, <3>1
      <4>2. [t EXCEPT !.snap.status = "applied", !.snap.media = "processing"]
               = [ta EXCEPT !.snap.media = "processing"]
        BY <4>1
      <4>3. [ta EXCEPT !.snap.media = "processing"] = [ta EXCEPT !.snap = b]
        BY <2>1, <3>2
      <4>4. [ta EXCEPT !.snap = b] = tb
        BY <3>2
      <4>5. QED
        BY <4>1, <4>2, <4>3, <4>4
    <3>5. Saving(i, j, ta) \/ Saving(i, j, tb)
      BY <1>1, <1>8, <3>4 DEF HandOver
    <3>6. Becomes(i, j, [ta EXCEPT !.stage = x]) \/ Becomes(i, j, [tb EXCEPT !.stage = x])
      BY <2>1, <3>5 DEF Saving
    <3>7. QED
      BY <3>3, <3>6
  <2>6. /\ s.stage = x /\ s.snap = m /\ s.ids = t.ids /\ s.div = t.div
        /\ s = [stage |-> s.stage, snap |-> s.snap, ids |-> s.ids, div |-> s.div]
    BY <2>5
  <2>7. x \in {"save", "late"}
    BY <2>1
  <2>8. TaskOK(j, s)
    BY <2>2, <2>4, <2>5, <2>6, <2>7 DEF TaskOK, Stages
  <2>9. TaskOK(j, s)'
    BY <1>3, <2>8, TruthStays
  <2>10. QED
    BY <1>2, <1>3, <1>4, <1>5, <1>6, <2>5, <2>9, JobGoesOn
<1>9. QED
  BY <1>7, <1>8

\* The import writes its manifest; when the batch is applied its ZIP is next.
LEMMA SaveKeeps ==
    ASSUME ManifestInv, NEW i \in Instances, NEW j \in Jobs, Save(i, j)
    PROVE  ManifestInv'
<1>1. PICK t, t0, media : /\ t = task[i][j] /\ t0 = task[i]
                          /\ media = {<<"media", t.snap.mid>>} \cap Jobs
  OBVIOUS
<1>2. /\ j[1] = "import" /\ t.stage \in {"save", "late"} /\ TaskOK(j, t)
      /\ UNCHANGED <<files, tenant, hand, spent>>
  BY <1>1 DEF Save, ManifestInv, TaskInv
<1>3. Grows /\ DiskInv' /\ UploadInv' /\ HandInv /\ TaskInv /\ LeaseInv
  BY <1>2, Kept, FilesStay DEF ManifestInv, files
<1>4. ManifestOK(t.snap) /\ DOMAIN t.div = {} /\ ManifestOK(t.snap)'
  BY <1>2, <1>3, TruthStays DEF TaskOK
<1>5. Busy(t)
  BY <1>2 DEF Busy
<1>6. CASE Becomes(i, j, Failing) /\ UNCHANGED <<man, lease>>
  <2>1. TaskOK(j, Failing)'
    BY <1>3, IdleStages, TruthStays
  <2>2. QED
    BY <1>1, <1>2, <1>3, <1>5, <1>6, <2>1, JobGoesOnAlone
<1>7. CASE ~(Becomes(i, j, Failing) /\ UNCHANGED <<man, lease>>)
  <2>1. Written(i, t.snap)
    BY <1>1, <1>7 DEF Save
  <2>2. ManifestOK(man)'
    BY <1>4, <2>1 DEF Written
  <2>3. lease' = lease \/ (lease.owner = i /\ lease' = [lease EXCEPT !.live = TRUE])
    BY <2>1 DEF Written
  <2>4. CASE t.snap.status = "applied"
    <3>1. PICK r, e, n : /\ r = Resumed(t0, media, t.snap) /\ e = [stage |-> "ending"]
                         /\ n = [r EXCEPT ![j] = e]
      OBVIOUS
    <3>2. task' = [task EXCEPT ![i] = n]
      BY <1>1, <1>7, <2>4, <3>1 DEF Save
    <3>3. /\ r = [k \in Jobs |-> r[k]] /\ n = [k \in Jobs |-> n[k]]
          /\ \A k \in Jobs : n[k] = IF k = j THEN e ELSE r[k]
      <4>1. r = [k \in Jobs |-> r[k]]
        BY <3>1 DEF Resumed
      <4>2. QED
        BY <3>1, <4>1
    <3>4. ASSUME NEW k \in Jobs
          PROVE  TaskOK(k, n[k])' /\ (Busy(n[k]) => Busy(task[i][k]))
      <4>1. TaskOK(k, t0[k])
        BY <1>1 DEF ManifestInv, TaskInv
      <4>2. TaskOK(k, r[k]) /\ (Busy(r[k]) => Busy(t0[k]))
        BY <3>1, <4>1, ResumedWait, IdleStages
      <4>3. TaskOK(k, e)
        BY <3>1, IdleStages
      <4>4. QED
        BY <1>1, <1>3, <1>5, <3>3, <4>2, <4>3, TruthStays
    <3>5. PICK h : h = hand[i]
      OBVIOUS
    <3>6. HandOK(h) /\ Linked(h, t0) /\ hand' = [hand EXCEPT ![i] = h]
      BY <1>1, <1>2, <1>3, <3>5 DEF HandInv
    <3>7. HandOK(h)'
      BY <1>3, <3>6, TruthStays
    <3>8. Linked(h, n)
      <4>1. ASSUME h.op \in Publishing
            PROVE  <<h.op, h.up>> \in Jobs /\ n[<<h.op, h.up>>].stage \in {"publish", "fail"}
        <5>1. PICK k : k = <<h.op, h.up>>
          OBVIOUS
        <5>2. k \in Jobs /\ k[1] = h.op /\ t0[k].stage \in {"publish", "fail"}
          BY <3>6, <4>1, <5>1 DEF Linked
        <5>3. k # j
          BY <1>2, <4>1, <5>2 DEF Publishing
        <5>4. r[k] = t0[k]
          BY <3>1, <5>2, ResumedWait, IdleStages
        <5>5. QED
          BY <3>3, <5>1, <5>2, <5>3, <5>4
      <4>2. QED
        BY <4>1 DEF Linked
    <3>9. HandInv' /\ TaskInv'
      BY <1>3, <3>2, <3>3, <3>4, <3>6, <3>7, <3>8, OneGoesOn
    <3>10. LeaseInv'
      BY <1>3, <2>3, <3>2, <3>4, LeaseStays
    <3>11. QED
      BY <1>3, <2>2, <3>9, <3>10 DEF ManifestInv, Grows
  <2>5. CASE t.snap.status # "applied"
    <3>1. PICK s : s = [t EXCEPT !.stage = "chunk"]
      OBVIOUS
    <3>2. Becomes(i, j, s)
      BY <1>1, <1>7, <2>5, <3>1 DEF Save
    <3>3. TaskOK(j, s)'
      BY <1>2, <1>3, <1>4, <3>1, ImportRecord, TruthStays
    <3>4. QED
      BY <1>1, <1>2, <1>3, <1>5, <2>2, <2>3, <3>2, <3>3, JobGoesOn
  <2>6. QED
    BY <2>4, <2>5
<1>8. QED
  BY <1>6, <1>7

\* What is given up is read again, and written back as failed.
LEMMA GiveImportUpKeeps ==
    ASSUME ManifestInv, NEW i \in Instances, NEW j \in Jobs, GiveImportUp(i, j)
    PROVE  ManifestInv'
<1>1. PICK early : early = ~Cancelled(i)
  OBVIOUS
<1>2. PICK m, new, s : /\ m = man /\ new = [m EXCEPT !.status = "failed"]
                       /\ s = [stage |-> "failed", snap |-> new, early |-> early]
  OBVIOUS
<1>3. /\ j[1] = "import" /\ Becomes(i, j, s) /\ task[i][j].stage = "fail"
      /\ UNCHANGED <<man, lease, files, tenant, hand, spent>>
  BY <1>1, <1>2 DEF GiveImportUp
<1>4. Grows /\ ManifestOK(m)
  BY <1>2, <1>3, Kept DEF ManifestInv
<1>5. ManifestOK(new)'
  BY <1>2, <1>4, ManifestEdits, TruthStays
<1>6. s.stage = "failed" /\ s.snap = new
  BY <1>2
<1>7. TaskOK(j, s)'
  BY <1>5, <1>6 DEF TaskOK, Stages
<1>8. Busy(task[i][j])
  BY <1>3 DEF Busy
<1>9. QED
  BY <1>3, <1>4, <1>7, <1>8, JobGoesOnAlone

LEMMA SaveFailureKeeps ==
    ASSUME ManifestInv, NEW i \in Instances, NEW j \in Jobs, SaveFailure(i, j)
    PROVE  ManifestInv'
<1>1. CASE Perish(i)
  BY <1>1, PerishKeeps
<1>2. CASE ~Perish(i)
  <2>1. PICK t, s : t = task[i][j] /\ s = [stage |-> "ending"]
    OBVIOUS
  <2>2. /\ t.stage = "failed" /\ Becomes(i, j, s) /\ Written(i, t.snap)
        /\ UNCHANGED <<files, tenant, hand, spent>>
    BY <1>2, <2>1 DEF SaveFailure, Ends
  <2>3. Grows
    BY <2>2, Kept DEF ManifestInv
  <2>4. TaskOK(j, t)
    BY <2>1 DEF ManifestInv, TaskInv
  <2>5. ManifestOK(man)'
    BY <2>2, <2>3, <2>4, TruthStays DEF TaskOK, Written
  <2>6. TaskOK(j, s)'
    BY <2>1, <2>3, IdleStages, TruthStays
  <2>7. UploadInv' /\ DiskInv'
    BY <2>2, <2>3, FilesStay DEF files
  <2>8. lease' = lease \/ (lease.owner = i /\ lease' = [lease EXCEPT !.live = TRUE])
    BY <2>2 DEF Written
  <2>9. QED
    BY <2>1, <2>2, <2>3, <2>5, <2>6, <2>7, <2>8, JobGoesOn DEF Busy
<1>3. QED
  BY <1>1, <1>2

LEMMA ValidateKeeps ==
    ASSUME ManifestInv, NEW i \in Instances, NEW j \in Jobs, Validate(i, j)
    PROVE  ManifestInv'
<1>1. /\ j[1] = "validate" /\ task[i][j].stage = "run"
      /\ UNCHANGED <<man, lease, files, tenant, hand, spent>>
  BY DEF Validate
<1>2. Grows
  BY <1>1, Kept DEF ManifestInv
<1>3. PICK s \in {Failing, [stage |-> "ending"], [stage |-> "publish"]} : Becomes(i, j, s)
  BY DEF Validate, Ends
<1>4. TaskOK(j, s)
  <2>1. CASE s = [stage |-> "publish"]
    <3>1. s.stage = "publish"
      BY <2>1
    <3>2. QED
      BY <1>1, <3>1 DEF TaskOK, Stages
  <2>2. CASE s # [stage |-> "publish"]
    BY <1>3, <2>2, IdleStages
  <2>3. QED
    BY <2>1, <2>2
<1>5. TaskOK(j, s)' /\ Busy(task[i][j]) /\ task[i][j].stage \notin {"publish", "fail"}
  BY <1>1, <1>2, <1>4, TruthStays DEF Busy
<1>6. QED
  BY <1>1, <1>2, <1>3, <1>5, JobGoesOnAlone

\* The media of an applied batch are linked.
LEMMA AttachKeeps ==
    ASSUME ManifestInv, NEW i \in Instances, NEW j \in Jobs, Attach(i, j)
    PROVE  ManifestInv'
<1>1. /\ j[1] = "media" /\ task[i][j].stage = "run"
      /\ UNCHANGED <<man, lease, files, history, accepted, hand, spent>>
  BY DEF Attach
<1>2. Busy(task[i][j]) /\ task[i][j].stage \notin {"publish", "fail"}
  BY <1>1 DEF Busy
<1>3. CASE Becomes(i, j, Failing) /\ UNCHANGED attached
  <2>1. Grows
    BY <1>1, <1>3, Kept DEF ManifestInv, tenant
  <2>2. TaskOK(j, Failing)'
    BY <2>1, IdleStages, TruthStays
  <2>3. QED
    BY <1>1, <1>2, <1>3, <2>1, <2>2, JobGoesOnAlone
<1>4. CASE ~(Becomes(i, j, Failing) /\ UNCHANGED attached)
  <2>1. PICK s : s = [stage |-> "publish"]
    OBVIOUS
  <2>2. man.status = "applied" /\ attached' = attached \cup Attachable /\ Becomes(i, j, s)
    BY <1>4, <2>1 DEF Attach
  <2>3. TenantInv /\ SpentInv /\ Brought({})
    BY <2>2 DEF ManifestInv, ManifestOK
  <2>4. attached' = BackupMessages
    BY <2>2, <2>3, AllIsLinked
  <2>5. Grows
    BY <1>1, <2>2, <2>3 DEF Grows, TenantInv, Decided, Attachable, SpentInv
  <2>6. TaskOK(j, s)'
    <3>1. s.stage = "publish"
      BY <2>1
    <3>2. QED
      BY <1>1, <2>4, <3>1 DEF TaskOK, Stages
  <2>7. QED
    BY <1>1, <1>2, <2>2, <2>5, <2>6, JobGoesOnAlone
<1>5. QED
  BY <1>3, <1>4

LEMMA FailsKeeps ==
    ASSUME ManifestInv, NEW i \in Instances, NEW j \in Jobs, Fails(i, j)
    PROVE  ManifestInv'
<1>1. /\ task[i][j].stage \in {"run", "carry", "chunk"} /\ Becomes(i, j, Failing)
      /\ Stray /\ UNCHANGED <<man, lease, files, tenant, hand>>
  BY DEF Fails
<1>2. Grows
  BY <1>1, Kept DEF ManifestInv
<1>3. TaskOK(j, Failing)' /\ Busy(task[i][j]) /\ task[i][j].stage \notin {"publish", "fail"}
  BY <1>1, <1>2, IdleStages, TruthStays DEF Busy
<1>4. QED
  BY <1>1, <1>2, <1>3, JobGoesOnAlone

\* What came of the ZIP is published.
LEMMA PublishMediaKeeps ==
    ASSUME ManifestInv, NEW i \in Instances, NEW j \in Jobs, PublishMedia(i, j)
    PROVE  ManifestInv'
<1>1. PICK t, u, m, new, mine :
         /\ t = task[i][j] /\ u = j[2] /\ m = man /\ new = MediaResult(j, t.stage)
         /\ mine = (man.backup /\ man.mid = u
                      /\ (j[1] = "validate" /\ t.stage = "publish" => man.media = "validating"))
  OBVIOUS
<1>2. /\ j[1] \in {"validate", "media"} /\ t.stage \in {"publish", "fail"} /\ hand[i] = Unlocked
      /\ UNCHANGED <<disk, tenant, spent>>
      /\ uploads' =
           IF uploads[u] = Gone THEN uploads
           ELSE IF t.stage = "fail" THEN [uploads EXCEPT ![u].status = "failed"]
           ELSE IF j[1] = "validate"
                THEN IF mine THEN [uploads EXCEPT ![u].status = new.media] ELSE uploads
                ELSE IF mine THEN uploads ELSE [uploads EXCEPT ![u] = Gone]
      /\ IF mine
         THEN Take(i, j[1], u, new, IF t.stage = "publish" THEN {<<"media", u>>} ELSE {})
         ELSE Ends(i, j) /\ UNCHANGED <<man, lease, hand, again>>
  BY <1>1 DEF PublishMedia
<1>3. Grows /\ DiskInv' /\ UploadInv /\ ManifestOK(m)
  BY <1>1, <1>2, Kept, FilesStay DEF ManifestInv
<1>4. TaskOK(j, t)
  BY <1>1 DEF ManifestInv, TaskInv
<1>5. /\ t.stage = "fail" => new = [m EXCEPT !.media = "failed"]
      /\ t.stage = "publish" /\ j[1] = "media" => new = [m EXCEPT !.media = "completed", !.mid = Nil]
      /\ t.stage = "publish" /\ j[1] = "validate" =>
            \E x \in {"processing", "ready"} : new = [m EXCEPT !.media = x]
  BY <1>1 DEF MediaResult
<1>6. ManifestOK(new)
  <2> \A x \in {"failed", "processing", "ready"} : ManifestOK([m EXCEPT !.media = x])
    BY <1>3, ManifestEdits
  <2>1. CASE t.stage = "fail"
    BY <1>5, <2>1
  <2>2. CASE t.stage = "publish" /\ j[1] = "media"
    <3>1. attached = BackupMessages
      BY <1>4, <2>2 DEF TaskOK
    <3>2. QED
      BY <1>3, <1>5, <2>2, <3>1, ManifestEditsOfTruth
  <2>3. CASE t.stage = "publish" /\ j[1] = "validate"
    <3>1. PICK x \in {"processing", "ready"} : new = [m EXCEPT !.media = x]
      BY <1>5, <2>3
    <3>2. QED
      BY <3>1
  <2>4. QED
    BY <1>2, <2>1, <2>2, <2>3
<1>7. UploadInv'
  <2>1. PICK x : x = IF t.stage = "fail" THEN "failed" ELSE new.media
    OBVIOUS
  <2>2. uploads' \in {uploads, [uploads EXCEPT ![u] = Gone], [uploads EXCEPT ![u].status = x]}
    BY <1>2, <2>1
  <2>3. uploads' = [uploads EXCEPT ![u].status = x] =>
          x \in SessionStatuses \/ uploads' = uploads \/ uploads' = [uploads EXCEPT ![u] = Gone]
    <3>1. t.stage = "fail" => x \in SessionStatuses
      BY <2>1 DEF SessionStatuses
    <3>2. t.stage = "publish" /\ j[1] = "validate" => x \in SessionStatuses
      BY <1>3, <1>5, <2>1 DEF SessionStatuses, ManifestOK, Manifest
    <3>3. t.stage = "publish" /\ j[1] = "media" =>
            uploads' = uploads \/ uploads' = [uploads EXCEPT ![u] = Gone]
      BY <1>2
    <3>4. QED
      BY <1>2, <3>1, <3>2, <3>3
  <2>4. CASE uploads' = uploads
    BY <1>3, <2>4, FilesStay
  <2>5. CASE uploads' = [uploads EXCEPT ![u] = Gone]
    BY <1>3, <2>5, DirectoryGoes
  <2>6. CASE uploads' = [uploads EXCEPT ![u].status = x] /\ x \in SessionStatuses
    <3>1. uploads' = [v \in Uploads |-> uploads'[v]]
      BY <1>3, <2>6 DEF UploadInv
    <3>2. \A v \in Uploads : uploads'[v] \in {uploads[v], [uploads[v] EXCEPT !.status = x]}
      BY <1>3, <2>6 DEF UploadInv
    <3>3. QED
      BY <1>3, <2>6, <3>1, <3>2, SessionsChange
  <2>7. QED
    BY <2>2, <2>3, <2>4, <2>5, <2>6
<1>8. CASE mine
  <2>1. PICK then : then = IF t.stage = "publish" THEN {<<"media", u>>} ELSE {}
    OBVIOUS
  <2>2. Take(i, j[1], u, new, then)
    BY <1>2, <1>8, <2>1
  <2>3. ManifestOK(new)'
    BY <1>3, <1>6, TruthStays
  <2>4. j[1] \in LockOperations \ {"idle"} /\ j[1] \notin {"append", "record", "cancel"}
    BY <1>2 DEF LockOperations, Publishing
  <2>5. <<j[1], u>> = j
    BY <1>1, JobNames
  <2>6. QED
    BY <1>1, <1>2, <1>3, <1>7, <2>2, <2>3, <2>4, <2>5, TakeKeeps
<1>9. CASE ~mine
  <2>1. PICK s : s = [stage |-> "ending"]
    OBVIOUS
  <2>2. Becomes(i, j, s) /\ UNCHANGED <<man, lease, hand>>
    BY <1>2, <1>9, <2>1 DEF Ends
  <2>3. TaskOK(j, s)'
    BY <1>3, <2>1, IdleStages, TruthStays
  <2>4. hand[i].op = "idle" /\ Busy(task[i][j])
    BY <1>1, <1>2, UnlockedIsOK DEF Busy
  <2>5. ManifestOK(man)'
    BY <1>1, <1>3, <2>2, TruthStays
  <2>6. QED
    BY <1>2, <1>3, <1>7, <2>2, <2>3, <2>4, <2>5, JobGoesOn
<1>10. QED
  BY <1>8, <1>9

\* Who is done lets go of the lease, which nobody else has.
LEMMA ReleaseKeeps ==
    ASSUME ManifestInv, NEW i \in Instances, NEW j \in Jobs, Release(i, j)
    PROVE  ManifestInv'
<1>1. PICK s, h, t0 : s = [stage |-> "released"] /\ h = hand[i] /\ t0 = task[i]
  OBVIOUS
<1>2. /\ t0[j].stage = "ending" /\ Becomes(i, j, s)
      /\ lease' = IF lease.owner = i THEN Unleased ELSE lease
      /\ UNCHANGED <<man, files, tenant, hand, spent>>
  BY <1>1 DEF Release
<1>3. Grows /\ DiskInv' /\ UploadInv' /\ HandInv /\ TaskInv /\ LeaseInv
  BY <1>2, Kept, FilesStay DEF ManifestInv, files
<1>4. PICK t : t = [t0 EXCEPT ![j] = s]
  OBVIOUS
<1>5. task' = [task EXCEPT ![i] = t] /\ hand' = [hand EXCEPT ![i] = h]
  BY <1>1, <1>2, <1>3, <1>4 DEF Becomes, HandInv
<1>6. t0 = [k \in Jobs |-> t0[k]] /\ \A k \in Jobs : TaskOK(k, t0[k])
  BY <1>1, <1>3 DEF TaskInv
<1>7. t = [k \in Jobs |-> t[k]] /\ \A k \in Jobs : t[k] = IF k = j THEN s ELSE t0[k]
  BY <1>4, <1>6
<1>8. TaskOK(j, s)' /\ ~Busy(s)
  BY <1>1, <1>3, IdleStages, TruthStays
<1>9. \A k \in Jobs : TaskOK(k, t[k])'
  BY <1>3, <1>6, <1>7, <1>8, TruthStays
<1>10. HandOK(h) /\ Linked(h, t0)
  BY <1>1, <1>3 DEF HandInv
<1>11. HandOK(h)' /\ Linked(h, t)
  BY <1>2, <1>3, <1>7, <1>10, TruthStays DEF Linked
<1>12. HandInv' /\ TaskInv'
  BY <1>3, <1>5, <1>7, <1>9, <1>11, OneGoesOn
<1>13. LeaseInv'
  <2>1. Busy(t0[j])
    BY <1>2 DEF Busy
  <2>2. \A k \in Instances : \A l \in Jobs :
           Busy(task[k][l])' => (k # i \/ l # j) /\ Busy(task[k][l])
    BY <1>1, <1>3, <1>5, <1>7, <1>8 DEF TaskInv, Busy
  <2>3. ~spent.cancelled => \A k \in Instances : \A l \in Jobs : ~Busy(task[k][l])'
    <3>1. ASSUME ~spent.cancelled, NEW k \in Instances, NEW l \in Jobs, Busy(task[k][l])'
          PROVE  FALSE
      <4>1. (k # i \/ l # j) /\ Busy(task[k][l])
        BY <2>2, <3>1
      <4>2. k = lease.owner /\ i = lease.owner
        BY <1>1, <1>3, <2>1, <3>1, <4>1 DEF LeaseInv
      <4>3. l = j
        BY <1>1, <1>3, <2>1, <3>1, <4>1, <4>2 DEF LeaseInv
      <4>4. QED
        BY <4>1, <4>2, <4>3
    <3>2. QED
      BY <3>1 DEF Busy
  <2>4. lease' \in [owner : Instances \cup {Nil, "dead"}, live : BOOLEAN]
    BY <1>2, <1>3 DEF LeaseInv, Unleased
  <2>5. QED
    BY <1>2, <2>3, <2>4 DEF LeaseInv, Busy
<1>14. ManifestOK(man)' /\ TenantInv' /\ SpentInv'
  <2>1. PICK m : m = man
    OBVIOUS
  <2>2. ManifestOK(m)'
    BY <1>3, <2>1, TruthStays DEF ManifestInv
  <2>3. QED
    BY <1>2, <1>3, <2>1, <2>2 DEF Grows
<1>15. QED
  BY <1>3, <1>12, <1>13, <1>14 DEF ManifestInv

\* Jobs are resumed, which does not make them work.
LEMMA JobsResumed ==
    ASSUME ManifestInv, NEW i \in Instances, NEW t,
           task' = [task EXCEPT ![i] = t], t = [j \in Jobs |-> t[j]],
           UNCHANGED <<man, lease, files, tenant, hand, spent>>,
           \A j \in Jobs : \/ t[j] = task[i][j]
                           \/ task[i][j].stage \notin {"publish", "fail"}
                              /\ (t[j] = NoTask \/ t[j] = Scheduled)
    PROVE  ManifestInv'
<1>1. Grows /\ DiskInv' /\ UploadInv' /\ HandInv /\ TaskInv /\ LeaseInv
  BY Kept, FilesStay DEF ManifestInv, files
<1>2. PICK h, t0 : h = hand[i] /\ t0 = task[i]
  OBVIOUS
<1>3. hand' = [hand EXCEPT ![i] = h] /\ HandOK(h) /\ Linked(h, t0)
  BY <1>1, <1>2 DEF HandInv
<1>4. ASSUME NEW j \in Jobs PROVE TaskOK(j, t[j])' /\ (Busy(t[j]) => Busy(task[i][j]))
  <2>1. TaskOK(j, t0[j])
    BY <1>1, <1>2 DEF TaskInv
  <2>2. TaskOK(j, t[j]) /\ (Busy(t[j]) => Busy(task[i][j]))
    BY <1>2, <2>1, IdleStages
  <2>3. QED
    BY <1>1, <2>2, TruthStays
<1>5. HandOK(h)' /\ Linked(h, t)
  BY <1>1, <1>2, <1>3, TruthStays DEF Linked
<1>6. HandInv' /\ TaskInv'
  BY <1>1, <1>3, <1>4, <1>5, OneGoesOn
<1>7. LeaseInv'
  BY <1>1, <1>4, LeaseStays
<1>8. ManifestOK(man)' /\ TenantInv' /\ SpentInv'
  <2>1. PICK m : m = man
    OBVIOUS
  <2>2. ManifestOK(m)'
    BY <1>1, <2>1, TruthStays DEF ManifestInv
  <2>3. QED
    BY <1>1, <2>1, <2>2 DEF Grows
<1>9. QED
  BY <1>1, <1>6, <1>7, <1>8 DEF ManifestInv

LEMMA ResumeKeeps ==
    ASSUME ManifestInv, NEW i \in Instances, NEW j \in Jobs, Resume(i, j)
    PROVE  ManifestInv'
<1>1. PICK t0, others, mine, t :
         /\ t0 = task[i] /\ others = Resumed(t0, Jobs \ {j}, man)
         /\ mine = (IF j \in again[i] /\ Due(j, man) THEN Scheduled ELSE NoTask)
         /\ t = [others EXCEPT ![j] = mine]
  OBVIOUS
<1>2. /\ t0[j].stage = "released" /\ task' = [task EXCEPT ![i] = t]
      /\ UNCHANGED <<man, lease, files, tenant, hand, spent>>
  BY <1>1 DEF Resume
<1>3. others = [k \in Jobs |-> others[k]]
  BY <1>1 DEF Resumed
<1>4. t = [k \in Jobs |-> t[k]] /\ \A k \in Jobs : t[k] = IF k = j THEN mine ELSE others[k]
  BY <1>1, <1>3
<1>5. \A k \in Jobs : \/ t[k] = task[i][k]
                      \/ task[i][k].stage \notin {"publish", "fail"}
                         /\ (t[k] = NoTask \/ t[k] = Scheduled)
  BY <1>1, <1>2, <1>4, ResumedWait, IdleStages
<1>6. QED
  BY <1>2, <1>4, <1>5, JobsResumed

LEMMA RecoverKeeps ==
    ASSUME ManifestInv, NEW i \in Instances, Recover(i)
    PROVE  ManifestInv'
<1>1. PICK t : t = Resumed(task[i], Jobs, man)
  OBVIOUS
<1>2. task' = [task EXCEPT ![i] = t] /\ UNCHANGED <<man, lease, files, tenant, hand, spent>>
  BY <1>1 DEF Recover
<1>3. t = [k \in Jobs |-> t[k]]
  BY <1>1 DEF Resumed
<1>4. \A k \in Jobs : \/ t[k] = task[i][k]
                      \/ task[i][k].stage \notin {"publish", "fail"}
                         /\ (t[k] = NoTask \/ t[k] = Scheduled)
  BY <1>1, ResumedWait, IdleStages
<1>5. QED
  BY <1>2, <1>3, <1>4, JobsResumed

LEMMA TimersKeep ==
    ASSUME ManifestInv, CleanUp \/ Lapse \/ \E u \in Uploads : ExpireUpload(u)
    PROVE  ManifestInv'
<1>1. UNCHANGED <<tenant, hand, task>> /\ (UNCHANGED spent \/ Stray)
  BY DEF CleanUp, Lapse, ExpireUpload, memory
<1>2. Grows /\ ManifestOK(man) /\ UploadInv
  BY <1>1, Kept DEF ManifestInv
<1>3. PICK m : m = man
  OBVIOUS
<1>4. HandInv' /\ TaskInv' /\ LeaseInv'
  <2>1. lease' = lease \/ (lease.owner = "dead" /\ lease' = [lease EXCEPT !.live = FALSE])
    BY DEF CleanUp, Lapse, ExpireUpload
  <2>2. QED
    BY <1>1, <1>2, <2>1, NoneGoesOn DEF ManifestInv
<1>5. CASE CleanUp
  <2>1. PICK new : new = [m EXCEPT !.status = "expired"]
    OBVIOUS
  <2>2. /\ man' = new /\ disk' = EmptyDisk
        /\ uploads' = [u \in Uploads |-> IF uploads[u] = Fresh THEN Fresh ELSE Gone]
    BY <1>3, <1>5, <2>1 DEF CleanUp
  <2>3. ManifestOK(man)'
    BY <1>2, <1>3, <2>1, <2>2, ManifestEdits, TruthStays
  <2>4. DiskInv'
    BY <2>2 DEF DiskInv, EmptyDisk
  <2>5. UploadInv'
    <3>1. "gone" \in SessionStatuses
      BY DEF SessionStatuses
    <3>2. QED
      BY <1>2, <2>2, <3>1, SessionsChange
  <2>6. QED
    BY <1>2, <1>4, <2>3, <2>4, <2>5 DEF ManifestInv, Grows
<1>6. CASE Lapse
  <2>1. UNCHANGED <<man, files>>
    BY <1>6 DEF Lapse
  <2>2. ManifestOK(man)' /\ UploadInv' /\ DiskInv'
    BY <1>2, <1>3, <2>1, FilesStay, TruthStays DEF files
  <2>3. QED
    BY <1>2, <1>4, <2>2 DEF ManifestInv, Grows
<1>7. CASE \E u \in Uploads : ExpireUpload(u)
  <2>1. PICK u \in Uploads : ExpireUpload(u)
    BY <1>7
  <2>2. UNCHANGED <<man, disk>> /\ uploads' = [uploads EXCEPT ![u] = Gone]
    BY <2>1 DEF ExpireUpload
  <2>3. uploads' = [v \in Uploads |-> IF v = u THEN Gone ELSE uploads[v]]
    BY <1>2, <2>2 DEF UploadInv
  <2>4. UploadInv'
    <3>1. "gone" \in SessionStatuses
      BY DEF SessionStatuses
    <3>2. QED
      BY <1>2, <2>3, <3>1, SessionsChange
  <2>5. ManifestOK(man)' /\ DiskInv'
    BY <1>2, <1>3, <2>2, FilesStay, TruthStays
  <2>6. QED
    BY <1>2, <1>4, <2>4, <2>5 DEF ManifestInv, Grows
<1>8. QED
  BY <1>5, <1>6, <1>7

-------------------------------------------------------------------------------
(* The invariant.                                                          *)

LEMMA ManifestInvHolds == HistoryInit => ManifestInv
<1> SUFFICES ASSUME HistoryInit PROVE ManifestInv
  OBVIOUS
<1>1. Cardinality(Divergent) \in Nat /\ Nil # "completed"
  BY BackupIsRows, NilIsNoValue, FS_Subset, FS_CardinalityType
<1>2. ManifestOK(man)
  BY <1>1 DEF HistoryInit, ManifestOK, Manifest, BatchStatuses
<1>3. TenantInv /\ SpentInv
  BY BackupIsRows DEF HistoryInit, TenantInv, SpentInv
<1>4. DiskInv
  BY DEF HistoryInit, DiskInv, EmptyDisk
<1>5. UploadInv
  <2>1. Fresh \in Session /\ Fresh.received = 0
    BY DEF Fresh, Session, SessionStatuses
  <2>2. QED
    BY <2>1, BackupIsRows DEF HistoryInit, UploadInv, Uploads
<1>6. HandInv
  <2>1. \A t : Linked(Unlocked, t)
    BY UnlockedIsOK DEF Linked
  <2>2. QED
    BY <2>1, UnlockedIsOK DEF HistoryInit, HandInv
<1>7. TaskInv
  BY IdleStages DEF HistoryInit, TaskInv
<1>8. LeaseInv
  <2>1. Unleased \in [owner : Instances \cup {Nil, "dead"}, live : BOOLEAN]
    BY DEF Unleased
  <2>2. \A i \in Instances : \A j \in Jobs : ~Busy(task[i][j])
    BY IdleStages DEF HistoryInit
  <2>3. QED
    BY <2>1, <2>2 DEF HistoryInit, LeaseInv
<1>9. QED
  BY <1>2, <1>3, <1>4, <1>5, <1>6, <1>7, <1>8 DEF ManifestInv

LEMMA JobKeeps ==
    ASSUME ManifestInv, NEW i \in Instances, NEW j \in Jobs, Job(i, j)
    PROVE  ManifestInv'
  BY ClaimBatchKeeps, StartKeeps, CompareKeeps, PublishPreviewKeeps, LoadKeeps, CarryOutKeeps,
     ImportChunkKeeps, HandOverKeeps, SaveKeeps, GiveImportUpKeeps, SaveFailureKeeps,
     ValidateKeeps, AttachKeeps, PublishMediaKeeps, FailsKeeps, ReleaseKeeps, ResumeKeeps DEF Job

LEMMA ManifestInvKept ==
    ASSUME ManifestInv, [HistoryNext]_historyVars
    PROVE  ManifestInv'
<1>1. CASE UNCHANGED historyVars
  <2>1. UNCHANGED <<man, lease, files, tenant, hand, task, spent>>
    BY <1>1 DEF historyVars, memory
  <2>2. Grows /\ DiskInv' /\ UploadInv'
    BY <2>1, Kept, FilesStay DEF ManifestInv, files
  <2>3. HandInv' /\ TaskInv' /\ LeaseInv'
    BY <2>1, <2>2, NoneGoesOn DEF ManifestInv
  <2>4. PICK m : m = man
    OBVIOUS
  <2>5. ManifestOK(m)'
    BY <2>2, <2>4, TruthStays DEF ManifestInv
  <2>6. QED
    BY <2>1, <2>2, <2>3, <2>4, <2>5 DEF ManifestInv, Grows
<1>2. CASE \E i \in Front : Request(i)
  <2>1. PICK i \in Front : Request(i)
    BY <1>2
  <2>2. i \in Instances
    BY BackupIsRows
  <2>3. QED
    BY <2>1, <2>2, UploadRequestsKeep, AddChunkKeeps, ResolveKeeps, ArchiveKeeps,
       OtherRequestsKeep DEF Request
<1>3. CASE \E i \in Instances : Locked(i) \/ Recover(i) \/ InstanceDies(i)
  BY <1>3, AppendChunkKeeps, RecordChunkKeeps, CommitKeeps, CommitCancelKeeps, RefuseKeeps,
     DecryptKeeps, DecryptFailsKeeps, CloseDatabaseUploadKeeps, RecoverKeeps,
     InstanceDiesKeeps DEF Locked
<1>4. CASE \E i \in Instances, j \in Jobs : Job(i, j)
  BY <1>4, JobKeeps
<1>5. CASE CleanUp \/ Lapse \/ \E u \in Uploads : ExpireUpload(u)
  BY <1>5, TimersKeep
<1>6. QED
  BY <1>1, <1>2, <1>3, <1>4, <1>5 DEF HistoryNext

LEMMA InvIsOrderly == ManifestInv => JobsAreOrderly
<1> SUFFICES ASSUME ManifestInv PROVE JobsAreOrderly
  OBVIOUS
<1>1. HistoryTypeOK
  <2>1. /\ man.status \in BatchStatuses
        /\ man.did \in DbUploads \cup {Nil} /\ man.mid \in MediaUploads \cup {Nil}
        /\ man.pending \in 0..Cardinality(Divergent)
    BY DEF ManifestInv, ManifestOK, Manifest
  <2>2. lease.owner \in Instances \cup {Nil, "dead"}
    BY DEF ManifestInv, LeaseInv
  <2>3. \A u \in Uploads : /\ uploads[u].status \in SessionStatuses
                           /\ uploads[u].received \in 0..Chunks[u]
    BY BackupIsRows DEF ManifestInv, UploadInv, Session, Uploads
  <2>4. \A i \in Instances : hand[i] # Unlocked /\ hand[i].op \in {"preview", "validate", "media"} =>
           task[i][<<hand[i].op, hand[i].up>>].stage \in {"publish", "fail"}
    BY DEF ManifestInv, HandInv, Linked, Publishing
  <2>5. QED
    BY <2>1, <2>2, <2>3, <2>4 DEF HistoryTypeOK, ManifestInv, TenantInv
<1>2. ImportIsComplete
  BY DEF ManifestInv, ManifestOK, ImportIsComplete, Brought, DecidedBut, Decided
<1>3. MediaAfterMessages
  BY DEF ManifestInv, ManifestOK, MediaAfterMessages
<1>4. OneJobAtATime
  <2>1. SUFFICES ASSUME ~spent.cancelled PROVE Cardinality(AtWork) <= 1
    BY DEF OneJobAtATime
  <2>2. \A v, w \in AtWork : v = w
    <3>1. ASSUME NEW v \in AtWork, NEW w \in AtWork PROVE v = w
      <4>1. PICK i \in Instances, j \in Jobs : v = <<i, j>> /\ Busy(task[i][j])
        BY DEF AtWork, Busy
      <4>2. PICK k \in Instances, l \in Jobs : w = <<k, l>> /\ Busy(task[k][l])
        BY DEF AtWork, Busy
      <4>3. i = lease.owner /\ k = lease.owner
        BY <2>1, <4>1, <4>2 DEF ManifestInv, LeaseInv
      <4>4. l = j
        BY <2>1, <4>1, <4>2, <4>3 DEF ManifestInv, LeaseInv
      <4>5. QED
        BY <4>1, <4>2, <4>3, <4>4
    <3>2. QED
      BY <3>1
  <2>3. CASE AtWork = {}
    BY <2>3, FS_EmptySet
  <2>4. CASE AtWork # {}
    <3>1. PICK w : w \in AtWork
      BY <2>4
    <3>2. AtWork = {w}
      BY <2>2, <3>1
    <3>3. Cardinality({w}) = 1
      BY FS_Singleton
    <3>4. Cardinality(AtWork) = 1
      BY <3>2, <3>3
    <3>5. QED
      BY <3>4
  <2>5. QED
    BY <2>3, <2>4
<1>5. QED
  BY <1>1, <1>2, <1>3, <1>4 DEF JobsAreOrderly

\* The jobs of a batch work one after the other and in order, however many
\* processes run them and whichever die (runClaimedJob, runAndroidImport).
THEOREM HistoryJobsAreOrderly == HistorySpec => []JobsAreOrderly
<1>1. HistorySpec => []ManifestInv
  BY ManifestInvHolds, ManifestInvKept, PTL DEF HistorySpec
<1>2. QED
  BY <1>1, InvIsOrderly, PTL

-------------------------------------------------------------------------------
(* The bytes of an upload, when one process takes the requests.            *)

OneFront == \A i, k \in Front : i = k

Numbered(f, n) == Len(f) = n /\ \A k \in 1 .. n : f[k] = k
Prefixed(s) ==
    \/ s.file = <<>>
    \/ s.received <= Len(s.file) /\ \A k \in 1 .. s.received : s.file[k] = k

\* A block is appended to those before it, and then recorded, if the file is
\* still there.
BlockOK(h) ==
    /\ h.op = "append" => \/ uploads[h.up] = Gone
                          \/ /\ Numbered(uploads[h.up].file, h.new.n - 1)
                             /\ uploads[h.up].received <= h.new.n - 1
    /\ h.op = "record" => \/ uploads[h.up].file = <<>>
                          \/ Numbered(uploads[h.up].file, h.new.n)

\* Who takes no requests has none under way.
FrontInv ==
    /\ flow = [i \in Instances |-> flow[i]]
    /\ \A i \in Instances : flow[i] # Nil => i \in Front
    /\ \A i \in Instances :
          hand[i].op \in {"append", "record", "complete", "backup"} => i \in Front

BytesInv == /\ FrontInv
            /\ \A u \in Uploads : Prefixed(uploads[u])
            /\ \A i \in Instances : BlockOK(hand[i])

\* What an instance does with its lock and its completion, ...
FrontStep ==
    /\ flow' = [k \in Instances |-> flow'[k]]
    /\ \A k \in Instances :
          /\ flow'[k] \in {flow[k], Nil} \/ k \in Front
          /\ hand'[k] = hand[k] \/ hand'[k].op \notin {"append", "record"}
          /\ hand'[k] = hand[k] \/ hand'[k].op \notin {"complete", "backup"} \/ k \in Front
\* ... and what others may do with the session it works on.
Fades ==
    \A u \in Uploads :
       \/ uploads'[u] \in {uploads[u], Gone}
       \/ uploads[u] # Gone /\ \E s : uploads'[u] = [uploads[u] EXCEPT !.status = s]

LEMMA FrontKept ==
    ASSUME FrontInv, FrontStep
    PROVE  FrontInv'
  BY DEF FrontInv, FrontStep

LEMMA StatusKeepsBytes ==
    ASSUME UploadInv, NEW u \in Uploads, NEW s
    PROVE  /\ [uploads[u] EXCEPT !.status = s].file = uploads[u].file
           /\ [uploads[u] EXCEPT !.status = s].received = uploads[u].received
           /\ [Fresh EXCEPT !.status = s].file = <<>> /\ Gone.file = <<>>
  BY DEF UploadInv, Session, Fresh, Gone

LEMMA SameBytes ==
    ASSUME NEW a, NEW b,
           b.file = <<>> \/ (Prefixed(a) /\ b.file = a.file /\ b.received = a.received)
    PROVE  Prefixed(b)
<1>1. CASE b.file = <<>>
  BY <1>1 DEF Prefixed
<1>2. CASE Prefixed(a) /\ b.file = a.file /\ b.received = a.received
  <2>1. PICK f, n : f = a.file /\ n = a.received
    OBVIOUS
  <2>2. f = <<>> \/ (n <= Len(f) /\ \A k \in 1 .. n : f[k] = k)
    BY <1>2, <2>1 DEF Prefixed
  <2>3. b.file = f /\ b.received = n
    BY <1>2, <2>1
  <2>4. QED
    BY <2>2, <2>3 DEF Prefixed
<1>3. QED
  BY <1>1, <1>2

LEMMA FadingKeepsBytes ==
    ASSUME ManifestInv, BytesInv, FrontStep, Fades
    PROVE  BytesInv'
<1>1. UploadInv /\ HandInv
  BY DEF ManifestInv
<1>2. ASSUME NEW u \in Uploads
      PROVE  \/ uploads'[u] = Gone
             \/ /\ uploads[u] # Gone
                /\ uploads'[u].file = uploads[u].file /\ uploads'[u].received = uploads[u].received
  <2>1. CASE uploads'[u] \in {uploads[u], Gone}
    BY <2>1
  <2>2. CASE uploads'[u] \notin {uploads[u], Gone}
    <3>1. PICK s : uploads[u] # Gone /\ uploads'[u] = [uploads[u] EXCEPT !.status = s]
      BY <2>2 DEF Fades
    <3>2. QED
      BY <1>1, <3>1, StatusKeepsBytes
  <2>3. QED
    BY <2>1, <2>2
<1>3. ASSUME NEW u \in Uploads PROVE Prefixed(uploads[u])'
  <2>1. Prefixed(uploads[u]) /\ Gone.file = <<>>
    BY DEF BytesInv, Gone, Fresh
  <2>2. Prefixed(uploads'[u])
    BY <1>2, <2>1, SameBytes
  <2>3. QED
    BY <2>2 DEF Prefixed
<1>4. ASSUME NEW k \in Instances PROVE BlockOK(hand[k])'
  <2>1. CASE hand'[k].op \notin {"append", "record"}
    BY <2>1 DEF BlockOK
  <2>2. CASE hand'[k] = hand[k] /\ hand[k].op \in {"append", "record"}
    <3>1. PICK h : h = hand[k]
      OBVIOUS
    <3>2. BlockOK(h) /\ h.up \in Uploads /\ h' = h
      BY <1>1, <2>2, <3>1 DEF BytesInv, HandInv, HandOK, Unlocked
    <3>3. Gone.file = <<>>
      BY DEF Gone, Fresh
    <3>4. BlockOK(h)'
      BY <1>2, <3>2, <3>3 DEF BlockOK
    <3>5. QED
      BY <2>2, <3>1, <3>4
  <2>3. QED
    BY <2>1, <2>2 DEF FrontStep
<1>5. QED
  BY <1>3, <1>4, FrontKept DEF BytesInv

\* The one process that takes requests has no block under way.
LEMMA RequestKeepsBytes ==
    ASSUME ManifestInv, BytesInv, OneFront, FrontStep, NEW i \in Front, hand[i] = Unlocked,
           \A u \in Uploads : \E s :
              uploads'[u] \in {uploads[u], Gone, [uploads[u] EXCEPT !.status = s],
                               [Fresh EXCEPT !.status = s]}
    PROVE  BytesInv'
<1>1. UploadInv
  BY DEF ManifestInv
<1>2. ASSUME NEW u \in Uploads PROVE Prefixed(uploads[u])'
  <2>1. PICK s :
           uploads'[u] \in {uploads[u], Gone, [uploads[u] EXCEPT !.status = s],
                            [Fresh EXCEPT !.status = s]}
    OBVIOUS
  <2>2. \/ uploads'[u].file = <<>>
        \/ uploads'[u].file = uploads[u].file /\ uploads'[u].received = uploads[u].received
    <3>1. PICK a, b : a = [uploads[u] EXCEPT !.status = s] /\ b = [Fresh EXCEPT !.status = s]
      OBVIOUS
    <3>2. a.file = uploads[u].file /\ a.received = uploads[u].received
          /\ b.file = <<>> /\ Gone.file = <<>>
      BY <1>1, <3>1, StatusKeepsBytes
    <3>3. uploads'[u] = uploads[u] \/ uploads'[u] = Gone \/ uploads'[u] = a \/ uploads'[u] = b
      BY <2>1, <3>1
    <3>4. QED
      BY <3>2, <3>3
  <2>3. Prefixed(uploads[u])
    BY DEF BytesInv
  <2>4. Prefixed(uploads'[u])
    BY <2>2, <2>3, SameBytes
  <2>5. QED
    BY <2>4 DEF Prefixed
<1>3. ASSUME NEW k \in Instances PROVE hand'[k].op \notin {"append", "record"}
  <2>1. hand[k].op \notin {"append", "record"}
    BY UnlockedIsOK DEF BytesInv, FrontInv, OneFront
  <2>2. QED
    BY <2>1 DEF FrontStep
<1>4. QED
  BY <1>2, <1>3, FrontKept DEF BytesInv, BlockOK

LEMMA TakeIsFrontStep ==
    ASSUME HandInv, FrontInv, NEW i \in Instances, NEW op, NEW up, NEW new, NEW then,
           Take(i, op, up, new, then), op \notin {"append", "record"},
           op \in {"complete", "backup"} => i \in Front,
           flow' = [k \in Instances |-> flow'[k]],
           \A k \in Instances : flow'[k] \in {flow[k], Nil} \/ k \in Front
    PROVE  FrontStep
<1>1. PICK early : early = ~Cancelled(i)
  OBVIOUS
<1>2. PICK h : h = [op |-> op, up |-> up, new |-> new, then |-> then, early |-> early]
  OBVIOUS
<1>3. hand' = [hand EXCEPT ![i] = h] /\ h.op = op
  BY <1>1, <1>2 DEF Take
<1>4. \A k \in Instances : hand'[k] = IF k = i THEN h ELSE hand[k]
  BY <1>3 DEF HandInv
<1>5. QED
  BY <1>3, <1>4 DEF FrontStep

LEMMA UnlockIsFrontStep ==
    ASSUME HandInv, FrontInv, NEW i \in Instances,
           UNCHANGED hand \/ hand' = [hand EXCEPT ![i] = Unlocked],
           flow' = [k \in Instances |-> flow'[k]],
           \A k \in Instances : flow'[k] \in {flow[k], Nil} \/ k \in Front
    PROVE  FrontStep
<1>1. \A k \in Instances : hand'[k] = hand[k] \/ hand'[k] = Unlocked
  BY DEF HandInv
<1>2. QED
  BY <1>1, UnlockedIsOK DEF FrontStep

\* Jobs.
LEMMA JobKeepsBytes ==
    ASSUME ManifestInv, BytesInv, NEW i \in Instances, NEW j \in Jobs, Job(i, j)
    PROVE  BytesInv'
<1>1. HandInv /\ UploadInv /\ FrontInv
  BY DEF ManifestInv, BytesInv
<1>2. UNCHANGED flow \/ flow' = [flow EXCEPT ![i] = Nil]
  BY DEF Job, ClaimBatch, Start, Perish, Stopped, Compare, PublishPreview, Load, CarryOut, ImportChunk,
         HandOver, Save, GiveImportUp, SaveFailure, Validate, Attach, PublishMedia, Fails, Release, Resume
<1>3. flow' = [k \in Instances |-> flow'[k]] /\ \A k \in Instances : flow'[k] \in {flow[k], Nil}
  BY <1>1, <1>2 DEF FrontInv
<1>4. FrontStep
  <2>1. CASE UNCHANGED hand \/ hand' = [hand EXCEPT ![i] = Unlocked]
    BY <1>1, <1>3, <2>1, UnlockIsFrontStep
  <2>2. CASE PublishPreview(i, j) \/ PublishMedia(i, j)
    <3>1. j[1] \in Publishing
      BY <2>2 DEF PublishPreview, PublishMedia, Publishing
    <3>2. CASE \E up, new, then : Take(i, j[1], up, new, then)
      BY <1>1, <1>3, <3>1, <3>2, TakeIsFrontStep DEF Publishing
    <3>3. CASE UNCHANGED hand
      BY <1>1, <1>3, <3>3, UnlockIsFrontStep
    <3>4. QED
      BY <2>2, <3>2, <3>3 DEF PublishPreview, PublishMedia
  <2>3. CASE ~(PublishPreview(i, j) \/ PublishMedia(i, j))
    <3>1. UNCHANGED hand \/ hand' = [hand EXCEPT ![i] = Unlocked]
      BY <2>3 DEF Job, ClaimBatch, Start, Perish, Stopped, Compare, Load, CarryOut, ImportChunk,
             HandOver, Save, GiveImportUp, SaveFailure, Validate, Attach, Fails, Release, Resume
    <3>2. QED
      BY <2>1, <3>1
  <2>4. QED
    BY <2>2, <2>3
<1>5. Fades
  <2>1. CASE UNCHANGED uploads
    BY <2>1 DEF Fades
  <2>2. CASE HandOver(i, j)
    <3>1. PICK u : uploads' = uploads \/ (/\ uploads[u].status = "ready"
                                           /\ uploads' = [uploads EXCEPT ![u].status = "processing"])
      BY <2>2 DEF HandOver
    <3>2. Gone.status = "gone"
      BY DEF Gone, Fresh
    <3>3. CASE uploads' = uploads
      BY <2>1, <3>3
    <3>4. CASE uploads' # uploads
      BY <1>1, <3>1, <3>2, <3>4 DEF Fades, UploadInv
    <3>5. QED
      BY <3>3, <3>4
  <2>3. CASE PublishMedia(i, j)
    <3>1. PICK u, x : /\ u = j[2]
                      /\ \/ uploads' = uploads \/ uploads' = [uploads EXCEPT ![u] = Gone]
                         \/ uploads[u] # Gone /\ uploads' = [uploads EXCEPT ![u].status = x]
      BY <2>3 DEF PublishMedia
    <3>2. \A v \in Uploads :
             \/ uploads'[v] \in {uploads[v], Gone}
             \/ uploads[v] # Gone /\ uploads'[v] = [uploads[v] EXCEPT !.status = x]
      <4>1. CASE uploads' = uploads
        BY <4>1
      <4>4. CASE uploads' = [uploads EXCEPT ![u] = Gone]
        <5>1. \A v \in Uploads : uploads'[v] = IF v = u THEN Gone ELSE uploads[v]
          BY <1>1, <4>4 DEF UploadInv
        <5>2. QED
          BY <5>1
      <4>2. CASE uploads[u] # Gone /\ uploads' = [uploads EXCEPT ![u].status = x]
        <5>1. PICK s : s = [uploads[u] EXCEPT !.status = x]
          OBVIOUS
        <5>2. \A v \in Uploads : uploads'[v] = IF v = u THEN s ELSE uploads[v]
          BY <1>1, <4>2, <5>1 DEF UploadInv
        <5>3. QED
          BY <4>2, <5>1, <5>2
      <4>3. QED
        BY <3>1, <4>1, <4>2, <4>4
    <3>3. QED
      BY <3>2 DEF Fades
  <2>4. QED
    BY <2>1, <2>2, <2>3 DEF Job, ClaimBatch, Start, Perish, Stopped, Compare, PublishPreview, Load,
       CarryOut, ImportChunk, Save, GiveImportUp, SaveFailure, Validate, Attach, Fails, Release, Resume, files
<1>6. QED
  BY <1>4, <1>5, FadingKeepsBytes

\* Requests.
LEMMA RequestKeepsBytesHere ==
    ASSUME ManifestInv, BytesInv, OneFront, NEW i \in Front, Request(i)
    PROVE  BytesInv'
<1>1. i \in Instances /\ HandInv /\ UploadInv /\ FrontInv /\ hand[i] = Unlocked
  BY BackupIsRows DEF ManifestInv, BytesInv, Request
<1>2. UNCHANGED flow
  BY DEF Request, CreateDatabaseUpload, CreateMediaUpload, AddChunk, CompleteDatabaseUpload,
         CompleteMediaUpload, AddMediaArchive, ResolveDivergence, Apply, Cancel, CancelUpload
<1>3. flow' = [k \in Instances |-> flow'[k]] /\ \A k \in Instances : flow'[k] \in {flow[k], Nil}
  BY <1>1, <1>2 DEF FrontInv
<1>4. CASE AddChunk(i)
  <2>1. PICK u, new :
           /\ u \in Uploads
           /\ Len(uploads[u].file) = uploads[u].received /\ new.n = uploads[u].received + 1
           /\ UNCHANGED uploads /\ Take(i, "append", u, new, {})
    <3>1. PICK u \in Uploads :
             /\ Len(uploads[u].file) = uploads[u].received /\ UNCHANGED uploads
             /\ Take(i, "append", u, [man |-> man, n |-> uploads[u].received + 1], {})
      BY <1>4 DEF AddChunk, Whole, files
    <3>2. PICK new : new = [man |-> man, n |-> uploads[u].received + 1]
      OBVIOUS
    <3>3. QED
      BY <3>1, <3>2
  <2>2. PICK early : early = ~Cancelled(i)
    OBVIOUS
  <2>3. PICK h : h = [op |-> "append", up |-> u, new |-> new, then |-> {}, early |-> early]
    OBVIOUS
  <2>4. hand' = [hand EXCEPT ![i] = h] /\ h.op = "append" /\ h.up = u /\ h.new = new
    BY <2>1, <2>2, <2>3 DEF Take
  <2>5. \A k \in Instances : hand'[k] = IF k = i THEN h ELSE hand[k]
    BY <1>1, <2>4 DEF HandInv
  <2>6. uploads[u].received \in Nat
    BY <1>1, <2>1 DEF UploadInv, Session
  <2>7. Numbered(uploads[u].file, new.n - 1) /\ uploads[u].received <= new.n - 1
    <3>1. new.n - 1 = uploads[u].received
      BY <2>1, <2>6
    <3>2. Prefixed(uploads[u])
      BY <2>1 DEF BytesInv
    <3>3. uploads[u].file = <<>> => uploads[u].received = 0
      BY <2>1
    <3>4. \A k \in 1 .. uploads[u].received : uploads[u].file[k] = k
      BY <2>6, <3>2, <3>3 DEF Prefixed
    <3>5. QED
      BY <2>1, <2>6, <3>1, <3>4 DEF Numbered
  <2>8. ASSUME NEW k \in Instances PROVE BlockOK(hand[k])'
    <3>1. CASE k = i
      BY <2>1, <2>4, <2>5, <2>7, <3>1 DEF BlockOK
    <3>2. CASE k # i
      BY <2>1, <2>5, <3>2 DEF BlockOK, BytesInv
    <3>3. QED
      BY <3>1, <3>2
  <2>9. FrontInv'
    BY <1>1, <1>2, <2>4, <2>5 DEF FrontInv
  <2>10. \A v \in Uploads : Prefixed(uploads[v])'
    BY <2>1 DEF BytesInv, Prefixed
  <2>11. QED
    BY <2>8, <2>9, <2>10 DEF BytesInv
<1>5. CASE ~AddChunk(i)
  <2>1. FrontStep
    <3> DEFINE Taken(op) == \E up, new, then : Take(i, op, up, new, then)
    <3>1. \E op \in LockOperations \ {"append", "record"} : Taken(op)
      <4> USE DEF LockOperations
      <4>1. CASE CreateDatabaseUpload(i)
        <5>1. Taken("create")
          BY <4>1 DEF CreateDatabaseUpload
        <5>2. QED
          BY <5>1
      <4>2. CASE CreateMediaUpload(i)
        <5>1. Taken("create")
          BY <4>2 DEF CreateMediaUpload
        <5>2. QED
          BY <5>1
      <4>3. CASE CompleteDatabaseUpload(i)
        <5>1. Taken("complete")
          BY <4>3 DEF CompleteDatabaseUpload
        <5>2. QED
          BY <5>1
      <4>4. CASE CompleteMediaUpload(i)
        <5>1. Taken("validating")
          BY <4>4 DEF CompleteMediaUpload
        <5>2. QED
          BY <5>1
      <4>5. CASE AddMediaArchive(i)
        <5>1. Taken("archive")
          BY <4>5 DEF AddMediaArchive
        <5>2. QED
          BY <5>1
      <4>6. CASE ResolveDivergence(i)
        <5>1. Taken("resolve")
          BY <4>6 DEF ResolveDivergence
        <5>2. QED
          BY <5>1
      <4>7. CASE Apply(i)
        <5>1. Taken("apply")
          BY <4>7 DEF Apply
        <5>2. QED
          BY <5>1
      <4>8. CASE Cancel(i)
        <5>1. Taken("cancel")
          BY <4>8 DEF Cancel
        <5>2. QED
          BY <5>1
      <4>9. CASE CancelUpload(i)
        <5>1. Taken("drop")
          BY <4>9 DEF CancelUpload
        <5>2. QED
          BY <5>1
      <4>10. QED
        BY <1>5, <4>1, <4>2, <4>3, <4>4, <4>5, <4>6, <4>7, <4>8, <4>9 DEF Request
    <3>2. PICK op, up, new, then : op \notin {"append", "record"} /\ Take(i, op, up, new, then)
      BY <3>1
    <3>3. QED
      BY <1>1, <1>3, <3>2, TakeIsFrontStep
  <2>2. \A v \in Uploads : \E s :
           uploads'[v] \in {uploads[v], Gone, [uploads[v] EXCEPT !.status = s],
                            [Fresh EXCEPT !.status = s]}
    <3>1. CASE UNCHANGED uploads
      BY <3>1
    <3>2. CASE CreateDatabaseUpload(i)
      BY <1>1, <3>2 DEF CreateDatabaseUpload, UploadInv
    <3>3. CASE CreateMediaUpload(i)
      BY <1>1, <3>3 DEF CreateMediaUpload, UploadInv
    <3>4. CASE CompleteDatabaseUpload(i)
      <4>1. PICK u : uploads' = [uploads EXCEPT ![u].status = "processing"]
        BY <3>4 DEF CompleteDatabaseUpload
      <4>2. \A v \in Uploads : uploads'[v] \in {uploads[v], [uploads[v] EXCEPT !.status = "processing"]}
        BY <1>1, <4>1 DEF UploadInv
      <4>3. QED
        BY <4>2
    <3>5. CASE CompleteMediaUpload(i)
      <4>1. PICK u : uploads' = [uploads EXCEPT ![u].status = "validating"]
        BY <3>5 DEF CompleteMediaUpload
      <4>2. \A v \in Uploads : uploads'[v] \in {uploads[v], [uploads[v] EXCEPT !.status = "validating"]}
        BY <1>1, <4>1 DEF UploadInv
      <4>3. QED
        BY <4>2
    <3>6. QED
      BY <1>5, <3>1, <3>2, <3>3, <3>4, <3>5 DEF Request, AddMediaArchive, ResolveDivergence,
         Apply, Cancel, CancelUpload, files
  <2>3. QED
    BY <1>1, <2>1, <2>2, RequestKeepsBytes
<1>6. QED
  BY <1>4, <1>5

\* The bytes and the record of a block.
LEMMA BlockKeepsBytes ==
    ASSUME ManifestInv, BytesInv, OneFront, NEW i \in Instances, AppendChunk(i) \/ RecordChunk(i)
    PROVE  BytesInv'
<1>1. HandInv /\ UploadInv /\ FrontInv
  BY DEF ManifestInv, BytesInv
<1>2. PICK h : h = hand[i]
  OBVIOUS
<1>3. h.op \in {"append", "record"} /\ UNCHANGED flow /\ HandOK(h) /\ BlockOK(h)
  BY <1>1, <1>2 DEF AppendChunk, RecordChunk, HandInv, BytesInv
<1>4. h.up \in Uploads /\ h.new.n \in 1 .. Chunks[h.up] /\ Chunks[h.up] \in Nat /\ h # Unlocked
  BY <1>3, BackupIsRows DEF HandOK, Unlocked, Uploads
<1>5. PICK u, n : u = h.up /\ n = h.new.n
  OBVIOUS
<1>6. n \in Nat /\ n >= 1 /\ u \in Uploads /\ uploads[u] \in Session
  BY <1>1, <1>4, <1>5 DEF UploadInv
<1>7. i \in Front /\ \A k \in Instances : k # i => hand[k].op \notin {"append", "record"}
  BY <1>1, <1>2, <1>3 DEF FrontInv, OneFront
<1>8. flow' = [k \in Instances |-> flow'[k]] /\ \A k \in Instances : flow'[k] \in {flow[k], Nil}
  BY <1>1, <1>3 DEF FrontInv
<1>9. CASE UNCHANGED uploads /\ hand' = [hand EXCEPT ![i] = Unlocked]
  <2>1. FrontStep
    BY <1>1, <1>8, <1>9, UnlockIsFrontStep
  <2>2. QED
    BY <1>9, <2>1, FadingKeepsBytes DEF Fades
<1>10. CASE /\ uploads[u] # Gone /\ h.op = "append"
            /\ uploads' = [uploads EXCEPT ![u].file = Append(@, n)]
            /\ hand' = [hand EXCEPT ![i].op = "record"]
  <2>1. PICK f : f = Append(uploads[u].file, n)
    OBVIOUS
  <2>2. Numbered(uploads[u].file, n - 1) /\ uploads[u].received <= n - 1
    BY <1>3, <1>5, <1>10 DEF BlockOK
  <2>3. uploads[u].file \in Seq(Nat) /\ uploads[u].received \in Nat
    BY <1>6 DEF Session
  <2>4. Len(f) = n /\ \A k \in 1 .. n : f[k] = k
    <3>1. Len(uploads[u].file) = n - 1 /\ \A k \in 1 .. n - 1 : uploads[u].file[k] = k
      BY <2>2 DEF Numbered
    <3>2. Len(f) = n
      BY <1>6, <2>1, <2>3, <3>1
    <3>3. ASSUME NEW k \in 1 .. n PROVE f[k] = k
      <4>1. CASE k = n
        BY <1>6, <2>1, <2>3, <3>1, <4>1
      <4>2. CASE k # n
        <5>1. k \in 1 .. Len(uploads[u].file) /\ f[k] = uploads[u].file[k]
          BY <1>6, <2>1, <2>3, <3>1, <4>2
        <5>2. QED
          BY <3>1, <5>1
      <4>3. QED
        BY <4>1, <4>2
    <3>4. QED
      BY <3>2, <3>3
  <2>5. uploads'[u].file = f /\ uploads'[u].received = uploads[u].received
        /\ \A v \in Uploads : v # u => uploads'[v] = uploads[v]
    BY <1>1, <1>6, <1>10, <2>1 DEF UploadInv, Session
  <2>6. ASSUME NEW v \in Uploads PROVE Prefixed(uploads[v])'
    BY <1>6, <2>2, <2>3, <2>4, <2>5 DEF Prefixed, BytesInv
  <2>7. PICK g : g = [h EXCEPT !.op = "record"]
    OBVIOUS
  <2>8. g = [op |-> "record", up |-> h.up, new |-> h.new, then |-> h.then, early |-> h.early]
    BY <1>3, <1>4, <2>7 DEF HandOK
  <2>9. g.op = "record" /\ g.up = u /\ g.new.n = n
        /\ \A k \in Instances : hand'[k] = IF k = i THEN g ELSE hand[k]
    BY <1>1, <1>2, <1>5, <1>10, <2>7, <2>8 DEF HandInv
  <2>10. ASSUME NEW k \in Instances PROVE BlockOK(hand[k])'
    BY <1>7, <2>4, <2>5, <2>9 DEF BlockOK, Numbered
  <2>11. FrontInv'
    BY <1>1, <1>3, <1>7, <2>9 DEF FrontInv
  <2>12. QED
    BY <2>6, <2>10, <2>11 DEF BytesInv
<1>11. CASE /\ h.op = "record"
            /\ uploads' = [uploads EXCEPT ![u].status = "uploading", ![u].received = n]
            /\ \/ hand' = [hand EXCEPT ![i] = Unlocked]
               \/ hand' = [hand EXCEPT ![i] = [@ EXCEPT !.op = "chunk", !.new = h.new.man]]
  <2>1. PICK r : r = [uploads[u] EXCEPT !.status = "uploading"]
    OBVIOUS
  <2>2. r.file = uploads[u].file
        /\ r = [status |-> "uploading", file |-> uploads[u].file, received |-> uploads[u].received]
    BY <1>6, <2>1 DEF Session
  <2>3. PICK s : s = [r EXCEPT !.received = n]
    OBVIOUS
  <2>4. s.file = uploads[u].file /\ s.received = n
    BY <2>2, <2>3
  <2>5. uploads' = [uploads EXCEPT ![u] = s]
    BY <1>1, <1>6, <1>11, <2>1, <2>3 DEF UploadInv
  <2>6. uploads'[u].file = uploads[u].file /\ uploads'[u].received = n
        /\ \A v \in Uploads : v # u => uploads'[v] = uploads[v]
    BY <1>1, <1>6, <2>4, <2>5 DEF UploadInv
  <2>7. uploads[u].file = <<>> \/ Numbered(uploads[u].file, n)
    BY <1>3, <1>5, <1>11 DEF BlockOK
  <2>8. ASSUME NEW v \in Uploads PROVE Prefixed(uploads[v])'
    <3>1. CASE v = u
      <4>1. PICK s2, g2 : s2 = uploads'[u] /\ g2 = uploads[u].file
        OBVIOUS
      <4>2. s2.file = g2 /\ s2.received = n /\ (g2 = <<>> \/ (Len(g2) = n /\ \A k \in 1 .. n : g2[k] = k))
        BY <2>6, <2>7, <4>1 DEF Numbered
      <4>3. Prefixed(s2)
        BY <1>6, <4>2 DEF Prefixed
      <4>4. QED
        BY <3>1, <4>1, <4>3 DEF Prefixed
    <3>2. CASE v # u
      BY <2>6, <3>2 DEF Prefixed, BytesInv
    <3>3. QED
      BY <3>1, <3>2
  <2>9. PICK f, m : f = [h EXCEPT !.op = "chunk"] /\ m = h.new.man
    OBVIOUS
  <2>10. f = [op |-> "chunk", up |-> h.up, new |-> h.new, then |-> h.then, early |-> h.early]
    BY <1>3, <1>4, <2>9 DEF HandOK
  <2>11. PICK g : g = [f EXCEPT !.new = m]
    OBVIOUS
  <2>12. g = [op |-> "chunk", up |-> h.up, new |-> m, then |-> h.then, early |-> h.early]
    BY <2>10, <2>11
  <2>13. [h EXCEPT !.op = "chunk", !.new = m] = g
    BY <1>3, <1>4, <2>9, <2>10, <2>11, <2>12 DEF HandOK
  <2>14. hand' = [hand EXCEPT ![i] = Unlocked] \/ hand' = [hand EXCEPT ![i] = g]
    BY <1>2, <1>11, <2>9, <2>13
  <2>15. g.op = "chunk"
    BY <2>12
  <2>16. hand'[i].op \in {"idle", "chunk"} /\ \A k \in Instances : k # i => hand'[k] = hand[k]
    BY <1>1, <2>14, <2>15, UnlockedIsOK DEF HandInv
  <2>17. ASSUME NEW k \in Instances PROVE BlockOK(hand[k])'
    BY <1>7, <2>16 DEF BlockOK
  <2>18. FrontInv'
    BY <1>1, <1>3, <2>16 DEF FrontInv
  <2>19. QED
    BY <2>8, <2>17, <2>18 DEF BytesInv
<1>12. QED
  <2>1. CASE AppendChunk(i)
    BY <1>2, <1>5, <1>9, <1>10, <2>1 DEF AppendChunk
  <2>2. CASE RecordChunk(i)
    BY <1>2, <1>5, <1>11, <2>2 DEF RecordChunk
  <2>3. QED
    BY <2>1, <2>2

\* What holds the lock, and what becomes of a completion.
LEMMA LockedKeepsBytes ==
    ASSUME ManifestInv, BytesInv, OneFront, NEW i \in Instances, Locked(i)
    PROVE  BytesInv'
<1>1. HandInv /\ UploadInv /\ FrontInv
  BY DEF ManifestInv, BytesInv
<1>2. CASE AppendChunk(i) \/ RecordChunk(i)
  BY <1>2, BlockKeepsBytes
<1>3. CASE Commit(i)
  <2>1. PICK h, c : /\ h = hand[i]
                    /\ c = IF h.op = "complete" THEN [next |-> "decrypt", up |-> h.up]
                           ELSE IF h.op = "backup" THEN [next |-> "completed", up |-> h.up]
                           ELSE flow[i]
    OBVIOUS
  <2>2. /\ hand' = [hand EXCEPT ![i] = Unlocked] /\ flow' = [flow EXCEPT ![i] = c]
        /\ UNCHANGED uploads \/ uploads' = [uploads EXCEPT ![h.up] = Gone]
    BY <1>3, <2>1 DEF Commit
  <2>3. flow' = [k \in Instances |-> flow'[k]]
    BY <1>1, <2>2 DEF FrontInv
  <2>4. \A k \in Instances : flow'[k] \in {flow[k], Nil} \/ k \in Front
    <3>1. c = flow[i] \/ i \in Front
      BY <1>1, <2>1 DEF FrontInv
    <3>2. QED
      BY <1>1, <2>2, <3>1 DEF FrontInv
  <2>5. FrontStep
    BY <1>1, <2>2, <2>3, <2>4, UnlockIsFrontStep
  <2>6. Fades
    BY <1>1, <2>2 DEF Fades, UploadInv
  <2>7. QED
    BY <2>5, <2>6, FadingKeepsBytes
<1>4. CASE CommitCancel(i)
  <2>1. /\ hand' = [hand EXCEPT ![i] = Unlocked] /\ UNCHANGED flow
        /\ uploads' = [u \in Uploads |-> IF uploads[u] = Fresh THEN Fresh ELSE Gone]
    BY <1>4 DEF CommitCancel
  <2>2. FrontStep
    BY <1>1, <2>1, UnlockIsFrontStep DEF FrontInv
  <2>3. Fades
    BY <2>1 DEF Fades
  <2>4. QED
    BY <2>2, <2>3, FadingKeepsBytes
<1>5. CASE Refuse(i)
  <2>1. /\ hand' = [hand EXCEPT ![i] = Unlocked] /\ flow' = [flow EXCEPT ![i] = Nil]
        /\ UNCHANGED uploads
    BY <1>5 DEF Refuse, files
  <2>2. flow' = [k \in Instances |-> flow'[k]] /\ \A k \in Instances : flow'[k] \in {flow[k], Nil}
    BY <1>1, <2>1 DEF FrontInv
  <2>3. FrontStep
    BY <1>1, <2>1, <2>2, UnlockIsFrontStep
  <2>4. Fades
    BY <2>1 DEF Fades
  <2>5. QED
    BY <2>3, <2>4, FadingKeepsBytes
<1>6. CASE Decrypt(i)
  <2>1. PICK up, new, then : Take(i, "backup", up, new, then)
    BY <1>6 DEF Decrypt
  <2>2. i \in Front /\ UNCHANGED <<uploads, flow>>
    BY <1>1, <1>6 DEF Decrypt, FrontInv
  <2>3. FrontStep
    BY <1>1, <2>1, <2>2, TakeIsFrontStep DEF FrontInv
  <2>4. Fades
    BY <2>2 DEF Fades
  <2>5. QED
    BY <2>3, <2>4, FadingKeepsBytes
<1>7. CASE DecryptFails(i)
  <2>1. /\ i \in Front /\ UNCHANGED <<uploads, hand>>
        /\ flow' = [flow EXCEPT ![i].next = "failed"]
    BY <1>1, <1>7 DEF DecryptFails, FrontInv
  <2>2. flow' = [k \in Instances |-> flow'[k]]
        /\ \A k \in Instances : flow'[k] \in {flow[k], Nil} \/ k \in Front
    BY <1>1, <2>1 DEF FrontInv
  <2>3. FrontStep
    BY <1>1, <2>1, <2>2, UnlockIsFrontStep
  <2>4. Fades
    BY <2>1 DEF Fades
  <2>5. QED
    BY <2>3, <2>4, FadingKeepsBytes
<1>8. CASE CloseDatabaseUpload(i)
  <2>1. /\ i \in Front /\ hand[i] = Unlocked /\ flow' = [flow EXCEPT ![i] = Nil]
    BY <1>1, <1>8 DEF CloseDatabaseUpload, FrontInv
  <2>2. flow' = [k \in Instances |-> flow'[k]] /\ \A k \in Instances : flow'[k] \in {flow[k], Nil}
    BY <1>1, <2>1 DEF FrontInv
  <2>3. UNCHANGED hand \/ \E up, new, then : Take(i, "close", up, new, then)
    BY <1>8 DEF CloseDatabaseUpload
  <2>4. FrontStep
    <3>1. CASE UNCHANGED hand
      BY <1>1, <2>2, <3>1, UnlockIsFrontStep
    <3>2. CASE \E up, new, then : Take(i, "close", up, new, then)
      BY <1>1, <2>2, <3>2, TakeIsFrontStep
    <3>3. QED
      BY <2>3, <3>1, <3>2
  <2>5. PICK u, mine, x : /\ u = flow[i].up /\ x = flow[i].next
                          /\ mine = (man.db # Nil /\ man.did = u)
    OBVIOUS
  <2>6. uploads' = [uploads EXCEPT ![u] =
              IF x = "completed"
              THEN IF mine THEN @ ELSE Gone
              ELSE IF mine THEN [@ EXCEPT !.status = "failed"] ELSE @]
    BY <1>8, <2>5 DEF CloseDatabaseUpload
  <2>7. \A v \in Uploads :
           uploads'[v] \in {uploads[v], Gone, [uploads[v] EXCEPT !.status = "failed"]}
    BY <1>1, <2>6 DEF UploadInv
  <2>8. QED
    BY <2>1, <2>4, <2>7, RequestKeepsBytes
<1>9. QED
  BY <1>2, <1>3, <1>4, <1>5, <1>6, <1>7, <1>8 DEF Locked

LEMMA BytesInvHolds == HistoryInit => BytesInv
<1> SUFFICES ASSUME HistoryInit PROVE BytesInv
  OBVIOUS
<1>1. Fresh.file = <<>>
  BY DEF Fresh
<1>2. \A u \in Uploads : Prefixed(uploads[u])
  BY <1>1 DEF HistoryInit, Prefixed
<1>3. FrontInv /\ \A i \in Instances : BlockOK(hand[i])
  BY UnlockedIsOK DEF HistoryInit, FrontInv, BlockOK
<1>4. QED
  BY <1>2, <1>3 DEF BytesInv

LEMMA BytesInvKept ==
    ASSUME ManifestInv, BytesInv, OneFront, [HistoryNext]_historyVars
    PROVE  BytesInv'
<1>1. HandInv /\ UploadInv /\ FrontInv
  BY DEF ManifestInv, BytesInv
<1>2. CASE UNCHANGED <<hand, flow, uploads>>
  <2>1. FrontStep
    BY <1>1, <1>2 DEF FrontStep, FrontInv
  <2>2. Fades
    BY <1>2 DEF Fades
  <2>3. QED
    BY <2>1, <2>2, FadingKeepsBytes
<1>3. CASE UNCHANGED historyVars \/ Lapse \/ \E i \in Instances : Recover(i)
  BY <1>2, <1>3 DEF historyVars, memory, files, Lapse, Recover
<1>4. CASE \E i \in Front : Request(i)
  BY <1>4, RequestKeepsBytesHere
<1>5. CASE \E i \in Instances : Locked(i)
  BY <1>5, LockedKeepsBytes
<1>6. CASE \E i \in Instances, j \in Jobs : Job(i, j)
  BY <1>6, JobKeepsBytes
<1>7. CASE \E i \in Instances : InstanceDies(i)
  <2>1. PICK i \in Instances : InstanceDies(i)
    BY <1>7
  <2>2. /\ hand' = [hand EXCEPT ![i] = Unlocked] /\ flow' = [flow EXCEPT ![i] = Nil]
        /\ UNCHANGED uploads
    BY <2>1 DEF InstanceDies, Stopped, files
  <2>3. flow' = [k \in Instances |-> flow'[k]] /\ \A k \in Instances : flow'[k] \in {flow[k], Nil}
    BY <1>1, <2>2 DEF FrontInv
  <2>4. FrontStep
    BY <1>1, <2>2, <2>3, UnlockIsFrontStep
  <2>5. Fades
    BY <2>2 DEF Fades
  <2>6. QED
    BY <2>4, <2>5, FadingKeepsBytes
<1>8. CASE CleanUp
  <2>1. /\ UNCHANGED <<hand, flow>>
        /\ uploads' = [u \in Uploads |-> IF uploads[u] = Fresh THEN Fresh ELSE Gone]
    BY <1>8 DEF CleanUp, memory
  <2>2. FrontStep
    BY <1>1, <2>1 DEF FrontStep, FrontInv
  <2>3. Fades
    BY <2>1 DEF Fades
  <2>4. QED
    BY <2>2, <2>3, FadingKeepsBytes
<1>9. CASE \E u \in Uploads : ExpireUpload(u)
  <2>1. PICK u \in Uploads : ExpireUpload(u)
    BY <1>9
  <2>2. UNCHANGED <<hand, flow>> /\ uploads' = [uploads EXCEPT ![u] = Gone]
    BY <2>1 DEF ExpireUpload, memory
  <2>3. FrontStep
    BY <1>1, <2>2 DEF FrontStep, FrontInv
  <2>4. \A v \in Uploads : uploads'[v] = IF v = u THEN Gone ELSE uploads[v]
    BY <1>1, <2>2 DEF UploadInv
  <2>5. Fades
    BY <2>4 DEF Fades
  <2>6. QED
    BY <2>3, <2>5, FadingKeepsBytes
<1>10. QED
  BY <1>3, <1>4, <1>5, <1>6, <1>7, <1>8, <1>9 DEF HistoryNext

\* Where one process takes the requests, what a session says it received are
\* the blocks of the client in order, whatever process dies between the bytes
\* and their record (addAndroidDatabaseUploadChunk and its media twin).
THEOREM HistoryReceivedIsPrefix ==
    ASSUME \A i, k \in Front : i = k
    PROVE  HistorySpec => []ReceivedIsPrefix
<1>1. OneFront
  BY DEF OneFront
<1>2. HistoryInit => ManifestInv /\ BytesInv
  BY ManifestInvHolds, BytesInvHolds
<1>3. ManifestInv /\ BytesInv /\ [HistoryNext]_historyVars => (ManifestInv /\ BytesInv)'
  BY <1>1, ManifestInvKept, BytesInvKept
<1>4. BytesInv => ReceivedIsPrefix
  BY DEF BytesInv, Prefixed, ReceivedIsPrefix
<1>5. QED
  BY <1>2, <1>3, <1>4, PTL DEF HistorySpec
===============================================================================
