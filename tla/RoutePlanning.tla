----------------------------- MODULE RoutePlanning -----------------------------
(***************************************************************************)
(* The routes of one contract, one shift and one day.                      *)
(*                                                                         *)
(* RoutesUseCase suggests the routes from the contract, one per vehicle,   *)
(* and takes each through review, approval and publication.  It reads the  *)
(* route, decides, and hands PrismaRouteRepository a command with the      *)
(* version the client had on screen; the repository's transaction runs at  *)
(* READ COMMITTED: it looks for the command in the history, compares the   *)
(* version, and later updates the row whatever it holds by then.  So a     *)
(* command takes three steps here: Ask, Check and Write.                   *)
(*                                                                         *)
(* Of a passenger only what a plan depends on is kept: is active, has      *)
(* complete data, has the required documents.  Points, distances, times and *)
(* the route's other data are left out: no guard reads them.               *)
(***************************************************************************)
EXTENDS Naturals, Sequences, FiniteSets, Functions

CONSTANTS
    Roster,         \* the passengers of the shift, in the order of their names
    Vehicles,       \* vehicles of the shift, one route each
    Seats,          \* capacity of a vehicle in the contract
    Capacities,     \* capacities an update of a route may set
    Edited,         \* routes people work on, of those generated
    Boards,         \* sets of passengers a person may plan for
    Requests,       \* commands people have in flight at a time
    MaxInputs,      \* bound on the commands, generations and changes asked for
    None

Passengers == Range(Roster)
Routes == 1..Vehicles

ASSUME RoutePlanningAssumption ==
    /\ Roster \in Seq(Passengers)
    /\ Cardinality(Passengers) = Len(Roster)
    /\ {Vehicles, Seats} \subseteq Nat \ {0}
    /\ Capacities \subseteq Nat
    /\ Edited \subseteq Routes
    /\ Boards \subseteq SUBSET Passengers
    /\ Requests \subseteq Nat
    /\ MaxInputs \in Nat

VARIABLES
    passenger,      \* passenger[p]: its status, registration and documents
    route,          \* route[r]: the row, None before it is created
    versions,       \* versions[r]: the snapshots of r still of use, by version
    approvals,      \* approvals[r]: versions of r with an approval, of use still
    request,        \* request[q]: a person's command in flight
    effective,      \* commands in the history that a request still carries
    generation,     \* the generation under way
    generated,      \* the history of generations: the route of each command
    inputs,         \* commands, generations and changes asked for so far
    overtaken,      \* routes a command was written to over another's (observed)
    quiet           \* only the generation has written since it began (observed)

vars == <<passenger, route, versions, approvals, request, effective, generation,
          generated, inputs, overtaken, quiet>>
generationVars == <<generation, generated>>

-----------------------------------------------------------------------------
(* Plans.                                                                  *)

\* A passenger whose data and documents are complete.
Registered == [active |-> TRUE, ready |-> TRUE, documents |-> TRUE]

Rank(p, S) == Cardinality({i \in DOMAIN Roster : /\ Roster[i] \in S
                                                 /\ \E j \in DOMAIN Roster :
                                                        j > i /\ Roster[j] = p})

\* isPassengerRoutingEligible
Eligible(p, seen) == seen[p].active /\ seen[p].ready

Routable(seen) == {p \in Passengers : Eligible(p, seen) /\ seen[p].documents}

\* The passengers of the v-th vehicle: the next ones that fill it; the last
\* vehicle also gets everyone who is left and everyone who cannot be routed.
Group(v, seen) ==
    LET fit == Routable(seen)
        turn(p) == Rank(p, fit) \div Seats
    IN  {p \in fit : turn(p) = v - 1 \/ (v = Vehicles /\ turn(p) >= Vehicles)}
            \cup (IF v = Vehicles THEN Passengers \ fit ELSE {})

\* RoutingAgentService.calculate: who is assigned, until the vehicle is full.
Calculated(capacity, group, seen) ==
    [p \in group |->
        IF ~Eligible(p, seen) THEN "pending-data"
        ELSE IF ~seen[p].documents THEN "pending-documents"
        ELSE IF Rank(p, group \cap Routable(seen)) >= capacity THEN "overflow"
        ELSE "assigned"]

Assigned(plan) == {p \in DOMAIN plan : plan[p] = "assigned"}

\* The plans a person may save: no more assigned than the vehicle takes.
Edits(capacity) ==
    UNION {{[p \in S |-> IF p \in A THEN "assigned" ELSE "overflow"] :
                A \in {x \in SUBSET S : Cardinality(x) <= capacity}} : S \in Boards}

-----------------------------------------------------------------------------
(* Routes.                                                                 *)

NoPlan == [p \in {} |-> "assigned"]

NewRoute == [status |-> "draft", needsRerouting |-> FALSE, version |-> 1,
             planVersion |-> 0, approvedVersion |-> 0, capacity |-> Seats,
             plan |-> NoPlan]

allowedTransitions ==
    {<<"draft", "routed">>, <<"routed", "in-review">>, <<"routed", "draft">>,
     <<"in-review", "pending-approval">>, <<"in-review", "routed">>,
     <<"pending-approval", "approved">>, <<"pending-approval", "in-review">>,
     <<"approved", "published">>, <<"approved", "in-review">>,
     <<"published", "in-review">>}

Statuses == UNION {{t[1], t[2]} : t \in allowedTransitions}
Placements == {"assigned", "overflow", "pending-data", "pending-documents"}
Plans == UNION {[S -> Placements] : S \in SUBSET Passengers}

Row == [status : Statuses, needsRerouting : BOOLEAN, version : Nat, planVersion : Nat,
        approvedVersion : Nat, capacity : Nat, plan : Plans]

ASSUME NoneIsNoRow == None \notin Row

\* The slip: the plan is taken to answer to whatever data the route has.
UpdatedUnflagged(row, before, capacity) ==
    [row EXCEPT !.status = IF before.status \in {"approved", "published"}
                           THEN "in-review" ELSE "draft",
                !.approvedVersion = 0,
                !.capacity = capacity, !.version = @ + 1]

\* updateBase: the plan no longer answers to the route's data.
Updated(row, before, capacity) ==
    [row EXCEPT !.status = IF before.status \in {"approved", "published"}
                           THEN "in-review" ELSE "draft",
                !.needsRerouting = TRUE, !.approvedVersion = 0,
                !.capacity = capacity, !.version = @ + 1]

\* savePlan: the rows of the plan are replaced.  Rows another plan committed
\* after the deletion began are not deleted: they stay beside the new ones,
\* unless a unique index refuses the whole transaction.
Stored(row, before, plan) ==
    LET kept == DOMAIN row.plan
        both == [p \in kept \cup DOMAIN plan |->
                    IF p \in kept THEN row.plan[p] ELSE plan[p]]
    IN  IF row.planVersion # before.planVersion /\ kept \cap DOMAIN plan = {}
        THEN {plan, both} ELSE {plan}

Planned(row, before, plan, status) ==
    {[row EXCEPT !.status = status, !.needsRerouting = FALSE,
                 !.approvedVersion = 0, !.plan = p,
                 !.planVersion = @ + 1, !.version = @ + 1] :
        p \in Stored(row, before, plan)}

\* approve: the version it approves is the one after the version it read.
Approved(row, before) ==
    [row EXCEPT !.status = "approved", !.approvedVersion = before.version + 1,
                !.version = @ + 1]

\* The rows the transaction of a command may leave.
Results(row, c) ==
    CASE c.op = "update" -> {Updated(row, c.before, c.capacity)}
      [] c.op = "recalculate" -> Planned(row, c.before, c.plan, "routed")
      [] c.op = "editPlan" -> Planned(row, c.before, c.plan, "in-review")
      [] c.op = "transition" -> {[row EXCEPT !.status = c.to, !.version = @ + 1]}
      [] c.op = "approve" -> {Approved(row, c.before)}
      [] c.op = "publish" -> {[row EXCEPT !.status = "published", !.version = @ + 1]}

-----------------------------------------------------------------------------
(* Storing.                                                                *)

Before(row) == [version |-> row.version, status |-> row.status,
                planVersion |-> row.planVersion]

\* The versions of r an approval under way is going to name.
ToApprove(r) ==
    {request[q].before.version + 1 : q \in {x \in Requests :
        /\ request[x] # None
        /\ request[x].route = r
        /\ request[x].op = "approve"
        /\ request[x].step = "checked"}}

\* recordMutation: the new row and its snapshot.  Of the snapshots, which are
\* never changed, the model keeps those the row or an approval under way names.
Record(r, row) ==
    LET snapshots == [v \in DOMAIN versions[r] \cup {row.version} |->
                        IF v = row.version THEN row ELSE versions[r][v]]
    IN  /\ route' = [route EXCEPT ![r] = row]
        /\ versions' = [versions EXCEPT ![r] =
                Restrict(snapshots, DOMAIN snapshots
                            \cap ({row.approvedVersion} \cup ToApprove(r)))]

\* A write over a row that another command has changed since it was read.
Observe(r, before) ==
    overtaken' = IF route[r].version = before.version THEN overtaken
                 ELSE overtaken \cup {r}

-----------------------------------------------------------------------------
(* Commands of people.                                                     *)

Carried(commands, except) ==
    {k \in commands : \E q \in Requests \ {except} :
                            request[q] # None /\ request[q].command = k}

FreeCommand == CHOOSE k \in Requests : \A q \in Requests :
                    request[q] # None => request[q].command # k

Command(op, r) ==
    [command |-> FreeCommand, op |-> op, route |-> r,
     expected |-> route[r].version, to |-> "draft", capacity |-> 0,
     plan |-> NoPlan, step |-> "read", before |-> Before(route[r])]

Input == inputs < MaxInputs /\ inputs' = inputs + 1

Send(q, c) ==
    /\ Input
    /\ request' = [request EXCEPT ![q] = c]
    /\ UNCHANGED <<passenger, route, versions, approvals, effective,
                   generationVars, overtaken, quiet>>

\* Requests are alike: the first that is free is taken.
Free(q) == request[q] = None /\ \A x \in Requests : x < q => request[x] # None

MayAsk(q, r) == Free(q) /\ route[r] # None

AskUpdate(q, r) ==
    /\ MayAsk(q, r)
    /\ \E capacity \in Capacities :
            Send(q, [Command("update", r) EXCEPT !.capacity = capacity])

\* The passengers of the plan again, or everyone when it has none.
Candidates(r) == IF route[r].plan = NoPlan THEN Passengers ELSE DOMAIN route[r].plan

AskRecalculate(q, r) ==
    /\ MayAsk(q, r)
    /\ Send(q, [Command("recalculate", r) EXCEPT
                    !.plan = Calculated(route[r].capacity, Candidates(r), passenger)])

AskEditPlan(q, r) ==
    /\ MayAsk(q, r)
    /\ \E plan \in Edits(route[r].capacity) :
            Send(q, [Command("editPlan", r) EXCEPT !.plan = plan])

AskTransition(q, r) ==
    /\ MayAsk(q, r)
    /\ \E to \in {"in-review", "pending-approval", "routed"} :
            /\ <<route[r].status, to>> \in allowedTransitions
            /\ Send(q, [Command("transition", r) EXCEPT !.to = to])

\* The slip: only those who are assigned are looked at.
ApprovableAssigned(row) ==
    /\ <<row.status, "approved">> \in allowedTransitions
    /\ row.plan # NoPlan
    /\ \A p \in Assigned(row.plan) : passenger[p].documents

\* Everyone on board is assigned and has the documents.
Approvable(row) ==
    /\ <<row.status, "approved">> \in allowedTransitions
    /\ row.plan # NoPlan
    /\ \A p \in DOMAIN row.plan : row.plan[p] = "assigned" /\ passenger[p].documents

AskApprove(q, r) ==
    /\ MayAsk(q, r)
    /\ Approvable(route[r])
    /\ Send(q, Command("approve", r))

AskPublish(q, r) ==
    /\ MayAsk(q, r)
    /\ <<route[r].status, "published">> \in allowedTransitions
    /\ route[r].approvedVersion # 0
    /\ Send(q, Command("publish", r))

\* The client sends a command again before it had an answer to it.
AskAgain(q) ==
    /\ Free(q)
    /\ \E first \in Requests \ {q} :
            /\ request[first] # None
            /\ request[first].expected = route[request[first].route].version
            /\ Send(q, [request[first] EXCEPT !.step = "read"])

End(q) ==
    /\ request' = [request EXCEPT ![q] = None]
    /\ effective' = Carried(effective, q)

\* The repository answers a command of its history with the route, and
\* refuses one whose version is not the row's.
Accepts(c) == c.command \notin effective /\ route[c.route].version = c.expected

Check(q) ==
    /\ request[q] # None /\ request[q].step = "read"
    /\ \/ /\ Accepts(request[q])
          /\ request' = [request EXCEPT ![q].step = "checked",
                                        ![q].before = Before(route[request[q].route])]
          /\ UNCHANGED effective
       \/ /\ ~Accepts(request[q])
          /\ End(q)
    /\ UNCHANGED <<passenger, route, versions, approvals, generationVars, inputs,
                   overtaken, quiet>>

\* The unique indexes on the history's commands and the approvals' versions.
Unique(c) ==
    /\ c.command \notin effective
    /\ c.op = "approve" => c.before.version + 1 \notin approvals[c.route]

Write(q) ==
    LET c == request[q]
        r == c.route
    IN  /\ c # None /\ c.step = "checked"
        /\ Unique(c)
        /\ \E row \in Results(route[r], c) : Record(r, row)
        /\ request' = [request EXCEPT ![q] = None]
        /\ effective' = Carried(effective \cup {c.command}, q)
        /\ approvals' = [approvals EXCEPT ![r] = ToApprove(r) \cap
                            (@ \cup {v \in ToApprove(r) : c.op = "approve"
                                                    /\ v = c.before.version + 1})]
        /\ Observe(r, c.before)
        /\ quiet' = FALSE
        /\ UNCHANGED <<passenger, generationVars, inputs>>

\* The transaction is lost, or an index refused it.
Lose(q) ==
    /\ request[q] # None /\ request[q].step = "checked"
    /\ End(q)
    /\ UNCHANGED <<passenger, route, versions, approvals, generationVars, inputs,
                   overtaken, quiet>>

-----------------------------------------------------------------------------
(* generateFromContract: for each vehicle a route is created and planned,  *)
(* each in a transaction of its own, under command identifiers derived from *)
(* the command, the shift and the vehicle.                                 *)

NoGeneration == [phase |-> "idle", command |-> 1, vehicle |-> 1,
                 seen |-> [p \in Passengers |-> Registered],
                 route |-> 1, expected |-> 0, plan |-> NoPlan,
                 before |-> Before(NewRoute)]

\* A client sends the command, the same again, or another for the same day.
Generate(c) ==
    /\ generation.phase \in {"idle", "done"}
    /\ Input
    /\ generation' = [NoGeneration EXCEPT !.phase = "create", !.command = c,
                                          !.seen = passenger]
    /\ quiet' = (quiet \/ DOMAIN generated = {})
    /\ UNCHANGED <<passenger, route, versions, approvals, request, effective,
                   generated, overtaken>>

NextVehicle ==
    IF generation.vehicle = Vehicles
    THEN [NoGeneration EXCEPT !.phase = "done"]
    ELSE [generation EXCEPT !.phase = "create", !.vehicle = @ + 1]

\* The identifier of a command derived from the generation's.
Derived(step) == <<generation.command, generation.vehicle, step>>

Waiting == Group(generation.vehicle, generation.seen)

SkipVehicle ==
    /\ generation.phase = "create"
    /\ Waiting = {}
    /\ generation' = NextVehicle
    /\ UNCHANGED <<passenger, route, versions, approvals, request, effective,
                   generated, inputs, overtaken, quiet>>

\* The route r is there: its plan is calculated for the waiting passengers.
ToPlan(r, row) ==
    [generation EXCEPT !.phase = "plan", !.route = r, !.expected = row.version,
                       !.plan = Calculated(row.capacity, Waiting, generation.seen)]

CreateRoute ==
    LET v == generation.vehicle
        command == Derived("route")
    IN  /\ generation.phase = "create"
        /\ Waiting # {}
        /\ \/ /\ command \in DOMAIN generated
              /\ generation' = ToPlan(generated[command], route[generated[command]])
              /\ UNCHANGED <<route, versions, generated>>
           \/ /\ command \notin DOMAIN generated
              /\ route[v] = None
              /\ Record(v, NewRoute)
              /\ generated' = [x \in DOMAIN generated \cup {command} |->
                                    IF x = command THEN v ELSE generated[x]]
              /\ generation' = ToPlan(v, NewRoute)
           \/ \* the code of the route is taken
              /\ command \notin DOMAIN generated
              /\ route[v] # None
              /\ generation' = NoGeneration
              /\ UNCHANGED <<route, versions, generated>>
        /\ UNCHANGED <<passenger, approvals, request, effective, inputs,
                       overtaken, quiet>>

CheckPlan ==
    LET row == route[generation.route]
    IN  /\ generation.phase = "plan"
        /\ \/ /\ Derived("plan") \in DOMAIN generated
              /\ generation' = NextVehicle
           \/ /\ Derived("plan") \notin DOMAIN generated
              /\ row.version = generation.expected
              /\ generation' = [generation EXCEPT !.phase = "save",
                                                  !.before = Before(row)]
           \/ /\ Derived("plan") \notin DOMAIN generated
              /\ row.version # generation.expected
              /\ generation' = NoGeneration
        /\ UNCHANGED <<passenger, route, versions, approvals, request, effective,
                       generated, inputs, overtaken, quiet>>

SavePlan ==
    LET r == generation.route
        command == Derived("plan")
    IN  /\ generation.phase = "save"
        /\ \E row \in Planned(route[r], generation.before, generation.plan, "routed") :
                Record(r, row)
        /\ generated' = [x \in DOMAIN generated \cup {command} |->
                            IF x = command THEN r ELSE generated[x]]
        /\ generation' = NextVehicle
        /\ Observe(r, generation.before)
        /\ UNCHANGED <<passenger, approvals, request, effective, inputs,
                       quiet>>

\* The process stops, or an index refuses a transaction: what was stored stays.
CutShort ==
    /\ generation.phase \in {"create", "plan", "save"}
    /\ generation' = NoGeneration
    /\ UNCHANGED <<passenger, route, versions, approvals, request, effective,
                   generated, inputs, overtaken, quiet>>

-----------------------------------------------------------------------------
(* Passengers: an update settles the data and the documents, and whether   *)
(* the registration is complete; a change of status is a command of its own. *)

Changed(p, to) ==
    /\ Input
    /\ passenger' = [passenger EXCEPT ![p] = to]
    /\ quiet' = FALSE
    /\ UNCHANGED <<route, versions, approvals, request, effective, generationVars,
                   overtaken>>

UpdatePassenger(p) ==
    \/ Changed(p, [passenger[p] EXCEPT !.ready = ~@])
    \/ Changed(p, [passenger[p] EXCEPT !.documents = ~@])

ChangeStatus(p) == Changed(p, [passenger[p] EXCEPT !.active = ~@])

-----------------------------------------------------------------------------
\* A route that people have taken to its approval.
Reviewed == [NewRoute EXCEPT !.status = "pending-approval", !.planVersion = 1,
                             !.version = 4]

\* Nothing is generated yet, or the routes were and those people work on wait
\* for their approval.
Init ==
    /\ passenger = [p \in Passengers |-> Registered]
    /\ \/ /\ route = [r \in Routes |-> None]
          /\ generated = [x \in {} |-> 1]
       \/ /\ route = [r \in Routes |->
                [Reviewed EXCEPT
                    !.status = IF r \in Edited THEN @ ELSE "routed",
                    !.version = IF r \in Edited THEN @ ELSE 2,
                    !.plan = Calculated(Seats, Group(r, passenger), passenger)]]
          /\ generated = [x \in {1} \X Routes \X {"route", "plan"} |-> x[2]]
    /\ versions = [r \in Routes |-> [v \in {} |-> NewRoute]]
    /\ approvals = [r \in Routes |-> {}]
    /\ request = [q \in Requests |-> None]
    /\ effective = {}
    /\ generation = NoGeneration
    /\ inputs = 0
    /\ overtaken = {}
    /\ quiet = (DOMAIN generated = {})

Next ==
    \/ \E q \in Requests, r \in Edited :
            \/ AskUpdate(q, r)
            \/ AskRecalculate(q, r)
            \/ AskEditPlan(q, r)
            \/ AskTransition(q, r)
            \/ AskApprove(q, r)
            \/ AskPublish(q, r)
    \/ \E q \in Requests : AskAgain(q) \/ Check(q) \/ Write(q) \/ Lose(q)
    \/ \E c \in 1..2 : Generate(c)
    \/ SkipVehicle
    \/ CreateRoute
    \/ CheckPlan
    \/ SavePlan
    \/ CutShort
    \/ \E p \in Passengers : UpdatePassenger(p) \/ ChangeStatus(p)

Spec == Init /\ [][Next]_vars

-----------------------------------------------------------------------------
(* Properties.                                                             *)

\* Passengers and routes have the values the code gives them, and the approved
\* version of a route is one whose snapshot was taken.
TypeOK ==
    /\ passenger \in [Passengers -> [active : BOOLEAN, ready : BOOLEAN, documents : BOOLEAN]]
    /\ route \in [Routes -> Row \cup {None}]
    /\ \A r \in Routes :
        route[r] # None => route[r].approvedVersion \in {0} \cup DOMAIN versions[r]

\* The version a route calls approved is the snapshot its approval took, of the
\* plan that was pending approval, with everyone on board assigned, and is never
\* another; a published route has one.  Routes where commands ran into one
\* another are excepted: the row is updated without comparing its version again.
ApprovedAsReviewed ==
    [][\A r \in Routes \ overtaken' : route'[r] # None =>
        LET old == route[r]
            new == route'[r]
            approved == versions'[r][new.approvedVersion]
        IN  /\ new.status \in {"approved", "published"} => new.approvedVersion # 0
            /\ new.approvedVersion # 0 =>
                \/ /\ new.approvedVersion = old.approvedVersion
                   /\ approved = versions[r][old.approvedVersion]
                \/ /\ old.status = "pending-approval"
                   /\ approved.status = "approved"
                   /\ approved.plan = old.plan
                   /\ approved.plan # NoPlan
                   /\ Assigned(approved.plan) = DOMAIN approved.plan]_vars

\* What the documentation says of every publication: the version that is
\* published is one that was approved.
PublishedIsApproved ==
    \A r \in Routes : route[r] # None /\ route[r].status = "published" =>
        route[r].approvedVersion # 0

\* A route assigns no more passengers than its vehicle takes, unless it says that
\* it needs a new plan, or one command was written over another on that route.
FitsUnlessFlagged ==
    \A r \in Routes \ overtaken : route[r] # None =>
        \/ Cardinality(Assigned(route[r].plan)) <= route[r].capacity
        \/ route[r].needsRerouting

\* When a generation is done and nothing else was written since it began, each
\* passenger of the shift is on exactly one route, whatever was cut short and
\* sent again on the way.
EveryoneOnOneRoute ==
    generation.phase = "done" /\ quiet =>
        \A p \in Passengers :
            Cardinality({r \in Routes : /\ route[r] # None
                                        /\ p \in DOMAIN route[r].plan}) = 1

\* The plans of the day are complete and fit, for all that was entered, where no
\* two commands ran into one another.
PlansHold == TypeOK /\ FitsUnlessFlagged /\ EveryoneOnOneRoute
=============================================================================
