----------------------------- MODULE MCRequests -----------------------------
(***************************************************************************)
(* Small instances of the requests the API serves at once, under the       *)
(* fairness of their transactions: those on refresh sessions, with two     *)
(* families or with a driver to deactivate, and those of Fleet, on one     *)
(* trip.  Init picks one; what the others have stands still.               *)
(***************************************************************************)
EXTENDS RefreshSessions, TLC

CONSTANTS Trip, Vehicle, Expense, Window, OperationalDriver

VARIABLES
    scene,
    waiting,    \* the row the first statement of a request waits for
    trip, operational, vehicle, expense,
    operationalLock, vehicleLock, tripLock, asked

OneWindow == {{1}}

FL == INSTANCE Fleet
    WITH Driver <- OperationalDriver, driver <- operational,
         driverLock <- operationalLock, req <- asked

fleetVars ==
    <<trip, operational, vehicle, expense, operationalLock, vehicleLock, tripLock, asked>>
requestVars == <<scene, waiting, vars, fleetVars>>

\* Ids of families and rows are interchangeable: they are used up in one order.
FirstRow == CHOOSE s \in Session : TRUE
FirstFamily == CHOOSE f \in Family : TRUE
InOrder ==
    /\ Fresh(FirstRow) => \A s \in Session : Fresh(s)
    /\ NewFamily(FirstFamily) => \A f \in Family : NewFamily(f)

\* With two families no driver is linked or deactivated; with one, a second login
\* waits until the first has its own.
TwoFamilies ==
    \A d \in Driver : driver[d] = [status |-> "ACTIVE", user |-> None] /\ driverLock[d] = None
OneFamily ==
    LET logins == {p \in Request : req[p].at = "login.insert"}
        born == {f \in Family : ~NewFamily(f)}
    IN \A x, y \in logins \cup born : x = y
\* A vehicle is in use or it is not, an expense reviewed or not: no request of Fleet
\* tells why.
OneOfAKind ==
    /\ \A v \in Vehicle : vehicle[v] # "RETIRED"
    /\ \A e \in Expense : expense[e].status # "REJECTED"
Within ==
    /\ InOrder
    /\ scene = "families" => TwoFamilies
    /\ scene = "deactivation" => OneFamily
    /\ scene = "fleet" => OneOfAKind

ScenesInit ==
    /\ scene \in {"families", "deactivation", "fleet"} /\ Init /\ FL!Init
    /\ waiting = [p \in Request |-> None]

\* Neither before its first statement nor behind its last.
AtRest(p) == waiting[p] = None /\ req[p].at = "idle" /\ asked[p].at = "idle"

SessionStep(A) == scene # "fleet" /\ A /\ UNCHANGED <<scene, fleetVars>> /\ Within'
FleetStep(A) == scene = "fleet" /\ A /\ UNCHANGED <<scene, vars>> /\ Within'

\* Who waits for a row does nothing else.
Blocked(p) == waiting[p] # None => UNCHANGED <<req[p], asked[p]>>

Statements ==
    /\ SessionStep(Next) \/ FleetStep(FL!Next)
    /\ UNCHANGED waiting /\ \A p \in Request : Blocked(p)

\* The rows a first statement may lock.
Holder == IF scene = "fleet" THEN operationalLock @@ tripLock ELSE sessionLock @@ driverLock

\* The first statement of a request meets a row that is locked.
Queues(p) ==
    /\ AtRest(p)
    /\ \E x \in DOMAIN Holder : Holder[x] # None /\ waiting' = [waiting EXCEPT ![p] = x]
    /\ UNCHANGED <<scene, vars, fleetVars>>

\* The row is free: the request has it, or reads there that it is refused.
TakesRow(p) ==
    LET x == waiting[p] IN
    /\ x # None /\ Holder[x] = None
    /\ waiting' = [waiting EXCEPT ![p] = None]
    /\ \/ (SessionStep(Arrive(p)) \/ FleetStep(FL!Arrive(p))) /\ Holder'[x] = p
       \/ UNCHANGED <<scene, vars, fleetVars>>

\* Its transaction fails while it waits.
GivesUp(p) ==
    /\ waiting[p] # None /\ waiting' = [waiting EXCEPT ![p] = None]
    /\ UNCHANGED <<scene, vars, fleetVars>>

ScenesNext == Statements \/ \E p \in Request : Queues(p) \/ TakesRow(p) \/ GivesUp(p)

\* PostgreSQL queues those who wait for a row, and a handler awaits statement after
\* statement, so a request that can proceed again and again does proceed.
Proceeds(p) ==
    \/ TakesRow(p)
    \/ (SessionStep(Continue(p)) \/ FleetStep(FL!Continue(p))) /\ UNCHANGED waiting
FairScenes ==
    ScenesInit /\ [][ScenesNext]_requestVars /\ \A p \in Request : SF_requestVars(Proceeds(p))

\* Every request is answered, from its first statement on: no row it waits for stays
\* with a transaction that goes on for ever, or that has ended and left it locked.
RequestsAnswered == \A p \in Request : ~AtRest(p) ~> AtRest(p)
=============================================================================
