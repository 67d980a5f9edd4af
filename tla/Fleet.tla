------------------------------- MODULE Fleet -------------------------------
(***************************************************************************)
(* The fleet API as PostgreSQL runs it: TripsService, DriversService,      *)
(* VehiclesService and ExpensesService handle requests concurrently, each  *)
(* in one READ COMMITTED transaction of several statements.                *)
(*                                                                         *)
(* A transaction here writes one row, with its last statement, so that     *)
(* statement and the commit are one step: nobody sees the row in between   *)
(* and nobody can claim it.  Every statement before it is a step of its    *)
(* own and sees what is committed when it runs.  SELECT ... FOR UPDATE and *)
(* UPDATE wait for the row's lock; an UPDATE whose WHERE clause does not   *)
(* match the committed row claims nothing and does not wait.               *)
(*                                                                         *)
(* A transaction that locks nothing before its claim (review, close, the   *)
(* two status changes, linking, creation) is a single step: what it reads  *)
(* before the claim only chooses an error, the claim repeats it.           *)
(***************************************************************************)
EXTENDS FleetTables, Sequences

CONSTANT Request    \* the requests the API serves at once

ASSUME RequestAssumption == None \notin Request

VARIABLES
    trip, driver, vehicle, expense,         \* the committed tables
    driverLock, vehicleLock, tripLock,      \* which transaction holds a row
    req                                     \* where each request stands

tables == <<trip, driver, vehicle, expense>>
locks == <<driverLock, vehicleLock, tripLock>>
vars == <<tables, locks, req>>

Rules == INSTANCE TripRules

\* The statement a request executes next.
Statement ==
    {"idle",
     "assign.vehicle", "assign.claim",
     "start.read", "start.vehicle", "start.claim",
     "complete.claim",
     "cancel.retry",
     "verify.pending", "verify.claim",
     "expense.trip", "expense.insert",
     "unlink.running", "unlink.clear"}

RequestState == [at : Statement, trip : Trip \cup {None}, driver : Driver \cup {None},
                 vehicle : Vehicle \cup {None}, window : Window \cup {None},
                 user : User \cup {None}]

Idle == [at |-> "idle", trip |-> None, driver |-> None,
         vehicle |-> None, window |-> None, user |-> None]

Init ==
    /\ Rules!Init
    /\ driverLock = [d \in Driver |-> None]
    /\ vehicleLock = [v \in Vehicle |-> None]
    /\ tripLock = [t \in Trip |-> None]
    /\ req = [p \in Request |-> Idle]
-----------------------------------------------------------------------------
(* Transactions. *)

DriverLockable(p, d) == driverLock[d] \in {p, None}
VehicleLockable(p, v) == vehicleLock[v] \in {p, None}
TripLockable(p, t) == tripLock[t] \in {p, None}

Unlock(lock, p) == [x \in DOMAIN lock |-> IF lock[x] = p THEN None ELSE lock[x]]

\* Variant: the driver row stays locked when the transaction ends.
AnswerKeepingDriver(p) ==
    /\ vehicleLock' = Unlock(vehicleLock, p)
    /\ tripLock' = Unlock(tripLock, p)
    /\ req' = [req EXCEPT ![p] = Idle]
    /\ UNCHANGED driverLock

\* Commit or rollback: the locks go and the request is answered.
Answer(p) ==
    /\ driverLock' = Unlock(driverLock, p)
    /\ vehicleLock' = Unlock(vehicleLock, p)
    /\ tripLock' = Unlock(tripLock, p)
    /\ req' = [req EXCEPT ![p] = Idle]

Refuse(p) == Answer(p) /\ UNCHANGED tables

Goto(p, statement) == req' = [req EXCEPT ![p].at = statement]

\* The last statement and the commit of a transaction that moves trip t.
CommitTrip(p, t, row) ==
    /\ trip' = [trip EXCEPT ![t] = row]
    /\ UNCHANGED <<driver, vehicle, expense>>
    /\ Answer(p)

MoveTrip(p, t, status) == CommitTrip(p, t, [trip[t] EXCEPT !.status = status])

\* The transaction fails at any statement: connection lost, transaction
\* timeout, process gone.
Rollback(p) == req[p].at # "idle" /\ Refuse(p)
-----------------------------------------------------------------------------
(* assign: driver row, vehicle row, conditional claim of the trip. *)

Assign(p, t, d, v, w) ==
    /\ req[p].at = "idle"
    /\ DriverLockable(p, d)
    /\ driver[d].status = "ACTIVE"      \* otherwise refused at once
    /\ driverLock' = [driverLock EXCEPT ![d] = p]
    /\ req' = [req EXCEPT ![p] = [at |-> "assign.vehicle", trip |-> t, driver |-> d,
                                  vehicle |-> v, window |-> w, user |-> None]]
    /\ UNCHANGED <<tables, vehicleLock, tripLock>>

AssignVehicle(p) ==
    LET v == req[p].vehicle IN
    /\ req[p].at = "assign.vehicle"
    /\ VehicleLockable(p, v)
    /\ IF vehicle[v] = "ACTIVE"
       THEN /\ vehicleLock' = [vehicleLock EXCEPT ![v] = p]
            /\ Goto(p, "assign.claim")
            /\ UNCHANGED <<tables, driverLock, tripLock>>
       ELSE Refuse(p)

\* Variant: the ids of driver and vehicle change places in the claim.
AssignClaimSwapped(p) ==
    /\ req[p].at = "assign.claim"
    /\ trip[req[p].trip].status \in ASSIGNABLE_FROM
    /\ TripLockable(p, req[p].trip)
    /\ CommitTrip(p, req[p].trip, [status |-> "ASSIGNED", driver |-> req[p].vehicle,
                                   vehicle |-> req[p].driver, window |-> req[p].window])

AssignClaim(p) ==
    LET r == req[p]
        t == r.trip
    IN
    /\ r.at = "assign.claim"
    /\ IF trip[t].status \notin ASSIGNABLE_FROM
       THEN Refuse(p)
       ELSE /\ TripLockable(p, t)
            /\ IF ScheduleConflict(trip, t, r.driver, r.vehicle, r.window)
               THEN Refuse(p)
               ELSE CommitTrip(p, t, [status |-> "ASSIGNED", driver |-> r.driver,
                                      vehicle |-> r.vehicle, window |-> r.window])
-----------------------------------------------------------------------------
(* start: driver row by login, plain read of the trip, vehicle row, claim. *)

\* lockLinkedDriver: the row behind the caller's login, if it has one.
LockLinkedDriver(p, u, d) ==
    /\ req[p].at = "idle"
    /\ driver[d].user = u
    /\ DriverLockable(p, d)
    /\ driverLock' = [driverLock EXCEPT ![d] = p]
    /\ UNCHANGED <<tables, vehicleLock, tripLock>>

Start(p, u, d, t) ==
    /\ LockLinkedDriver(p, u, d)
    /\ driver[d].status = "ACTIVE"
    /\ req' = [req EXCEPT ![p] = [Idle EXCEPT !.at = "start.read", !.trip = t, !.driver = d]]

\* Variant: the read locks the trip, so start takes TRIP before VEHICLE.
StartReadLocking(p) ==
    LET t == req[p].trip IN
    /\ req[p].at = "start.read"
    /\ TripLockable(p, t)
    /\ IF trip[t].driver = req[p].driver /\ trip[t].status = "ASSIGNED"
       THEN /\ req' = [req EXCEPT ![p].at = "start.vehicle",
                                  ![p].vehicle = trip[t].vehicle]
            /\ tripLock' = [tripLock EXCEPT ![t] = p]
            /\ UNCHANGED <<tables, driverLock, vehicleLock>>
       ELSE Refuse(p)

StartRead(p) ==
    LET t == req[p].trip IN
    /\ req[p].at = "start.read"
    /\ IF trip[t].driver = req[p].driver /\ trip[t].status = "ASSIGNED"
       THEN /\ req' = [req EXCEPT ![p].at = "start.vehicle",
                                  ![p].vehicle = trip[t].vehicle]
            /\ UNCHANGED <<tables, locks>>
       ELSE Refuse(p)

StartVehicle(p) ==
    LET v == req[p].vehicle IN
    /\ req[p].at = "start.vehicle"
    /\ VehicleLockable(p, v)
    /\ IF vehicle[v] = "ACTIVE"
       THEN /\ vehicleLock' = [vehicleLock EXCEPT ![v] = p]
            /\ Goto(p, "start.claim")
            /\ UNCHANGED <<tables, driverLock, tripLock>>
       ELSE Refuse(p)

\* Variant: the claim pins the vehicle only.
StartClaimableAnyDriver(r) ==
    trip[r.trip].status = "ASSIGNED" /\ trip[r.trip].vehicle = r.vehicle

\* The claim pins the driver and the vehicle the transaction has locked.
StartClaimable(r) ==
    /\ trip[r.trip].status = "ASSIGNED"
    /\ trip[r.trip].driver = r.driver
    /\ trip[r.trip].vehicle = r.vehicle

StartClaim(p) ==
    LET t == req[p].trip IN
    /\ req[p].at = "start.claim"
    /\ IF ~StartClaimable(req[p])
       THEN Refuse(p)
       ELSE /\ TripLockable(p, t)
            /\ IF RunningConflict(trip, t)
               THEN Refuse(p)
               ELSE MoveTrip(p, t, "IN_PROGRESS")
-----------------------------------------------------------------------------
(* complete: driver row by login, claim; neither status is looked at. *)

Complete(p, u, d, t) ==
    /\ LockLinkedDriver(p, u, d)
    /\ req' = [req EXCEPT ![p] = [Idle EXCEPT !.at = "complete.claim", !.trip = t, !.driver = d]]

CompleteClaim(p) ==
    LET t == req[p].trip IN
    /\ req[p].at = "complete.claim"
    /\ IF trip[t].status # "IN_PROGRESS" \/ trip[t].driver # req[p].driver
       THEN Refuse(p)
       ELSE /\ TripLockable(p, t)
            /\ MoveTrip(p, t, "COMPLETED")
-----------------------------------------------------------------------------
(* cancel: one claim per legal source state, in the listed order. *)

Cancel(p, t) ==
    /\ req[p].at = "idle"
    /\ IF trip[t].status = CANCELLABLE_FROM[1]
       THEN /\ TripLockable(p, t)
            /\ MoveTrip(p, t, "CANCELLED")
       ELSE /\ req' = [req EXCEPT ![p] = [Idle EXCEPT !.at = "cancel.retry", !.trip = t]]
            /\ UNCHANGED <<tables, locks>>

CancelRetry(p) ==
    LET t == req[p].trip IN
    /\ req[p].at = "cancel.retry"
    /\ IF trip[t].status = CANCELLABLE_FROM[2]
       THEN /\ TripLockable(p, t)
            /\ MoveTrip(p, t, "CANCELLED")
       ELSE Refuse(p)
-----------------------------------------------------------------------------
(* verify: trip row, pending expenses as a second statement, claim. *)

Verify(p, t) ==
    /\ req[p].at = "idle"
    /\ TripLockable(p, t)
    /\ trip[t].status = "COMPLETED"
    /\ tripLock' = [tripLock EXCEPT ![t] = p]
    /\ req' = [req EXCEPT ![p] = [Idle EXCEPT !.at = "verify.pending", !.trip = t]]
    /\ UNCHANGED <<tables, driverLock, vehicleLock>>

VerifyPending(p) ==
    /\ req[p].at = "verify.pending"
    /\ IF PendingExpense(expense, req[p].trip)
       THEN Refuse(p)
       ELSE Goto(p, "verify.claim") /\ UNCHANGED <<tables, locks>>

\* A miss here is the service's AuthInvariantError, and rolls back.
VerifyClaim(p) ==
    LET t == req[p].trip IN
    /\ req[p].at = "verify.claim"
    /\ IF trip[t].status # "COMPLETED"
       THEN Refuse(p)
       ELSE /\ TripLockable(p, t)
            /\ MoveTrip(p, t, "VERIFIED")
-----------------------------------------------------------------------------
(* Expense submission: by the driver (driver row, then own trip row) or by *)
(* an admin (trip row); the status comes from the locked row.              *)

SubmitOwn(p, u, d, t) ==
    /\ LockLinkedDriver(p, u, d)
    /\ req' = [req EXCEPT ![p] = [Idle EXCEPT !.at = "expense.trip", !.trip = t, !.driver = d]]

SubmitOwnTrip(p) ==
    LET t == req[p].trip IN
    /\ req[p].at = "expense.trip"
    /\ IF trip[t].driver # req[p].driver
       THEN Refuse(p)
       ELSE /\ TripLockable(p, t)
            /\ IF trip[t].status \in DRIVER_EXPENSABLE_FROM
               THEN /\ tripLock' = [tripLock EXCEPT ![t] = p]
                    /\ Goto(p, "expense.insert")
                    /\ UNCHANGED <<tables, driverLock, vehicleLock>>
               ELSE Refuse(p)

SubmitForTrip(p, t) ==
    /\ req[p].at = "idle"
    /\ TripLockable(p, t)
    /\ trip[t].status \in ADMIN_EXPENSABLE_FROM
    /\ tripLock' = [tripLock EXCEPT ![t] = p]
    /\ req' = [req EXCEPT ![p] = [Idle EXCEPT !.at = "expense.insert", !.trip = t]]
    /\ UNCHANGED <<tables, driverLock, vehicleLock>>

SubmitInsert(p) ==
    /\ req[p].at = "expense.insert"
    /\ \/ \E e \in Expense :
             /\ expense[e].status = "ABSENT"
             /\ expense' = [expense EXCEPT ![e] = [status |-> "SUBMITTED",
                                                   trip |-> req[p].trip]]
             /\ UNCHANGED <<trip, driver, vehicle>>
             /\ Answer(p)
       \/ (\A e \in Expense : expense[e].status # "ABSENT") /\ Refuse(p)   \* bound
-----------------------------------------------------------------------------
(* unlinkUser: driver row, running trips as a second statement, update. *)

Unlink(p, d) ==
    /\ req[p].at = "idle"
    /\ DriverLockable(p, d)
    /\ driver[d].user # None
    /\ driverLock' = [driverLock EXCEPT ![d] = p]
    /\ req' = [req EXCEPT ![p] = [Idle EXCEPT !.at = "unlink.running", !.driver = d,
                                             !.user = driver[d].user]]
    /\ UNCHANGED <<tables, vehicleLock, tripLock>>

UnlinkRunning(p) ==
    /\ req[p].at = "unlink.running"
    /\ IF \E t \in Trip : trip[t].driver = req[p].driver /\ trip[t].status = "IN_PROGRESS"
       THEN Refuse(p)
       ELSE Goto(p, "unlink.clear") /\ UNCHANGED <<tables, locks>>

UnlinkClear(p) ==
    LET d == req[p].driver IN
    /\ req[p].at = "unlink.clear"
    /\ IF driver[d].user # req[p].user
       THEN Refuse(p)
       ELSE /\ DriverLockable(p, d)
            /\ driver' = [driver EXCEPT ![d].user = None]
            /\ UNCHANGED <<trip, vehicle, expense>>
            /\ Answer(p)
-----------------------------------------------------------------------------
(* Transactions of one claim. *)

Create(t) ==
    /\ trip[t].status = "ABSENT"
    /\ trip' = [trip EXCEPT ![t].status = "DRAFT"]
    /\ UNCHANGED <<driver, vehicle, expense, locks, req>>

Close(t) ==
    /\ trip[t].status = "VERIFIED" /\ tripLock[t] = None
    /\ trip' = [trip EXCEPT ![t].status = "CLOSED"]
    /\ UNCHANGED <<driver, vehicle, expense, locks, req>>

SetDriverStatus(d, status) ==
    /\ driver[d].status # status /\ driverLock[d] = None
    /\ driver' = [driver EXCEPT ![d].status = status]
    /\ UNCHANGED <<trip, vehicle, expense, locks, req>>

LinkUser(d, u) ==
    /\ driver[d].status = "ACTIVE" /\ driver[d].user = None /\ driverLock[d] = None
    /\ \A other \in Driver : driver[other].user # u    \* drivers_user_id_key
    /\ driver' = [driver EXCEPT ![d].user = u]
    /\ UNCHANGED <<trip, vehicle, expense, locks, req>>

SetVehicleStatus(v, status) ==
    /\ vehicle[v] # status /\ vehicleLock[v] = None
    /\ vehicle' = [vehicle EXCEPT ![v] = status]
    /\ UNCHANGED <<trip, driver, expense, locks, req>>

Review(e, decision) ==
    /\ expense[e].status = "SUBMITTED"
    /\ expense' = [expense EXCEPT ![e].status = decision]
    /\ UNCHANGED <<trip, driver, vehicle, locks, req>>
-----------------------------------------------------------------------------
\* A client names trips it has read, so rows that exist.
Arrive(p) ==
    \/ \E t \in {t \in Trip : trip[t].status # "ABSENT"} :
          \/ \E d \in Driver, v \in Vehicle, w \in Window : Assign(p, t, d, v, w)
          \/ \E d \in Driver, u \in User :
                Start(p, u, d, t) \/ Complete(p, u, d, t) \/ SubmitOwn(p, u, d, t)
          \/ Cancel(p, t) \/ Verify(p, t) \/ SubmitForTrip(p, t)
    \/ \E d \in Driver : Unlink(p, d)

Continue(p) ==
    \/ AssignVehicle(p) \/ AssignClaim(p)
    \/ StartRead(p) \/ StartVehicle(p) \/ StartClaim(p)
    \/ CompleteClaim(p)
    \/ CancelRetry(p)
    \/ VerifyPending(p) \/ VerifyClaim(p)
    \/ SubmitOwnTrip(p) \/ SubmitInsert(p)
    \/ UnlinkRunning(p) \/ UnlinkClear(p)

Claim ==
    \/ \E t \in Trip : Create(t) \/ Close(t)
    \/ \E d \in Driver : \/ \E s \in DriverStatus : SetDriverStatus(d, s)
                         \/ \E u \in User : LinkUser(d, u)
    \/ \E v \in Vehicle, s \in VehicleStatus : SetVehicleStatus(v, s)
    \/ \E e \in Expense, s \in {"APPROVED", "REJECTED"} : Review(e, s)

Next ==
    \/ \E p \in Request : Arrive(p) \/ Continue(p) \/ Rollback(p)
    \/ Claim

Spec == Init /\ [][Next]_vars

-----------------------------------------------------------------------------
LockState ==
    /\ driverLock \in [Driver -> Request \cup {None}]
    /\ vehicleLock \in [Vehicle -> Request \cup {None}]
    /\ tripLock \in [Trip -> Request \cup {None}]

TypeOK == Rules!TypeOK /\ LockState /\ req \in [Request -> RequestState]

\* What request p has locked and read so far is still so: the statements in
\* between can rely on it.
Holds(p) ==
    LET r == req[p] IN
    /\ r.at \in {"assign.vehicle", "assign.claim", "start.read", "start.vehicle",
                "start.claim", "complete.claim", "expense.trip",
                "unlink.running", "unlink.clear"}
       => r.driver \in Driver /\ driverLock[r.driver] = p
    /\ r.at \in {"assign.vehicle", "assign.claim", "start.read", "start.vehicle",
                "start.claim"}
       => driver[r.driver].status = "ACTIVE"
    /\ r.at \in {"start.read", "start.vehicle", "start.claim", "complete.claim"}
       => driver[r.driver].user # None
    /\ r.at \in {"assign.vehicle", "assign.claim"}
       => r.vehicle \in Vehicle /\ r.window \in Window
    /\ r.at \in {"start.vehicle", "start.claim"} => r.vehicle \in Vehicle
    /\ r.at \in {"assign.claim", "start.claim"}
       => vehicleLock[r.vehicle] = p /\ vehicle[r.vehicle] = "ACTIVE"
    /\ r.at \notin {"idle", "unlink.running", "unlink.clear"} => r.trip \in Trip
    /\ r.at \in {"verify.pending", "verify.claim", "expense.insert"} => tripLock[r.trip] = p
    /\ r.at \in {"verify.pending", "verify.claim"} => trip[r.trip].status = "COMPLETED"
    /\ r.at = "verify.claim" => ~PendingExpense(expense, r.trip)
    /\ r.at = "expense.insert" => trip[r.trip].status \in DRIVER_EXPENSABLE_FROM
    /\ r.at = "unlink.clear" =>
          \A t \in Trip : ~(trip[t].status = "IN_PROGRESS" /\ trip[t].driver = r.driver)
    /\ r.at \in {"unlink.running", "unlink.clear"} => r.user # None
    /\ r.at = "cancel.retry" => trip[r.trip].status \notin {"ABSENT", "DRAFT"}

\* A locked vehicle or trip belongs to a transaction that wants no row that
\* comes earlier in the order.
LockStages ==
    /\ \A v \in Vehicle : vehicleLock[v] # None =>
          req[vehicleLock[v]].at \in {"assign.claim", "start.claim"}
    /\ \A t \in Trip : tripLock[t] # None =>
          req[tripLock[t]].at \in {"verify.pending", "verify.claim", "expense.insert"}

\* Inductive: the tables obey the rules and every request can rely on what it
\* holds.
FleetInv == TypeOK /\ Rules!RulesInv /\ \A p \in Request : Holds(p)

\* However the transactions interleave, their effects on the tables are those
\* of the business rules applied one at a time.  In particular a trip starts
\* with a driver that is active and linked and a vehicle that is active at
\* that very moment, although all of that was read statements earlier.
RefinesRules == Rules!Spec

\* A verified or closed trip carries no expense that still waits for review:
\* submission and verification, which write different tables, meet in the
\* trip's row lock.
Settled == Rules!Settled

\* The driver of a running trip keeps its login: an unlink and a start, which
\* each check what the other writes, meet in the driver's row lock.
RunningDriverLinked == Rules!RunningDriverLinked

\* Nothing is filed against a trip that is still planned or was cancelled:
\* an expense belongs to a journey that took place.
CostsOfJourneys == Rules!CostsOfJourneys

\* No driver and no vehicle is promised to two trips at the same instant,
\* from the assignment until long after the journey, re-assignments included.
NoDoubleBooking == Rules!NoDoubleBooking

\* The errors the services call unreachable stay unreachable: a verification
\* that locked its trip never loses it, and a start never meets an assigned
\* trip without a vehicle.
NoInvariantError ==
    \A p \in Request :
        /\ req[p].at = "verify.claim" => trip[req[p].trip].status = "COMPLETED"
        /\ req[p].at = "start.vehicle" => req[p].vehicle # None

\* Request p cannot go on before q ends.
WaitsFor(p, q) ==
    /\ p # q
    /\ \/ /\ req[p].at \in {"assign.vehicle", "start.vehicle"}
          /\ vehicleLock[req[p].vehicle] = q
       \/ /\ req[p].at \in {"assign.claim", "start.claim", "complete.claim",
                             "cancel.retry", "expense.trip"}
          /\ tripLock[req[p].trip] = q

\* "DRIVER -> VEHICLE -> TRIP order, so no path can invert it and deadlock":
\* no requests wait for each other in a circle.
NoLockCycle ==
    \A S \in (SUBSET Request) \ {{}} : \E p \in S : \A q \in S : ~WaitsFor(p, q)

\* Cancelling tries its two source states one after the other and reads
\* nothing first; all the same it never turns down a trip that is cancellable.
CancelNeverMissesACancellableTrip ==
    [][\A p \in Request :
          CancelRetry(p) /\ trip' = trip
          => trip[req[p].trip].status \notin {"DRAFT", "ASSIGNED"}]_vars
=============================================================================
