----------------------------- MODULE TripRules -----------------------------
(***************************************************************************)
(* What the fleet API promises: every operation happens at one instant,    *)
(* under the whole of its business rule, on the current tables.  Module    *)
(* Fleet, where the same operations are transactions of several statements *)
(* that run concurrently, implements this specification.                   *)
(***************************************************************************)
EXTENDS FleetTables

VARIABLES trip, driver, vehicle, expense

tables == <<trip, driver, vehicle, expense>>

Init ==
    /\ trip = [t \in Trip |-> [status |-> "ABSENT", driver |-> None,
                               vehicle |-> None, window |-> None]]
    /\ driver = [d \in Driver |-> [status |-> "ACTIVE", user |-> None]]
    /\ vehicle = [v \in Vehicle |-> "ACTIVE"]
    /\ expense = [e \in Expense |-> [status |-> "ABSENT", trip |-> None]]

Active(d) == driver[d].status = "ACTIVE"
Linked(d) == driver[d].user # None

SetTrip(t, status) ==
    /\ trip' = [trip EXCEPT ![t].status = status]
    /\ UNCHANGED <<driver, vehicle, expense>>

Create(t) == trip[t].status = "ABSENT" /\ SetTrip(t, "DRAFT")

Assign(t, d, v, w) ==
    /\ trip[t].status \in ASSIGNABLE_FROM
    /\ Active(d)
    /\ vehicle[v] = "ACTIVE"
    /\ ~ScheduleConflict(trip, t, d, v, w)
    /\ trip' = [trip EXCEPT ![t] = [status |-> "ASSIGNED", driver |-> d,
                                    vehicle |-> v, window |-> w]]
    /\ UNCHANGED <<driver, vehicle, expense>>

\* A trip starts only with an active, linked driver and an active vehicle.
Start(t) ==
    /\ trip[t].status = "ASSIGNED"
    /\ Active(trip[t].driver)
    /\ Linked(trip[t].driver)
    /\ vehicle[trip[t].vehicle] = "ACTIVE"
    /\ ~RunningConflict(trip, t)
    /\ SetTrip(t, "IN_PROGRESS")

\* Neither the driver's nor the vehicle's status matters: a running trip is
\* never stranded.
Complete(t) ==
    /\ trip[t].status = "IN_PROGRESS"
    /\ Linked(trip[t].driver)
    /\ SetTrip(t, "COMPLETED")

Cancel(t) == trip[t].status \in {"DRAFT", "ASSIGNED"} /\ SetTrip(t, "CANCELLED")

Verify(t) ==
    /\ trip[t].status = "COMPLETED"
    /\ ~PendingExpense(expense, t)
    /\ SetTrip(t, "VERIFIED")

Close(t) == trip[t].status = "VERIFIED" /\ SetTrip(t, "CLOSED")

SetDriverStatus(d, status) ==
    /\ driver[d].status # status
    /\ driver' = [driver EXCEPT ![d].status = status]
    /\ UNCHANGED <<trip, vehicle, expense>>

LinkUser(d, u) ==
    /\ Active(d) /\ ~Linked(d)
    /\ \A other \in Driver : driver[other].user # u
    /\ driver' = [driver EXCEPT ![d].user = u]
    /\ UNCHANGED <<trip, vehicle, expense>>

\* Never while the driver runs a trip: only that login can complete it.
UnlinkUser(d) ==
    /\ Linked(d)
    /\ \A t \in Trip : ~(trip[t].status = "IN_PROGRESS" /\ trip[t].driver = d)
    /\ driver' = [driver EXCEPT ![d].user = None]
    /\ UNCHANGED <<trip, vehicle, expense>>

SetVehicleStatus(v, status) ==
    /\ vehicle[v] # status
    /\ vehicle' = [vehicle EXCEPT ![v] = status]
    /\ UNCHANGED <<trip, driver, expense>>

SubmitExpense(e, t) ==
    /\ expense[e].status = "ABSENT"
    /\ trip[t].status \in DRIVER_EXPENSABLE_FROM
    /\ expense' = [expense EXCEPT ![e] = [status |-> "SUBMITTED", trip |-> t]]
    /\ UNCHANGED <<trip, driver, vehicle>>

ReviewExpense(e, decision) ==
    /\ expense[e].status = "SUBMITTED"
    /\ expense' = [expense EXCEPT ![e].status = decision]
    /\ UNCHANGED <<trip, driver, vehicle>>

Next ==
    \/ \E t \in Trip :
          \/ Create(t) \/ Start(t) \/ Complete(t) \/ Cancel(t)
          \/ Verify(t) \/ Close(t)
          \/ \E d \in Driver, v \in Vehicle, w \in Window : Assign(t, d, v, w)
          \/ \E e \in Expense : SubmitExpense(e, t)
    \/ \E d \in Driver :
          \/ \E s \in DriverStatus : SetDriverStatus(d, s)
          \/ \E u \in User : LinkUser(d, u)
          \/ UnlinkUser(d)
    \/ \E v \in Vehicle, s \in VehicleStatus : SetVehicleStatus(v, s)
    \/ \E e \in Expense, s \in {"APPROVED", "REJECTED"} : ReviewExpense(e, s)

Spec == Init /\ [][Next]_tables
-----------------------------------------------------------------------------
TypeOK ==
    /\ trip \in [Trip -> TripRow]
    /\ driver \in [Driver -> DriverRow]
    /\ vehicle \in [Vehicle -> VehicleStatus]
    /\ expense \in [Expense -> ExpenseRow]

\* A verified or closed trip has no expense still waiting for a review.
Settled ==
    \A e \in Expense : expense[e].status = "SUBMITTED" =>
        trip[expense[e].trip].status \notin {"VERIFIED", "CLOSED"}

\* Costs belong to journeys that took place: never to a trip that is still
\* planned or was cancelled.
CostsOfJourneys ==
    \A e \in Expense : expense[e].status # "ABSENT" =>
        trip[expense[e].trip].status \in
            {"IN_PROGRESS", "COMPLETED", "VERIFIED", "CLOSED"}

\* The driver of a running trip has a login, so somebody can complete it.
RunningDriverLinked ==
    \A t \in Trip : trip[t].status = "IN_PROGRESS" => Linked(trip[t].driver)

\* No driver and no vehicle is promised to two trips at the same instant.
NoDoubleBooking ==
    \A t1, t2 \in Trip :
        /\ t1 # t2 /\ Booked(trip[t1]) /\ Booked(trip[t2])
        /\ trip[t1].driver = trip[t2].driver \/ trip[t1].vehicle = trip[t2].vehicle
        => ~Overlap(trip[t1].window, trip[t2].window)

\* trips_assignment_complete: a reserving trip has a driver and a vehicle.
Assigned == \A t \in Trip : AssignmentComplete(trip[t])

\* An expense that exists names a trip.
FiledAgainstTrip == \A e \in Expense : expense[e].status # "ABSENT" => expense[e].trip \in Trip

\* Inductive: every rule keeps it.
RulesInv ==
    /\ TypeOK
    /\ Assigned
    /\ FiledAgainstTrip
    /\ CostsOfJourneys
    /\ Settled
    /\ RunningDriverLinked
    /\ NoDoubleBooking
=============================================================================
