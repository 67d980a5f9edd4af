---------------------------- MODULE FleetTables ----------------------------
(***************************************************************************)
(* The PostgreSQL tables the fleet API works on: trips, drivers, vehicles  *)
(* and expenses, cut down to the columns its guards read and write, and    *)
(* the constraints the database itself enforces on trips.                  *)
(*                                                                         *)
(* A row the program has not inserted yet has status "ABSENT"; rows are    *)
(* never deleted.  A scheduled window is the set of instants it covers, so *)
(* half-open ranges overlap exactly when the sets meet, and back-to-back   *)
(* windows do not.                                                         *)
(***************************************************************************)
EXTENDS Naturals, FiniteSets

CONSTANTS
    Trip, Driver, Vehicle, Expense,  \* primary keys
    User,     \* logins with role DRIVER that are active
    Window,   \* the schedules an admin may choose, sets of instants
    None      \* SQL NULL

ASSUME NoneAssumption == None \notin Driver \cup Vehicle \cup User \cup Window \cup Trip

TripStatus == {"ABSENT", "DRAFT", "ASSIGNED", "IN_PROGRESS", "COMPLETED",
               "VERIFIED", "CLOSED", "CANCELLED"}
DriverStatus == {"ACTIVE", "INACTIVE"}
VehicleStatus == {"ACTIVE", "IN_MAINTENANCE", "RETIRED"}
ExpenseStatus == {"ABSENT", "SUBMITTED", "APPROVED", "REJECTED"}

TripRow == [status : TripStatus, driver : Driver \cup {None},
            vehicle : Vehicle \cup {None}, window : Window \cup {None}]
DriverRow == [status : DriverStatus, user : User \cup {None}]
ExpenseRow == [status : ExpenseStatus, trip : Trip \cup {None}]

\* A trip that takes part in the exclusion constraints: its driver and its
\* vehicle are reserved for its window.
Booked(row) ==
    row.status \in {"ASSIGNED", "IN_PROGRESS", "COMPLETED", "VERIFIED", "CLOSED"}

\* trips_assignment_complete.
AssignmentComplete(row) ==
    Booked(row) => row.driver # None /\ row.vehicle # None /\ row.window # None

Overlap(w1, w2) == w1 \cap w2 # {}

\* Variant: only the driver is reserved.
ScheduleConflictOfDriver(trip, t, d, v, w) ==
    \E other \in Trip \ {t} :
        /\ Booked(trip[other])
        /\ trip[other].driver = d
        /\ Overlap(trip[other].window, w)

\* The two exclusion constraints would refuse trip t this assignment.
ScheduleConflict(trip, t, d, v, w) ==
    \E other \in Trip \ {t} :
        /\ Booked(trip[other])
        /\ trip[other].driver = d \/ trip[other].vehicle = v
        /\ Overlap(trip[other].window, w)

\* The two partial unique indexes would refuse trip t the status IN_PROGRESS.
RunningConflict(trip, t) ==
    \E other \in Trip \ {t} :
        /\ trip[other].status = "IN_PROGRESS"
        /\ \/ trip[other].driver = trip[t].driver
           \/ trip[other].vehicle = trip[t].vehicle

\* The states the services name.
ASSIGNABLE_FROM == {"DRAFT", "ASSIGNED"}
\* Variant: the other order.
CancellableBackwards == <<"ASSIGNED", "DRAFT">>
CANCELLABLE_FROM == <<"DRAFT", "ASSIGNED">>   \* in the order cancel tries them
DRIVER_EXPENSABLE_FROM == {"IN_PROGRESS", "COMPLETED"}
ADMIN_EXPENSABLE_FROM == {"COMPLETED"}

\* What verification asks of the expenses table.
PendingExpense(expense, t) ==
    \E e \in Expense : expense[e].trip = t /\ expense[e].status = "SUBMITTED"
=============================================================================
