---------------------------- MODULE FleetProofs ----------------------------
(* The business rules keep their invariants, and the concurrent             *)
(* transactions of Fleet implement them, for every number of requests and   *)
(* every set of trips, drivers, vehicles, logins, windows and expenses.     *)
EXTENDS Fleet, TLAPS

\* TripRules shares its rows and constraints with Fleet.
USE DEF TripRow, DriverRow, ExpenseRow, TripStatus, DriverStatus, VehicleStatus, ExpenseStatus,
        Rules!TripRow, Rules!DriverRow, Rules!ExpenseRow, Rules!TripStatus, Rules!DriverStatus,
        Rules!VehicleStatus, Rules!ExpenseStatus, Booked, Rules!Booked, AssignmentComplete,
        Rules!AssignmentComplete, Overlap, Rules!Overlap

-----------------------------------------------------------------------------
(* The business rules, one operation at an instant. *)

\* The empty tables satisfy the inductive invariant.
LEMMA RulesInit == Rules!Init => Rules!RulesInv
  BY DEF Rules!Init, Rules!RulesInv, Rules!TypeOK, Rules!Assigned, Rules!AssignmentComplete,
         Rules!Booked, Rules!FiledAgainstTrip, Rules!CostsOfJourneys, Rules!Settled,
         Rules!RunningDriverLinked, Rules!NoDoubleBooking

\* A trip changes its status and nothing else.
Moved(t, status) ==
    /\ trip' \in [Trip -> Rules!TripRow] /\ trip'[t].status = status
    /\ trip'[t].driver = trip[t].driver /\ trip'[t].vehicle = trip[t].vehicle
    /\ trip'[t].window = trip[t].window
    /\ \A x \in Trip \ {t} : trip'[x] = trip[x]
    /\ UNCHANGED <<driver, vehicle, expense>>

\* That is what SetTrip does.
LEMMA SetTripMoves ==
    ASSUME Rules!TypeOK, NEW t \in Trip, NEW status \in Rules!TripStatus, Rules!SetTrip(t, status)
    PROVE  Moved(t, status)
  BY DEF Rules!SetTrip, Moved, Rules!TypeOK, Rules!TripRow

\* Every business rule, applied to tables that satisfy the invariant, leaves
\* tables that satisfy it.
LEMMA RulesStep == Rules!RulesInv /\ [Rules!Next]_tables => Rules!RulesInv'
<1> SUFFICES ASSUME Rules!RulesInv, [Rules!Next]_tables PROVE Rules!RulesInv'
  OBVIOUS
<1> USE NoneAssumption
<1> USE DEF Rules!RulesInv, Rules!TypeOK, Rules!Assigned, Rules!AssignmentComplete, Rules!Booked,
            Rules!FiledAgainstTrip, Rules!CostsOfJourneys, Rules!Settled,
            Rules!RunningDriverLinked, Rules!Linked, Rules!NoDoubleBooking
<1>1. ASSUME NEW t \in Trip, Rules!Create(t) PROVE Rules!RulesInv'
  BY <1>1 DEF Rules!Create, Rules!SetTrip
<1>2. ASSUME NEW t \in Trip, Rules!Start(t) PROVE Rules!RulesInv'
  BY <1>2 DEF Rules!Start, Rules!SetTrip
<1>3. ASSUME NEW t \in Trip, Rules!Complete(t) PROVE Rules!RulesInv'
  <2>1. Rules!SetTrip(t, "COMPLETED") /\ trip[t].status = "IN_PROGRESS"
    BY <1>3 DEF Rules!Complete
  <2>2. Moved(t, "COMPLETED")
    BY <2>1, SetTripMoves
  <2>3. Rules!TypeOK' /\ Rules!FiledAgainstTrip' /\ Rules!Assigned'
    BY <2>1, <2>2 DEF Moved
  <2>4. Rules!CostsOfJourneys' /\ Rules!Settled'
    BY <2>1, <2>2 DEF Moved
  <2>5. Rules!RunningDriverLinked'
    BY <2>1, <2>2 DEF Moved
  <2>6. Rules!NoDoubleBooking'
    BY <2>1, <2>2 DEF Moved
  <2>7. QED
    BY <2>3, <2>4, <2>5, <2>6
<1>4. ASSUME NEW t \in Trip, Rules!Cancel(t) PROVE Rules!RulesInv'
  <2>1. Rules!SetTrip(t, "CANCELLED") /\ trip[t].status \in {"DRAFT", "ASSIGNED"}
    BY <1>4 DEF Rules!Cancel
  <2>2. Moved(t, "CANCELLED")
    BY <2>1, SetTripMoves
  <2>3. Rules!TypeOK' /\ Rules!FiledAgainstTrip' /\ Rules!Assigned'
    BY <2>1, <2>2 DEF Moved
  <2>4. Rules!CostsOfJourneys' /\ Rules!Settled'
    BY <2>1, <2>2 DEF Moved
  <2>5. Rules!RunningDriverLinked'
    BY <2>1, <2>2 DEF Moved
  <2>6. Rules!NoDoubleBooking'
    BY <2>1, <2>2 DEF Moved
  <2>7. QED
    BY <2>3, <2>4, <2>5, <2>6
<1>5. ASSUME NEW t \in Trip, Rules!Verify(t) PROVE Rules!RulesInv'
  <2>1. Rules!SetTrip(t, "VERIFIED") /\ trip[t].status = "COMPLETED"
        /\ ~Rules!PendingExpense(expense, t)
    BY <1>5 DEF Rules!Verify
  <2>2. Moved(t, "VERIFIED")
    BY <2>1, SetTripMoves
  <2>3. Rules!TypeOK' /\ Rules!FiledAgainstTrip' /\ Rules!Assigned'
    BY <2>1, <2>2 DEF Moved
  <2>4. Rules!CostsOfJourneys' /\ Rules!Settled'
    BY <2>1, <2>2 DEF Moved, Rules!PendingExpense
  <2>5. Rules!RunningDriverLinked'
    BY <2>1, <2>2 DEF Moved
  <2>6. Rules!NoDoubleBooking'
    BY <2>1, <2>2 DEF Moved
  <2>7. QED
    BY <2>3, <2>4, <2>5, <2>6
<1>6. ASSUME NEW t \in Trip, Rules!Close(t) PROVE Rules!RulesInv'
  <2>1. Rules!SetTrip(t, "CLOSED") /\ trip[t].status = "VERIFIED"
    BY <1>6 DEF Rules!Close
  <2>2. Moved(t, "CLOSED")
    BY <2>1, SetTripMoves
  <2>3. Rules!TypeOK' /\ Rules!FiledAgainstTrip' /\ Rules!Assigned'
    BY <2>1, <2>2 DEF Moved
  <2>4. Rules!CostsOfJourneys' /\ Rules!Settled'
    <3>1. ASSUME NEW e \in Expense, expense[e].status # "ABSENT", expense[e].trip = t
          PROVE  expense[e].status # "SUBMITTED"
      BY <2>1, <3>1
    <3>2. ASSUME NEW e \in Expense, expense[e].status # "ABSENT"
          PROVE  trip'[expense[e].trip].status = IF expense[e].trip = t THEN "CLOSED"
                                                 ELSE trip[expense[e].trip].status
      BY <2>2, <3>2 DEF Moved
    <3>3. UNCHANGED expense
      BY <2>2 DEF Moved
    <3>4. QED
      BY <3>1, <3>2, <3>3
  <2>5. Rules!RunningDriverLinked'
    BY <2>1, <2>2 DEF Moved
  <2>6. Rules!NoDoubleBooking'
    BY <2>1, <2>2 DEF Moved
  <2>7. QED
    BY <2>3, <2>4, <2>5, <2>6
<1>7. ASSUME NEW t \in Trip, NEW d \in Driver, NEW v \in Vehicle, NEW w \in Window,
             Rules!Assign(t, d, v, w)
      PROVE Rules!RulesInv'
  BY <1>7 DEF Rules!Assign, Rules!ASSIGNABLE_FROM, Rules!ScheduleConflict, Rules!Overlap
<1>8. ASSUME NEW t \in Trip, NEW e \in Expense, Rules!SubmitExpense(e, t) PROVE Rules!RulesInv'
  BY <1>8 DEF Rules!SubmitExpense, Rules!DRIVER_EXPENSABLE_FROM
<1>9. ASSUME NEW d \in Driver, NEW s \in Rules!DriverStatus, Rules!SetDriverStatus(d, s)
      PROVE Rules!RulesInv'
  BY <1>9 DEF Rules!SetDriverStatus
<1>10. ASSUME NEW d \in Driver, NEW u \in User, Rules!LinkUser(d, u) PROVE Rules!RulesInv'
  BY <1>10 DEF Rules!LinkUser
<1>11. ASSUME NEW d \in Driver, Rules!UnlinkUser(d) PROVE Rules!RulesInv'
  BY <1>11 DEF Rules!UnlinkUser
<1>12. ASSUME NEW v \in Vehicle, NEW s \in Rules!VehicleStatus, Rules!SetVehicleStatus(v, s)
       PROVE Rules!RulesInv'
  BY <1>12 DEF Rules!SetVehicleStatus
<1>13. ASSUME NEW e \in Expense, NEW s \in {"APPROVED", "REJECTED"}, Rules!ReviewExpense(e, s)
       PROVE Rules!RulesInv'
  BY <1>13 DEF Rules!ReviewExpense
<1>14. CASE UNCHANGED tables
  BY <1>14 DEF tables
<1> HIDE DEF Rules!RulesInv
<1>15. QED
  BY <1>1, <1>2, <1>3, <1>4, <1>5, <1>6, <1>7, <1>8, <1>9, <1>10, <1>11, <1>12, <1>13, <1>14
     DEF Rules!Next

\* Tables changed only under the business rules are always well typed, settled,
\* free of double bookings and of stranded drivers.
THEOREM RulesInvariant == Rules!Spec => []Rules!RulesInv
<1>1. Rules!Init => Rules!RulesInv
  BY RulesInit
<1>2. Rules!RulesInv /\ [Rules!Next]_tables => Rules!RulesInv'
  BY RulesStep
<1>3. QED
  BY <1>1, <1>2, PTL DEF Rules!Spec, Rules!tables, tables

-----------------------------------------------------------------------------
(* The transactions. *)

\* The program starts with empty tables, no locks and no requests.
LEMMA FleetInit == Init => FleetInv
<1> SUFFICES ASSUME Init PROVE FleetInv
  OBVIOUS
<1>1. Rules!RulesInv
  BY RulesInit DEF Init
<1>2. LockState /\ req \in [Request -> RequestState]
  BY DEF Init, LockState, RequestState, Idle, Statement
<1>3. \A p \in Request : Holds(p)
  BY DEF Init, Holds, Idle
<1>4. QED
  BY <1>1, <1>2, <1>3 DEF FleetInv, TypeOK, Rules!RulesInv
-----------------------------------------------------------------------------
USE DEF Rules!SetTrip, Rules!Active, Rules!Linked, ASSIGNABLE_FROM, Rules!ASSIGNABLE_FROM,
        DRIVER_EXPENSABLE_FROM, Rules!DRIVER_EXPENSABLE_FROM, Rules!tables

\* Every statement of every transaction either leaves the tables alone or
\* changes them as one business rule does.
LEMMA RefineStep == FleetInv /\ [Next]_vars => [Rules!Next]_tables
<1> SUFFICES ASSUME FleetInv, [Next]_vars PROVE [Rules!Next]_tables
  OBVIOUS
<1> USE NoneAssumption, RequestAssumption
<1> USE DEF FleetInv, TypeOK, LockState, Holds, RequestState, Statement, CommitTrip, MoveTrip,
            Refuse, Answer, tables, Rules!TypeOK
<1>1. ASSUME NEW p \in Request, AssignClaim(p) PROVE [Rules!Next]_tables
  <2> DEFINE r == req[p]
  <2>1. CASE UNCHANGED tables
    BY <2>1
  <2>2. CASE ~UNCHANGED tables
    <3>1. r.trip \in Trip /\ r.driver \in Driver /\ r.vehicle \in Vehicle /\ r.window \in Window
      BY <1>1 DEF AssignClaim
    <3>2. Rules!Assign(r.trip, r.driver, r.vehicle, r.window)
      BY <1>1, <2>2 DEF AssignClaim, Rules!Assign, ScheduleConflict, Rules!ScheduleConflict
    <3>3. QED
      BY <3>1, <3>2 DEF Rules!Next
  <2>3. QED
    BY <2>1, <2>2
<1>2. ASSUME NEW p \in Request, StartClaim(p) PROVE [Rules!Next]_tables
  <2>1. CASE UNCHANGED tables
    BY <2>1
  <2>2. CASE ~UNCHANGED tables
    <3>1. req[p].trip \in Trip /\ Rules!Start(req[p].trip)
      BY <1>2, <2>2
         DEF StartClaim, StartClaimable, Rules!Start, RunningConflict, Rules!RunningConflict
    <3>2. QED
      BY <3>1 DEF Rules!Next
  <2>3. QED
    BY <2>1, <2>2
<1>3. ASSUME NEW p \in Request, CompleteClaim(p) PROVE [Rules!Next]_tables
  BY <1>3 DEF CompleteClaim, Rules!Next, Rules!Complete
<1>4. ASSUME NEW p \in Request, NEW t \in Trip, Cancel(p, t) PROVE [Rules!Next]_tables
  BY <1>4 DEF Cancel, CANCELLABLE_FROM, Rules!Next, Rules!Cancel
<1>5. ASSUME NEW p \in Request, CancelRetry(p) PROVE [Rules!Next]_tables
  BY <1>5 DEF CancelRetry, CANCELLABLE_FROM, Rules!Next, Rules!Cancel
<1>6. ASSUME NEW p \in Request, VerifyClaim(p) PROVE [Rules!Next]_tables
  BY <1>6 DEF VerifyClaim, Rules!Next, Rules!Verify, PendingExpense, Rules!PendingExpense
<1>7. ASSUME NEW p \in Request, SubmitInsert(p) PROVE [Rules!Next]_tables
  BY <1>7 DEF SubmitInsert, Rules!Next, Rules!SubmitExpense
<1>8. ASSUME NEW p \in Request, UnlinkClear(p) PROVE [Rules!Next]_tables
  BY <1>8 DEF UnlinkClear, Rules!Next, Rules!UnlinkUser
<1>9. ASSUME NEW t \in Trip, Create(t) \/ Close(t) PROVE [Rules!Next]_tables
  BY <1>9 DEF Create, Close, Rules!Next, Rules!Create, Rules!Close
<1>10. ASSUME NEW d \in Driver, NEW s \in DriverStatus, SetDriverStatus(d, s)
       PROVE [Rules!Next]_tables
  BY <1>10 DEF SetDriverStatus, Rules!Next, Rules!SetDriverStatus
<1>11. ASSUME NEW d \in Driver, NEW u \in User, LinkUser(d, u) PROVE [Rules!Next]_tables
  <2>1. Rules!LinkUser(d, u)
    BY <1>11 DEF LinkUser, Rules!LinkUser
  <2>2. QED
    BY <2>1 DEF Rules!Next
<1>12. ASSUME NEW v \in Vehicle, NEW s \in VehicleStatus, SetVehicleStatus(v, s)
       PROVE [Rules!Next]_tables
  BY <1>12 DEF SetVehicleStatus, Rules!Next, Rules!SetVehicleStatus
<1>13. ASSUME NEW e \in Expense, NEW s \in {"APPROVED", "REJECTED"}, Review(e, s)
       PROVE [Rules!Next]_tables
  BY <1>13 DEF Review, Rules!Next, Rules!ReviewExpense
<1>14. ASSUME UNCHANGED tables PROVE [Rules!Next]_tables
  BY <1>14
<1>15. ASSUME NEW p \in Request, Arrive(p), ~\E t \in Trip : Cancel(p, t)
       PROVE UNCHANGED tables
  BY <1>15
     DEF Arrive, Assign, Start, Complete, SubmitOwn, LockLinkedDriver, Verify, SubmitForTrip,
         Unlink
<1>16. ASSUME NEW p \in Request,
              \/ AssignVehicle(p) \/ StartRead(p) \/ StartVehicle(p) \/ VerifyPending(p)
              \/ SubmitOwnTrip(p) \/ UnlinkRunning(p) \/ Rollback(p)
       PROVE UNCHANGED tables
  BY <1>16
     DEF AssignVehicle, StartRead, StartVehicle, VerifyPending, SubmitOwnTrip, UnlinkRunning,
         Rollback
<1>17. CASE UNCHANGED vars
  BY <1>14, <1>17 DEF vars
<1>18. QED
  BY <1>1, <1>2, <1>3, <1>4, <1>5, <1>6, <1>7, <1>8, <1>9, <1>10, <1>11, <1>12, <1>13, <1>14,
     <1>15, <1>16, <1>17
     DEF Next, Continue, Claim

-----------------------------------------------------------------------------
(* What a request holds is disturbed by nobody else: the steps of the      *)
(* others keep its locks, its state and every row it has locked.           *)

\* A step keeps what request q relies on.
Keeps(q) ==
    /\ req'[q] = req[q]
    /\ \A d \in Driver : driverLock[d] = q => driverLock'[d] = q /\ driver'[d] = driver[d]
    /\ \A v \in Vehicle : vehicleLock[v] = q => vehicleLock'[v] = q /\ vehicle'[v] = vehicle[v]
    /\ \A t \in Trip : tripLock[t] = q =>
          tripLock'[t] = q /\ (trip[t].status # "ABSENT" => trip'[t] = trip[t])
    /\ \A d \in Driver, t \in Trip :
          driverLock[d] = q /\ trip'[t].status = "IN_PROGRESS" /\ trip'[t].driver = d
          => trip[t].status = "IN_PROGRESS" /\ trip[t].driver = d
    /\ \A t \in Trip : tripLock[t] = q /\ PendingExpense(expense', t) => PendingExpense(expense, t)
    /\ \A t \in Trip : trip[t].status \notin {"ABSENT", "DRAFT"}
                      => trip'[t].status \notin {"ABSENT", "DRAFT"}

Typed == LockState /\ req \in [Request -> RequestState]

\* A step that keeps what q relies on preserves what q holds.
LEMMA KeepsHolds == ASSUME NEW q \in Request, Typed, Holds(q), Keeps(q) PROVE Holds(q)'
<1> USE DEF Typed, LockState, RequestState
<1> DEFINE r == req[q]
<1>1. r.trip \in Trip \cup {None} /\ r.driver \in Driver \cup {None} /\ req'[q] = r
  BY DEF Keeps
<1>2. r.at \in {"verify.pending", "verify.claim", "expense.insert"}
      => tripLock'[r.trip] = q /\ trip'[r.trip] = trip[r.trip]
  BY DEF Holds, Keeps, DRIVER_EXPENSABLE_FROM
<1>3. r.at \in {"assign.claim", "start.claim"}
      => r.vehicle \in Vehicle /\ vehicleLock'[r.vehicle] = q /\ vehicle'[r.vehicle] = "ACTIVE"
  BY DEF Holds, Keeps
<1>4. r.at \in {"assign.vehicle", "assign.claim", "start.read", "start.vehicle",
                "start.claim", "complete.claim", "expense.trip",
                "unlink.running", "unlink.clear"}
      => driverLock'[r.driver] = q /\ driver'[r.driver] = driver[r.driver]
  BY DEF Holds, Keeps
<1>5. r.at = "verify.claim" => ~PendingExpense(expense', r.trip)
  BY DEF Holds, Keeps
<1>6. r.at = "unlink.clear" =>
        \A t \in Trip : ~(trip'[t].status = "IN_PROGRESS" /\ trip'[t].driver = r.driver)
  BY DEF Holds, Keeps
<1>7. r.at = "cancel.retry" => trip'[r.trip].status \notin {"ABSENT", "DRAFT"}
  BY DEF Holds, Keeps
<1>8. QED
  BY <1>1, <1>2, <1>3, <1>4, <1>5, <1>6, <1>7 DEF Holds, PendingExpense

\* Releasing the locks of p frees no row of another request.
LEMMA AnswerFacts ==
    ASSUME FleetInv, NEW p \in Request, Answer(p)
    PROVE  /\ Typed'
           /\ Holds(p)'
           /\ \A q \in Request \ {p} :
                 /\ req'[q] = req[q]
                 /\ \A d \in Driver : driverLock[d] = q => driverLock'[d] = q
                 /\ \A v \in Vehicle : vehicleLock[v] = q => vehicleLock'[v] = q
                 /\ \A t \in Trip : tripLock[t] = q => tripLock'[t] = q
  BY NoneAssumption, RequestAssumption
     DEF Answer, Unlock, FleetInv, TypeOK, Typed, LockState, RequestState, Statement, Idle, Holds

\* A refused request leaves the others what they hold.
LEMMA RefuseKeeps ==
    ASSUME FleetInv, NEW p \in Request, Refuse(p)
    PROVE  Typed' /\ Holds(p)' /\ \A q \in Request \ {p} : Keeps(q)
  BY AnswerFacts DEF Refuse, Keeps, tables

\* Request p takes a step that keeps what everybody holds.
Safe(p) == Typed' /\ Holds(p)' /\ \A q \in Request \ {p} : Keeps(q)

USE DEF FleetInv, TypeOK, Typed, LockState, RequestState, Statement, Idle, tables, locks,
        Rules!TypeOK, DriverLockable, VehicleLockable, TripLockable, Goto

\* The next statement of a request.
LEMMA GotoTyped ==
    ASSUME req \in [Request -> RequestState], NEW p \in Request, NEW s \in Statement, Goto(p, s)
    PROVE  req' \in [Request -> RequestState]
<1>1. [req[p] EXCEPT !.at = s] \in RequestState
  BY Zenon
<1>2. req' = [req EXCEPT ![p] = [req[p] EXCEPT !.at = s]]
  BY DEF Goto
<1>3. QED
  BY <1>1, <1>2

\* The statements that only lock or read.
LEMMA WaitingSteps ==
    ASSUME FleetInv, NEW p \in Request
    PROVE  /\ AssignVehicle(p) => Safe(p)
           /\ StartRead(p) => Safe(p)
           /\ StartVehicle(p) => Safe(p)
           /\ VerifyPending(p) => Safe(p)
           /\ SubmitOwnTrip(p) => Safe(p)
           /\ UnlinkRunning(p) => Safe(p)
           /\ Rollback(p) => Safe(p)
<1> USE NoneAssumption, RequestAssumption
<1>0. Refuse(p) => Safe(p)
  BY RefuseKeeps DEF Safe
<1>1. ASSUME AssignVehicle(p), ~Refuse(p) PROVE Safe(p)
  <2>1. Typed'
    <3>1. Goto(p, "assign.claim") /\ vehicleLock' = [vehicleLock EXCEPT ![req[p].vehicle] = p]
          /\ UNCHANGED <<driverLock, tripLock>>
      BY <1>1 DEF AssignVehicle
    <3>2. req' \in [Request -> RequestState]
      BY <3>1, GotoTyped, "assign.claim" \in Statement
    <3>3. QED
      BY <3>1, <3>2
  <2>2. Holds(p)'
    <3>1. req[p].at = "assign.vehicle" /\ vehicle[req[p].vehicle] = "ACTIVE"
          /\ req[p].vehicle \in Vehicle
          /\ vehicleLock' = [vehicleLock EXCEPT ![req[p].vehicle] = p]
          /\ UNCHANGED <<tables, driverLock, tripLock>>
      BY <1>1 DEF AssignVehicle, Holds
    <3>2. req'[p] = [req[p] EXCEPT !.at = "assign.claim"]
      BY <1>1 DEF AssignVehicle
    <3>3. QED
      BY <3>1, <3>2 DEF Holds
  <2>3. ASSUME NEW q \in Request \ {p} PROVE Keeps(q)
    BY <1>1 DEF AssignVehicle, Keeps
  <2>4. QED
    BY <2>1, <2>2, <2>3 DEF Safe
<1>2. ASSUME StartRead(p), ~Refuse(p) PROVE Safe(p)
  <2>1. Typed'
    <3>1. req' = [req EXCEPT ![p] = [req[p] EXCEPT !.at = "start.vehicle",
                                                 !.vehicle = trip[req[p].trip].vehicle]]
          /\ UNCHANGED locks /\ req[p].at = "start.read"
      BY <1>2 DEF StartRead
    <3>2. trip[req[p].trip].vehicle \in Vehicle \cup {None}
      BY <3>1 DEF Holds
    <3>3. [req[p] EXCEPT !.at = "start.vehicle", !.vehicle = trip[req[p].trip].vehicle]
          \in RequestState
      <4>1. ASSUME NEW r \in RequestState, NEW v \in Vehicle \cup {None}
            PROVE  [r EXCEPT !.at = "start.vehicle", !.vehicle = v] \in RequestState
        BY <4>1
      <4>2. QED
        BY <3>2, <4>1
    <3>4. QED
      BY <3>1, <3>3
  <2>2. Holds(p)'
    BY <1>2 DEF StartRead, Rules!RulesInv, Rules!Assigned, Holds
  <2>3. ASSUME NEW q \in Request \ {p} PROVE Keeps(q)
    BY <1>2 DEF StartRead, Rules!RulesInv, Rules!Assigned, Keeps
  <2>4. QED
    BY <2>1, <2>2, <2>3 DEF Safe
<1>3. ASSUME StartVehicle(p), ~Refuse(p) PROVE Safe(p)
  <2>1. Typed'
    <3>1. Goto(p, "start.claim") /\ vehicleLock' = [vehicleLock EXCEPT ![req[p].vehicle] = p]
          /\ UNCHANGED <<driverLock, tripLock>>
      BY <1>3 DEF StartVehicle
    <3>2. req' \in [Request -> RequestState]
      BY <3>1, GotoTyped, "start.claim" \in Statement
    <3>3. QED
      BY <3>1, <3>2
  <2>2. Holds(p)'
    <3>1. req[p].at = "start.vehicle" /\ vehicle[req[p].vehicle] = "ACTIVE"
          /\ req[p].vehicle \in Vehicle
          /\ vehicleLock' = [vehicleLock EXCEPT ![req[p].vehicle] = p]
          /\ UNCHANGED <<tables, driverLock, tripLock>>
      BY <1>3 DEF StartVehicle, Holds
    <3>2. req'[p] = [req[p] EXCEPT !.at = "start.claim"]
      BY <1>3 DEF StartVehicle
    <3>3. QED
      BY <3>1, <3>2 DEF Holds
  <2>3. ASSUME NEW q \in Request \ {p} PROVE Keeps(q)
    BY <1>3 DEF StartVehicle, Keeps
  <2>4. QED
    BY <2>1, <2>2, <2>3 DEF Safe
<1>4. ASSUME VerifyPending(p), ~Refuse(p) PROVE Safe(p)
  <2>1. Typed'
    <3>1. Goto(p, "verify.claim") /\ UNCHANGED locks
      BY <1>4 DEF VerifyPending
    <3>2. req' \in [Request -> RequestState]
      BY <3>1, GotoTyped, "verify.claim" \in Statement
    <3>3. QED
      BY <3>1, <3>2
  <2>2. Holds(p)'
    BY <1>4 DEF VerifyPending, Holds
  <2>3. ASSUME NEW q \in Request \ {p} PROVE Keeps(q)
    BY <1>4 DEF VerifyPending, Keeps
  <2>4. QED
    BY <2>1, <2>2, <2>3 DEF Safe
<1>5. ASSUME SubmitOwnTrip(p), ~Refuse(p) PROVE Safe(p)
  <2>1. Typed'
    <3>1. Goto(p, "expense.insert") /\ tripLock' = [tripLock EXCEPT ![req[p].trip] = p]
          /\ UNCHANGED <<driverLock, vehicleLock>>
      BY <1>5 DEF SubmitOwnTrip
    <3>2. req' \in [Request -> RequestState]
      BY <3>1, GotoTyped, "expense.insert" \in Statement
    <3>3. QED
      BY <3>1, <3>2
  <2>2. Holds(p)'
    <3>1. /\ req[p].at = "expense.trip" /\ req[p].trip \in Trip
          /\ trip[req[p].trip].status \in DRIVER_EXPENSABLE_FROM
          /\ tripLock' = [tripLock EXCEPT ![req[p].trip] = p]
          /\ UNCHANGED <<tables, driverLock, vehicleLock>>
      BY <1>5 DEF SubmitOwnTrip, Holds
    <3>2. req'[p] = [req[p] EXCEPT !.at = "expense.insert"]
      BY <1>5 DEF SubmitOwnTrip
    <3>3. QED
      BY <3>1, <3>2 DEF Holds
  <2>3. ASSUME NEW q \in Request \ {p} PROVE Keeps(q)
    BY <1>5 DEF SubmitOwnTrip, Keeps
  <2>4. QED
    BY <2>1, <2>2, <2>3 DEF Safe
<1>6. ASSUME UnlinkRunning(p), ~Refuse(p) PROVE Safe(p)
  <2>1. Typed'
    <3>1. Goto(p, "unlink.clear") /\ UNCHANGED locks
      BY <1>6 DEF UnlinkRunning
    <3>2. req' \in [Request -> RequestState]
      BY <3>1, GotoTyped, "unlink.clear" \in Statement
    <3>3. QED
      BY <3>1, <3>2
  <2>2. Holds(p)'
    BY <1>6 DEF UnlinkRunning, Holds
  <2>3. ASSUME NEW q \in Request \ {p} PROVE Keeps(q)
    BY <1>6 DEF UnlinkRunning, Keeps
  <2>4. QED
    BY <2>1, <2>2, <2>3 DEF Safe
<1>7. QED
  BY <1>0, <1>1, <1>2, <1>3, <1>4, <1>5, <1>6 DEF Rollback

\* The first statement of each request.
LEMMA ArrivingSteps ==
    ASSUME FleetInv, NEW p \in Request, Arrive(p),
           ~\E t \in Trip : Cancel(p, t) /\ trip[t].status # "ABSENT"
    PROVE  Safe(p)
<1> USE NoneAssumption, RequestAssumption
<1>1. ASSUME NEW t \in Trip, NEW d \in Driver, NEW v \in Vehicle, NEW w \in Window,
             Assign(p, t, d, v, w) PROVE Safe(p)
  <2>1. Typed'
    BY <1>1 DEF Assign
  <2>2. Holds(p)'
    BY <1>1 DEF Assign, Holds
  <2>3. ASSUME NEW q \in Request \ {p} PROVE Keeps(q)
    BY <1>1 DEF Assign, Keeps
  <2>4. QED
    BY <2>1, <2>2, <2>3 DEF Safe
<1>2. ASSUME NEW t \in Trip, NEW d \in Driver, NEW u \in User,
             Start(p, u, d, t) PROVE Safe(p)
  <2>1. Typed'
    BY <1>2 DEF Start, LockLinkedDriver
  <2>2. Holds(p)'
    BY <1>2 DEF Start, LockLinkedDriver, Holds
  <2>3. ASSUME NEW q \in Request \ {p} PROVE Keeps(q)
    BY <1>2 DEF Start, LockLinkedDriver, Keeps
  <2>4. QED
    BY <2>1, <2>2, <2>3 DEF Safe
<1>3. ASSUME NEW t \in Trip, NEW d \in Driver, NEW u \in User,
             Complete(p, u, d, t) PROVE Safe(p)
  <2>1. Typed'
    BY <1>3 DEF Complete, LockLinkedDriver
  <2>2. Holds(p)'
    BY <1>3 DEF Complete, LockLinkedDriver, Holds
  <2>3. ASSUME NEW q \in Request \ {p} PROVE Keeps(q)
    BY <1>3 DEF Complete, LockLinkedDriver, Keeps
  <2>4. QED
    BY <2>1, <2>2, <2>3 DEF Safe
<1>4. ASSUME NEW t \in Trip, NEW d \in Driver, NEW u \in User,
             SubmitOwn(p, u, d, t) PROVE Safe(p)
  <2>1. Typed'
    BY <1>4 DEF SubmitOwn, LockLinkedDriver
  <2>2. Holds(p)'
    BY <1>4 DEF SubmitOwn, LockLinkedDriver, Holds
  <2>3. ASSUME NEW q \in Request \ {p} PROVE Keeps(q)
    BY <1>4 DEF SubmitOwn, LockLinkedDriver, Keeps
  <2>4. QED
    BY <2>1, <2>2, <2>3 DEF Safe
<1>5. ASSUME NEW t \in Trip, Verify(p, t) PROVE Safe(p)
  <2>1. Typed'
    BY <1>5 DEF Verify
  <2>2. Holds(p)'
    BY <1>5 DEF Verify, Holds
  <2>3. ASSUME NEW q \in Request \ {p} PROVE Keeps(q)
    BY <1>5 DEF Verify, Keeps
  <2>4. QED
    BY <2>1, <2>2, <2>3 DEF Safe
<1>6. ASSUME NEW t \in Trip, SubmitForTrip(p, t) PROVE Safe(p)
  <2>1. Typed'
    BY <1>6 DEF SubmitForTrip, ADMIN_EXPENSABLE_FROM, DRIVER_EXPENSABLE_FROM
  <2>2. Holds(p)'
    BY <1>6 DEF SubmitForTrip, ADMIN_EXPENSABLE_FROM, DRIVER_EXPENSABLE_FROM, Holds
  <2>3. ASSUME NEW q \in Request \ {p} PROVE Keeps(q)
    BY <1>6 DEF SubmitForTrip, ADMIN_EXPENSABLE_FROM, DRIVER_EXPENSABLE_FROM, Keeps
  <2>4. QED
    BY <2>1, <2>2, <2>3 DEF Safe
<1>7. ASSUME NEW d \in Driver, Unlink(p, d) PROVE Safe(p)
  <2>1. Typed'
    BY <1>7 DEF Unlink
  <2>2. Holds(p)'
    BY <1>7 DEF Unlink, Holds
  <2>3. ASSUME NEW q \in Request \ {p} PROVE Keeps(q)
    BY <1>7 DEF Unlink, Keeps
  <2>4. QED
    BY <2>1, <2>2, <2>3 DEF Safe
<1>8. QED
  BY <1>1, <1>2, <1>3, <1>4, <1>5, <1>6, <1>7 DEF Arrive

\* A transaction that moves a trip nobody else has locked, and that starts it
\* only with a driver it has locked itself.
LEMMA CommitKeeps ==
    ASSUME FleetInv, NEW p \in Request, NEW t \in Trip, NEW row,
           TripLockable(p, t), CommitTrip(p, t, row),
           row.status \notin {"ABSENT", "DRAFT"},
           row.status = "IN_PROGRESS" => row.driver \in Driver /\ driverLock[row.driver] = p
    PROVE  Safe(p)
<1> USE NoneAssumption, RequestAssumption
<1>1. Answer(p) /\ trip' = [trip EXCEPT ![t] = row] /\ UNCHANGED <<driver, vehicle, expense>>
  BY DEF CommitTrip
<1>2. Typed' /\ Holds(p)'
  BY <1>1, AnswerFacts
<1>3. ASSUME NEW q \in Request \ {p} PROVE Keeps(q)
  BY <1>1, AnswerFacts DEF Keeps
<1>4. QED
  BY <1>2, <1>3 DEF Safe

\* The same when the claim changes the status alone.
LEMMA MoveKeeps ==
    ASSUME FleetInv, NEW p \in Request, NEW t \in Trip, NEW s,
           TripLockable(p, t), MoveTrip(p, t, s),
           s \notin {"ABSENT", "DRAFT"},
           s = "IN_PROGRESS" => trip[t].driver \in Driver /\ driverLock[trip[t].driver] = p
    PROVE  Safe(p)
<1> DEFINE row == [trip[t] EXCEPT !.status = s]
<1>1. row.status = s /\ row.driver = trip[t].driver
  BY DEF TripRow
<1> HIDE DEF row
<1>2. CommitTrip(p, t, row)
  BY DEF row, MoveTrip
<1>3. QED
  BY <1>1, <1>2, CommitKeeps

\* The claims that end a transaction.
LEMMA ClaimingSteps ==
    ASSUME FleetInv, NEW p \in Request
    PROVE  /\ AssignClaim(p) => Safe(p)
           /\ StartClaim(p) => Safe(p)
           /\ CompleteClaim(p) => Safe(p)
           /\ \A t \in Trip : trip[t].status # "ABSENT" /\ Cancel(p, t) => Safe(p)
           /\ CancelRetry(p) => Safe(p)
           /\ VerifyClaim(p) => Safe(p)
           /\ SubmitInsert(p) => Safe(p)
           /\ UnlinkClear(p) => Safe(p)
<1> USE NoneAssumption, RequestAssumption
<1>0. Refuse(p) => Safe(p)
  BY RefuseKeeps DEF Safe
<1>1. ASSUME AssignClaim(p), ~Refuse(p) PROVE Safe(p)
  <2>1. req[p].trip \in Trip /\ TripLockable(p, req[p].trip)
    BY <1>1 DEF AssignClaim, Holds
  <2>2. CommitTrip(p, req[p].trip, [status |-> "ASSIGNED", driver |-> req[p].driver,
                                         vehicle |-> req[p].vehicle, window |-> req[p].window])
    BY <1>1 DEF AssignClaim
  <2>3. QED
    BY <1>1, <2>1, <2>2, CommitKeeps DEF AssignClaim, Holds, TripRow
<1>2. ASSUME StartClaim(p), ~Refuse(p) PROVE Safe(p)
  <2>1. req[p].trip \in Trip /\ TripLockable(p, req[p].trip)
    BY <1>2 DEF StartClaim, Holds
  <2>2. MoveTrip(p, req[p].trip, "IN_PROGRESS")
    BY <1>2 DEF StartClaim
  <2>3. QED
    <3>1. trip[req[p].trip].driver \in Driver /\ driverLock[trip[req[p].trip].driver] = p
      BY <1>2 DEF StartClaim, StartClaimable, Holds
    <3>2. QED
      BY <2>1, <2>2, <3>1, MoveKeeps
<1>3. ASSUME CompleteClaim(p), ~Refuse(p) PROVE Safe(p)
  <2>1. PICK t \in Trip : t = req[p].trip
    BY <1>3 DEF CompleteClaim, Holds
  <2>2. TripLockable(p, t) /\ MoveTrip(p, t, "COMPLETED")
    BY <1>3, <2>1 DEF CompleteClaim
  <2>3. "COMPLETED" \notin {"ABSENT", "DRAFT"} /\ "COMPLETED" # "IN_PROGRESS"
    OBVIOUS
  <2> HIDE DEF FleetInv, TripLockable, Safe
  <2>4. QED
    BY <2>2, <2>3, MoveKeeps, Zenon
<1>4. ASSUME NEW t \in Trip, trip[t].status # "ABSENT", Cancel(p, t) PROVE Safe(p)
  <2>1. CASE trip[t].status = CANCELLABLE_FROM[1]
    <3>1. TripLockable(p, t) /\ MoveTrip(p, t, "CANCELLED")
      BY <1>4, <2>1 DEF Cancel
    <3>2. "CANCELLED" \notin {"ABSENT", "DRAFT"} /\ "CANCELLED" # "IN_PROGRESS"
      OBVIOUS
    <3> HIDE DEF FleetInv, TripLockable, Safe
    <3>3. QED
      BY <3>1, <3>2, MoveKeeps, Zenon
  <2>2. CASE trip[t].status # CANCELLABLE_FROM[1]
    <3>1. req' = [req EXCEPT ![p] = [Idle EXCEPT !.at = "cancel.retry", !.trip = t]]
          /\ UNCHANGED <<tables, locks>> /\ req[p].at = "idle"
      BY <1>4, <2>2 DEF Cancel
    <3>2. Typed'
      BY <3>1
    <3>3. Holds(p)'
      BY <1>4, <2>2, <3>1 DEF Holds, CANCELLABLE_FROM
    <3>4. ASSUME NEW q \in Request \ {p} PROVE Keeps(q)
      BY <3>1 DEF Keeps
    <3>5. QED
      BY <3>2, <3>3, <3>4 DEF Safe
  <2>3. QED
    BY <2>1, <2>2
<1>5. ASSUME CancelRetry(p), ~Refuse(p) PROVE Safe(p)
  <2>1. PICK t \in Trip : t = req[p].trip
    BY <1>5 DEF CancelRetry, Holds
  <2>2. TripLockable(p, t) /\ MoveTrip(p, t, "CANCELLED")
    BY <1>5, <2>1 DEF CancelRetry
  <2> HIDE DEF FleetInv, TripLockable
  <2>3. QED
    BY <2>2, MoveKeeps, "CANCELLED" \notin {"ABSENT", "DRAFT", "IN_PROGRESS"}
<1>6. ASSUME VerifyClaim(p), ~Refuse(p) PROVE Safe(p)
  <2>1. PICK t \in Trip : t = req[p].trip
    BY <1>6 DEF VerifyClaim, Holds
  <2>2. TripLockable(p, t) /\ MoveTrip(p, t, "VERIFIED")
    BY <1>6, <2>1 DEF VerifyClaim
  <2> HIDE DEF FleetInv, TripLockable
  <2>3. QED
    BY <2>2, MoveKeeps, "VERIFIED" \notin {"ABSENT", "DRAFT", "IN_PROGRESS"}
<1>7. ASSUME SubmitInsert(p), ~Refuse(p) PROVE Safe(p)
  <2>1. PICK e \in Expense :
          expense' = [expense EXCEPT ![e] = [status |-> "SUBMITTED", trip |-> req[p].trip]]
    BY <1>7 DEF SubmitInsert
  <2>2. Answer(p) /\ UNCHANGED <<trip, driver, vehicle>> /\ tripLock[req[p].trip] = p
    BY <1>7 DEF SubmitInsert, Holds
  <2>3. Typed' /\ Holds(p)'
    BY <2>2, AnswerFacts
  <2>4. ASSUME NEW q \in Request \ {p} PROVE Keeps(q)
    <3>1. \A t \in Trip : tripLock[t] = q /\ PendingExpense(expense', t) => PendingExpense(expense, t)
      BY <2>1, <2>2 DEF PendingExpense
    <3>2. QED
      BY <2>2, <3>1, AnswerFacts DEF Keeps
  <2>5. QED
    BY <2>3, <2>4 DEF Safe
<1>8. ASSUME UnlinkClear(p), ~Refuse(p) PROVE Safe(p)
  <2>1. Answer(p) /\ UNCHANGED <<trip, vehicle, expense>> /\ driverLock[req[p].driver] = p
        /\ driver' = [driver EXCEPT ![req[p].driver].user = None]
    BY <1>8 DEF UnlinkClear, Holds
  <2>2. Typed' /\ Holds(p)'
    BY <2>1, AnswerFacts
  <2>3. ASSUME NEW q \in Request \ {p} PROVE Keeps(q)
    BY <2>1, AnswerFacts DEF Keeps
  <2>4. QED
    BY <2>2, <2>3 DEF Safe
<1>9. QED
  BY <1>0, <1>1, <1>2, <1>3, <1>4, <1>5, <1>6, <1>7, <1>8

\* The transactions of one claim keep what the requests hold: they wait for
\* the lock of the row they change.
LEMMA SingleClaims == ASSUME FleetInv, Claim PROVE Typed' /\ \A q \in Request : Keeps(q)
<1> USE NoneAssumption, RequestAssumption
<1>1. ASSUME NEW t \in Trip, Create(t) \/ Close(t), NEW q \in Request PROVE Keeps(q)
  <2>1. CASE Create(t)
    <3>1. trip' = [trip EXCEPT ![t] = [trip[t] EXCEPT !.status = "DRAFT"]]
          /\ trip[t].status = "ABSENT" /\ UNCHANGED <<driver, vehicle, expense, locks, req>>
      BY <2>1 DEF Create
    <3>2. [trip[t] EXCEPT !.status = "DRAFT"].status = "DRAFT"
      BY DEF TripRow
    <3>3. QED
      BY <3>1, <3>2 DEF Keeps
  <2>2. CASE Close(t)
    <3>1. trip' = [trip EXCEPT ![t] = [trip[t] EXCEPT !.status = "CLOSED"]]
          /\ tripLock[t] = None /\ UNCHANGED <<driver, vehicle, expense, locks, req>>
      BY <2>2 DEF Close
    <3>2. [trip[t] EXCEPT !.status = "CLOSED"].status = "CLOSED"
      BY DEF TripRow
    <3>3. QED
      BY <3>1, <3>2 DEF Keeps
  <2>3. QED
    BY <1>1, <2>1, <2>2
<1>2. ASSUME NEW d \in Driver, NEW s \in DriverStatus, SetDriverStatus(d, s), NEW q \in Request
      PROVE Keeps(q)
  BY <1>2 DEF SetDriverStatus, Keeps
<1>3. ASSUME NEW d \in Driver, NEW u \in User, LinkUser(d, u), NEW q \in Request PROVE Keeps(q)
  BY <1>3 DEF LinkUser, Keeps
<1>4. ASSUME NEW v \in Vehicle, NEW s \in VehicleStatus, SetVehicleStatus(v, s), NEW q \in Request
      PROVE Keeps(q)
  BY <1>4 DEF SetVehicleStatus, Keeps
<1>5. ASSUME NEW e \in Expense, NEW s \in {"APPROVED", "REJECTED"}, Review(e, s), NEW q \in Request
      PROVE Keeps(q)
  BY <1>5 DEF Review, Keeps, PendingExpense
<1>6. Typed'
  BY DEF Claim, Create, Close, SetDriverStatus, LinkUser, SetVehicleStatus, Review
<1>7. QED
  BY <1>1, <1>2, <1>3, <1>4, <1>5, <1>6 DEF Claim

\* Every step keeps the inductive invariant.
LEMMA FleetStep == FleetInv /\ [Next]_vars => FleetInv'
<1> SUFFICES ASSUME FleetInv, [Next]_vars PROVE FleetInv'
  OBVIOUS
<1>1. Rules!RulesInv'
  BY RefineStep, RulesStep
<1>2. ASSUME NEW p \in Request, Safe(p) PROVE Typed' /\ \A q \in Request : Holds(q)'
  <2>1. ASSUME NEW q \in Request \ {p} PROVE Holds(q)'
    BY <1>2, <2>1, KeepsHolds DEF Safe
  <2>2. QED
    BY <1>2, <2>1 DEF Safe
<1>3. ASSUME NEW p \in Request, Arrive(p) PROVE Safe(p)
  <2>1. CASE \E t \in Trip : Cancel(p, t) /\ trip[t].status # "ABSENT"
    BY <2>1, ClaimingSteps
  <2>2. CASE ~\E t \in Trip : Cancel(p, t) /\ trip[t].status # "ABSENT"
    BY <1>3, <2>2, ArrivingSteps
  <2>3. QED
    BY <2>1, <2>2
<1>4. ASSUME NEW p \in Request, Continue(p) \/ Rollback(p) PROVE Safe(p)
  BY <1>4, WaitingSteps, ClaimingSteps DEF Continue
<1>5. ASSUME Claim PROVE Typed' /\ \A q \in Request : Holds(q)'
  BY <1>5, SingleClaims, KeepsHolds DEF Safe
<1>6. ASSUME UNCHANGED vars PROVE Typed' /\ \A q \in Request : Holds(q)'
  <2>1. Typed'
    BY <1>6 DEF vars
  <2>2. ASSUME NEW q \in Request PROVE Keeps(q)
    BY <1>6 DEF vars, Keeps
  <2>3. QED
    BY <2>1, <2>2, KeepsHolds
<1>7. Typed' /\ \A q \in Request : Holds(q)'
  BY <1>2, <1>3, <1>4, <1>5, <1>6 DEF Next
<1>8. QED
  BY <1>1, <1>7 DEF Rules!RulesInv

-----------------------------------------------------------------------------
\* In every reachable state the tables obey the rules and every transaction can
\* rely on what it has locked and read.
THEOREM FleetInvariant == Spec => []FleetInv
<1>1. FleetInv /\ [Next]_vars => FleetInv'
  BY FleetStep
<1>2. QED
  BY FleetInit, <1>1, PTL DEF Spec

\* Concurrency adds nothing: every execution of the statements of all requests
\* is an execution of the business rules, one operation at a time.
THEOREM FleetRefinesRules == Spec => RefinesRules
<1>1. Init => Rules!Init
  BY DEF Init
<1>2. FleetInv /\ [Next]_vars => [Rules!Next]_tables
  BY RefineStep
<1>3. QED
  BY <1>1, <1>2, FleetInvariant, PTL DEF Spec, RefinesRules, Rules!Spec

\* No interleaving of submissions and verifications leaves a verified trip
\* with an expense nobody has reviewed.
THEOREM AlwaysSettled == Spec => []Settled
<1>1. FleetInv => Settled
  BY DEF Rules!RulesInv, Settled
<1>2. QED
  BY <1>1, FleetInvariant, PTL

\* Nothing is ever filed against a trip that did not take place.
THEOREM AlwaysOfJourneys == Spec => []CostsOfJourneys
<1>1. FleetInv => CostsOfJourneys
  BY DEF Rules!RulesInv, CostsOfJourneys
<1>2. QED
  BY <1>1, FleetInvariant, PTL

\* No interleaving of starts, completions and unlinks strands a running trip.
THEOREM AlwaysLinked == Spec => []RunningDriverLinked
<1>1. FleetInv => RunningDriverLinked
  BY DEF Rules!RulesInv, RunningDriverLinked
<1>2. QED
  BY <1>1, FleetInvariant, PTL

\* No interleaving of assignments, starts and cancellations books a driver or
\* a vehicle twice.
THEOREM NeverDoubleBooked == Spec => []NoDoubleBooking
<1>1. FleetInv => NoDoubleBooking
  BY DEF Rules!RulesInv, NoDoubleBooking
<1>2. QED
  BY <1>1, FleetInvariant, PTL

\* The services' "unreachable" errors are unreachable.
THEOREM UnreachableErrors == Spec => []NoInvariantError
<1>1. FleetInv => NoInvariantError
  BY NoneAssumption DEF NoInvariantError, Holds
<1>2. QED
  BY <1>1, FleetInvariant, PTL

\* A cancellation is turned down only when its trip cannot be cancelled.
THEOREM CancelComplete == Spec => CancelNeverMissesACancellableTrip
<1>1. FleetInv /\ [Next]_vars =>
        [\A p \in Request : CancelRetry(p) /\ trip' = trip
           => trip[req[p].trip].status \notin {"DRAFT", "ASSIGNED"}]_vars
  <2> SUFFICES ASSUME FleetInv, NEW p \in Request, CancelRetry(p), trip' = trip
               PROVE  trip[req[p].trip].status \notin {"DRAFT", "ASSIGNED"}
    OBVIOUS
  <2>1. req[p].trip \in Trip /\ trip[req[p].trip].status # "DRAFT"
    BY DEF CancelRetry, Holds
  <2>2. ASSUME trip[req[p].trip].status = "ASSIGNED" PROVE FALSE
    <3>1. trip' = [trip EXCEPT ![req[p].trip] = [trip[req[p].trip] EXCEPT !.status = "CANCELLED"]]
      BY <2>2 DEF CancelRetry, CANCELLABLE_FROM, MoveTrip, CommitTrip
    <3>2. trip'[req[p].trip].status = "CANCELLED"
      BY <2>1, <3>1 DEF TripRow
    <3>3. QED
      BY <2>2, <3>2
  <2>3. QED
    BY <2>1, <2>2
<1>2. QED
  BY <1>1, FleetInvariant, PTL DEF Spec, CancelNeverMissesACancellableTrip

-----------------------------------------------------------------------------
(* The lock order DRIVER, VEHICLE, TRIP. *)

\* A step of request p moves only p's own locks.
LEMMA StagesFrame ==
    ASSUME FleetInv, LockStages, NEW p \in Request,
           \A q \in Request \ {p} : req'[q] = req[q],
           \A v \in Vehicle : vehicleLock'[v] \in {vehicleLock[v], p, None},
           \A t \in Trip : tripLock'[t] \in {tripLock[t], p, None},
           \A v \in Vehicle : vehicleLock'[v] = p => req'[p].at \in {"assign.claim", "start.claim"},
           \A t \in Trip : tripLock'[t] = p =>
              req'[p].at \in {"verify.pending", "verify.claim", "expense.insert"}
    PROVE  LockStages'
<1> USE NoneAssumption, RequestAssumption
<1>1. ASSUME NEW v \in Vehicle, vehicleLock'[v] # None
      PROVE  req'[vehicleLock'[v]].at \in {"assign.claim", "start.claim"}
  <2>1. CASE vehicleLock'[v] = p
    BY <2>1
  <2>2. CASE vehicleLock'[v] # p
    <3>1. vehicleLock'[v] = vehicleLock[v] /\ vehicleLock[v] \in Request \ {p}
      BY <1>1, <2>2
    <3>2. req'[vehicleLock'[v]] = req[vehicleLock[v]]
      BY <3>1
    <3>3. QED
      BY <1>1, <3>1, <3>2 DEF LockStages
  <2>3. QED
    BY <2>1, <2>2
<1>2. ASSUME NEW t \in Trip, tripLock'[t] # None
      PROVE  req'[tripLock'[t]].at \in {"verify.pending", "verify.claim", "expense.insert"}
  <2>1. CASE tripLock'[t] = p
    BY <2>1
  <2>2. CASE tripLock'[t] # p
    <3>1. tripLock'[t] = tripLock[t] /\ tripLock[t] \in Request \ {p}
      BY <1>2, <2>2
    <3>2. req'[tripLock'[t]] = req[tripLock[t]]
      BY <3>1
    <3>3. QED
      BY <1>2, <3>1, <3>2 DEF LockStages
  <2>3. QED
    BY <2>1, <2>2
<1>3. QED
  BY <1>1, <1>2 DEF LockStages

\* Whoever holds a vehicle is at its final claim, whoever holds a trip waits
\* for no lock at all.
LEMMA StagesStep == FleetInv /\ LockStages /\ [Next]_vars => LockStages'
<1> SUFFICES ASSUME FleetInv, LockStages, [Next]_vars PROVE LockStages'
  OBVIOUS
<1> USE NoneAssumption, RequestAssumption
<1> DEFINE Others(p) == \A q \in Request \ {p} : req'[q] = req[q]
           Locks(p) == /\ \A v \in Vehicle : vehicleLock'[v] \in {vehicleLock[v], p, None}
                       /\ \A t \in Trip : tripLock'[t] \in {tripLock[t], p, None}
           Stage(p) == /\ \A v \in Vehicle : vehicleLock'[v] = p =>
                             req'[p].at \in {"assign.claim", "start.claim"}
                       /\ \A t \in Trip : tripLock'[t] = p =>
                             req'[p].at \in {"verify.pending", "verify.claim", "expense.insert"}
<1>1. ASSUME NEW p \in Request, Answer(p) PROVE LockStages'
  <2>1. Others(p) /\ Locks(p) /\ Stage(p)
    BY <1>1 DEF Answer, Unlock
  <2>2. QED
    BY <2>1, StagesFrame
<1>2. ASSUME NEW p \in Request, Refuse(p) PROVE LockStages'
  BY <1>1, <1>2 DEF Refuse
<1>3. ASSUME NEW p \in Request, AssignVehicle(p), ~Refuse(p) PROVE LockStages'
  <2>1. Others(p)
    BY <1>3 DEF AssignVehicle
  <2>2. Locks(p)
    BY <1>3 DEF AssignVehicle
  <2>3. Stage(p)
    BY <1>3 DEF AssignVehicle, Holds, LockStages
  <2>4. QED
    BY <2>1, <2>2, <2>3, StagesFrame
<1>4. ASSUME NEW p \in Request, StartRead(p), ~Refuse(p) PROVE LockStages'
  <2>1. Others(p)
    BY <1>4 DEF StartRead
  <2>2. Locks(p)
    BY <1>4 DEF StartRead
  <2>3. Stage(p)
    BY <1>4 DEF StartRead, Holds, LockStages
  <2>4. QED
    BY <2>1, <2>2, <2>3, StagesFrame
<1>5. ASSUME NEW p \in Request, StartVehicle(p), ~Refuse(p) PROVE LockStages'
  <2>1. Others(p)
    BY <1>5 DEF StartVehicle
  <2>2. Locks(p)
    BY <1>5 DEF StartVehicle
  <2>3. Stage(p)
    BY <1>5 DEF StartVehicle, Holds, LockStages
  <2>4. QED
    BY <2>1, <2>2, <2>3, StagesFrame
<1>6. ASSUME NEW p \in Request, VerifyPending(p), ~Refuse(p) PROVE LockStages'
  <2>1. Others(p)
    BY <1>6 DEF VerifyPending
  <2>2. Locks(p)
    BY <1>6 DEF VerifyPending
  <2>3. Stage(p)
    BY <1>6 DEF VerifyPending, Holds, LockStages
  <2>4. QED
    BY <2>1, <2>2, <2>3, StagesFrame
<1>7. ASSUME NEW p \in Request, SubmitOwnTrip(p), ~Refuse(p) PROVE LockStages'
  <2>1. Others(p)
    BY <1>7 DEF SubmitOwnTrip
  <2>2. Locks(p)
    BY <1>7 DEF SubmitOwnTrip
  <2>3. Stage(p)
    BY <1>7 DEF SubmitOwnTrip, Holds, LockStages
  <2>4. QED
    BY <2>1, <2>2, <2>3, StagesFrame
<1>8. ASSUME NEW p \in Request, UnlinkRunning(p), ~Refuse(p) PROVE LockStages'
  <2>1. Others(p)
    BY <1>8 DEF UnlinkRunning
  <2>2. Locks(p)
    BY <1>8 DEF UnlinkRunning
  <2>3. Stage(p)
    BY <1>8 DEF UnlinkRunning, Holds, LockStages
  <2>4. QED
    BY <2>1, <2>2, <2>3, StagesFrame
<1>9. ASSUME NEW p \in Request, NEW t \in Trip, NEW d \in Driver, NEW v \in Vehicle, NEW w \in Window,
             Assign(p, t, d, v, w) PROVE LockStages'
  <2>1. Others(p) /\ Locks(p)
    BY <1>9 DEF Assign
  <2>2. Stage(p)
    BY <1>9 DEF Assign, LockStages
  <2>3. QED
    BY <2>1, <2>2, StagesFrame
<1>10. ASSUME NEW p \in Request, NEW t \in Trip, NEW d \in Driver, NEW u \in User, Start(p, u, d, t) PROVE LockStages'
  <2>1. Others(p) /\ Locks(p)
    BY <1>10 DEF Start, LockLinkedDriver
  <2>2. Stage(p)
    BY <1>10 DEF Start, LockLinkedDriver, LockStages
  <2>3. QED
    BY <2>1, <2>2, StagesFrame
<1>11. ASSUME NEW p \in Request, NEW t \in Trip, NEW d \in Driver, NEW u \in User, Complete(p, u, d, t) PROVE LockStages'
  <2>1. Others(p) /\ Locks(p)
    BY <1>11 DEF Complete, LockLinkedDriver
  <2>2. Stage(p)
    BY <1>11 DEF Complete, LockLinkedDriver, LockStages
  <2>3. QED
    BY <2>1, <2>2, StagesFrame
<1>12. ASSUME NEW p \in Request, NEW t \in Trip, NEW d \in Driver, NEW u \in User, SubmitOwn(p, u, d, t) PROVE LockStages'
  <2>1. Others(p) /\ Locks(p)
    BY <1>12 DEF SubmitOwn, LockLinkedDriver
  <2>2. Stage(p)
    BY <1>12 DEF SubmitOwn, LockLinkedDriver, LockStages
  <2>3. QED
    BY <2>1, <2>2, StagesFrame
<1>13. ASSUME NEW p \in Request, NEW t \in Trip, Cancel(p, t), ~Answer(p) PROVE LockStages'
  <2>1. Others(p) /\ Locks(p)
    BY <1>13 DEF Cancel, MoveTrip, CommitTrip
  <2>2. req[p].at = "idle" /\ UNCHANGED locks
    BY <1>13 DEF Cancel, MoveTrip, CommitTrip
  <2>3. Stage(p)
    BY <2>2 DEF LockStages
  <2>4. QED
    BY <2>1, <2>3, StagesFrame
<1>14. ASSUME NEW p \in Request, NEW t \in Trip, Verify(p, t) PROVE LockStages'
  <2>1. Others(p) /\ Locks(p)
    BY <1>14 DEF Verify
  <2>2. Stage(p)
    BY <1>14 DEF Verify, LockStages
  <2>3. QED
    BY <2>1, <2>2, StagesFrame
<1>15. ASSUME NEW p \in Request, NEW t \in Trip, SubmitForTrip(p, t) PROVE LockStages'
  <2>1. Others(p) /\ Locks(p)
    BY <1>15 DEF SubmitForTrip
  <2>2. Stage(p)
    BY <1>15 DEF SubmitForTrip, LockStages
  <2>3. QED
    BY <2>1, <2>2, StagesFrame
<1>16. ASSUME NEW p \in Request, NEW d \in Driver, Unlink(p, d) PROVE LockStages'
  <2>1. Others(p) /\ Locks(p)
    BY <1>16 DEF Unlink
  <2>2. Stage(p)
    BY <1>16 DEF Unlink, LockStages
  <2>3. QED
    BY <2>1, <2>2, StagesFrame
<1>17. ASSUME NEW p \in Request,
             \/ AssignClaim(p) \/ StartClaim(p) \/ CompleteClaim(p) \/ CancelRetry(p)
             \/ VerifyClaim(p) \/ SubmitInsert(p) \/ UnlinkClear(p) \/ Rollback(p)
      PROVE  Answer(p)
  BY <1>17
     DEF AssignClaim, StartClaim, CompleteClaim, CancelRetry, VerifyClaim, SubmitInsert,
         UnlinkClear, Rollback, Refuse, MoveTrip, CommitTrip
<1>18. ASSUME Claim \/ UNCHANGED vars PROVE UNCHANGED <<locks, req>>
  BY <1>18 DEF Claim, Create, Close, SetDriverStatus, LinkUser, SetVehicleStatus, Review, vars
<1>19. ASSUME UNCHANGED <<locks, req>> PROVE LockStages'
  BY <1>19 DEF LockStages
<1>20. QED
  BY <1>1, <1>2, <1>3, <1>4, <1>5, <1>6, <1>7, <1>8, <1>9, <1>10, <1>11, <1>12, <1>13, <1>14,
     <1>15, <1>16, <1>17, <1>18, <1>19
     DEF Next, Arrive, Continue

\* Whoever has locked a vehicle or a trip wants no row that comes earlier.
THEOREM StagesOrdered == Spec => []LockStages
<1>1. Init => LockStages
  BY DEF Init, LockStages
<1>2. QED
  BY <1>1, StagesStep, FleetInvariant, PTL DEF Spec

\* Transactions never wait for each other in a circle, so PostgreSQL never has
\* to break a deadlock.
THEOREM DeadlockFree == Spec => []NoLockCycle
<1>1. FleetInv /\ LockStages => NoLockCycle
  <2> SUFFICES ASSUME FleetInv, LockStages, NEW S \in (SUBSET Request) \ {{}},
                      \A p \in S : \E q \in S : WaitsFor(p, q)
               PROVE  FALSE
    BY DEF NoLockCycle
  <2> USE NoneAssumption, RequestAssumption
  <2>1. ASSUME NEW q \in S, req[q].at \in {"assign.claim", "start.claim", "complete.claim",
                                        "cancel.retry", "expense.trip"}
        PROVE  FALSE
    <3>1. PICK r \in S : WaitsFor(q, r)
      OBVIOUS
    <3>2. q \in Request /\ r \in Request /\ r # None /\ req[q].trip \in Trip
      BY <2>1 DEF Holds
    <3>3. tripLock[req[q].trip] = r
      BY <2>1, <3>1 DEF WaitsFor
    <3>4. req[r].at \in {"verify.pending", "verify.claim", "expense.insert"}
      BY <3>2, <3>3 DEF LockStages
    <3>5. PICK x \in S : WaitsFor(r, x)
      OBVIOUS
    <3>6. QED
      BY <3>4, <3>5 DEF WaitsFor
  <2>2. ASSUME NEW q \in S, req[q].at \in {"assign.vehicle", "start.vehicle"} PROVE FALSE
    <3>1. PICK r \in S : WaitsFor(q, r)
      OBVIOUS
    <3>2. q \in Request /\ r \in Request /\ r # None /\ req[q].vehicle \in Vehicle
      BY <2>2 DEF Holds
    <3>3. vehicleLock[req[q].vehicle] = r
      BY <2>2, <3>1 DEF WaitsFor
    <3>4. req[r].at \in {"assign.claim", "start.claim"}
      BY <3>2, <3>3 DEF LockStages
    <3>5. QED
      BY <2>1, <3>4
  <2>3. PICK q \in S : req[q].at \in {"assign.vehicle", "start.vehicle", "assign.claim",
                   "start.claim", "complete.claim", "cancel.retry", "expense.trip"}
    <3>1. PICK q \in S, r \in S : WaitsFor(q, r)
      OBVIOUS
    <3>2. QED
      BY <3>1 DEF WaitsFor
  <2>4. QED
    BY <2>1, <2>2, <2>3
<1>2. QED
  BY <1>1, StagesOrdered, FleetInvariant, PTL
=============================================================================
