------------------------------ MODULE MCDevice ------------------------------
(***************************************************************************)
(* Small instances, for TLC, of five parts of the phone that share no      *)
(* state: the session manager, the queue of positions, the background      *)
(* errand, the capture service and the way of its fixes.  Init picks one;  *)
(* the others stand still.                                                 *)
(***************************************************************************)
EXTENDS PhoneSession, LocationQueue, BackgroundDrain, CaptureService, FixAdmission, TLC

VARIABLE part

\* Sessions one after the other, all of one journey but the third.
Journeys == [s \in Session |-> IF s = 3 THEN "B" ELSE "A"]

\* Two sessions of one trip: an equal successor is the hard case.
OneTrip == [s \in Capture |-> "A"]

deviceVars == <<part, vars, queueVars, errandVars, captureVars, fixVars>>

\* Calls and logins take the same two names in the instance: no two parts move in
\* one behaviour.
DeviceSymmetry == Permutations(Call) \cup Permutations(Family)

PartsInit ==
    /\ part \in {"session", "queue", "errand", "service", "fixes"}
    /\ Init /\ QueueInit /\ ErrandInit /\ CaptureInit /\ FixInit

SessionMoves ==
    /\ part = "session" /\ Next
    /\ UNCHANGED <<part, queueVars, errandVars, captureVars, fixVars>>
QueueMoves ==
    /\ part = "queue" /\ QueueNext
    /\ UNCHANGED <<part, vars, errandVars, captureVars, fixVars>>
ErrandMoves ==
    /\ part = "errand" /\ ErrandNext
    /\ UNCHANGED <<part, vars, queueVars, captureVars, fixVars>>
ServiceMoves ==
    /\ part = "service" /\ CaptureNext
    /\ UNCHANGED <<part, vars, queueVars, errandVars, fixVars>>
FixMoves ==
    /\ part = "fixes" /\ FixNext
    /\ UNCHANGED <<part, vars, queueVars, errandVars, captureVars>>

PartsNext ==
    SessionMoves \/ QueueMoves \/ ErrandMoves \/ ServiceMoves \/ FixMoves
PartsSpec == PartsInit /\ [][PartsNext]_deviceVars
=============================================================================
