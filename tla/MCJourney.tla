----------------------------- MODULE MCJourney ------------------------------
(***************************************************************************)
(* Small instances, for TLC, of six parts of what a journey leaves behind, *)
(* which share no state: the delivery of its positions, the places that    *)
(* may refuse one of them, the route the office reads, its admin page, the *)
(* receipt of an expense, and the log of maintenance.  Init picks one; the *)
(* others stand still.                                                     *)
(***************************************************************************)
EXTENDS LocationDelivery, Receipts, Maintenance, TLC

CONSTANTS
    Candidate, MaxSent, MaxReads,
    Position, PageSize, MaxRun, Missing,
    Instants, NotFinite, Pole, Antimeridian, MaxAccuracy, Started, BatchLimit, MaxTaken

VARIABLES
    part,
    tripRow, page, load, sent, asked, chosen, candidates, currentDriver, reads,
    recorded, section, busy, mounted, run, asking, basis,
    waiting, taken, request, samples, verdict, outcome, torn

\* One journey ends, another begins, and a row of the first sorts after it.
TripNames == {"A", "B"}
Journeys == [s \in Sample |-> IF s = 2 THEN "B" ELSE "A"]

\* A photo declared with size 2 may arrive cut short.
Photo == [type |-> "image/jpeg", size |-> 2]
Thumbnail == [type |-> "image/jpeg", size |-> 1]
PhotoOrThumbnail == {Photo, Thumbnail}
SoleOwner == [e \in Expense |-> CHOOSE d \in Driver : TRUE]

\* Inside both ranges of degrees, in the wider one only, in neither; accuracies
\* below, at and above the bounds, or none.
Degrees == {-3, -1, 2, NotFinite}
Metres == {-1, 0, 3, NotFinite, None}

TP == INSTANCE TripPage WITH row <- tripRow, Driver <- Candidate, NoDriver <- None
TR == INSTANCE TripRoute WITH Sample <- Position
SP == INSTANCE SamplePath

\* Candidates, calls, requests and workers take the same two names in the
\* instance: no two parts move in one behaviour, so one swap serves them all.
JourneySymmetry == Permutations(Call)

tripVars == <<tripRow, page, load, sent, asked, chosen, candidates, currentDriver, reads>>
routeVars == <<recorded, section, busy, mounted, run, asking, basis>>
pathVars == <<waiting, taken, request, samples, verdict, outcome, torn>>
officeVars == <<tripVars, routeVars>>
recordVars == <<vars, workshop>>
journeyVars == <<part, deliveryVars, pathVars, officeVars, recordVars>>

PartsInit ==
    /\ part \in {"delivery", "sample", "route", "trip page", "receipts", "workshop"}
    /\ DeliveryInit /\ SP!PathInit /\ TR!RouteInit /\ TP!PageInit /\ Init /\ WorkshopInit
    /\ part = "route" \/ run = 1

DeliveryMoves ==
    /\ part = "delivery" /\ DeliveryNext
    /\ UNCHANGED <<part, pathVars, officeVars, recordVars>>
SampleMoves ==
    /\ part = "sample" /\ SP!PathNext
    /\ UNCHANGED <<part, deliveryVars, officeVars, recordVars>>
RouteMoves ==
    /\ part = "route" /\ TR!RouteNext
    /\ UNCHANGED <<part, deliveryVars, pathVars, tripVars, recordVars>>
TripPageMoves ==
    /\ part = "trip page" /\ TP!PageNext
    /\ UNCHANGED <<part, deliveryVars, pathVars, routeVars, recordVars>>
ReceiptMoves ==
    /\ part = "receipts" /\ Next
    /\ UNCHANGED <<part, deliveryVars, pathVars, officeVars, workshop>>
WorkshopMoves ==
    /\ part = "workshop" /\ WorkshopNext
    /\ UNCHANGED <<part, deliveryVars, pathVars, officeVars, vars>>

PartsNext ==
    \/ DeliveryMoves \/ SampleMoves \/ RouteMoves \/ TripPageMoves
    \/ ReceiptMoves \/ WorkshopMoves
PartsSpec == PartsInit /\ [][PartsNext]_journeyVars

\* Every position the phone keeps may reach the office: no later place refuses it
\* (SamplePath), and the route the office has paged through leaves none out:
\* "showing all" is all, and "Load more" leaves nothing behind (TripRoute).  What an
\* admin confirms of the trip is what was asked (TripPage).
JourneyInv ==
    /\ part = "sample" => SP!SamplePathInv
    /\ part = "route" => TR!RouteInv
    /\ part = "trip page" => TP!TripPageInv
\* Whatever the network does, samples leave the phone only once the server
\* answered for them, or as the oldest row of a full queue (LocationDelivery).
DeliveryRefinesHistory ==
    /\ History!Init
    /\ [][part = "delivery" => [History!Next]_[s \in Sample |-> FateOf(s)]]_<<phone, server>>
=============================================================================
