------------------------------ MODULE MCScreens -----------------------------
(***************************************************************************)
(* Small instances, for TLC, of six parts that share no state: five        *)
(* screens and forms, each with what it uses of the API, and one call of a *)
(* client with what passes over the wire.  Init picks one; the others      *)
(* stand still.  The two screens of an expense read the same tables.       *)
(***************************************************************************)
EXTENDS ListScreen, ExpenseView, ExpensePage, TLC

CONSTANTS
    Entity, MaxNames, MaxCalls, MaxOthers,
    MaxPending, MaxOngoing,
    MaxDigits, MaxInt, MaxBytes, MaxRows, Null

VARIABLES
    part,
    entity, recorded, form, mail, spent,
    driverTrip, tripScreen, tripReads, ongoing,
    kind, table, call, told

RF == INSTANCE RecordForms WITH records <- recorded, Nothing <- Null
DT == INSTANCE DriverTrip
    WITH trip <- driverTrip, screen <- tripScreen, reads <- tripReads, calls <- ongoing,
         MaxReads <- MaxPending, MaxCalls <- MaxOngoing
WC == INSTANCE WireContract

formVars == <<entity, recorded, form, mail, spent>>
driverVars == <<driverTrip, tripScreen, tripReads, ongoing>>
wireVars == <<kind, table, call, told>>
expenseVars == <<vars, viewVars, pageVars>>
clerkVars == <<listVars, formVars, wireVars>>
screenVars == <<part, expenseVars, clerkVars, driverVars>>

ScreenSymmetry == Permutations(Declaration)

PartsInit ==
    /\ part \in {"expense view", "expense page", "driver's trip", "list", "forms", "wire"}
    /\ ViewInit /\ PageInit /\ ListInit
    /\ DT!DriverTripInit /\ RF!FormsInit /\ WC!WireInit
    /\ part = "wire" \/ kind = "trip"
    /\ part = "forms" \/ entity = "vehicle"

ViewMoves ==
    /\ part = "expense view" /\ ViewNext
    /\ UNCHANGED <<part, pageVars, clerkVars, driverVars>>
ExpensePageMoves ==
    /\ part = "expense page" /\ PageNext
    /\ UNCHANGED <<part, viewVars, clerkVars, driverVars>>
DriverTripMoves ==
    /\ part = "driver's trip" /\ DT!DriverTripNext
    /\ UNCHANGED <<part, expenseVars, clerkVars>>
ListMoves ==
    /\ part = "list" /\ ListNext
    /\ UNCHANGED <<part, expenseVars, formVars, wireVars, driverVars>>
FormMoves ==
    /\ part = "forms" /\ RF!FormsNext
    /\ UNCHANGED <<part, expenseVars, listVars, wireVars, driverVars>>
WireMoves ==
    /\ part = "wire" /\ WC!WireNext
    /\ UNCHANGED <<part, expenseVars, listVars, formVars, driverVars>>

PartsNext ==
    \/ ViewMoves \/ ExpensePageMoves \/ DriverTripMoves \/ ListMoves
    \/ FormMoves \/ WireMoves
PartsSpec == PartsInit /\ [][PartsNext]_screenVars

\* What the driver is told of the trip was so (DriverTrip), no two vehicles have one
\* plate, a form holds what it was filled with or what was typed (RecordForms), and
\* no row, and no answer to what was filed, is refused by the client that reads it
\* (WireContract).
ScreensInv ==
    /\ part = "driver's trip" => DT!DriverTripInv
    /\ part = "forms" => RF!FormsInv
    /\ part = "wire" => WC!WireInv
\* The stage a trip has reached is not taken back on the driver's screen
\* (DriverTrip), and a save takes back nothing that its admin had not typed, nor
\* anything of what is over (RecordForms).
NothingUndone ==
    [][/\ part = "driver's trip" => DT!NeverBack
       /\ part = "forms" => RF!FormsStep]_screenVars
=============================================================================
