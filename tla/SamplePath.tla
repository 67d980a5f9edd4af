----------------------------- MODULE SamplePath -----------------------------
(***************************************************************************)
(* One position on its way from the provider to the office, through every  *)
(* place that may refuse it: the capture filter (Kotlin), the queue read   *)
(* and the batch (TypeScript on the phone), the request schema, the insert *)
(* and its classification (API), the parser of the answer (phone) and the  *)
(* parser of a position (browser).  A refusal on the phone is of a whole   *)
(* read or a whole batch, and the oldest rows are tried again first: a row *)
(* one place admits and a later one refuses would hold back every row      *)
(* behind it for good.                                                     *)
(***************************************************************************)
EXTENDS Integers, Sequences, FiniteSets, Functions

CONSTANTS
    Degrees, Metres, Instants,  \* what a provider may report, NotFinite and None included
    NotFinite, None,
    Pole, Antimeridian,         \* the ends of the two ranges of degrees
    MaxAccuracy,                \* the coarsest fix the phone keeps
    Started,                    \* the start of the trip's window
    BatchLimit,                 \* rows of one read, and of one request
    MaxTaken                    \* bound: positions captured

VARIABLES
    waiting,    \* the rows of the phone's queue
    taken,      \* sample ids minted so far
    request,    \* the drain's request in flight
    samples,    \* trip_location_samples
    verdict,    \* what the API last answered of each sample
    outcome,    \* of the drain's last pass
    torn        \* the answer of that pass had been damaged on its way

pathVars == <<waiting, taken, request, samples, verdict, outcome, torn>>

Ids == 1..MaxTaken
NoRequest == [at |-> "none", rows |-> <<>>, results |-> <<>>]

PathInit ==
    /\ waiting = {} /\ taken = 0 /\ request = NoRequest /\ samples = {}
    /\ verdict = [i \in Ids |-> "none"]
    /\ outcome = "none" /\ torn = FALSE

Between(x, low, high) == x # NotFinite /\ x # None /\ low <= x /\ x <= high
AtLeast(x, low) == x # NotFinite /\ x # None /\ low <= x

---------------------------------------------------------------------------
(* Capture *)

\* Variant: the filter bounds accuracy from above only.
UsableAnySign(fix) ==
    /\ Between(fix.latitude, -Pole, Pole)
    /\ Between(fix.longitude, -Antimeridian, Antimeridian)
    /\ fix.accuracy # NotFinite
    /\ fix.accuracy = None \/ ~AtLeast(fix.accuracy, MaxAccuracy + 1)

Usable(fix) ==
    /\ Between(fix.latitude, -Pole, Pole)
    /\ Between(fix.longitude, -Antimeridian, Antimeridian)
    /\ fix.accuracy = None \/ Between(fix.accuracy, 0, MaxAccuracy)

Fix == [latitude : Degrees \ {None}, longitude : Degrees \ {None}, accuracy : Metres,
        recordedAt : Instants]

\* The distance and heartbeat rules decide which usable fix is kept: any.
Captures(fix) ==
    /\ taken < MaxTaken /\ Usable(fix)
    /\ taken' = taken + 1
    /\ waiting' = waiting \cup {[sampleId |-> taken + 1, fix |-> fix]}
    /\ UNCHANGED <<request, samples, verdict, outcome, torn>>

---------------------------------------------------------------------------
(* The phone: one pass of the drain *)

Readable(row) ==
    /\ Between(row.fix.latitude, -Pole, Pole)
    /\ Between(row.fix.longitude, -Antimeridian, Antimeridian)
    /\ row.fix.accuracy = None \/ AtLeast(row.fix.accuracy, 0)

\* One bad row refuses the whole read.
ReadsRows(rows) == \A row \in Range(rows) : Readable(row)

\* Written apart from the parser above, with the same limits.
Submittable(row) ==
    /\ Between(row.fix.latitude, -Pole, Pole)
    /\ Between(row.fix.longitude, -Antimeridian, Antimeridian)
    /\ row.fix.accuracy = None \/ AtLeast(row.fix.accuracy, 0)

SubmitsBatch(rows) ==
    /\ Len(rows) \in 1..BatchLimit
    /\ \A row \in Range(rows) : Submittable(row)
    /\ \A i, j \in DOMAIN rows : rows[i].sampleId = rows[j].sampleId => i = j

Ends(result, damaged) == outcome' = result /\ torn' = damaged /\ request' = NoRequest

\* The queue is read by instant, and of one instant by id, the older id first.
Before(row, other) ==
    \/ row.fix.recordedAt < other.fix.recordedAt
    \/ row.fix.recordedAt = other.fix.recordedAt /\ row.sampleId < other.sampleId

\* What the order and the limit leave of the queue: one sequence, never two.
OldestRows ==
    LET n == IF Cardinality(waiting) < BatchLimit THEN Cardinality(waiting) ELSE BatchLimit
    IN  {rows \in [1..n -> waiting] :
            /\ \A i, j \in 1..n : i < j => Before(rows[i], rows[j])
            /\ \A row \in waiting \ Range(rows) : Before(rows[n], row)}

Submits(rows) ==
    /\ IF ReadsRows(rows) /\ SubmitsBatch(rows)
       THEN /\ request' = [at |-> "sent", rows |-> rows, results |-> <<>>]
            /\ UNCHANGED <<outcome, torn>>
       ELSE Ends(IF ReadsRows(rows) THEN "blocked-protocol" ELSE "queue-error", FALSE)

BeginsPass ==
    /\ request = NoRequest /\ waiting # {}
    /\ \E rows \in OldestRows : Submits(rows)
    /\ UNCHANGED <<waiting, taken, samples, verdict>>

\* No network, a deadline, a 5xx: every row stays.
Lost ==
    /\ request.at \in {"sent", "answered"} /\ Ends("retryable", FALSE)
    /\ UNCHANGED <<waiting, taken, samples, verdict>>

---------------------------------------------------------------------------
(* The API *)

SampleSchema(row) ==
    /\ Between(row.fix.latitude, -Pole, Pole)
    /\ Between(row.fix.longitude, -Antimeridian, Antimeridian)
    /\ row.fix.accuracy = None \/ AtLeast(row.fix.accuracy, 0)

DistinctIds(rows) == Cardinality({row.sampleId : row \in Range(rows)}) = Len(rows)

BodySchema(rows) ==
    /\ Len(rows) \in 1..BatchLimit
    /\ \A row \in Range(rows) : SampleSchema(row)
    /\ DistinctIds(rows)

\* The CHECKs of the columns, behind the schema: NaN is above every number.
Insertable(row) ==
    /\ Between(row.fix.latitude, -Pole, Pole)
    /\ Between(row.fix.longitude, -Antimeridian, Antimeridian)
    /\ row.fix.accuracy \in {None, NotFinite} \/ AtLeast(row.fix.accuracy, 0)

InWindow(row) == row.fix.recordedAt >= Started

Taken(row) == \E held \in samples : held.sampleId = row.sampleId

\* Variant: a missing accuracy matches nothing, itself included.
SameObservationNullless(row) ==
    \E held \in samples : held = row /\ held.fix.accuracy # None

SameObservation(row) == \E held \in samples : held = row

Verdict(row) ==
    CASE ~InWindow(row) -> "out_of_window"
      [] InWindow(row) /\ ~Taken(row) -> "accepted"
      [] InWindow(row) /\ Taken(row) /\ SameObservation(row) -> "duplicate"
      [] InWindow(row) /\ Taken(row) /\ ~SameObservation(row) -> "sample_id_conflict"

Result(row) == [sampleId |-> row.sampleId, said |-> Verdict(row)]

Answers(rows) ==
    /\ verdict' = [i \in Ids |->
           IF \E row \in Range(rows) : row.sampleId = i
           THEN Verdict(CHOOSE row \in Range(rows) : row.sampleId = i)
           ELSE verdict[i]]
    /\ request' = [request EXCEPT !.at = "answered",
           !.results = [j \in DOMAIN rows |-> Result(rows[j])]]
    /\ UNCHANGED <<outcome, torn>>

\* One statement per sample: a row that only a CHECK refuses is a 500, behind
\* the rows already stored.
Inserted(rows) ==
    {rows[i] : i \in {j \in DOMAIN rows : /\ Verdict(rows[j]) = "accepted"
                                         /\ \A k \in 1..j : Insertable(rows[k])}}

\* A body the schema refuses is a 400, which ends the pass and is not retried.
Ingests ==
    /\ request.at = "sent"
    /\ IF BodySchema(request.rows)
       THEN /\ samples' = samples \cup Inserted(request.rows)
            /\ IF \A row \in Range(request.rows) : Insertable(row)
               THEN Answers(request.rows)
               ELSE Ends("retryable", FALSE) /\ UNCHANGED verdict
       ELSE Ends("blocked-protocol", FALSE) /\ UNCHANGED <<samples, verdict>>
    /\ UNCHANGED <<waiting, taken>>

---------------------------------------------------------------------------
(* The answer *)

Contract == {"accepted", "duplicate", "out_of_window", "sample_id_conflict"}

\* A result of another sample, or of an unknown kind.
Misstated(result) ==
    {[result EXCEPT !.sampleId = other] : other \in 1..MaxTaken + 1}
    \cup {[result EXCEPT !.said = said] : said \in {"accepted, with a reason", "queued"}}

\* An answer damaged in one place: a result missing, repeated, moved or misstated.
Damaged(results) ==
    LET n == Len(results) IN
    {SubSeq(results, 1, n - 1), Append(results, results[n])}
    \cup {[results EXCEPT ![i] = results[j]] : i, j \in 1..n}
    \cup UNION {{[results EXCEPT ![i] = result] : result \in Misstated(results[i])} :
                    i \in 1..n}

ParsesResults(results) == \A result \in Range(results) : result.said \in Contract

\* Variant: as many results as rows, whichever they are.
CorrespondsByLength(results, rows) == Len(results) = Len(rows)

Corresponds(results, rows) ==
    /\ Len(results) = Len(rows)
    /\ \A i \in DOMAIN results : results[i].sampleId = rows[i].sampleId

Deletes(results) ==
    LET ids == {result.sampleId : result \in Range(results)} IN
    waiting' = {row \in waiting : row.sampleId \notin ids}

Finishes(results) ==
    LET damaged == results # request.results IN
    IF ParsesResults(results) /\ Corresponds(results, request.rows)
    THEN Deletes(results) /\ Ends("progress", damaged)
    ELSE Ends("blocked-protocol", damaged) /\ UNCHANGED waiting

HearsAnswer ==
    /\ request.at = "answered"
    /\ \E results \in Damaged(request.results) \cup {request.results} : Finishes(results)
    /\ UNCHANGED <<taken, samples, verdict>>

PathNext ==
    \/ \E fix \in Fix : Captures(fix)
    \/ BeginsPass \/ Lost \/ Ingests \/ HearsAnswer

PathSpec == PathInit /\ [][PathNext]_pathVars

---------------------------------------------------------------------------
(* The office *)

Shown(row) ==
    /\ row.fix.latitude # NotFinite /\ row.fix.longitude # NotFinite
    /\ row.fix.latitude # None /\ row.fix.longitude # None
    /\ row.fix.accuracy # NotFinite

\* No row is poison: what the filter keeps, no later place refuses.  A pass is
\* blocked by a damaged answer only.
NoPoisonRow ==
    /\ outcome # "queue-error"
    /\ outcome = "blocked-protocol" => torn
    /\ \A i \in Ids : verdict[i] # "sample_id_conflict"

\* The phone forgets a sample only once the API decided on it.
ForgottenOnceDecided ==
    \A i \in 1..taken :
        verdict[i] # "none" \/ \E row \in waiting : row.sampleId = i

\* What is stored is shown: one bad row would blank a whole page of the route.
StoredIsShown == \A row \in samples : Shown(row)

SamplePathInv == NoPoisonRow /\ ForgottenOnceDecided /\ StoredIsShown
=============================================================================
