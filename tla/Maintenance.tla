----------------------------- MODULE Maintenance ----------------------------
(***************************************************************************)
(* MaintenanceService: the work log of the vehicles.  A record is filed    *)
(* OPEN, corrected while it is, and completed or cancelled once.           *)
(*                                                                         *)
(* No row is locked beforehand and none is read first: a transaction       *)
(* claims its record with one UPDATE whose WHERE holds the whole           *)
(* precondition.  The claimed row stays locked until the audit row is      *)
(* written and the transaction commits.  Only a claim that matched nothing *)
(* reads the record, to say why.                                           *)
(***************************************************************************)
EXTENDS Naturals, Sequences

CONSTANTS
    Job,        \* maintenance records
    Worker,     \* requests in progress at the same time
    LastDay,    \* instants are 1..LastDay
    MaxEdits,   \* bound: audit rows of a record
    Nobody

ASSUME BoundsAssumption == LastDay \in Nat \ {0} /\ MaxEdits \in Nat
ASSUME NobodyAssumption == Nobody \notin Worker

VARIABLES
    job,      \* committed rows
    trail,    \* committed audit rows of each record
    lock,     \* the transaction that claimed the row
    worker    \* each request: what it asks, the row it has written, its answer

workshop == <<job, trail, lock, worker>>

Day == 1..LastDay
Row == [status : {"absent", "OPEN", "COMPLETED", "CANCELLED"},
        startedAt : {0} \cup Day, completedAt : {0} \cup Day]   \* 0: null
Entry == {"created", "updated", "completed", "cancelled"}
Response == {"none", "done", "failed", "conflict", "tooEarly"}

Absent == [status |-> "absent", startedAt |-> 0, completedAt |-> 0]
Waiting == [at |-> "idle", does |-> "created", job |-> Nobody, day |-> 0,
            row |-> Absent, reply |-> "none"]

WorkshopTypeOK ==
    /\ job \in [Job -> Row] /\ trail \in [Job -> Seq(Entry)]
    /\ lock \in [Job -> Worker \cup {Nobody}]
    /\ worker \in [Worker -> [at : {"idle", "claim", "audit", "classify"}, does : Entry,
                              job : Job \cup {Nobody}, day : {0} \cup Day,
                              row : Row, reply : Response]]

WorkshopInit ==
    /\ job = [j \in Job |-> Absent]
    /\ trail = [j \in Job |-> <<>>]
    /\ lock = [j \in Job |-> Nobody]
    /\ worker = [w \in Worker |-> Waiting]
-----------------------------------------------------------------------------
\* What a request asks of its record, and the row it leaves.
Applies(does, row, day) ==
    IF does = "created" THEN [Absent EXCEPT !.status = "OPEN", !.startedAt = day]
    ELSE IF does = "updated" THEN [row EXCEPT !.startedAt = day]
    ELSE IF does = "completed" THEN [row EXCEPT !.status = "COMPLETED", !.completedAt = day]
    ELSE [row EXCEPT !.status = "CANCELLED"]

\* The WHERE of its claim.
Matches(does, row, day) ==
    /\ row.status = "OPEN"
    /\ does = "completed" => row.startedAt <= day

Says(w, reply) == worker' = [worker EXCEPT ![w].at = "idle", ![w].reply = reply]
Unlocked(w) == [j \in Job |-> IF lock[j] = w THEN Nobody ELSE lock[j]]

\* createForVehicle inserts; until it commits nobody else sees the row.
File(w, j, d) ==
    /\ worker[w].at = "idle" /\ job[j] = Absent /\ lock[j] = Nobody
    /\ lock' = [lock EXCEPT ![j] = w]
    /\ worker' = [worker EXCEPT ![w] =
                    [at |-> "audit", does |-> "created", job |-> j, day |-> d,
                     row |-> Applies("created", Absent, d), reply |-> "none"]]
    /\ UNCHANGED <<job, trail>>

\* An id is known from a committed record; one that never was answers 404 and is
\* left out.
Ask(w, j, does, d) ==
    /\ worker[w].at = "idle" /\ job[j] # Absent
    /\ does \in {"updated", "completed", "cancelled"}
    /\ worker' = [worker EXCEPT ![w] =
                    [at |-> "claim", does |-> does, job |-> j, day |-> d,
                     row |-> Absent, reply |-> "none"]]
    /\ UNCHANGED <<job, trail, lock>>

\* Variant: the record is read and checked first, and written by its id alone.
ClaimById(w) ==
    LET r == worker[w] IN
    /\ r.at = "claim"
    /\ IF r.row = Absent
       THEN /\ worker' = [worker EXCEPT
                            ![w].at = IF Matches(r.does, job[r.job], r.day)
                                      THEN "claim" ELSE "classify",
                            ![w].row = IF Matches(r.does, job[r.job], r.day)
                                       THEN job[r.job] ELSE Absent]
            /\ UNCHANGED lock
       ELSE /\ lock[r.job] = Nobody
            /\ lock' = [lock EXCEPT ![r.job] = w]
            /\ worker' = [worker EXCEPT ![w].at = "audit",
                                        ![w].row = Applies(r.does, job[r.job], r.day)]
    /\ UNCHANGED <<job, trail>>

\* The UPDATE waits for the row it matched, and matches again what it is by then.
ClaimJob(w) ==
    LET r == worker[w] IN
    /\ r.at = "claim"
    /\ IF Matches(r.does, job[r.job], r.day)
       THEN /\ lock[r.job] = Nobody
            /\ lock' = [lock EXCEPT ![r.job] = w]
            /\ worker' = [worker EXCEPT ![w].at = "audit",
                                        ![w].row = Applies(r.does, job[r.job], r.day)]
       ELSE worker' = [worker EXCEPT ![w].at = "classify"] /\ UNCHANGED lock
    /\ UNCHANGED <<job, trail>>

\* record and commit; the bound on the trail holds the request here.
RecordJob(w) ==
    LET r == worker[w] IN
    /\ r.at = "audit" /\ Len(trail[r.job]) < MaxEdits
    /\ job' = [job EXCEPT ![r.job] = r.row]
    /\ trail' = [trail EXCEPT ![r.job] = Append(@, r.does)]
    /\ lock' = Unlocked(w)
    /\ Says(w, "done")

\* A statement fails, the audit's included: the transaction rolls back.
FailJob(w) ==
    /\ worker[w].at # "idle"
    /\ lock' = Unlocked(w) /\ Says(w, "failed")
    /\ UNCHANGED <<job, trail>>

\* unclaimedError and unclaimedCompletion.
Classify(w) ==
    LET r == worker[w]
        row == job[r.job]
    IN
    /\ r.at = "classify"
    /\ Says(w, IF r.does = "completed" /\ row.status = "OPEN" /\ row.startedAt > r.day
               THEN "tooEarly" ELSE "conflict")
    /\ UNCHANGED <<job, trail, lock>>

WorkshopNext ==
    \E w \in Worker :
        \/ \E j \in Job, d \in Day :
              \/ File(w, j, d)
              \/ \E does \in Entry : Ask(w, j, does, d)
        \/ ClaimJob(w) \/ RecordJob(w) \/ FailJob(w) \/ Classify(w)

WorkshopSpec == WorkshopInit /\ [][WorkshopNext]_workshop
-----------------------------------------------------------------------------
(* Properties *)

Ending == [completed |-> "COMPLETED", cancelled |-> "CANCELLED"]

\* The audit trail of a record is its life: filed once, then corrected, ended
\* at most once and by its last entry, whatever raced.
TrailTellsLife ==
    \A j \in Job :
        LET n == Len(trail[j]) IN
        /\ job[j].status = "absent" <=> n = 0
        /\ \A i \in 1..n : trail[j][i] = "created" <=> i = 1
        /\ \A i \in 1..n : trail[j][i] \in DOMAIN Ending => i = n
        /\ n > 0 => job[j].status = IF trail[j][n] \in DOMAIN Ending
                                    THEN Ending[trail[j][n]] ELSE "OPEN"

\* A completion lies on or after the start that was in force when it was
\* committed, however the start was corrected meanwhile.
Chronology ==
    \A j \in Job :
        IF job[j].status = "COMPLETED" THEN job[j].startedAt <= job[j].completedAt
        ELSE job[j].completedAt = 0

\* A correction or a cancellation refused with a conflict lost to the end of the
\* record, and never to a request that may still fail.
ConflictsAreOver ==
    \A w \in Worker :
        worker[w].reply = "conflict" /\ worker[w].does # "completed"
        => job[worker[w].job].status \in {"COMPLETED", "CANCELLED"}

\* What has ended is never written again, or its trail would go on; the rest is
\* the types.
WorkshopInv == WorkshopTypeOK /\ TrailTellsLife /\ Chronology /\ ConflictsAreOver
=============================================================================
