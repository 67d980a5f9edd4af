-------------------------- MODULE LocationDelivery -------------------------
(***************************************************************************)
(* How positions reach the server: the rows of the phone's queue, the pass *)
(* that uploads one batch of them, an unreliable network, and the          *)
(* ingestion handler that stores samples one statement at a time.  When a  *)
(* pass begins is decided in LocationDrain; here it may at any time.       *)
(*                                                                         *)
(* JavaScript is single-threaded: a step of the pass runs from one await   *)
(* to the next.  Capture is native and goes on all the while; a handler    *)
(* whose caller gave up goes on as well.                                   *)
(***************************************************************************)
EXTENDS Naturals, FiniteSets, FiniteSetsExt

CONSTANTS
    Sample,        \* numbered in the order the queue is read
    Trip, TripOf,  \* the trip each sample was captured for
    Late,          \* samples recorded after the trip's window, once it has ended
    Call,          \* ingestion requests in progress; bounds the abandoned ones
    MaxQueued,     \* MAX_QUEUED_SAMPLES_PER_OWNER
    MaxBatch,      \* MAX_INGEST_SAMPLES
    Nil

ASSUME SampleAssumption == Sample \subseteq Nat
ASSUME TripAssumption == TripOf \in [Sample -> Trip] /\ Late \subseteq Sample
ASSUME BoundAssumption == MaxQueued \in Nat \ {0} /\ MaxBatch \in Nat \ {0}

VARIABLES
    queue,                 \* the phone's rows
    captured, evicted,     \* history: every sample captured, and every one evicted
    pass,                  \* the pass in flight
    linked, ended,         \* the server: login linked to the driver; trips completed
    stored, refused,       \* its samples, and history: those it refused
    call,
    flaky                  \* the network, the server or SQLite misbehaves for now

phone == <<queue, captured, evicted>>
server == <<linked, ended, stored, refused>>
deliveryVars == <<phone, pass, server, call, flaky>>

\* "blocked" stands for every outcome that waits for a person: the blocked-*
\* kinds and queue-error.
Outcome == {"empty", "progress", "retryable", "blocked"}

ASSUME NilAssumption == Nil \notin Trip \cup Call \cup Nat \cup Outcome

NoPass == [at |-> "none", batch |-> {}, call |-> Nil, outcome |-> Nil]
Pass == [at : {"none", "read", "post", "record", "delete"}, batch : SUBSET Sample,
         call : Call \cup {Nil}, outcome : Outcome \cup {Nil}]

Free == [at |-> "free", trip |-> Nil, todo |-> {}, ended |-> FALSE, answer |-> Nil]
CallState == [at : {"free", "sent", "ingest", "answered"}, trip : Trip \cup {Nil},
              todo : SUBSET Sample, ended : BOOLEAN, answer : Outcome \cup {Nil}]

DeliveryInit ==
    /\ queue = {} /\ captured = {} /\ evicted = {}
    /\ pass = NoPass
    /\ linked = TRUE /\ ended = [t \in Trip |-> FALSE]
    /\ stored = [s \in Sample |-> Nil] /\ refused = {}
    /\ call = [c \in Call |-> Free]
    /\ flaky = TRUE
-----------------------------------------------------------------------------
(* The native queue. *)

\* Variant: the sample that finds the queue full is the one given up.
ExcessNewest(rows) == IF Cardinality(rows) > MaxQueued THEN {Max(rows)} ELSE {}

\* What a full queue gives up: its oldest row.
Excess(rows) == IF Cardinality(rows) > MaxQueued THEN {Min(rows)} ELSE {}

Capture(s) ==
    LET rows == queue \cup {s} IN
    /\ s \notin captured
    /\ captured' = captured \cup {s}
    /\ queue' = rows \ Excess(rows)
    /\ evicted' = evicted \cup Excess(rows)
    /\ UNCHANGED <<pass, server, call, flaky>>
-----------------------------------------------------------------------------
(* runOnce: read, post, record the attempt, delete. *)

Begin ==
    /\ pass.at = "none"
    /\ pass' = [NoPass EXCEPT !.at = "read"]
    /\ UNCHANGED <<phone, server, call, flaky>>

\* The oldest trip's contiguous run of the rows read.
TripPrefix(rows) ==
    {s \in rows : \A r \in rows : r <= s => TripOf[r] = TripOf[Min(rows)]}

Oldest(rows) == {s \in rows : Cardinality({r \in rows : r < s}) < MaxBatch}

\* No row is queued; or the queue cannot be read, or nobody is signed in.
ReadEnds(outcome) ==
    /\ pass.at = "read"
    /\ \/ outcome = "empty" /\ queue = {}
       \/ outcome = "blocked" /\ flaky
    /\ UNCHANGED phone

Post(c) ==
    LET batch == TripPrefix(Oldest(queue)) IN
    /\ pass.at = "read" /\ queue # {} /\ call[c] = Free
    /\ call' = [call EXCEPT ![c] = [Free EXCEPT !.at = "sent", !.todo = batch,
                                                !.trip = TripOf[Min(batch)]]]
    /\ pass' = [pass EXCEPT !.at = "post", !.batch = batch, !.call = c]
    /\ UNCHANGED <<phone, server, flaky>>

\* Variant: without a deadline.
GiveUpOnError ==
    /\ pass.at = "post" /\ flaky
    /\ pass' = [pass EXCEPT !.at = "record", !.call = Nil, !.outcome = "retryable"]
    /\ UNCHANGED <<phone, server, call, flaky>>

\* A network error, or the pass's own deadline.
GiveUp ==
    /\ pass.at = "post"
    /\ flaky \/ call[pass.call].at = "free"
    /\ pass' = [pass EXCEPT !.at = "record", !.call = Nil, !.outcome = "retryable"]
    /\ UNCHANGED <<phone, server, call, flaky>>

\* An answer settles the pass that asked, and corresponds to its batch.
Answered(c) == pass.at = "post" /\ pass.call = c /\ call[c].at = "answered"

\* An answer that cannot be trusted blocks.
Reply(c) ==
    /\ Answered(c)
    /\ \E outcome \in {call[c].answer} \cup (IF flaky THEN {"blocked"} ELSE {}) :
          pass' = [pass EXCEPT !.at = "record", !.call = Nil, !.outcome = outcome]
    /\ call' = [call EXCEPT ![c] = Free]
    /\ UNCHANGED <<phone, server, flaky>>

RecordAttempt ==
    /\ pass.at = "record" /\ pass.outcome = "progress"
    /\ pass' = [pass EXCEPT !.at = "delete"]
    /\ UNCHANGED <<phone, server, call, flaky>>

RecordEnds(outcome) ==
    /\ pass.at = "record"
    /\ \/ outcome = pass.outcome /\ outcome # "progress"
       \/ outcome = "blocked" /\ flaky
    /\ UNCHANGED phone

DeleteEnds(outcome) ==
    /\ pass.at = "delete"
    /\ \/ outcome = "progress" /\ queue' = queue \ pass.batch
       \/ outcome = "blocked" /\ flaky /\ UNCHANGED queue
    /\ UNCHANGED <<captured, evicted>>

End(outcome) ==
    /\ ReadEnds(outcome) \/ RecordEnds(outcome) \/ DeleteEnds(outcome)
    /\ pass' = NoPass
    /\ UNCHANGED <<server, call, flaky>>

\* The app's process dies in the middle of a pass; the queue survives.
Crash ==
    /\ pass' = NoPass
    /\ UNCHANGED <<phone, server, call, flaky>>
-----------------------------------------------------------------------------
(* The network and the ingestion handler. *)

\* The login's link and the trip are read once for the whole batch.
Receive(c) ==
    /\ call[c].at = "sent"
    /\ call' = [call EXCEPT ![c] =
                  IF linked THEN [@ EXCEPT !.at = "ingest", !.ended = ended[call[c].trip]]
                            ELSE [Free EXCEPT !.at = "answered", !.answer = "blocked"]]
    /\ UNCHANGED <<phone, pass, server, flaky>>

OutOfWindow(c, s) == s \in Late /\ call[c].ended

\* The insert decides: a sample id already taken is a duplicate when it names
\* the same trip, and a conflict otherwise.
Ingest(c) ==
    LET s == Min(call[c].todo)
        refuse == OutOfWindow(c, s) \/ stored[s] \notin {Nil, call[c].trip}
    IN
    /\ call[c].at = "ingest" /\ call[c].todo # {}
    /\ refused' = IF refuse THEN refused \cup {s} ELSE refused
    /\ stored' = IF refuse THEN stored ELSE [stored EXCEPT ![s] = call[c].trip]
    /\ call' = [call EXCEPT ![c].todo = @ \ {s}]
    /\ UNCHANGED <<phone, pass, linked, ended, flaky>>

\* Variant: a handler that fails half-way answers for what it did.
ResponsesEarly(c) == {"progress"}

\* One outcome per sample; or, with some samples stored, a failure.
Responses(c) ==
    (IF call[c].todo = {} THEN {"progress"} ELSE {}) \cup (IF flaky THEN {"retryable"} ELSE {})

Respond(c) ==
    /\ call[c].at = "ingest"
    /\ \E answer \in Responses(c) :
          call' = [call EXCEPT ![c] = [Free EXCEPT !.at = "answered", !.answer = answer]]
    /\ UNCHANGED <<phone, pass, server, flaky>>

\* A request or an answer is lost, or nobody waits for the answer any more.
Lose(c) ==
    /\ call[c].at \in {"sent", "answered"}
    /\ flaky \/ pass.call # c
    /\ call' = [call EXCEPT ![c] = Free]
    /\ UNCHANGED <<phone, pass, server, flaky>>

Complete(t) ==
    /\ ~ended[t] /\ linked
    /\ ended' = [ended EXCEPT ![t] = TRUE]
    /\ UNCHANGED <<phone, pass, linked, stored, refused, call, flaky>>

\* A login is unlinked from its driver only when no trip is running.
Relink ==
    /\ linked => \A t \in Trip : ended[t]
    /\ linked' = ~linked
    /\ UNCHANGED <<phone, pass, ended, stored, refused, call, flaky>>

\* From now on requests are answered.
Recover ==
    /\ flaky /\ flaky' = FALSE
    /\ UNCHANGED <<phone, pass, server, call>>
-----------------------------------------------------------------------------
Proceed == RecordAttempt \/ GiveUp \/ \E c \in Call : Post(c) \/ Reply(c)

Serve(c) == Receive(c) \/ Ingest(c) \/ Respond(c) \/ Lose(c)

World ==
    \/ \E s \in Sample : Capture(s)
    \/ \E c \in Call : Serve(c)
    \/ \E t \in Trip : Complete(t)
    \/ Relink \/ Recover

DeliveryNext == Begin \/ Proceed \/ (\E o \in Outcome : End(o)) \/ Crash \/ World

DeliverySpec == DeliveryInit /\ [][DeliveryNext]_deliveryVars
-----------------------------------------------------------------------------
DeliveryTypeOK ==
    /\ queue \subseteq Sample /\ captured \subseteq Sample /\ evicted \subseteq Sample
    /\ pass \in Pass
    /\ linked \in BOOLEAN /\ ended \in [Trip -> BOOLEAN]
    /\ stored \in [Sample -> Trip \cup {Nil}] /\ refused \subseteq Sample
    /\ call \in [Call -> CallState]
    /\ flaky \in BOOLEAN

Known(s) == stored[s] # Nil \/ s \in refused

\* A request carries captured samples of one trip, and the one the pass waits
\* for has answered for what it no longer has to do.
CallInv ==
    \A c \in Call :
        /\ call[c].todo \subseteq captured
        /\ call[c].at \in {"sent", "ingest"} =>
              call[c].trip \in Trip /\ \A s \in call[c].todo : TripOf[s] = call[c].trip
        /\ pass.at = "post" /\ pass.call = c =>
              /\ call[c].at = "sent" => call[c].todo = pass.batch
              /\ call[c].at = "ingest" => \A s \in pass.batch \ call[c].todo : Known(s)
              /\ call[c].answer = "progress" => \A s \in pass.batch : Known(s)
        /\ call[c].at \in {"free", "sent", "ingest"} => call[c].answer = Nil

PassInv ==
    /\ pass.batch \subseteq captured
    /\ pass.at = "post" <=> pass.call # Nil
    /\ pass.at \in {"record", "delete"} /\ pass.outcome = "progress"
       => \A s \in pass.batch : Known(s)
    /\ pass.at = "delete" => pass.outcome = "progress"
    /\ pass.at \in {"none", "read", "post"} => pass.outcome = Nil

\* No captured position is lost: each one is still on the phone, or stored, or
\* refused for good, or was evicted.
NothingLost == \A s \in captured : s \in queue \cup evicted \/ Known(s)

\* Whatever is stored is stored under the trip it was captured for.
StoredUnderOwnTrip == \A s \in Sample : stored[s] \in {Nil, TripOf[s]}

\* Inductive: what the pass deletes was answered for, sample by sample.
DeliveryInv ==
    /\ DeliveryTypeOK /\ CallInv /\ PassInv /\ NothingLost /\ StoredUnderOwnTrip
    /\ queue \cup evicted \subseteq captured
    /\ \A s \in Sample : Known(s) => s \in captured

FateOf(s) ==
    CASE s \notin captured -> "future"
      [] s \in queue -> "held"
      [] s \notin queue /\ stored[s] # Nil -> "delivered"
      [] s \notin queue /\ s \in captured /\ stored[s] = Nil /\ s \in refused -> "refused"
      [] OTHER -> "dropped"

History == INSTANCE LocationHistory WITH fate <- [s \in Sample |-> FateOf(s)]

\* Whatever the network does, samples leave the phone only once the server
\* answered for them, or as the oldest row of a full queue.
RefinesHistory == History!Spec
=============================================================================
