--------------------------- MODULE LocationProofs ---------------------------
(* No captured position is lost, whatever the network and the server do, for *)
(* every number of samples, trips and requests; and when the drain starts a  *)
(* pass, for every ladder of delays.  Then the places that may refuse one    *)
(* position: what the first of them keeps, none of the later ones refuses.   *)
EXTENDS LocationDrain, SamplePath, FiniteSetTheorems, WellFoundedInduction, TLAPS

USE SampleAssumption, TripAssumption, BoundAssumption, NilAssumption

-----------------------------------------------------------------------------
(* The queue's rows. *)

\* Rows have an oldest one.
LEMMA MinLemma ==
    ASSUME NEW S, S \subseteq Nat, S # {}
    PROVE  Min(S) \in S /\ \A x \in S : Min(S) <= x
<1>1. \E x \in S : \A y \in S : ~ (<<y, x>> \in OpToRel(<, Nat))
  BY NatLessThanWellFounded, WFMin
<1>2. PICK x \in S : \A y \in S : ~ (<<y, x>> \in OpToRel(<, Nat))
  BY <1>1
<1>3. \A y \in S : x <= y
  <2>1. TAKE y \in S
  <2>2. ~ (y < x)
    BY <1>2 DEF OpToRel
  <2>3. QED
    BY <2>2
<1>4. \E z \in S : \A y \in S : z <= y
  BY <1>3
<1>5. QED
  BY <1>4 DEF Min

\* What a full queue gives up is one of its rows, no younger than any other.
LEMMA ExcessLemma ==
    ASSUME NEW rows, rows \subseteq Sample, rows # {}
    PROVE  /\ Excess(rows) \subseteq rows
           /\ Excess(rows) # {} => \E o \in rows : Excess(rows) = {o} /\ \A r \in rows : o <= r
  BY MinLemma DEF Excess

\* The batch a pass uploads is not empty, and of one trip.
LEMMA BatchLemma ==
    ASSUME NEW rows, rows \subseteq Sample, rows # {}
    PROVE  LET batch == TripPrefix(Oldest(rows)) IN
           /\ batch # {} /\ batch \subseteq rows
           /\ Min(batch) \in batch
           /\ \A s \in batch : TripOf[s] = TripOf[Min(batch)]
<1> DEFINE first == Oldest(rows)
           batch == TripPrefix(first)
           m == Min(rows)
           n == Min(first)
<1>1. rows \subseteq Nat /\ m \in rows /\ \A r \in rows : m <= r
  BY MinLemma
<1>2. m \in first
  <2>1. ASSUME NEW r \in rows PROVE ~ (r < m)
    <3>1. r \in Nat /\ m \in Nat /\ m <= r
      BY <1>1
    <3>2. QED
      BY <3>1
  <2>2. {r \in rows : r < m} = {}
    BY <2>1
  <2>3. Cardinality({r \in rows : r < m}) = 0
    BY <2>2, FS_EmptySet
  <2>4. QED
    BY <1>1, <2>3 DEF Oldest
<1>3. first \subseteq rows /\ first \subseteq Nat
  BY <1>1 DEF Oldest
<1>4. n \in first /\ \A r \in first : n <= r
  BY <1>2, <1>3, MinLemma
<1>5. batch \subseteq first
  BY DEF TripPrefix
<1> HIDE DEF n
<1>6. n \in batch
  <2>1. \A r \in first : r <= n => r = n
    BY <1>3, <1>4
  <2>2. n = Min(first)
    BY DEF n
  <2>3. QED
    BY <1>4, <2>1, <2>2 DEF TripPrefix
<1>7. Min(batch) \in batch
  BY <1>3, <1>5, <1>6, MinLemma
<1>8. \A s \in batch : TripOf[s] = TripOf[n]
  <2>1. TAKE s \in batch
  <2>2. s \in first /\ s <= s
    BY <1>3, <1>5
  <2>3. QED
    BY <2>2 DEF TripPrefix, n
<1>9. QED
  BY <1>3, <1>5, <1>6, <1>7, <1>8
-----------------------------------------------------------------------------
(* Delivery: one lemma per actor. *)

\* The program starts with an empty queue and nothing in flight.
LEMMA DeliveryStarts == DeliveryInit => DeliveryInv
  BY DEF DeliveryInit, DeliveryInv, DeliveryTypeOK, CallInv, PassInv, NothingLost,
         StoredUnderOwnTrip, Known, NoPass, Pass, Free, CallState

\* A request nobody answered did not answer "progress".
LEMMA Strangers == Nil # "progress"
  BY DEF Outcome

\* What a step that leaves the rows and the server alone has to keep.
LEMMA InFlight ==
    ASSUME DeliveryInv, UNCHANGED <<phone, server>>,
           pass' \in Pass, call' \in [Call -> CallState], flaky' \in BOOLEAN,
           CallInv', PassInv'
    PROVE  DeliveryInv'
  BY DEF DeliveryInv, DeliveryTypeOK, NothingLost, StoredUnderOwnTrip, Known, phone, server

USE DEF phone, server

\* The native queue takes a row and may give up its oldest.
LEMMA CaptureStep == ASSUME DeliveryInv, NEW s \in Sample, Capture(s) PROVE DeliveryInv'
<1> DEFINE rows == queue \cup {s}
<1>1. rows \subseteq Sample /\ rows # {}
  BY DEF DeliveryInv, DeliveryTypeOK
<1>2. Excess(rows) \subseteq rows
  BY <1>1, ExcessLemma
<1>3. /\ captured' = captured \cup {s}
      /\ queue' = rows \ Excess(rows) /\ evicted' = evicted \cup Excess(rows)
      /\ UNCHANGED <<pass, server, call, flaky>>
  BY DEF Capture
<1> HIDE DEF rows
<1>4. DeliveryTypeOK'
  BY <1>1, <1>2, <1>3 DEF DeliveryInv, DeliveryTypeOK
<1>5. CallInv' /\ PassInv' /\ StoredUnderOwnTrip'
  BY <1>3 DEF DeliveryInv, CallInv, PassInv, StoredUnderOwnTrip, Known
<1>6. NothingLost'
  BY <1>2, <1>3 DEF DeliveryInv, NothingLost, Known, rows
<1>7. queue' \cup evicted' \subseteq captured'
  BY <1>2, <1>3 DEF DeliveryInv, rows
<1>8. \A r \in Sample : Known(r)' => r \in captured'
  BY <1>3 DEF DeliveryInv, Known
<1>9. QED
  BY <1>4, <1>5, <1>6, <1>7, <1>8 DEF DeliveryInv

\* A pass begins, or the process dies with one in flight.
LEMMA PassReset == ASSUME DeliveryInv, Begin \/ Crash PROVE DeliveryInv'
<1>1. /\ pass' \in Pass /\ pass'.batch = {} /\ pass'.call = Nil /\ pass'.outcome = Nil
      /\ pass'.at \in {"none", "read"}
      /\ UNCHANGED <<phone, server, call, flaky>>
  BY DEF Begin, Crash, NoPass, Pass
<1>2. CallInv' /\ PassInv'
  BY <1>1 DEF DeliveryInv, CallInv, PassInv, Known
<1>3. QED
  BY <1>1, <1>2, InFlight DEF DeliveryInv, DeliveryTypeOK

\* A pass ends: what it deletes, the server answered for.
LEMMA EndStep == ASSUME DeliveryInv, NEW o \in Outcome, End(o) PROVE DeliveryInv'
<1>1. /\ pass' = NoPass /\ UNCHANGED <<server, call, flaky, captured, evicted>>
      /\ queue' \subseteq queue /\ \A s \in queue \ queue' : Known(s)
  BY DEF End, ReadEnds, RecordEnds, DeleteEnds, DeliveryInv, PassInv
<1>2. DeliveryTypeOK'
  BY <1>1 DEF DeliveryInv, DeliveryTypeOK, NoPass, Pass
<1>3. CallInv' /\ PassInv'
  BY <1>1 DEF DeliveryInv, CallInv, PassInv, Known, NoPass
<1>4. NothingLost'
  BY <1>1 DEF DeliveryInv, DeliveryTypeOK, NothingLost, Known
<1>5. QED
  BY <1>1, <1>2, <1>3, <1>4 DEF DeliveryInv, StoredUnderOwnTrip, Known

\* The pass takes a step that does not end it.
LEMMA ProceedStep == ASSUME DeliveryInv, Proceed PROVE DeliveryInv'
<1> USE DEF Pass, CallState, Outcome
<1>1. ASSUME RecordAttempt \/ GiveUp PROVE DeliveryInv'
  <2>1. /\ pass' \in Pass /\ call' \in [Call -> CallState]
        /\ UNCHANGED <<phone, server, call, flaky>>
    BY <1>1 DEF RecordAttempt, GiveUp, DeliveryInv, DeliveryTypeOK
  <2>2. pass'.batch = pass.batch /\ pass'.at # "post" /\ pass'.call = Nil
    BY <1>1 DEF RecordAttempt, GiveUp, DeliveryInv, DeliveryTypeOK, PassInv
  <2>3. CallInv'
    BY <2>1, <2>2 DEF DeliveryInv, CallInv, Known
  <2>4. \/ /\ pass'.at = "delete" /\ pass'.outcome = "progress"
           /\ pass.at = "record" /\ pass.outcome = "progress"
        \/ pass'.at = "record" /\ pass'.outcome = "retryable"
    BY <1>1 DEF RecordAttempt, GiveUp, DeliveryInv, DeliveryTypeOK
  <2>5. PassInv'
    BY <2>1, <2>2, <2>4 DEF DeliveryInv, PassInv, Known
  <2>6. QED
    BY <2>1, <2>3, <2>5, InFlight DEF DeliveryInv, DeliveryTypeOK
<1>2. ASSUME NEW c \in Call, Post(c) PROVE DeliveryInv'
  <2> DEFINE batch == TripPrefix(Oldest(queue))
  <2>1. /\ batch # {} /\ batch \subseteq queue /\ Min(batch) \in batch
        /\ \A s \in batch : TripOf[s] = TripOf[Min(batch)]
    BY <1>2, BatchLemma DEF Post, DeliveryInv, DeliveryTypeOK
  <2>2. batch \subseteq captured /\ batch \subseteq Sample /\ TripOf[Min(batch)] \in Trip
    BY <2>1 DEF DeliveryInv, DeliveryTypeOK
  <2>3. /\ pass.at = "read"
        /\ call' = [call EXCEPT ![c] = [Free EXCEPT !.at = "sent", !.todo = batch,
                                                    !.trip = TripOf[Min(batch)]]]
        /\ pass' = [pass EXCEPT !.at = "post", !.batch = batch, !.call = c]
        /\ UNCHANGED <<phone, server, flaky>>
    BY <1>2 DEF Post
  <2> HIDE DEF batch
  <2>4. pass' \in Pass /\ call' \in [Call -> CallState]
    BY <2>2, <2>3 DEF DeliveryInv, DeliveryTypeOK, Free
  <2>5. ASSUME NEW d \in Call PROVE CallInv!(d)'
    <3>1. CASE d = c
      <4>1. /\ call'[c].at = "sent" /\ call'[c].todo = batch /\ call'[c].answer = Nil
            /\ call'[c].trip = TripOf[Min(batch)] /\ pass'.batch = batch
            /\ captured' = captured
        BY <2>3 DEF DeliveryInv, DeliveryTypeOK, Free
      <4>2. call'[c].answer # "progress"
        BY <4>1, Strangers
      <4>3. QED
        BY <2>1, <2>2, <3>1, <4>1, <4>2
    <3>2. CASE d # c
      BY <2>3, <3>2 DEF DeliveryInv, DeliveryTypeOK, CallInv, Known
    <3>3. QED
      BY <3>1, <3>2
  <2>6. PassInv'
    BY <2>2, <2>3 DEF DeliveryInv, DeliveryTypeOK, PassInv, Known
  <2>7. QED
    BY <2>3, <2>4, <2>5, <2>6, InFlight DEF DeliveryInv, DeliveryTypeOK, CallInv
<1>3. ASSUME NEW c \in Call, Reply(c) PROVE DeliveryInv'
  <2>1. PICK o \in {call[c].answer, "blocked"} :
           pass' = [pass EXCEPT !.at = "record", !.call = Nil, !.outcome = o]
    BY <1>3 DEF Reply
  <2>2. /\ pass.at = "post" /\ pass.call = c /\ call[c].at = "answered"
        /\ call' = [call EXCEPT ![c] = Free] /\ UNCHANGED <<phone, server, flaky>>
    BY <1>3 DEF Reply, Answered
  <2>3. pass' \in Pass /\ call' \in [Call -> CallState]
    BY <2>1, <2>2 DEF DeliveryInv, DeliveryTypeOK, Free
  <2>4. CallInv' /\ PassInv'
    BY <2>1, <2>2 DEF DeliveryInv, DeliveryTypeOK, CallInv, PassInv, Known, Free
  <2>5. QED
    BY <2>2, <2>3, <2>4, InFlight DEF DeliveryInv, DeliveryTypeOK
<1>4. QED
  BY <1>1, <1>2, <1>3 DEF Proceed

\* The network and the ingestion handler take a step of request c.
LEMMA ServeStep == ASSUME DeliveryInv, NEW c \in Call, Serve(c) PROVE DeliveryInv'
<1> USE DEF CallState, Outcome
<1>1. ASSUME Receive(c) \/ Respond(c) \/ Lose(c) PROVE DeliveryInv'
  <2>1. call' \in [Call -> CallState] /\ UNCHANGED <<phone, pass, server, flaky>>
    <3>1. \A o \in Outcome \cup {Nil} : [Free EXCEPT !.at = "answered", !.answer = o] \in CallState
      BY DEF Free
    <3>2. CASE Receive(c)
      <4>1. [call[c] EXCEPT !.at = "ingest", !.ended = ended[call[c].trip]] \in CallState
        <5>1. call[c].trip \in Trip
          BY <3>2 DEF Receive, DeliveryInv, CallInv
        <5>2. ended[call[c].trip] \in BOOLEAN /\ call[c] \in CallState
          BY <5>1 DEF DeliveryInv, DeliveryTypeOK
        <5>3. \A r \in CallState : \A b \in BOOLEAN :
                 [r EXCEPT !.at = "ingest", !.ended = b] \in CallState
          OBVIOUS
        <5>4. QED
          BY <5>2, <5>3
      <4>2. QED
        BY <3>1, <3>2, <4>1 DEF Receive, DeliveryInv, DeliveryTypeOK
    <3>3. CASE Respond(c)
      <4>1. Responses(c) \subseteq Outcome
        BY DEF Responses
      <4>2. QED
        <5>1. PICK a \in Responses(c) :
                 call' = [call EXCEPT ![c] = [Free EXCEPT !.at = "answered", !.answer = a]]
          BY <3>3 DEF Respond
        <5>2. [Free EXCEPT !.at = "answered", !.answer = a] \in CallState
          BY <3>1, <4>1, <5>1
        <5>3. QED
          BY <3>3, <5>1, <5>2 DEF Respond, DeliveryInv, DeliveryTypeOK
    <3>4. CASE Lose(c)
      BY <3>4 DEF Lose, DeliveryInv, DeliveryTypeOK, Free
    <3>5. QED
      BY <1>1, <3>2, <3>3, <3>4
  <2>2. CASE Receive(c)
    <3>1. CallInv' /\ PassInv'
      BY <2>1, <2>2 DEF Receive, DeliveryInv, DeliveryTypeOK, CallInv, PassInv, Known, Free
    <3>2. QED
      BY <2>1, <3>1, InFlight DEF DeliveryInv, DeliveryTypeOK
  <2>3. CASE Respond(c)
    <3>1. PICK answer \in Responses(c) :
             call' = [call EXCEPT ![c] = [Free EXCEPT !.at = "answered", !.answer = answer]]
      BY <2>3 DEF Respond
    <3>2. call[c].at = "ingest" /\ (answer = "progress" => call[c].todo = {})
      BY <2>3 DEF Respond, Responses
    <3>3. CallInv' /\ PassInv'
      BY <2>1, <3>1, <3>2 DEF DeliveryInv, DeliveryTypeOK, CallInv, PassInv, Known, Free
    <3>4. QED
      BY <2>1, <3>3, InFlight DEF DeliveryInv, DeliveryTypeOK
  <2>4. CASE Lose(c)
    <3>1. call' = [call EXCEPT ![c] = Free]
      BY <2>4 DEF Lose
    <3>2. ASSUME NEW d \in Call PROVE CallInv!(d)'
      <4>1. CASE d = c
        <5>1. call'[c].at = "free" /\ call'[c].todo = {} /\ call'[c].answer = Nil
          BY <3>1 DEF DeliveryInv, DeliveryTypeOK, Free
        <5>2. call'[c].answer # "progress"
          BY <5>1, Strangers
        <5>3. QED
          BY <4>1, <5>1, <5>2
      <4>2. CASE d # c
        BY <2>1, <3>1, <4>2 DEF DeliveryInv, DeliveryTypeOK, CallInv, Known
      <4>3. QED
        BY <4>1, <4>2
    <3>3. PassInv'
      BY <2>1 DEF DeliveryInv, PassInv, Known
    <3>4. QED
      BY <2>1, <3>2, <3>3, InFlight DEF DeliveryInv, DeliveryTypeOK, CallInv
  <2>5. QED
    BY <1>1, <2>2, <2>3, <2>4
<1>2. ASSUME Ingest(c) PROVE DeliveryInv'
  <2> PICK s : s = Min(call[c].todo)
    OBVIOUS
  <2>1. s \in call[c].todo /\ s \in Sample /\ s \in captured
    BY <1>2, MinLemma DEF Ingest, DeliveryInv, DeliveryTypeOK, CallInv
  <2>2. /\ call' = [call EXCEPT ![c].todo = @ \ {s}] /\ call[c].at = "ingest"
        /\ UNCHANGED <<phone, pass, linked, ended, flaky>>
        /\ \/ refused' = refused \cup {s} /\ stored' = stored
           \/ /\ refused' = refused /\ stored[s] \in {Nil, call[c].trip}
              /\ stored' = [stored EXCEPT ![s] = call[c].trip]
    BY <1>2 DEF Ingest
  <2>3. call[c].trip \in Trip /\ TripOf[s] = call[c].trip
    BY <2>1, <2>2 DEF DeliveryInv, CallInv
  <2>4. Known(s)' /\ \A r \in Sample : Known(r) => Known(r)'
    <3>1. Nil \notin Trip /\ stored \in [Sample -> Trip \cup {Nil}]
      BY DEF DeliveryInv, DeliveryTypeOK
    <3>2. CASE refused' = refused \cup {s} /\ stored' = stored
      BY <3>2 DEF Known
    <3>3. CASE refused' = refused /\ stored' = [stored EXCEPT ![s] = call[c].trip]
      <4>1. stored'[s] # Nil /\ \A r \in Sample \ {s} : stored'[r] = stored[r]
        BY <2>1, <2>3, <3>1, <3>3
      <4>2. QED
        BY <3>3, <4>1 DEF Known
    <3>4. QED
      BY <2>2, <3>2, <3>3
  <2>5. \A r \in Sample \ {s} : Known(r)' = Known(r)
    BY <2>1, <2>2 DEF Known, DeliveryInv, DeliveryTypeOK
  <2>6. DeliveryTypeOK' /\ StoredUnderOwnTrip'
    BY <2>1, <2>2, <2>3 DEF DeliveryInv, DeliveryTypeOK, StoredUnderOwnTrip
  <2>7. ASSUME NEW d \in Call PROVE CallInv!(d)'
    <3>1. pass.batch \subseteq Sample
      BY DEF DeliveryInv, DeliveryTypeOK, Pass
    <3>2. CASE d = c
      <4>1. call'[c].todo = call[c].todo \ {s} /\ call'[c].at = "ingest"
            /\ call'[c].answer = call[c].answer /\ call'[c].trip = call[c].trip
        BY <2>2 DEF DeliveryInv, DeliveryTypeOK
      <4>2. QED
        <5>1. CallInv!(c)
          BY DEF DeliveryInv, CallInv
        <5>2. call[c].answer # "progress"
          BY <2>2, <5>1, Strangers
        <5>3. \A r \in pass.batch \ call'[c].todo : pass.at = "post" /\ pass.call = c => Known(r)'
          BY <2>2, <2>4, <3>1, <4>1, <5>1
        <5>4. QED
          BY <2>2, <3>2, <4>1, <5>1, <5>2, <5>3
    <3>3. CASE d # c
      BY <2>2, <2>4, <3>1, <3>3 DEF DeliveryInv, DeliveryTypeOK, CallInv
    <3>4. QED
      BY <3>2, <3>3
  <2>8. PassInv' /\ NothingLost'
    BY <2>2, <2>4 DEF DeliveryInv, DeliveryTypeOK, PassInv, NothingLost, Pass
  <2>9. QED
    BY <2>1, <2>2, <2>4, <2>5, <2>6, <2>7, <2>8 DEF DeliveryInv, CallInv
<1>3. QED
  BY <1>1, <1>2 DEF Serve

\* A trip ends, a login is linked or unlinked, the network recovers.
LEMMA OutsideStep ==
    ASSUME DeliveryInv, (\E t \in Trip : Complete(t)) \/ Relink \/ Recover
    PROVE  DeliveryInv'
<1>1. /\ UNCHANGED <<queue, captured, evicted, pass, stored, refused, call>>
      /\ linked' \in BOOLEAN /\ ended' \in [Trip -> BOOLEAN] /\ flaky' \in BOOLEAN
  BY DEF Complete, Relink, Recover, DeliveryInv, DeliveryTypeOK
<1>2. CallInv' /\ PassInv' /\ NothingLost' /\ StoredUnderOwnTrip'
  BY <1>1 DEF DeliveryInv, CallInv, PassInv, NothingLost, StoredUnderOwnTrip, Known
<1>3. QED
  BY <1>1, <1>2 DEF DeliveryInv, DeliveryTypeOK, Known

\* Every step keeps the invariant.
LEMMA DeliverySteps == ASSUME DeliveryInv, [DeliveryNext]_deliveryVars PROVE DeliveryInv'
<1>1. CASE UNCHANGED deliveryVars
  BY <1>1 DEF deliveryVars, DeliveryInv, DeliveryTypeOK, CallInv, PassInv, NothingLost,
              StoredUnderOwnTrip, Known
<1>2. CASE DeliveryNext
  BY <1>2, PassReset, EndStep, ProceedStep, CaptureStep, ServeStep, OutsideStep
     DEF DeliveryNext, World
<1>3. QED
  BY <1>1, <1>2

\* The invariant of delivery (runAttempt in location-drain.ts and
\* ingestLocationSamples in trips.service.ts): among others, what a pass deletes
\* from the phone was answered for, sample by sample.
THEOREM DeliveryInvariant == DeliverySpec => []DeliveryInv
<1>1. DeliveryInv /\ [DeliveryNext]_deliveryVars => DeliveryInv'
  BY DeliverySteps
<1>2. QED
  BY <1>1, DeliveryStarts, PTL DEF DeliverySpec
-----------------------------------------------------------------------------
(* Delivery implements what LocationHistory promises of every position. *)

fate == [s \in Sample |-> FateOf(s)]

\* The three sets of positions that tell the fates apart.
LEMMA FateLemma ==
    ASSUME DeliveryInv
    PROVE  /\ fate \in [Sample -> History!Fate]
           /\ \A s \in Sample :
                 /\ fate[s] = "future" <=> s \notin captured
                 /\ fate[s] = "held" <=> s \in queue
                 /\ fate[s] = "delivered" <=> s \notin queue /\ stored[s] # Nil
                 /\ fate[s] = "refused" <=> s \notin queue /\ stored[s] = Nil /\ s \in refused
                 /\ fate[s] = "dropped" <=> s \in captured /\ s \notin queue /\ ~Known(s)
  BY DEF fate, FateOf, History!Fate, DeliveryInv, Known

\* Nothing has been captured yet.
LEMMA HistoryStarts == DeliveryInit => History!Init
  BY DEF DeliveryInit, History!Init, FateOf

\* A row is taken; the one given up for it is the oldest.
LEMMA HistoryCapture ==
    ASSUME DeliveryInv, NEW s \in Sample, Capture(s) PROVE History!Capture(s)
<1> DEFINE rows == queue \cup {s}
<1>1. rows \subseteq Sample /\ rows # {}
  BY DEF DeliveryInv, DeliveryTypeOK
<1>2. /\ s \notin captured /\ captured' = captured \cup {s}
      /\ queue' = rows \ Excess(rows) /\ UNCHANGED <<stored, refused>>
  BY DEF Capture
<1>3. fate[s] = "future" /\ History!Held = queue
  BY <1>2, FateLemma DEF fate, History!Held, DeliveryInv, DeliveryTypeOK
<1>4. DeliveryInv' /\ stored[s] = Nil /\ s \notin refused
  BY <1>2, CaptureStep DEF DeliveryInv, Known
<1> HIDE DEF rows
<1>5. CASE Excess(rows) = {}
  <2>1. queue' = queue \cup {s}
    BY <1>2, <1>5 DEF rows
  <2>2. \A r \in Sample : fate'[r] = IF r = s THEN "held" ELSE fate[r]
    BY <1>2, <1>4, <2>1 DEF fate, FateOf
  <2>3. fate' = [fate EXCEPT ![s] = "held"]
    BY <2>2 DEF fate
  <2>4. QED
    BY <1>3, <2>3 DEF History!Capture, fate
<1>6. CASE Excess(rows) # {}
  <2>1. PICK o \in rows : Excess(rows) = {o} /\ \A r \in rows : o <= r
    BY <1>1, <1>6, ExcessLemma
  <2>2. queue' = rows \ {o} /\ o \in Sample
    BY <1>1, <1>2, <2>1
  <2>3. PICK left \in {"dropped", "delivered", "refused"} : fate'[o] = left
    <3>1. o \in captured' /\ o \notin queue'
      BY <1>2, <2>1, <2>2 DEF rows, DeliveryInv
    <3>2. QED
      BY <2>2, <3>1 DEF fate, FateOf
  <2>4. \A r \in Sample : fate'[r] = IF r = o THEN left ELSE IF r = s THEN "held" ELSE fate[r]
    <3>1. ASSUME NEW r \in Sample, r # o, r # s PROVE fate'[r] = fate[r]
      <4>1. (r \in queue' <=> r \in queue) /\ (r \in captured' <=> r \in captured)
        BY <1>2, <2>2, <3>1 DEF rows
      <4>2. QED
        BY <1>2, <4>1 DEF fate, FateOf
    <3>2. s # o => fate'[s] = "held"
      <4>1. s # o => s \in queue' /\ s \in captured'
        BY <1>2, <2>2 DEF rows
      <4>2. QED
        BY <4>1 DEF fate, FateOf
    <3>3. QED
      BY <2>3, <3>1, <3>2
  <2>5. fate' = [fate EXCEPT ![s] = "held", ![o] = left]
    BY <2>2, <2>4 DEF fate
  <2>6. o \in History!Held \cup {s} /\ \A r \in History!Held \cup {s} : o <= r
    BY <1>3, <2>1 DEF rows
  <2>7. QED
    BY <1>3, <2>5, <2>6 DEF History!Capture, fate
<1>7. QED
  BY <1>5, <1>6

\* What a pass deletes leaves the phone answered for.
LEMMA HistoryEnd ==
    ASSUME DeliveryInv, NEW o \in Outcome, End(o)
    PROVE  \E delivered, gone \in SUBSET History!Held : History!Settle(delivered, gone)
<1> DEFINE left == queue \ queue'
           delivered == {s \in left : stored[s] # Nil}
           gone == left \ delivered
<1>1. /\ UNCHANGED <<captured, stored, refused>>
      /\ queue' \subseteq queue /\ \A s \in left : Known(s)
  BY DEF End, ReadEnds, RecordEnds, DeleteEnds, DeliveryInv, PassInv, server
<1>2. History!Held = queue /\ left \subseteq Sample
  BY FateLemma DEF fate, History!Held, DeliveryInv, DeliveryTypeOK
<1>3. \A s \in Sample : fate'[s] = IF s \in delivered THEN "delivered"
                                   ELSE IF s \in gone THEN "refused" ELSE fate[s]
  <2>1. DeliveryInv'
    BY EndStep
  <2>2. \A s \in left : s \in captured
    BY DEF DeliveryInv
  <2>3. QED
    BY <1>1, <1>2, <2>1, <2>2 DEF fate, FateOf, Known
<1>4. fate' = [s \in Sample |-> IF s \in delivered THEN "delivered"
                                ELSE IF s \in gone THEN "refused" ELSE fate[s]]
  BY <1>3 DEF fate
<1>5. History!Settle(delivered, gone)
  BY <1>4 DEF History!Settle, fate
<1>6. QED
  BY <1>2, <1>5

\* The handler stores or refuses one sample: on the phone still, or too late.
LEMMA HistoryIngest ==
    ASSUME DeliveryInv, NEW c \in Call, Ingest(c)
    PROVE  (\E s \in Sample : History!DeliverLate(s) \/ History!RefuseLate(s)) \/ fate' = fate
<1> PICK s : s = Min(call[c].todo)
  OBVIOUS
<1>1. s \in Sample /\ s \in captured
  BY MinLemma DEF Ingest, DeliveryInv, DeliveryTypeOK, CallInv
<1>2. /\ UNCHANGED <<queue, captured>>
      /\ \/ refused' = refused \cup {s} /\ stored' = stored
         \/ /\ refused' = refused /\ stored[s] \in {Nil, call[c].trip}
            /\ stored' = [stored EXCEPT ![s] = call[c].trip]
  BY DEF Ingest
<1>3. DeliveryInv' /\ stored \in [Sample -> Trip \cup {Nil}]
  BY ServeStep DEF Serve, DeliveryInv, DeliveryTypeOK
<1>4. call[c].trip # Nil
  BY DEF Ingest, DeliveryInv, CallInv
<1>5. \A r \in Sample : r # s => fate'[r] = fate[r]
  BY <1>2, <1>3 DEF fate, FateOf
<1>6. \/ fate'[s] = fate[s]
      \/ fate[s] \in {"dropped", "refused"} /\ fate'[s] = "delivered"
      \/ fate[s] = "dropped" /\ fate'[s] = "refused"
  BY <1>1, <1>2, <1>3, <1>4 DEF fate, FateOf, DeliveryInv, Known
<1>7. fate' = [fate EXCEPT ![s] = fate'[s]]
  BY <1>1, <1>5 DEF fate
<1>8. CASE fate'[s] = fate[s]
  BY <1>7, <1>8 DEF fate
<1>9. QED
  BY <1>1, <1>6, <1>7, <1>8 DEF History!DeliverLate, History!RefuseLate, fate

\* Everything else leaves the fates alone.
LEMMA HistoryElse ==
    ASSUME UNCHANGED <<queue, captured, stored, refused>> PROVE fate' = fate
  BY DEF fate, FateOf

\* Samples leave the phone only once the server answered for them, or as the
\* oldest row of a full queue (NativeLocationQueue.kt, location-drain.ts,
\* trips.service.ts): every step of delivery is a step of LocationHistory.
THEOREM DeliveryRefinesHistory == DeliverySpec => RefinesHistory
<1>1. DeliveryInv /\ [DeliveryNext]_deliveryVars => [History!Next]_fate
  <2> SUFFICES ASSUME DeliveryInv, [DeliveryNext]_deliveryVars
               PROVE  History!Next \/ fate' = fate
    OBVIOUS
  <2>1. CASE \E s \in Sample : Capture(s)
    BY <2>1, HistoryCapture DEF History!Next
  <2>2. CASE \E o \in Outcome : End(o)
    BY <2>2, HistoryEnd DEF History!Next
  <2>3. CASE \E c \in Call : Ingest(c)
    BY <2>3, HistoryIngest DEF History!Next
  <2>4. CASE UNCHANGED <<queue, captured, stored, refused>>
    BY <2>4, HistoryElse
  <2>5. Begin \/ Crash \/ Proceed \/ Relink \/ Recover \/ (\E t \in Trip : Complete(t))
        \/ (\E c \in Call : Receive(c) \/ Respond(c) \/ Lose(c)) \/ UNCHANGED deliveryVars
        => UNCHANGED <<queue, captured, stored, refused>>
    BY DEF Begin, Crash, Proceed, RecordAttempt, GiveUp, Post, Reply, Relink, Recover,
           Complete, Receive, Respond, Lose, deliveryVars
  <2>6. QED
    BY <2>1, <2>2, <2>3, <2>4, <2>5 DEF DeliveryNext, World, Serve
<1>2. QED
  BY <1>1, HistoryStarts, DeliveryInvariant, PTL DEF DeliverySpec, RefinesHistory, History!Spec, fate
-----------------------------------------------------------------------------
(* The drain. *)

USE DelayAssumption

\* Whatever starts a pass, it is a step of LocationDelivery.
LEMMA DrainSteps == ASSUME [Next]_vars PROVE [DeliveryNext]_deliveryVars
<1>1. ASSUME StartPass PROVE Begin \/ UNCHANGED deliveryVars
  BY <1>1 DEF StartPass
<1>2. CASE Start \/ Drain \/ TimerFires
  BY <1>1, <1>2 DEF Start, Drain, TimerFires, DeliveryNext, deliveryVars
<1>3. CASE Stop \/ Restart
  BY <1>3 DEF Stop, Restart, DeliveryNext
<1>4. CASE EndPass \/ ProceedPass
  BY <1>4 DEF EndPass, PassEnds, ProceedPass, DeliveryNext
<1>5. CASE World /\ UNCHANGED drain
  BY <1>5 DEF DeliveryNext
<1>6. CASE UNCHANGED vars
  BY <1>6 DEF vars
<1>7. QED
  BY <1>2, <1>3, <1>4, <1>5, <1>6 DEF Next

\* Callers merge into the pass in flight (startPass in location-drain.ts), so
\* what holds of one pass at a time holds whoever starts it.
THEOREM DrainImplementsDelivery == Spec => ImplementsDelivery
<1>1. Init => DeliveryInit
  BY DEF Init
<1>2. QED
  BY <1>1, DrainSteps, PTL DEF Spec, ImplementsDelivery, DeliverySpec

\* The world, and a pass on its way, keep what the timer looks at.
LEMMA TimerUntouched ==
    ASSUME DeliveryInv, ProceedPass \/ (World /\ UNCHANGED drain)
    PROVE  UNCHANGED drain /\ (pass'.at = "none" <=> pass.at = "none")
<1>1. CASE ProceedPass
  <2>1. pass.at # "none" /\ pass'.at # "none"
    BY <1>1 DEF ProceedPass, Proceed, RecordAttempt, GiveUp, Post, Reply, Answered,
                DeliveryInv, DeliveryTypeOK, Pass
  <2>2. QED
    BY <1>1, <2>1 DEF ProceedPass
<1>2. CASE World /\ UNCHANGED drain
  BY <1>2 DEF World, Capture, Serve, Receive, Ingest, Respond, Lose, Complete, Relink, Recover
<1>3. QED
  BY <1>1, <1>2

\* Every step keeps the timer justified.
LEMMA TimerSteps ==
    ASSUME DeliveryInv, TimerJustified, [Next]_vars PROVE TimerJustified'
<1>1. ASSUME StartPass PROVE timer' = Nil
  BY <1>1 DEF StartPass, TimerJustified
<1>2. CASE Start \/ Drain \/ TimerFires
  <2>1. timer' = Nil
    BY <1>1, <1>2 DEF Start, Drain, TimerFires, TimerJustified
  <2>2. failures' \in 0..LastDelay
    BY <1>2 DEF Start, Drain, TimerFires, TimerJustified
  <2>3. QED
    BY <2>1, <2>2 DEF TimerJustified
<1>3. CASE Stop \/ Restart
  BY <1>3 DEF Stop, Restart, TimerJustified
<1>4. ASSUME NEW o \in Outcome, PassEnds(o) PROVE TimerJustified'
  <2>1. timer = Nil /\ pass'.at = "none" /\ last' = o /\ automatic' = automatic
    BY <1>4 DEF PassEnds, End, ReadEnds, RecordEnds, DeleteEnds, NoPass, TimerJustified
  <2>2. CASE automatic
    <3>1. Follow(o)
      BY <1>4, <2>2 DEF PassEnds
    <3>2. failures' \in 0..LastDelay
      BY <3>1 DEF Follow, Ladder, TimerJustified
    <3>3. timer' \in 0..Continuation \cup {Nil} /\ (timer' # Nil => o # "blocked")
      BY <2>1, <3>1 DEF Follow, Continuation, TimerJustified
    <3>4. QED
      BY <2>1, <2>2, <3>2, <3>3 DEF TimerJustified, Outcome
  <2>3. CASE ~automatic
    BY <1>4, <2>1, <2>3 DEF PassEnds, TimerJustified
  <2>4. QED
    BY <2>2, <2>3
<1>5. CASE ProceedPass \/ (World /\ UNCHANGED drain)
  BY <1>5, TimerUntouched DEF drain, TimerJustified
<1>6. CASE UNCHANGED vars
  BY <1>6 DEF vars, drain, deliveryVars, TimerJustified
<1>7. CASE EndPass
  BY <1>4, <1>7 DEF EndPass
<1>8. QED
  BY <1>2, <1>3, <1>5, <1>6, <1>7 DEF Next

\* A timer is armed only while draining is automatic and nothing is in flight,
\* and never after a pass that waits for a person (scheduleNext and onPassEnd of
\* location-drain.ts), for every ladder of delays.
THEOREM DrainTimers == Spec => []TimerJustified
<1>1. Init => TimerJustified
  BY DEF Init, TimerJustified
<1>2. Spec => []DeliveryInv
  BY DrainImplementsDelivery, DeliveryInvariant, PTL DEF ImplementsDelivery
<1>3. QED
  BY <1>1, <1>2, TimerSteps, PTL DEF Spec

\* Whoever asked while a pass was in flight gets another one, unless the pass
\* ended on something that waits for a person (pendingPoke of location-drain.ts).
THEOREM PokesHonoured == Spec => PokeHonoured
<1>1. ASSUME TimerJustified, [Next]_vars, poked, ~poked', automatic'
      PROVE  last' = "blocked" \/ timer' # Nil
  <2>1. PICK o \in Outcome : PassEnds(o)
    BY <1>1 DEF Next, Start, Drain, Stop, TimerFires, Restart, StartPass, EndPass,
                ProceedPass, drain, vars
  <2>2. last' = o /\ Follow(o) /\ failures \in Nat /\ Continuation \in Nat
    BY <1>1, <2>1 DEF PassEnds, TimerJustified, Continuation
  <2>3. CASE o = "progress" \/ o = "empty"
    BY <1>1, <2>2, <2>3 DEF Follow
  <2>4. CASE o = "retryable"
    BY <2>2, <2>4 DEF Follow
  <2>5. QED
    BY <2>2, <2>3, <2>4 DEF Outcome
<1>2. TimerJustified /\ [Next]_vars
      => [poked /\ ~poked' /\ automatic' => last' = "blocked" \/ timer' # Nil]_vars
  BY <1>1
<1>3. QED
  BY <1>2, DrainTimers, PTL DEF Spec, PokeHonoured

\* Whenever its passes begin, the drain loses no position, and the server keeps
\* each one under the trip it was captured for.
THEOREM PositionsKept == Spec => [](NothingLost /\ StoredUnderOwnTrip)
<1>1. DeliveryInv => NothingLost /\ StoredUnderOwnTrip
  BY DEF DeliveryInv
<1>2. QED
  BY <1>1, DrainImplementsDelivery, DeliveryInvariant, PTL DEF ImplementsDelivery
-----------------------------------------------------------------------------
(* The path of one position. *)

\* None is not "not finite", and what the phone mints, counts and orders are numbers.
PathConstants ==
    /\ Instants \subseteq Int /\ BatchLimit \in Nat \ {0} /\ MaxTaken \in Nat
    /\ None # NotFinite

UsableFix == {fix \in Fix : Usable(fix)}
RowsTaken == [sampleId : 1..taken, fix : UsableFix]
Decided == {"accepted", "duplicate", "out_of_window"}

\* The queue and the server hold what was captured, and one row of each id.
RowsFit ==
    /\ IsFiniteSet(waiting) /\ waiting \cup samples \subseteq RowsTaken
    /\ \A row, other \in waiting \cup samples : row.sampleId = other.sampleId => row = other

\* A request is a batch the schema admits, of rows that still wait.
BatchFits(rows) ==
    /\ rows \in [1..Len(rows) -> waiting] /\ Len(rows) \in 1..BatchLimit
    /\ \A i, j \in 1..Len(rows) : rows[i].sampleId = rows[j].sampleId => i = j

\* Its answer names them in their order, and each has been decided on.
AnswerFits(rows, results) ==
    /\ results \in [1..Len(rows) -> [sampleId : Ids, said : Decided]]
    /\ \A i \in 1..Len(rows) : /\ results[i].sampleId = rows[i].sampleId
                               /\ verdict[rows[i].sampleId] # "none"

RequestFits ==
    /\ request.at \in {"none", "sent", "answered"}
    /\ request.at = "none" => request = NoRequest
    /\ request.at # "none" => BatchFits(request.rows)
    /\ request.at = "answered" => AnswerFits(request.rows, request.results)

PathIndInv ==
    /\ taken \in 0..MaxTaken /\ verdict \in [Ids -> {"none"} \cup Decided]
    /\ RowsFit /\ RequestFits /\ ForgottenOnceDecided
    /\ outcome # "queue-error" /\ (outcome = "blocked-protocol" => torn)

-----------------------------------------------------------------------------
\* Every later place admits what the capture filter keeps.
LEMMA UsableAdmitted ==
    ASSUME PathConstants, NEW row \in RowsTaken
    PROVE  Readable(row) /\ Submittable(row) /\ SampleSchema(row) /\ Insertable(row)
           /\ Shown(row)
  BY DEF PathConstants, RowsTaken, UsableFix, Usable, Readable, Submittable, SampleSchema,
         Insertable, Shown, Between, AtLeast

LEMMA PathHolds == ASSUME PathConstants, PathIndInv PROVE SamplePathInv
  BY UsableAdmitted DEF PathIndInv, RowsFit, SamplePathInv, NoPoisonRow, StoredIsShown, Decided

LEMMA PathStarts == ASSUME PathConstants, PathInit PROVE PathIndInv
<1>1. /\ waiting = {} /\ taken = 0 /\ request = NoRequest /\ samples = {}
      /\ verdict = [i \in Ids |-> "none"] /\ outcome = "none" /\ request.at = "none"
  BY DEF PathInit, NoRequest
<1>2. RowsFit
  BY <1>1, FS_EmptySet DEF RowsFit
<1>3. QED
  BY <1>1, <1>2 DEF PathConstants, PathIndInv, RequestFits, ForgottenOnceDecided

\* A finite set of rows has a number of them, and some if it is not empty.
LEMMA SomeRows ==
    ASSUME NEW S, IsFiniteSet(S), S # {}
    PROVE  Cardinality(S) \in Nat \ {0}
  BY FS_CardinalityType, FS_EmptySet

\* An injective sequence has as many values as places.
LEMMA Distinct ==
    ASSUME NEW n \in Nat, NEW rows, DOMAIN rows = 1..n,
           \A i, j \in 1..n : rows[i].sampleId = rows[j].sampleId => i = j
    PROVE  Cardinality({row.sampleId : row \in Range(rows)}) = n
<1> DEFINE T == {row.sampleId : row \in Range(rows)}
           f == [i \in 1..n |-> rows[i].sampleId]
<1>1. f \in Bijection(1..n, T)
  BY DEF Bijection, Injection, Surjection, IsInjective, Range
<1>2. IsFiniteSet(1..n) /\ Cardinality(1..n) = n
  BY FS_Interval
<1>3. QED
  BY <1>1, <1>2, FS_Bijection DEF ExistsBijection

\* The batch of a pass is of rows in one order, so none is in it twice.
LEMMA OldestFit ==
    ASSUME PathConstants, PathIndInv, waiting # {}, NEW rows \in OldestRows
    PROVE  BatchFits(rows) /\ Len(rows) \in Nat /\ DOMAIN rows = 1..Len(rows)
<1> PICK n : n = IF Cardinality(waiting) < BatchLimit THEN Cardinality(waiting)
                 ELSE BatchLimit
  OBVIOUS
<1>1. n \in 1..BatchLimit
  BY SomeRows DEF PathConstants, PathIndInv, RowsFit
<1>2. /\ rows \in [1..n -> waiting]
      /\ \A i, j \in 1..n : i < j => Before(rows[i], rows[j])
  BY DEF OldestRows
<1>3. Len(rows) = n
  BY <1>1, <1>2
<1>4. ASSUME NEW i \in 1..n, NEW j \in 1..n, i < j
      PROVE  rows[i].sampleId # rows[j].sampleId
  <2>1. rows[i] \in RowsTaken /\ rows[j] \in RowsTaken
    BY <1>2 DEF PathIndInv, RowsFit
  <2>2. rows[i].fix.recordedAt \in Int /\ rows[i].sampleId \in Int
    <3>1. \A row \in RowsTaken : row.sampleId \in 1..taken /\ row.fix \in Fix
      BY DEF RowsTaken, UsableFix
    <3>2. \A fix \in Fix : fix.recordedAt \in Int
      BY DEF Fix, PathConstants
    <3>3. QED
      BY <2>1, <3>1, <3>2
  <2>3. rows[i] # rows[j]
    BY <1>2, <1>4, <2>2 DEF Before
  <2>4. QED
    BY <1>2, <2>3 DEF PathIndInv, RowsFit
<1>5. \A i, j \in 1..n : rows[i].sampleId = rows[j].sampleId => i = j
  BY <1>1, <1>4
<1>6. QED
  BY <1>1, <1>2, <1>3, <1>5 DEF BatchFits

\* Of what fits, the answer is never that an id was taken by something else.
LEMMA VerdictFits ==
    ASSUME PathIndInv, NEW row \in waiting
    PROVE  Verdict(row) \in Decided
<1>1. Taken(row) => SameObservation(row)
  BY DEF PathIndInv, RowsFit, Taken, SameObservation
<1>2. QED
  BY <1>1 DEF Verdict, Decided

-----------------------------------------------------------------------------
LEMMA CapturesPath ==
    ASSUME PathConstants, PathIndInv, NEW fix \in Fix, Captures(fix)
    PROVE  PathIndInv'
<1> DEFINE row == [sampleId |-> taken + 1, fix |-> fix]
<1>1. /\ taken' = taken + 1 /\ taken' \in 0..MaxTaken /\ waiting' = waiting \cup {row}
      /\ UNCHANGED <<request, samples, verdict, outcome, torn>> /\ Usable(fix)
      /\ taken \in Nat
  BY DEF Captures, PathIndInv, PathConstants
<1>2. RowsTaken \subseteq RowsTaken' /\ row \in RowsTaken'
  BY <1>1 DEF RowsTaken, UsableFix
<1>3. \A r \in waiting \cup samples : r.sampleId # row.sampleId
  BY <1>1 DEF PathIndInv, RowsFit, RowsTaken
<1> HIDE DEF row
<1>4. IsFiniteSet(waiting')
  BY <1>1, FS_AddElement DEF PathIndInv, RowsFit
<1>5. RowsFit'
  BY <1>1, <1>2, <1>3, <1>4 DEF PathIndInv, RowsFit
<1>6. RequestFits'
  BY <1>1 DEF PathIndInv, RequestFits, BatchFits, AnswerFits
<1>7. ForgottenOnceDecided'
  <2>1. row.sampleId = taken + 1
    BY DEF row
  <2>2. QED
    BY <1>1, <2>1 DEF PathIndInv, ForgottenOnceDecided
<1>8. QED
  BY <1>1, <1>5, <1>6, <1>7 DEF PathIndInv

\* A step that leaves rows and answers alone, and ends or goes on with the request.
LEMMA QuietPath ==
    ASSUME PathIndInv, UNCHANGED <<waiting, taken, samples, verdict>>, RequestFits',
           outcome' # "queue-error", outcome' = "blocked-protocol" => torn'
    PROVE  PathIndInv'
  BY DEF PathIndInv, RowsFit, RowsTaken, ForgottenOnceDecided

LEMMA RequestGone == ASSUME request' = NoRequest PROVE RequestFits'
  BY DEF RequestFits, NoRequest

LEMMA BeginsPassPath == ASSUME PathConstants, PathIndInv, BeginsPass PROVE PathIndInv'
<1>1. PICK rows \in OldestRows : Submits(rows)
  BY DEF BeginsPass
<1>2. /\ UNCHANGED <<waiting, taken, samples, verdict>> /\ waiting # {}
  BY DEF BeginsPass
<1>3. BatchFits(rows) /\ Len(rows) \in Nat /\ DOMAIN rows = 1..Len(rows)
  BY <1>2, OldestFit
<1>4. \A row \in Range(rows) : Readable(row) /\ Submittable(row)
  BY <1>3, UsableAdmitted DEF BatchFits, Range, PathIndInv, RowsFit
<1>5. ReadsRows(rows) /\ SubmitsBatch(rows)
  BY <1>3, <1>4 DEF ReadsRows, SubmitsBatch, BatchFits
<1>6. /\ request' = [at |-> "sent", rows |-> rows, results |-> <<>>]
      /\ UNCHANGED <<outcome, torn>>
  BY <1>1, <1>5 DEF Submits
<1>7. RequestFits'
  BY <1>2, <1>3, <1>6 DEF RequestFits, BatchFits
<1>8. QED
  BY <1>2, <1>6, <1>7, QuietPath DEF PathIndInv

LEMMA LostPath == ASSUME PathIndInv, Lost PROVE PathIndInv'
  BY QuietPath, RequestGone DEF Lost, Ends

LEMMA IngestsPath == ASSUME PathConstants, PathIndInv, Ingests PROVE PathIndInv'
<1> PICK rows, n : rows = request.rows /\ n = Len(rows)
  OBVIOUS
<1>1. /\ rows \in [1..n -> waiting] /\ n \in 1..BatchLimit /\ DOMAIN rows = 1..n
      /\ BatchFits(rows)
      /\ \A i, j \in 1..n : rows[i].sampleId = rows[j].sampleId => i = j
  BY DEF Ingests, PathIndInv, RequestFits, BatchFits
<1>2. Range(rows) \subseteq waiting /\ \A i \in 1..n : rows[i] \in Range(rows)
  BY <1>1 DEF Range
<1>3. \A row \in Range(rows) : SampleSchema(row) /\ Insertable(row)
  BY <1>2, UsableAdmitted DEF PathIndInv, RowsFit
<1>4. BodySchema(rows)
  <2>1. DistinctIds(rows)
    BY <1>1, Distinct DEF DistinctIds, PathConstants
  <2>2. QED
    BY <1>1, <1>3, <2>1 DEF BodySchema
<1>5. /\ samples' = samples \cup Inserted(rows) /\ Answers(rows)
      /\ UNCHANGED <<waiting, taken>>
  BY <1>3, <1>4 DEF Ingests
<1>6. Inserted(rows) \subseteq waiting
  BY <1>1 DEF Inserted
<1>7. RowsFit'
  BY <1>5, <1>6 DEF PathIndInv, RowsFit, RowsTaken
<1>8. /\ DOMAIN verdict' = Ids
      /\ \A i \in Ids : IF \E row \in Range(rows) : row.sampleId = i
                        THEN verdict'[i] \in Decided ELSE verdict'[i] = verdict[i]
  <2>1. DOMAIN verdict' = Ids
    BY <1>5 DEF Answers
  <2>2. ASSUME NEW i \in Ids, \E row \in Range(rows) : row.sampleId = i
        PROVE  verdict'[i] \in Decided
    <3>1. PICK row \in Range(rows) :
             /\ row.sampleId = i
             /\ verdict'[i] = Verdict(row)
      BY <1>5, <2>2 DEF Answers
    <3>2. QED
      BY <1>2, <3>1, VerdictFits
  <2>3. ASSUME NEW i \in Ids, ~ \E row \in Range(rows) : row.sampleId = i
        PROVE  verdict'[i] = verdict[i]
    BY <1>5, <2>3 DEF Answers
  <2>4. QED
    BY <2>1, <2>2, <2>3
<1>9. verdict' \in [Ids -> {"none"} \cup Decided] /\ ForgottenOnceDecided'
  <2>1. "none" \notin Decided
    BY DEF Decided
  <2>2. \A i \in Ids : verdict'[i] \in {"none"} \cup Decided
                       /\ (verdict'[i] = "none" => verdict[i] = "none")
    BY <1>8, <2>1 DEF PathIndInv
  <2>3. verdict' \in [Ids -> {"none"} \cup Decided]
    <3>1. verdict' = [i \in Ids |-> verdict'[i]]
      BY <1>5 DEF Answers
    <3>2. QED
      BY <2>2, <3>1
  <2>4. ForgottenOnceDecided'
    BY <1>5, <2>2 DEF PathIndInv, ForgottenOnceDecided, Ids, PathConstants
  <2>5. QED
    BY <2>3, <2>4
<1>10. RequestFits'
  <2>1. /\ request'.at = "answered" /\ request'.rows = rows
        /\ request'.results = [j \in DOMAIN rows |-> Result(rows[j])]
    BY <1>5 DEF Answers, PathIndInv, Ingests
  <2>2. BatchFits(rows)'
    BY <1>1, <1>5 DEF BatchFits
  <2>3. \A j \in 1..n : /\ Result(rows[j]) = [sampleId |-> rows[j].sampleId,
                                             said |-> Verdict(rows[j])]
                        /\ rows[j].sampleId \in Ids /\ Verdict(rows[j]) \in Decided
    BY <1>1, VerdictFits DEF Result, PathIndInv, RowsFit, RowsTaken, Ids, PathConstants
  <2>4. \A j \in 1..n : verdict'[rows[j].sampleId] # "none"
    BY <1>2, <1>8, <2>3 DEF Decided
  <2>5. AnswerFits(rows, request.results)'
    <3>1. [j \in DOMAIN rows |-> Result(rows[j])]
             \in [1..n -> [sampleId : Ids, said : Decided]]
      BY <1>1, <2>3 DEF Result
    <3>2. \A j \in 1..n : Result(rows[j]).sampleId = rows[j].sampleId
      BY <2>3 DEF Result
    <3>3. \A j \in 1..n : request'.results[j].sampleId = rows[j].sampleId
      BY <1>1, <2>1, <3>2
    <3>4. QED
      BY <2>1, <2>4, <3>1, <3>3 DEF AnswerFits
  <2>6. QED
    BY <2>1, <2>2, <2>5 DEF RequestFits
<1>11. QED
  BY <1>5, <1>7, <1>9, <1>10 DEF PathIndInv, Answers

\* A damaged answer may have become shorter or longer; one that is as long as the
\* batch has the batch's places.
LEMMA DamagedFits ==
    ASSUME NEW R, NEW n \in Nat \ {0}, NEW results \in [1..n -> R],
           NEW damaged \in Damaged(results), Len(damaged) = n
    PROVE  DOMAIN damaged = 1..n
<1>1. DOMAIN results = 1..n /\ Len(results) = n /\ results \in Seq(R)
  OBVIOUS
<1>2. \/ damaged \in {SubSeq(results, 1, n - 1), Append(results, results[n])}
      \/ damaged \in {[results EXCEPT ![i] = results[j]] : i, j \in 1..n}
      \/ damaged \in UNION {{[results EXCEPT ![i] = result] :
                                result \in Misstated(results[i])} : i \in 1..n}
  BY <1>1, SMTT(20) DEF Damaged
<1>3. CASE damaged \in {SubSeq(results, 1, n - 1), Append(results, results[n])}
  BY <1>1, <1>3
<1>4. CASE damaged \in {[results EXCEPT ![i] = results[j]] : i, j \in 1..n}
  BY <1>1, <1>4
<1>5. CASE damaged \in UNION {{[results EXCEPT ![i] = result] :
                                  result \in Misstated(results[i])} : i \in 1..n}
  BY <1>1, <1>5
<1>6. QED
  BY <1>2, <1>3, <1>4, <1>5

LEMMA HearsAnswerPath ==
    ASSUME PathConstants, PathIndInv, HearsAnswer PROVE PathIndInv'
<1> PICK rows, n : rows = request.rows /\ n = Len(rows)
  OBVIOUS
<1>1. PICK results \in Damaged(request.results) \cup {request.results} : Finishes(results)
  BY DEF HearsAnswer
<1>2. /\ UNCHANGED <<taken, samples, verdict>> /\ request.at = "answered"
  BY DEF HearsAnswer
<1>3. /\ rows \in [1..n -> waiting] /\ n \in 1..BatchLimit /\ n \in Nat \ {0}
      /\ request.results \in [1..n -> [sampleId : Ids, said : Decided]]
      /\ \A i \in 1..n : /\ request.results[i].sampleId = rows[i].sampleId
                         /\ verdict[rows[i].sampleId] # "none"
  BY <1>2 DEF PathIndInv, RequestFits, BatchFits, AnswerFits, PathConstants
<1>4. ParsesResults(request.results) /\ Corresponds(request.results, rows)
  BY <1>3 DEF ParsesResults, Corresponds, Contract, Decided, Range
<1>5. CASE ParsesResults(results) /\ Corresponds(results, rows)
  <2>1. Deletes(results) /\ Ends("progress", results # request.results)
    BY <1>1, <1>5 DEF Finishes
  <2>2. DOMAIN results = 1..n
    <3>1. Len(results) = n
      BY <1>5 DEF Corresponds
    <3>2. CASE results = request.results
      BY <1>3, <3>2
    <3>3. CASE results \in Damaged(request.results)
      BY <1>3, <3>1, <3>3, DamagedFits
    <3>4. QED
      BY <1>1, <3>2, <3>3
  <2>3. \A result \in Range(results) : result.sampleId \in 1..taken
                                       /\ verdict[result.sampleId] # "none"
    BY <1>3, <1>5, <2>2 DEF Corresponds, Range, PathIndInv, RowsFit, RowsTaken
  <2>4. /\ waiting' \subseteq waiting
        /\ \A row \in waiting \ waiting' : verdict[row.sampleId] # "none"
    BY <2>1, <2>3 DEF Deletes
  <2>5. RowsFit'
    BY <1>2, <2>4, FS_Subset DEF PathIndInv, RowsFit, RowsTaken
  <2>6. ForgottenOnceDecided'
    BY <1>2, <2>4 DEF PathIndInv, ForgottenOnceDecided
  <2>7. outcome' = "progress" /\ RequestFits'
    BY <2>1, RequestGone DEF Ends
  <2>8. QED
    BY <1>2, <2>5, <2>6, <2>7 DEF PathIndInv
<1>6. CASE ~(ParsesResults(results) /\ Corresponds(results, rows))
  <2>1. Ends("blocked-protocol", results # request.results) /\ UNCHANGED waiting
    BY <1>1, <1>6 DEF Finishes
  <2>2. results # request.results
    BY <1>4, <1>6
  <2>3. QED
    BY <1>2, <2>1, <2>2, QuietPath, RequestGone DEF Ends
<1>7. QED
  BY <1>5, <1>6

\* Every position the phone keeps is admitted by every later place, one that is gone
\* from the phone was decided on, and what is stored is shown, whatever is lost or
\* damaged on the way.
THEOREM PathInvariant == ASSUME PathConstants PROVE PathSpec => []SamplePathInv
<1>1. PathInit => PathIndInv
  BY PathStarts
<1>2. PathIndInv /\ [PathNext]_pathVars => PathIndInv'
  <2>1. CASE UNCHANGED pathVars
    BY <2>1 DEF pathVars, PathIndInv, RowsFit, RowsTaken, RequestFits, BatchFits, AnswerFits,
                ForgottenOnceDecided
  <2>2. CASE PathNext
    BY <2>2, CapturesPath, BeginsPassPath, LostPath, IngestsPath, HearsAnswerPath
       DEF PathNext
  <2>3. QED
    BY <2>1, <2>2
<1>3. PathIndInv => SamplePathInv
  BY PathHolds
<1>4. QED
  BY <1>1, <1>2, <1>3, PTL DEF PathSpec
=============================================================================
