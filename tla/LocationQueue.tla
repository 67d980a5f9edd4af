---------------------------- MODULE LocationQueue ---------------------------
(***************************************************************************)
(* TripLocationQueue: the SQLite table every login of the phone shares, and *)
(* the count of samples each of them lost to the cap.  The capture service  *)
(* inserts on its worker thread while JavaScript reads, deletes and         *)
(* acknowledges on the module's.                                            *)
(***************************************************************************)
EXTENDS Integers, FiniteSets

CONSTANTS
    Owner,         \* logins that use this phone
    Sample,        \* sample ids, numbered as the queue is read
    MaxQueued,     \* MAX_QUEUED_SAMPLES_PER_OWNER
    NoOwner

ASSUME QueueAssumption ==
    Sample \subseteq Nat /\ MaxQueued \in Nat \ {0} /\ NoOwner \notin Owner

VARIABLES
    rows,          \* trip_location_queue
    dropped,       \* trip_location_queue_state.dropped_count
    session,       \* the owner whose trip is being captured
    acking,        \* owners whose acknowledgement has read the count, not cleared it
    shown,         \* the count on the owner's screen
    used, lost, cleared     \* history: ids captured, samples evicted, counts cleared

table == <<rows, dropped>>
history == <<used, lost, cleared>>
queueVars == <<table, session, acking, shown, history>>

Row == [id : Sample, owner : Owner]

QueueInit ==
    /\ rows = {} /\ dropped = [o \in Owner |-> 0]
    /\ session = NoOwner /\ acking = {} /\ shown = [o \in Owner |-> 0]
    /\ used = {} /\ lost = {} /\ cleared = [o \in Owner |-> 0]

Of(set, o) == {r \in set : r.owner = o}
-----------------------------------------------------------------------------
\* The owner's oldest rows, as many as there are over the cap.
Evicted(set, o) ==
    {r \in Of(set, o) :
        Cardinality({q \in Of(set, o) : q.id < r.id}) < Cardinality(Of(set, o)) - MaxQueued}

\* Variant: the counter is set, not increased.
CountedAfresh(o, n) == IF n = 0 THEN dropped ELSE [dropped EXCEPT ![o] = n]

Counted(o, n) == [dropped EXCEPT ![o] = @ + n]

\* Insert, eviction and count are one transaction.
Enqueue(s) ==
    LET all == rows \cup {[id |-> s, owner |-> session]}
        out == Evicted(all, session)
    IN
    /\ session # NoOwner /\ s \notin used
    /\ rows' = all \ out
    /\ dropped' = Counted(session, Cardinality(out))
    /\ used' = used \cup {s} /\ lost' = lost \cup out
    /\ UNCHANGED <<session, acking, shown, cleared>>

\* The drain of some owner, perhaps of one who signed out meanwhile.
Delete(o, ids) ==
    /\ \E r \in Of(rows, o) : r.id \in ids
    /\ rows' = {r \in rows : ~(r.owner = o /\ r.id \in ids)}
    /\ UNCHANGED <<dropped, session, acking, shown, history>>

ReadStatus(o) ==
    /\ shown' = [shown EXCEPT ![o] = dropped[o]]
    /\ UNCHANGED <<table, session, acking, history>>

\* The driver acknowledges the gap on screen; the count is read, and then
\* cleared whatever it has become.
Acknowledge(o) ==
    /\ shown[o] > 0 /\ o \notin acking
    /\ acking' = acking \cup {o}
    /\ UNCHANGED <<table, session, shown, history>>

AcknowledgeClear(o) ==
    /\ o \in acking /\ acking' = acking \ {o}
    /\ cleared' = [cleared EXCEPT ![o] = @ + dropped[o]]
    /\ dropped' = [dropped EXCEPT ![o] = 0]
    /\ UNCHANGED <<rows, session, shown, used, lost>>

\* A trip starts or resumes, or stops: capture is for one owner at a time.
StartCapture(o) ==
    /\ session = NoOwner /\ session' = o
    /\ UNCHANGED <<table, acking, shown, history>>

StopCapture ==
    /\ session # NoOwner /\ session' = NoOwner
    /\ UNCHANGED <<table, acking, shown, history>>

\* The process dies: the table is what SQLite committed.
QueueCrash ==
    /\ session' = NoOwner /\ acking' = {} /\ shown' = [o \in Owner |-> 0]
    /\ UNCHANGED <<table, history>>

QueueNext ==
    \/ \E s \in Sample : Enqueue(s)
    \/ \E o \in Owner :
          \/ \E ids \in SUBSET Sample : Delete(o, ids)
          \/ ReadStatus(o) \/ Acknowledge(o) \/ AcknowledgeClear(o) \/ StartCapture(o)
    \/ StopCapture \/ QueueCrash

QueueSpec == QueueInit /\ [][QueueNext]_queueVars
-----------------------------------------------------------------------------
QueueTypeOK ==
    /\ rows \subseteq Row /\ lost \subseteq Row /\ used \subseteq Sample
    /\ session \in Owner \cup {NoOwner} /\ acking \subseteq Owner
    /\ dropped \in [Owner -> Nat] /\ shown \in [Owner -> Nat] /\ cleared \in [Owner -> Nat]

\* No owner's rows exceed the cap, and each lost sample is counted once,
\* pending or acknowledged.
QueueInv ==
    /\ QueueTypeOK
    /\ \A o \in Owner :
          /\ Cardinality(Of(rows, o)) <= MaxQueued
          /\ dropped[o] + cleared[o] = Cardinality(Of(lost, o))

\* "The loss is never silent": the count is cleared only after the driver was
\* shown all of it.
LossNeverSilent ==
    [][\A o \in Owner : dropped'[o] < dropped[o] => shown[o] = dropped[o]]_queueVars
=============================================================================
