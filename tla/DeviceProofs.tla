---------------------------- MODULE DeviceProofs ----------------------------
(***************************************************************************)
(* The native half of the phone.  Its queue of positions: the cap and the  *)
(* count of what it cost, who may put a fix into it, what the filter       *)
(* before it may leave out, and the errand that empties it.  Then the      *)
(* service that captures: whom it serves, and what it tells a caller.      *)
(* Then the orchestrator in front of it: what the driver is told of the    *)
(* capture, and what an ended login leaves of it.  For every number of     *)
(* logins, sessions, samples, callbacks, callers, operations and trips,    *)
(* every cap and every displacement.                                       *)
(***************************************************************************)
EXTENDS LocationQueue, BackgroundDrain, FixAdmission, CaptureService, TripTracking,
        FiniteSetTheorems, SequenceTheorems, WellFoundedInduction, TLAPS

USE QueueAssumption, NullAssumption

\* What the count rests on: the table is finite, a sample is captured once, and
\* what is lost is not in the table any more.
QueueIndInv ==
    /\ QueueInv
    /\ IsFiniteSet(rows) /\ IsFiniteSet(lost) /\ rows \cap lost = {}
    /\ \A r \in rows \cup lost : r.id \in used
    /\ \A r, q \in rows \cup lost : r.id = q.id => r = q

USE DEF table, history

\* A login's share of a finite table is finite.
LEMMA ShareLemma ==
    ASSUME NEW set, IsFiniteSet(set), NEW o
    PROVE  /\ IsFiniteSet(Of(set, o)) /\ Cardinality(Of(set, o)) \in Nat
           /\ \A some \in SUBSET set : IsFiniteSet(some) /\ Cardinality(some) \in Nat
<1>1. Of(set, o) \in SUBSET set
  BY DEF Of
<1>2. QED
  BY <1>1, FS_Subset, FS_CardinalityType

\* Disjoint finite sets add up.
LEMMA DisjointLemma ==
    ASSUME NEW S, NEW T, IsFiniteSet(S), IsFiniteSet(T), S \cap T = {}
    PROVE  Cardinality(S \cup T) = Cardinality(S) + Cardinality(T)
<1>1. Cardinality(S \cup T) = Cardinality(S) + Cardinality(T) - Cardinality(S \cap T)
  BY FS_Union
<1>2. Cardinality(S \cap T) = 0
  BY FS_EmptySet
<1>3. Cardinality(S) \in Nat /\ Cardinality(T) \in Nat
  BY FS_CardinalityType
<1>4. QED
  BY <1>1, <1>2, <1>3

\* Among a login's rows one is the oldest.
LEMMA OldestLemma ==
    ASSUME NEW set, set \subseteq Row, set # {}
    PROVE  \E m \in set : \A r \in set : m.id <= r.id
<1> DEFINE ids == {r.id : r \in set}
<1>1. ids \subseteq Nat /\ ids # {}
  BY DEF Row
<1>2. PICK i \in ids : \A j \in ids : ~ (<<j, i>> \in OpToRel(<, Nat))
  BY <1>1, NatLessThanWellFounded, WFMin
<1>3. ASSUME NEW j \in ids PROVE i <= j
  <2>1. i \in Nat /\ j \in Nat /\ ~ (j < i)
    BY <1>1, <1>2 DEF OpToRel
  <2>2. QED
    BY <2>1
<1>4. PICK m \in set : m.id = i
  OBVIOUS
<1>5. QED
  BY <1>3, <1>4

\* One row over the cap costs the oldest one, and nothing else does.
LEMMA EvictedLemma ==
    ASSUME NEW all, all \subseteq Row, IsFiniteSet(all), NEW o,
           Cardinality(Of(all, o)) <= MaxQueued + 1,
           \A r, q \in Of(all, o) : r.id = q.id => r = q
    PROVE  LET out == Evicted(all, o) IN
           /\ out \subseteq Of(all, o) /\ IsFiniteSet(out)
           /\ Cardinality(Of(all, o) \ out) <= MaxQueued
<1> DEFINE mine == Of(all, o)
           out == Evicted(all, o)
           younger(r) == {q \in mine : q.id < r.id}
<1>1. /\ mine \subseteq Row /\ IsFiniteSet(mine) /\ Cardinality(mine) \in Nat
      /\ \A r \in mine : IsFiniteSet(younger(r)) /\ Cardinality(younger(r)) \in Nat
  <2>1. \A r \in mine : younger(r) \in SUBSET all
    BY DEF Of
  <2>2. QED
    BY <2>1, ShareLemma DEF Of
<1>2. out = {r \in mine : Cardinality(younger(r)) < Cardinality(mine) - MaxQueued}
  BY DEF Evicted
<1> HIDE DEF out, younger, mine
<1>3. CASE Cardinality(mine) <= MaxQueued
  <2>1. out = {}
    <3>1. \A r \in mine : ~ (Cardinality(younger(r)) < Cardinality(mine) - MaxQueued)
      BY <1>1, <1>3
    <3>2. QED
      BY <1>2, <3>1
  <2>2. QED
    BY <1>3, <2>1, FS_EmptySet DEF out, mine
<1>4. CASE Cardinality(mine) = MaxQueued + 1
  <2>1. mine # {}
    BY <1>4, FS_EmptySet
  <2>2. PICK m \in mine : \A r \in mine : m.id <= r.id
    BY <1>1, <2>1, OldestLemma
  <2>3. m \in out
    <3>1. younger(m) = {}
      <4>1. ASSUME NEW q \in mine PROVE ~ (q.id < m.id)
        <5>1. q.id \in Nat /\ m.id \in Nat /\ m.id <= q.id
          BY <1>1, <2>2 DEF Row
        <5>2. QED
          BY <5>1
      <4>2. QED
        BY <4>1 DEF younger
    <3>2. Cardinality(younger(m)) = 0
      BY <3>1, FS_EmptySet
    <3>3. QED
      BY <1>2, <1>4, <2>2, <3>2
  <2>4. Cardinality(mine \ {m}) = MaxQueued
    <3>1. Cardinality(mine \ {m}) = Cardinality(mine) - 1
      BY <1>1, <2>2, FS_RemoveElement
    <3>2. QED
      BY <1>4, <3>1
  <2>5. out \subseteq mine /\ mine \ out \in SUBSET (mine \ {m}) /\ IsFiniteSet(mine \ {m})
    BY <1>1, <1>2, <2>3, FS_RemoveElement
  <2>6. Cardinality(mine \ out) <= MaxQueued /\ IsFiniteSet(out)
    BY <1>1, <2>4, <2>5, FS_Subset
  <2>7. QED
    BY <2>5, <2>6 DEF out, mine
<1>5. QED
  BY <1>1, <1>3, <1>4 DEF mine
-----------------------------------------------------------------------------
\* A sample is inserted, and what is evicted for it is counted.
LEMMA EnqueueStep == ASSUME QueueIndInv, NEW s \in Sample, Enqueue(s) PROVE QueueIndInv'
<1> PICK new, all, out :
        new = [id |-> s, owner |-> session] /\ all = rows \cup {new} /\ out = Evicted(all, session)
  OBVIOUS
<1>1. /\ session \in Owner /\ s \notin used
      /\ rows' = all \ out /\ lost' = lost \cup out /\ used' = used \cup {s}
      /\ dropped' = [dropped EXCEPT ![session] = @ + Cardinality(out)]
      /\ UNCHANGED <<session, acking, shown, cleared>>
  BY DEF Enqueue, Counted, QueueIndInv, QueueInv, QueueTypeOK
<1>2. /\ new \in Row /\ new.id = s /\ new.owner = session /\ new \notin rows \cup lost
      /\ all \subseteq Row /\ IsFiniteSet(all)
  BY <1>1, FS_AddElement DEF Row, QueueIndInv, QueueInv, QueueTypeOK
<1>3. /\ Of(all, session) = Of(rows, session) \cup {new} /\ new \notin Of(rows, session)
      /\ Cardinality(Of(all, session)) = Cardinality(Of(rows, session)) + 1
  <2>1. Of(all, session) = Of(rows, session) \cup {new} /\ new \notin Of(rows, session)
    BY <1>2 DEF Of
  <2>2. IsFiniteSet(Of(rows, session))
    BY ShareLemma DEF QueueIndInv
  <2>3. QED
    <3>1. Cardinality(Of(rows, session) \cup {new}) = Cardinality(Of(rows, session)) + 1
      BY <2>1, <2>2, FS_AddElement
    <3>2. QED
      BY <2>1, <3>1
<1>4. \A r, q \in all \cup lost : r.id = q.id => r = q
  BY <1>1, <1>2 DEF QueueIndInv
<1>5. /\ out \subseteq Of(all, session) /\ IsFiniteSet(out) /\ Cardinality(out) \in Nat
      /\ Cardinality(Of(all, session) \ out) <= MaxQueued
  <2>1. Cardinality(Of(rows, session)) \in Nat /\ Cardinality(Of(rows, session)) <= MaxQueued
    BY <1>1, ShareLemma DEF QueueIndInv, QueueInv
  <2>2. Cardinality(Of(all, session)) <= MaxQueued + 1
    BY <1>3, <2>1
  <2>3. \A r, q \in Of(all, session) : r.id = q.id => r = q
    BY <1>4 DEF Of
  <2>4. QED
    BY <1>2, <2>2, <2>3, EvictedLemma, FS_CardinalityType
<1>6. out \subseteq all /\ out \cap lost = {} /\ rows' \cup lost' \subseteq all \cup lost
  <2>1. out \subseteq all
    BY <1>5 DEF Of
  <2>2. all \cap lost = {}
    BY <1>2 DEF QueueIndInv
  <2>3. QED
    BY <1>1, <2>1, <2>2
<1>7. QueueTypeOK'
  <2>1. rows' \subseteq Row /\ lost' \subseteq Row /\ used' \subseteq Sample
    BY <1>1, <1>2, <1>6 DEF QueueIndInv, QueueInv, QueueTypeOK
  <2>2. dropped' \in [Owner -> Nat]
    BY <1>1, <1>5 DEF QueueIndInv, QueueInv, QueueTypeOK
  <2>3. QED
    BY <1>1, <2>1, <2>2 DEF QueueIndInv, QueueInv, QueueTypeOK
<1>8. ASSUME NEW o \in Owner
      PROVE  /\ Cardinality(Of(rows, o))' <= MaxQueued
             /\ dropped'[o] + cleared'[o] = Cardinality(Of(lost, o))'
  <2>1. CASE o = session
    <3>1. Of(rows', o) = Of(all, o) \ out /\ Of(lost', o) = Of(lost, o) \cup out
          /\ Of(lost, o) \cap out = {}
      BY <1>1, <1>5, <1>6, <2>1 DEF Of
    <3>2. IsFiniteSet(Of(lost, o)) /\ Cardinality(Of(lost, o)) \in Nat
      BY ShareLemma DEF QueueIndInv
    <3>3. Cardinality(Of(lost', o)) = Cardinality(Of(lost, o)) + Cardinality(out)
      BY <1>5, <3>1, <3>2, DisjointLemma
    <3>4. /\ dropped'[o] = dropped[o] + Cardinality(out) /\ cleared'[o] = cleared[o]
          /\ dropped[o] \in Nat /\ cleared[o] \in Nat
          /\ dropped[o] + cleared[o] = Cardinality(Of(lost, o))
      BY <1>1, <2>1 DEF QueueIndInv, QueueInv, QueueTypeOK
    <3>5. dropped'[o] + cleared'[o] = Cardinality(Of(lost', o))
      BY <1>5, <3>2, <3>3, <3>4
    <3>6. QED
      BY <1>5, <2>1, <3>1, <3>5
  <2>2. CASE o # session
    <3>1. Of(rows', o) = Of(rows, o) /\ Of(lost', o) = Of(lost, o)
      BY <1>1, <1>2, <1>5, <2>2 DEF Of
    <3>2. QED
      BY <1>1, <2>2, <3>1 DEF QueueIndInv, QueueInv, QueueTypeOK
  <2>3. QED
    BY <2>1, <2>2
<1>9. IsFiniteSet(rows') /\ IsFiniteSet(lost') /\ rows' \cap lost' = {}
  <2>1. rows' \in SUBSET all
    BY <1>1
  <2>2. IsFiniteSet(rows')
    BY <1>2, <2>1, FS_Subset
  <2>3. IsFiniteSet(lost')
    BY <1>1, <1>5, FS_Union DEF QueueIndInv
  <2>4. rows' \cap lost' = {}
    <3>1. all \cap lost = {}
      BY <1>2 DEF QueueIndInv
    <3>2. QED
      BY <1>1, <3>1
  <2>5. QED
    BY <2>2, <2>3, <2>4
<1>10. /\ \A r \in rows' \cup lost' : r.id \in used'
       /\ \A r, q \in rows' \cup lost' : r.id = q.id => r = q
  <2>1. \A r \in all \cup lost : r.id \in used'
    BY <1>1, <1>2 DEF QueueIndInv
  <2>2. QED
    BY <1>4, <1>6, <2>1
<1>11. QED
  BY <1>7, <1>8, <1>9, <1>10 DEF QueueIndInv, QueueInv

\* Deleting rows frees room and loses nothing.
LEMMA DeleteStep ==
    ASSUME QueueIndInv, NEW d \in Owner, NEW ids, Delete(d, ids) PROVE QueueIndInv'
<1>1. rows' \in SUBSET rows /\ UNCHANGED <<dropped, session, acking, shown, history>>
  BY DEF Delete
<1>2. QueueTypeOK'
  BY <1>1 DEF QueueIndInv, QueueInv, QueueTypeOK
<1>3. ASSUME NEW o \in Owner PROVE Cardinality(Of(rows', o)) <= MaxQueued
  <2>1. Of(rows', o) \in SUBSET Of(rows, o) /\ IsFiniteSet(Of(rows, o))
    BY <1>1, ShareLemma DEF Of, QueueIndInv
  <2>2. /\ Cardinality(Of(rows', o)) <= Cardinality(Of(rows, o)) /\ IsFiniteSet(Of(rows', o))
    BY <2>1, FS_Subset
  <2>3. /\ Cardinality(Of(rows', o)) \in Nat /\ Cardinality(Of(rows, o)) \in Nat
    BY <2>1, <2>2, FS_CardinalityType
  <2>4. QED
    BY <2>2, <2>3 DEF QueueIndInv, QueueInv
<1>4. IsFiniteSet(rows')
  BY <1>1, FS_Subset DEF QueueIndInv
<1>5. QED
  BY <1>1, <1>2, <1>3, <1>4 DEF QueueIndInv, QueueInv

\* An acknowledgement moves the pending count to the cleared one.
LEMMA ClearStep ==
    ASSUME QueueIndInv, NEW d \in Owner, AcknowledgeClear(d) PROVE QueueIndInv'
<1>1. /\ dropped' = [dropped EXCEPT ![d] = 0] /\ cleared' = [cleared EXCEPT ![d] = @ + dropped[d]]
      /\ acking' \subseteq acking /\ UNCHANGED <<rows, session, shown, used, lost>>
  BY DEF AcknowledgeClear
<1>2. dropped \in [Owner -> Nat] /\ cleared \in [Owner -> Nat]
  BY DEF QueueIndInv, QueueInv, QueueTypeOK
<1>3. \A o \in Owner : dropped'[o] + cleared'[o] = dropped[o] + cleared[o]
  BY <1>1, <1>2
<1>4. QueueTypeOK'
  BY <1>1, <1>2 DEF QueueIndInv, QueueInv, QueueTypeOK
<1>5. QED
  BY <1>1, <1>3, <1>4 DEF QueueIndInv, QueueInv, Of

\* The rest leaves the table and the counts alone.
LEMMA OtherStep ==
    ASSUME QueueIndInv,
           \/ \E o \in Owner : ReadStatus(o) \/ Acknowledge(o) \/ StartCapture(o)
           \/ StopCapture \/ QueueCrash \/ UNCHANGED queueVars
    PROVE  QueueIndInv'
<1>1. UNCHANGED <<table, history>>
  BY DEF ReadStatus, Acknowledge, StartCapture, StopCapture, QueueCrash, queueVars
<1>2. /\ session' \in Owner \cup {NoOwner} /\ acking' \subseteq Owner
      /\ shown' \in [Owner -> Nat]
  BY DEF ReadStatus, Acknowledge, StartCapture, StopCapture, QueueCrash, queueVars,
         QueueIndInv, QueueInv, QueueTypeOK
<1>3. QED
  BY <1>1, <1>2 DEF QueueIndInv, QueueInv, QueueTypeOK, Of

\* The queue's invariant (enqueue, evictOldest and acknowledgeDropped of
\* NativeLocationQueue.kt): no login's rows exceed the cap, and every sample lost
\* to the cap is counted exactly once, pending or acknowledged.
THEOREM QueueInvariant == QueueSpec => []QueueInv
<1>1. QueueInit => QueueIndInv
  <2>1. \A o \in Owner : Of({}, o) = {}
    BY DEF Of
  <2>2. QED
    BY <2>1, FS_EmptySet DEF QueueInit, QueueIndInv, QueueInv, QueueTypeOK
<1>2. QueueIndInv /\ [QueueNext]_queueVars => QueueIndInv'
  BY EnqueueStep, DeleteStep, ClearStep, OtherStep DEF QueueNext
<1>3. QueueIndInv => QueueInv
  BY DEF QueueIndInv
<1>4. QED
  BY <1>1, <1>2, <1>3, PTL DEF QueueSpec
-----------------------------------------------------------------------------
(* The background errand: the fence only ever moves on. *)

\* An errand is no younger than the fence, and one a sign-out has left behind is
\* older than the fence, whoever has opened it since.
ErrandIndInv ==
    /\ ErrandTypeOK
    /\ errand.epoch <= fence.epoch
    /\ errand.behind => errand.epoch < fence.epoch

LEMMA ErrandStart == ASSUME ErrandInit PROVE ErrandIndInv
<1>1. 0 \in 0..MaxEpoch /\ 0 \in 0..MaxBatches
  BY DrainBoundsAssumption
<1>2. /\ fence = [epoch |-> 0, owner |-> NoDriver]
      /\ errand = [owner |-> NoDriver, epoch |-> 0, batches |-> 0, behind |-> FALSE]
  BY DEF ErrandInit, NoErrand
<1>3. /\ fence \in [epoch : 0..MaxEpoch, owner : Driver \cup {NoDriver}]
      /\ errand \in [owner : Driver \cup {NoDriver}, epoch : 0..MaxEpoch,
                    batches : 0..MaxBatches, behind : BOOLEAN]
  <2>1. FALSE \in BOOLEAN /\ NoDriver \in Driver \cup {NoDriver}
    OBVIOUS
  <2>2. QED
    BY <1>1, <1>2, <2>1
<1>4. errand.epoch <= fence.epoch /\ ~errand.behind
  BY <1>2
<1>5. QED
  BY <1>3, <1>4 DEF ErrandInit, ErrandIndInv, ErrandTypeOK

\* Opening and closing the fence mint an epoch above every errand's.
LEMMA FenceStep ==
    ASSUME ErrandIndInv, NEW o \in Driver \cup {NoDriver}, Fence(o)
    PROVE  /\ fence' \in [epoch : 0..MaxEpoch, owner : Driver \cup {NoDriver}]
           /\ errand.epoch < fence'.epoch
<1>1. /\ fence.epoch \in Nat /\ errand.epoch \in Nat /\ errand.epoch <= fence.epoch
      /\ fence.epoch < MaxEpoch /\ MaxEpoch \in Nat
  BY DrainBoundsAssumption DEF ErrandIndInv, ErrandTypeOK, Fence
<1>2. fence' = [epoch |-> fence.epoch + 1, owner |-> o]
  BY DEF Fence
<1>3. fence.epoch + 1 \in 0..MaxEpoch /\ errand.epoch < fence.epoch + 1
  BY <1>1
<1>4. QED
  BY <1>2, <1>3

LEMMA ErrandStep ==
    ASSUME ErrandIndInv, [ErrandNext]_errandVars PROVE ErrandIndInv'
<1> USE DEF ErrandIndInv, ErrandTypeOK
<1>1. ASSUME NEW d \in Driver, SignIn(d) PROVE ErrandIndInv'
  BY <1>1 DEF SignIn
<1>2. ASSUME NEW d \in Driver, Kick(d) PROVE ErrandIndInv'
  <2>1. errand' = [owner |-> d, epoch |-> fence.epoch, batches |-> 1, behind |-> FALSE]
        /\ UNCHANGED <<fence, signedIn, initialized, leaving>> /\ 1 \in 0..MaxBatches
    BY <1>2, DrainBoundsAssumption DEF Kick
  <2>2. QED
    BY <2>1
<1>3. CASE Initialize
  <2>1. /\ errand.epoch < fence'.epoch
        /\ fence' \in [epoch : 0..MaxEpoch, owner : Driver \cup {NoDriver}]
    BY <1>3, FenceStep DEF Initialize
  <2>2. QED
    BY <1>3, <2>1 DEF Initialize
<1>4. CASE SignOut
  <2>1. /\ errand.epoch < fence'.epoch
        /\ fence' \in [epoch : 0..MaxEpoch, owner : Driver \cup {NoDriver}]
    BY <1>4, FenceStep DEF SignOut
  <2>2. PICK behind \in BOOLEAN : errand' = [errand EXCEPT !.behind = behind]
    BY <1>4 DEF SignOut
  <2>3. /\ errand'.epoch = errand.epoch
        /\ errand' \in [owner : Driver \cup {NoDriver}, epoch : 0..MaxEpoch,
                       batches : 0..MaxBatches, behind : BOOLEAN]
    BY <2>2
  <2>4. errand'.epoch <= fence'.epoch
    BY <2>1, <2>3
  <2>5. QED
    BY <1>4, <2>1, <2>3, <2>4 DEF SignOut
<1>5. CASE RollbackFence
  <2>1. /\ errand.epoch < fence'.epoch
        /\ fence' \in [epoch : 0..MaxEpoch, owner : Driver \cup {NoDriver}]
    BY <1>5, FenceStep DEF RollbackFence
  <2>2. errand' = errand /\ leaving' = FALSE /\ UNCHANGED <<signedIn, initialized>>
    BY <1>5 DEF RollbackFence
  <2>3. errand.epoch <= fence'.epoch
    BY <2>1
  <2>4. QED
    BY <2>1, <2>2, <2>3
<1>6. CASE SessionEnds
  BY <1>6 DEF SessionEnds
<1>7. CASE NextBatch
  <2>1. errand.batches + 1 \in 0..MaxBatches
    BY <1>7, DrainBoundsAssumption DEF NextBatch
  <2>2. QED
    BY <1>7, <2>1 DEF NextBatch
<1>8. CASE TaskEnds
  <2>1. errand' = NoErrand /\ UNCHANGED <<fence, signedIn, initialized, leaving>>
    BY <1>8 DEF TaskEnds
  <2>2. QED
    BY <2>1, DrainBoundsAssumption DEF NoErrand
<1>9. CASE UNCHANGED errandVars
  BY <1>9 DEF errandVars
<1>10. QED
  BY <1>1, <1>2, <1>3, <1>4, <1>5, <1>6, <1>7, <1>8, <1>9 DEF ErrandNext

\* What permits a batch is the fence the errand was started under, so none is
\* behind a sign-out.
LEMMA BatchStep ==
    ASSUME ErrandIndInv, [ErrandNext]_errandVars, errand'.batches > errand.batches
    PROVE  ~errand'.behind /\ signedIn = errand'.owner
<1>1. errand.batches \in Nat /\ ~ (errand.batches > errand.batches) /\ ~ (0 > errand.batches)
  BY DEF ErrandIndInv, ErrandTypeOK
<1>2. ASSUME NEW d \in Driver, Kick(d) PROVE ~errand'.behind /\ signedIn = errand'.owner
  BY <1>2 DEF Kick, StillPermitted
<1>3. CASE NextBatch
  <2>1. /\ fence.epoch = errand.epoch /\ signedIn = errand.owner
        /\ errand'.behind = errand.behind /\ errand'.owner = errand.owner
    BY <1>3 DEF NextBatch, StillPermitted, ErrandIndInv, ErrandTypeOK
  <2>2. ~ (errand.epoch < errand.epoch)
    BY DEF ErrandIndInv, ErrandTypeOK
  <2>3. QED
    BY <2>1, <2>2 DEF ErrandIndInv
<1>4. CASE \/ \E d \in Driver : SignIn(d)
           \/ Initialize \/ RollbackFence \/ SessionEnds \/ UNCHANGED errandVars
  <2>1. errand' = errand
    BY <1>4 DEF SignIn, Initialize, RollbackFence, SessionEnds, errandVars
  <2>2. QED
    BY <1>1, <2>1
<1>5. CASE SignOut
  <2>1. errand'.batches = errand.batches
    BY <1>5 DEF SignOut, ErrandIndInv, ErrandTypeOK
  <2>2. QED
    BY <1>1, <2>1
<1>6. CASE TaskEnds
  <2>1. errand'.batches = 0
    BY <1>6 DEF TaskEnds, NoErrand
  <2>2. QED
    BY <1>1, <2>1
<1>7. QED
  BY <1>2, <1>3, <1>4, <1>5, <1>6 DEF ErrandNext

\* No batch behind a sign-out (runBackgroundDrain's check of the fence before
\* each batch): not behind one that failed and was rolled back, not behind one
\* another driver's login followed, and never for somebody who is not signed in.
THEOREM FencedErrand == ErrandSpec => NoBatchBehindSignOut
<1>1. ErrandInit => ErrandIndInv
  BY ErrandStart
<1>2. ErrandIndInv /\ [ErrandNext]_errandVars => ErrandIndInv'
  BY ErrandStep
<1>3. ErrandIndInv /\ [ErrandNext]_errandVars =>
          [errand'.batches > errand.batches =>
              ~errand'.behind /\ signedIn = errand'.owner]_errandVars
  BY BatchStep
<1>4. QED
  BY <1>1, <1>2, <1>3, PTL DEF ErrandSpec, NoBatchBehindSignOut
-----------------------------------------------------------------------------
(* The way of a fix to the queue. *)

\* What the long holder of the monitor relies on.  Once its row is inserted the
\* filter lags behind the queue, until the fix is accepted; at every other
\* moment what the filter remembers is what the queue has.
Lags(s) == HandlerAt("accept") /\ handling.for = s

FixIndInv ==
    /\ FixTypeOK /\ NoRowBehindAStop
    /\ HandlerAt("accept") => stored[handling.for] = handling.fix
    /\ \A s \in Capture : policy[s] # Nobody => Lags(s) \/ stored[s] = policy[s]

LEMMA FixStart == ASSUME MaxClock \in Nat, FixInit PROVE FixIndInv
<1>1. 0 \in 0..MaxClock /\ <<>> \in Seq(Fix)
  OBVIOUS
<1>2. inbox \in [Capture -> Seq(Fix)]
  BY <1>1 DEF FixInit
<1>3. FixTypeOK
  BY <1>1, <1>2 DEF FixInit, FixTypeOK
<1>4. QED
  BY <1>3 DEF FixInit, FixIndInv, NoRowBehindAStop, HandlerAt

\* The types; a fix that is read is one that was dispatched.
LEMMA FixTypes ==
    ASSUME MaxClock \in Nat, FixTypeOK, [FixNext]_fixVars PROVE FixTypeOK'
<1> USE DEF FixTypeOK, NoFix
<1>1. ASSUME NEW s \in Capture, Claims(s) PROVE FixTypeOK'
  BY <1>1 DEF Claims
<1>2. ASSUME NEW s \in Capture, Admits(s) PROVE FixTypeOK'
  <2>1. inbox[s] \in Seq(Fix) /\ inbox[s] # <<>>
    BY <1>2 DEF Admits
  <2>2. Head(inbox[s]) \in Fix /\ Tail(inbox[s]) \in Seq(Fix)
    BY <2>1
  <2>3. inbox' \in [Capture -> Seq(Fix)]
    BY <1>2, <2>2 DEF Admits
  <2>4. handling' = NoFix \/
        handling' \in [for : Capture, fix : Fix, step : {"decide", "insert", "accept"}]
    BY <1>2, <2>2 DEF Admits
  <2>5. QED
    BY <1>2, <2>3, <2>4 DEF Admits, sessionVars
<1>3. CASE EndsActive \/ Subscribes \/ Unsubscribes \/ Pauses \/ ResumesOwned
  BY <1>3 DEF EndsActive, Subscribes, Unsubscribes, Pauses, ResumesOwned
<1>4. CASE Resubscribes
  BY <1>4 DEF Resubscribes
<1>5. ASSUME NEW place \in Place \cup {Nowhere}, Delivers(place) PROVE FixTypeOK'
  <2>1. listener \in Capture /\ [place |-> place, at |-> clock] \in Fix
    BY <1>5 DEF Delivers, Fix
  <2>2. Append(inbox[listener], [place |-> place, at |-> clock]) \in Seq(Fix)
    BY <2>1
  <2>3. inbox' \in [Capture -> Seq(Fix)]
    BY <1>5, <2>2 DEF Delivers
  <2>4. QED
    BY <1>5, <2>3 DEF Delivers, sessionVars
<1>6. CASE Decides \/ InsertFails \/ Inserts \/ Accepts
  <2>1. handling \in [for : Capture, fix : Fix, step : {"decide", "insert", "accept"}]
    BY <1>6 DEF Decides, InsertFails, Inserts, Accepts, HandlerAt
  <2>2. CASE Decides
    BY <2>1, <2>2 DEF Decides, sessionVars
  <2>3. CASE InsertFails
    BY <2>3 DEF InsertFails, sessionVars
  <2>4. CASE Inserts
    BY <2>1, <2>4 DEF Inserts, sessionVars
  <2>5. CASE Accepts
    BY <2>1, <2>5 DEF Accepts, sessionVars
  <2>6. QED
    BY <1>6, <2>2, <2>3, <2>4, <2>5
<1>7. CASE Ticks
  BY <1>7 DEF Ticks, sessionVars
<1>8. CASE Dies
  <2>1. <<>> \in Seq(Fix)
    OBVIOUS
  <2>2. inbox' \in [Capture -> Seq(Fix)]
    BY <1>8, <2>1 DEF Dies
  <2>3. QED
    BY <1>8, <2>2 DEF Dies
<1>9. CASE UNCHANGED fixVars
  BY <1>9 DEF fixVars, sessionVars
<1>10. QED
  BY <1>1, <1>2, <1>3, <1>4, <1>5, <1>6, <1>7, <1>8, <1>9 DEF FixNext

\* Who holds the monitor shuts every other transition of the session out.
LEMMA AdmittedStep ==
    ASSUME FixIndInv, [FixNext]_fixVars PROVE NoRowBehindAStop'
<1> USE DEF NoRowBehindAStop, Alike
<1>1. CASE handling' = handling /\ UNCHANGED <<capturing, held>>
  BY <1>1 DEF FixIndInv
<1>2. CASE handling' = NoFix
  BY <1>2
<1>3. CASE handling = NoFix /\ handling' = handling
  BY <1>3
<1>4. ASSUME NEW s \in Capture, Admits(s) PROVE NoRowBehindAStop'
  BY <1>4 DEF Admits, sessionVars
<1>5. CASE Decides \/ Inserts
  <2>1. /\ handling \in [for : Capture, fix : Fix, step : {"decide", "insert", "accept"}]
        /\ handling # NoFix /\ UNCHANGED <<capturing, held>>
    BY <1>5 DEF FixIndInv, FixTypeOK, Decides, Inserts, HandlerAt, sessionVars
  <2>2. handling' = NoFix \/ handling'.for = handling.for
    BY <1>5, <2>1 DEF Decides, Inserts
  <2>3. QED
    BY <2>1, <2>2 DEF FixIndInv
<1>6. CASE InsertFails \/ Accepts \/ Dies
  BY <1>2, <1>6 DEF InsertFails, Accepts, Dies
<1>7. CASE EndsActive \/ Pauses \/ ResumesOwned \/ (\E s \in Capture : Claims(s))
  BY <1>3, <1>7 DEF EndsActive, Pauses, ResumesOwned, Claims, MonitorFree
<1>8. CASE \/ Subscribes \/ Unsubscribes \/ Resubscribes \/ Ticks \/ UNCHANGED fixVars
           \/ \E place \in Place \cup {Nowhere} : Delivers(place)
  BY <1>1, <1>8
     DEF Subscribes, Unsubscribes, Resubscribes, Ticks, Delivers, fixVars, sessionVars
<1>9. QED
  BY <1>4, <1>5, <1>6, <1>7, <1>8 DEF FixNext

\* The filter and the queue part ways only between an insert and its acceptance;
\* a resume forgets both, and cannot come between, because the session of a fix
\* in progress is not paused.
LEMMA FilterStep ==
    ASSUME FixIndInv, [FixNext]_fixVars
    PROVE  /\ HandlerAt("accept")' => stored'[handling'.for] = handling'.fix
           /\ \A s \in Capture :
                 policy'[s] # Nobody => Lags(s)' \/ stored'[s] = policy'[s]
<1> DEFINE Held == /\ HandlerAt("accept") => stored[handling.for] = handling.fix
                   /\ \A s \in Capture :
                         policy[s] # Nobody => Lags(s) \/ stored[s] = policy[s]
<1> SUFFICES Held'
  OBVIOUS
<1>0. Held /\ policy \in [Capture -> Fix \cup {Nobody}] /\ stored \in [Capture -> Fix \cup {Nobody}]
  BY DEF FixIndInv, FixTypeOK
<1>1. CASE UNCHANGED <<policy, handling, stored>>
  BY <1>0, <1>1 DEF Lags, HandlerAt
<1>2. ASSUME NEW s \in Capture, Admits(s) PROVE Held'
  <2>1. ~HandlerAt("accept") /\ ~HandlerAt("accept")' /\ UNCHANGED <<policy, stored>>
    BY <1>2 DEF Admits, HandlerAt, MonitorFree
  <2>2. QED
    BY <1>0, <2>1 DEF Lags
<1>3. CASE Decides \/ InsertFails
  <2>1. ~HandlerAt("accept") /\ ~HandlerAt("accept")' /\ UNCHANGED <<policy, stored>>
    BY <1>3 DEF Decides, InsertFails, HandlerAt, FixIndInv, FixTypeOK
  <2>2. QED
    BY <1>0, <2>1 DEF Lags
<1>4. CASE Inserts
  <2>1. /\ handling \in [for : Capture, fix : Fix, step : {"decide", "insert", "accept"}]
        /\ handling # NoFix /\ ~HandlerAt("accept") /\ policy' = policy
        /\ stored' = [stored EXCEPT ![handling.for] = handling.fix]
        /\ handling' = [handling EXCEPT !.step = "accept"]
    BY <1>4 DEF FixIndInv, FixTypeOK, Inserts, HandlerAt
  <2>2. /\ handling'.for = handling.for /\ handling'.fix = handling.fix
        /\ stored'[handling.for] = handling.fix /\ HandlerAt("accept")'
    BY <1>0, <2>1 DEF HandlerAt, NoFix
  <2>3. \A s \in Capture : s # handling.for => stored'[s] = stored[s] /\ ~Lags(s)
    BY <1>0, <2>1 DEF Lags
  <2>4. QED
    BY <1>0, <2>1, <2>2, <2>3 DEF Lags
<1>5. CASE Accepts
  <2>1. /\ handling \in [for : Capture, fix : Fix, step : {"decide", "insert", "accept"}]
        /\ HandlerAt("accept") /\ ~HandlerAt("accept")' /\ stored' = stored
        /\ policy' = [policy EXCEPT ![handling.for] = handling.fix]
    BY <1>5 DEF FixIndInv, FixTypeOK, Accepts, HandlerAt
  <2>2. \A s \in Capture : policy'[s] # Nobody => stored'[s] = policy'[s]
    BY <1>0, <2>1 DEF Lags
  <2>3. QED
    BY <2>1, <2>2
<1>6. CASE Resubscribes
  <2>1. handling = NoFix /\ handling' = handling
    BY <1>6 DEF Resubscribes, FixIndInv, NoRowBehindAStop
  <2>2. \A s \in Capture : policy'[s] # Nobody => policy'[s] = policy[s] /\ stored'[s] = stored[s]
    BY <1>0, <1>6 DEF Resubscribes
  <2>3. QED
    BY <1>0, <2>1, <2>2 DEF Lags, HandlerAt
<1>7. CASE Dies
  BY <1>7 DEF Dies, HandlerAt
<1>8. CASE \/ \E s \in Capture : Claims(s)
           \/ \E place \in Place \cup {Nowhere} : Delivers(place)
           \/ EndsActive \/ Subscribes \/ Unsubscribes \/ Pauses \/ ResumesOwned
           \/ Ticks \/ UNCHANGED fixVars
  BY <1>1, <1>8 DEF Claims, Delivers, EndsActive, Subscribes, Unsubscribes, Pauses,
                    ResumesOwned, Ticks, fixVars
<1>9. QED
  BY <1>2, <1>3, <1>4, <1>5, <1>6, <1>7, <1>8 DEF FixNext

LEMMA FixStep ==
    ASSUME MaxClock \in Nat, FixIndInv, [FixNext]_fixVars PROVE FixIndInv'
<1>1. FixTypeOK'
  BY FixTypes DEF FixIndInv
<1>2. QED
  BY <1>1, AdmittedStep, FilterStep DEF FixIndInv

\* A fix that is left out was compared with the row its instance stored last.
LEMMA SuppressedStep ==
    ASSUME FixIndInv, NEW s \in Capture, Decides, handling.for = s, handling' = NoFix,
           Usable(handling.fix)
    PROVE  stored[s] # Nobody /\ Near(stored[s], handling.fix) /\ ~Due(stored[s], handling.fix)
<1>1. ~HandlerAt("accept") /\ [handling EXCEPT !.step = "insert"] # NoFix
  BY DEF Decides, HandlerAt, FixIndInv, FixTypeOK, NoFix
<1>2. /\ policy[s] # Nobody
      /\ Near(policy[s], handling.fix) /\ ~Due(policy[s], handling.fix)
  BY <1>1 DEF Decides
<1>3. stored[s] = policy[s]
  BY <1>1, <1>2 DEF FixIndInv, Lags
<1>4. QED
  BY <1>2, <1>3

\* No row behind a stop or a pause (captureIfAdmitted, endActive, pause and
\* resumeOwned, all under the monitor of TripLocationRuntime).
THEOREM AdmissionClosed ==
    ASSUME MaxClock \in Nat PROVE FixSpec => []NoRowBehindAStop
<1>1. FixInit => FixIndInv
  BY FixStart
<1>2. FixIndInv /\ [FixNext]_fixVars => FixIndInv'
  BY FixStep
<1>3. FixIndInv => NoRowBehindAStop
  BY DEF FixIndInv
<1>4. QED
  BY <1>1, <1>2, <1>3, PTL DEF FixSpec

\* What the filter leaves out, the queue has (TripLocationService.handleFix: decide,
\* enqueue, and only then accept): a fix is suppressed on the ground of a row this
\* instance stored since its session was resumed, never of one whose insert failed.
THEOREM FilterKnowsTheQueue ==
    ASSUME MaxClock \in Nat PROVE FixSpec => SuppressionJustified
<1>1. FixInit => FixIndInv
  BY FixStart
<1>2. FixIndInv /\ [FixNext]_fixVars => FixIndInv'
  BY FixStep
<1>3. FixIndInv /\ [FixNext]_fixVars =>
          [\A s \in Capture :
             Decides /\ handling.for = s /\ handling' = NoFix /\ Usable(handling.fix) =>
                 /\ stored[s] # Nobody
                 /\ Near(stored[s], handling.fix) /\ ~Due(stored[s], handling.fix)]_fixVars
  BY SuppressedStep
<1>4. QED
  BY <1>1, <1>2, <1>3, PTL DEF FixSpec, SuppressionJustified

-----------------------------------------------------------------------------
(* The capture service. *)

\* Messages for the main thread, the first of them for an instance or for none.
Fit(messages, live) ==
    /\ messages # <<>> => (Head(messages) = "create" <=> ~live)
    /\ \A i \in 1..(Len(messages) - 1) :
          messages[i + 1] = "create" <=> messages[i] = "destroy"

\* Every message finds the instance it is meant for, or none if it creates one.
MessagesFit ==
    /\ Fit(looper, service.live)
    /\ service.live \/ service = NoService
    /\ main.at # "free" => service.live

\* A session is named only once it was claimed.
NamesAreClaimed ==
    /\ active \in claimed \cup {Null}
    /\ service.owned \in claimed \cup {Null}
    /\ main.at = "starting" => main.for \in claimed
    /\ starting # Null => active \in {starting, Null}
    /\ \A k \in Callback :
          registration[k].of \in IF registration[k].at = "unused" THEN {Null} ELSE claimed

\* A session is on its way to a service of its own, or has it.
OnItsWay ==
    active # Null =>
        \/ starting = active
        \/ main = [at |-> "starting", for |-> active]
        \/ service.owned = active
        \/ \E i \in DOMAIN looper : looper[i] = "start"

Serves == active # Null /\ service.owned = active

\* What a service knows of the session it serves.
ServedFaithfully ==
    Serves =>
        /\ main.at = "starting" => main.for = active
        /\ main.at = "pausing" => paused
        /\ ~paused => service.kick

\* An attempt to resume the active session is an attempt of a paused one.
AttemptsArePaused ==
    service.pending # Null /\ active # Null /\ registration[service.pending].of = active => paused

\* A service that was asked to resume only what it serves subscribes and tries
\* to resume for that session alone, ...
OnlyForItsSession ==
    ~service.ahead =>
        /\ service.callback # Null =>
              service.owned # Null /\ registration[service.callback].of = service.owned
        /\ service.pending # Null =>
              service.owned # Null /\ registration[service.pending].of = service.owned

\* ... and its subscription is what the session needs.
SubscribedAsNeeded ==
    ~service.ahead /\ Serves =>
        /\ ~paused => service.callback # Null
        /\ service.pending # Null => service.callback = service.pending
        /\ paused /\ main.at # "pausing" => service.callback = service.pending

\* What keeps the promises of the capture service between the steps.
CaptureIndInv ==
    /\ CaptureTypeOK /\ MessagesFit /\ NamesAreClaimed /\ WaitersServed
    /\ OnItsWay /\ ServedFaithfully /\ AttemptsArePaused
    /\ OnlyForItsSession /\ SubscribedAsNeeded

\* The main thread takes the first message: the rest fits the instance it leaves, and
\* a start command is lost to nobody else.
LEMMA HandledLemma ==
    ASSUME NEW messages \in Seq(Message), NEW live \in BOOLEAN, messages # <<>>,
           Fit(messages, live)
    PROVE  /\ Tail(messages) \in Seq(Message) /\ Head(messages) \in Message
           /\ Fit(Tail(messages), Head(messages) # "destroy")
           /\ \A i \in DOMAIN messages :
                 messages[i] = "start" => Head(messages) = "start"
                 \/ \E j \in DOMAIN Tail(messages) : Tail(messages)[j] = "start"
<1> DEFINE rest == Tail(messages)
<1>1. /\ rest \in Seq(Message) /\ Head(messages) = messages[1] /\ messages[1] \in Message
      /\ Len(messages) \in Nat \ {0} /\ Len(rest) = Len(messages) - 1
      /\ DOMAIN messages = 1..Len(messages) /\ DOMAIN rest = 1..Len(rest)
      /\ \A i \in 1..Len(rest) : rest[i] = messages[i + 1]
  OBVIOUS
<1>2. Fit(rest, Head(messages) # "destroy")
  <2>1. rest # <<>> => Head(rest) = messages[2] /\ 1 \in 1..(Len(messages) - 1)
    BY <1>1
  <2>2. rest # <<>> => (Head(rest) = "create" <=> ~ (Head(messages) # "destroy"))
    BY <1>1, <2>1 DEF Fit
  <2>3. ASSUME NEW i \in 1..(Len(rest) - 1) PROVE rest[i + 1] = "create" <=> rest[i] = "destroy"
    <3>1. i + 1 \in 1..(Len(messages) - 1) /\ rest[i + 1] = messages[(i + 1) + 1]
          /\ rest[i] = messages[i + 1]
      BY <1>1
    <3>2. QED
      BY <3>1 DEF Fit
  <2>4. QED
    BY <2>2, <2>3 DEF Fit
<1>3. ASSUME NEW i \in DOMAIN messages, messages[i] = "start", Head(messages) # "start"
      PROVE  \E j \in DOMAIN rest : rest[j] = "start"
  <2>1. i - 1 \in 1..Len(rest) /\ rest[i - 1] = messages[(i - 1) + 1] /\ (i - 1) + 1 = i
    BY <1>1, <1>3
  <2>2. QED
    BY <1>1, <1>3, <2>1
<1>4. QED
  BY <1>1, <1>2, <1>3

\* A message is queued behind the others, for the instance they leave.
LEMMA PostedLemma ==
    ASSUME NEW messages \in Seq(Message), NEW live \in BOOLEAN, NEW m \in Message,
           Fit(messages, live),
           m = "create" <=>
              ~ (IF messages = <<>> THEN live ELSE messages[Len(messages)] # "destroy")
    PROVE  /\ Append(messages, m) \in Seq(Message)
           /\ Fit(Append(messages, m), live)
           /\ Append(messages, m) # <<>> /\ Append(messages, m)[Len(Append(messages, m))] = m
           /\ \A i \in DOMAIN messages : i \in DOMAIN Append(messages, m)
              /\ Append(messages, m)[i] = messages[i]
<1> DEFINE longer == Append(messages, m)
<1>1. /\ longer \in Seq(Message) /\ Len(messages) \in Nat /\ Len(longer) = Len(messages) + 1
      /\ DOMAIN messages = 1..Len(messages) /\ DOMAIN longer = 1..Len(longer)
      /\ longer[Len(longer)] = m /\ \A i \in 1..Len(messages) : longer[i] = messages[i]
      /\ Head(longer) = longer[1] /\ longer # <<>>
      /\ messages = <<>> <=> Len(messages) = 0
      /\ messages # <<>> => Head(messages) = messages[1]
  OBVIOUS
<1>2. Head(longer) = "create" <=> ~live
  BY <1>1 DEF Fit
<1>3. ASSUME NEW i \in 1..Len(messages) PROVE longer[i + 1] = "create" <=> longer[i] = "destroy"
  <2>1. CASE i = Len(messages)
    BY <1>1, <2>1
  <2>2. CASE i # Len(messages)
    <3>0. Len(messages) \in Nat
      BY <1>1
    <3>1. i \in 1..(Len(messages) - 1)
      BY <1>3, <2>2, <3>0
    <3>2. longer[i] = messages[i] /\ longer[i + 1] = messages[i + 1]
      BY <1>1, <3>1
    <3>3. QED
      BY <3>1, <3>2 DEF Fit
  <2>3. QED
    BY <2>1, <2>2
<1>4. Fit(longer, live)
  <2>1. Len(longer) - 1 = Len(messages)
    BY <1>1
  <2>2. \A i \in 1..(Len(longer) - 1) : longer[i + 1] = "create" <=> longer[i] = "destroy"
    BY <1>3, <2>1
  <2>3. QED
    BY <1>2, <2>2 DEF Fit
<1>5. QED
  BY <1>1, <1>4

\* startForegroundService: a start command is queued, for an instance of its own if
\* there will be none.
LEMMA StartServiceLemma ==
    ASSUME looper \in Seq(Message), service.live \in BOOLEAN, Fit(looper, service.live)
    PROVE  /\ StartService \in Seq(Message) /\ Fit(StartService, service.live)
           /\ \E i \in DOMAIN StartService : StartService[i] = "start"
<1>1. CASE Recorded
  <2>1. StartService = Append(looper, "start")
    BY <1>1 DEF StartService
  <2>2. QED
    BY <1>1, <2>1, PostedLemma DEF Recorded, Message
<1>2. CASE ~Recorded
  <2> DEFINE created == Append(looper, "create")
  <2>1. StartService = Append(created, "start")
    BY <1>2 DEF StartService
  <2>2. created \in Seq(Message) /\ Fit(created, service.live) /\ created # <<>>
        /\ created[Len(created)] = "create"
    BY <1>2, PostedLemma DEF Recorded, Message
  <2>3. /\ Append(created, "start") \in Seq(Message)
           /\ Fit(Append(created, "start"), service.live)
        /\ Append(created, "start")[Len(Append(created, "start"))] = "start"
           /\ Append(created, "start") # <<>>
    <3> HIDE DEF created
    <3>1. QED
      BY <2>2, PostedLemma DEF Message
  <2>4. QED
    BY <2>1, <2>3
<1>3. QED
  BY <1>1, <1>2

\* stopService: an instance that will be there is destroyed.
LEMMA StopServiceLemma ==
    ASSUME looper \in Seq(Message), service.live \in BOOLEAN, Fit(looper, service.live)
    PROVE  /\ StopService \in Seq(Message) /\ Fit(StopService, service.live)
           /\ \A i \in DOMAIN looper : i \in DOMAIN StopService /\ StopService[i] = looper[i]
BY PostedLemma DEF StopService, Recorded, Message

\* stopSelf: the same, and no start command is dropped for it.
LEMMA StopSelfLemma ==
    ASSUME NEW messages \in Seq(Message), Fit(messages, TRUE)
    PROVE  /\ StopSelf(messages) \in Seq(Message) /\ Fit(StopSelf(messages), TRUE)
           /\ \A i \in DOMAIN messages : i \in DOMAIN StopSelf(messages)
              /\ StopSelf(messages)[i] = messages[i]
<1>1. CASE \E i \in DOMAIN messages : messages[i] = "destroy"
  BY <1>1 DEF StopSelf
<1>2. CASE ~ \E i \in DOMAIN messages : messages[i] = "destroy"
  <2>1. messages = <<>> \/ messages[Len(messages)] # "destroy"
    BY <1>2
  <2>2. QED
    BY <1>2, <2>1, PostedLemma DEF StopSelf, Message
<1>3. QED
  BY <1>1, <1>2

\* Whether it stops itself or not.
LEMMA PerhapsStopsLemma ==
    ASSUME NEW messages \in Seq(Message), Fit(messages, TRUE),
           looper' \in {messages, StopSelf(messages)}
    PROVE  looper' \in Seq(Message) /\ Fit(looper', TRUE)
<1>1. CASE looper' = messages
  BY <1>1
<1>2. CASE looper' = StopSelf(messages)
  BY <1>2, StopSelfLemma
<1>3. QED
  BY <1>1, <1>2

\* What retireCallback does to a registration: nothing, or it is removed, or, of an
\* attempt to resume, dropped.
LEMMA RetiredLemma ==
    ASSUME CaptureIndInv, NEW s \in Session \cup {Null}
    PROVE  /\ Retired(s) \in [Callback -> Subscription]
           /\ \A k \in Callback :
                 \/ Retired(s)[k] = registration[k]
                 \/ Retired(s)[k] = Unused /\ k # service.pending
                 \/ Retired(s)[k] = [of |-> registration[k].of, at |-> "dropped"]
                    /\ registration[k].of \in claimed
<1>1. service.callback \in Callback \cup {Null} /\ registration \in [Callback -> Subscription]
  BY DEF CaptureIndInv, CaptureTypeOK, Instance
<1>2. CASE ~Retires(s)
  BY <1>1, <1>2 DEF Retired
<1>3. CASE Retires(s) /\ service.callback = service.pending
  <2>1. registration[service.callback].of \in claimed /\ service.callback \in Callback
    BY <1>1, <1>3 DEF CaptureIndInv, WaitersServed, NamesAreClaimed, Retires
  <2>2. QED
    BY <1>1, <1>3, <2>1 DEF Retired, Subscription
<1>4. CASE Retires(s) /\ service.callback # service.pending
  BY <1>1, <1>4 DEF Retired, Remove, Unused, Subscription, Retires
<1>5. QED
  BY <1>2, <1>3, <1>4

\* The module claims a session.
LEMMA ClaimStep ==
    ASSUME CaptureIndInv, NEW s \in Session, Claim(s)
    PROVE  CaptureIndInv'
<1>1. CaptureTypeOK'
  <2>1. (active \in Session \cup {Null} /\ paused \in BOOLEAN)'
    BY DEF CaptureIndInv, Claim
  <2>2. (claimed \subseteq Session /\ starting \in claimed \cup {Null})'
    BY DEF CaptureIndInv, CaptureTypeOK, Claim
  <2>3. QED
    BY <2>1, <2>2 DEF CaptureIndInv, CaptureTypeOK, Claim
<1>2. MessagesFit'
  BY DEF CaptureIndInv, MessagesFit, Claim
<1>3. NamesAreClaimed'
  BY DEF CaptureIndInv, NamesAreClaimed, Claim
<1>4. WaitersServed'
  BY DEF CaptureIndInv, WaitersServed, Claim
<1>5. OnItsWay'
  BY DEF CaptureIndInv, OnItsWay, Claim
<1>6. ServedFaithfully'
  BY DEF CaptureIndInv, ServedFaithfully, Serves, NamesAreClaimed, Claim
<1>7. AttemptsArePaused'
  BY DEF CaptureIndInv, CaptureTypeOK, Instance, AttemptsArePaused, NamesAreClaimed, Claim
<1>8. OnlyForItsSession'
  BY DEF CaptureIndInv, OnlyForItsSession, Claim
<1>9. SubscribedAsNeeded'
  BY DEF CaptureIndInv, SubscribedAsNeeded, Serves, NamesAreClaimed, Claim
<1> QED
  BY <1>1, <1>2, <1>3, <1>4, <1>5, <1>6, <1>7, <1>8, <1>9 DEF CaptureIndInv

\* startTracking asks Android for the service, or takes the session back.
LEMMA RequestStartStep ==
    ASSUME CaptureIndInv, RequestStart
    PROVE  CaptureIndInv'
<1>1. CaptureTypeOK'
  <2>1. (active \in Session \cup {Null} /\ paused \in BOOLEAN)'
    BY DEF CaptureIndInv, CaptureTypeOK, RequestStart
  <2>2. looper' \in Seq(Message)
    BY StartServiceLemma DEF CaptureIndInv, CaptureTypeOK, RequestStart, MessagesFit, Instance
  <2>3. QED
    BY <2>1, <2>2 DEF CaptureIndInv, CaptureTypeOK, RequestStart
<1>2. MessagesFit'
  BY StartServiceLemma
     DEF CaptureIndInv, CaptureTypeOK, Instance, MessagesFit, RequestStart, SameJourney
<1>3. NamesAreClaimed'
  BY DEF CaptureIndInv, NamesAreClaimed, RequestStart, SameJourney
<1>4. WaitersServed'
  BY DEF CaptureIndInv, WaitersServed, RequestStart, SameJourney
<1>5. OnItsWay'
  BY StartServiceLemma
     DEF CaptureIndInv, CaptureTypeOK, Instance, OnItsWay, MessagesFit, RequestStart, SameJourney
<1>6. ServedFaithfully'
  BY DEF CaptureIndInv, ServedFaithfully, Serves, RequestStart, SameJourney
<1>7. AttemptsArePaused'
  BY DEF CaptureIndInv, AttemptsArePaused, RequestStart, SameJourney
<1>8. OnlyForItsSession'
  BY DEF CaptureIndInv, OnlyForItsSession, RequestStart, SameJourney
<1>9. SubscribedAsNeeded'
  BY DEF CaptureIndInv, SubscribedAsNeeded, Serves, RequestStart, SameJourney
<1> QED
  BY <1>1, <1>2, <1>3, <1>4, <1>5, <1>6, <1>7, <1>8, <1>9 DEF CaptureIndInv

\* stopTracking forgets the session and stops the service.
LEMMA StopTrackingStep ==
    ASSUME CaptureIndInv, StopTracking
    PROVE  CaptureIndInv'
<1>1. CaptureTypeOK'
  <2>1. (active \in Session \cup {Null} /\ paused \in BOOLEAN)'
    BY DEF CaptureIndInv, StopTracking
  <2>2. looper' \in Seq(Message)
    BY StopServiceLemma DEF CaptureIndInv, CaptureTypeOK, StopTracking, MessagesFit, Instance
  <2>3. QED
    BY <2>1, <2>2 DEF CaptureIndInv, CaptureTypeOK, StopTracking
<1>2. MessagesFit'
  BY StopServiceLemma DEF CaptureIndInv, CaptureTypeOK, Instance, MessagesFit, StopTracking
<1>3. NamesAreClaimed'
  BY DEF CaptureIndInv, NamesAreClaimed, StopTracking
<1>4. WaitersServed'
  BY DEF CaptureIndInv, WaitersServed, StopTracking
<1>5. OnItsWay'
  BY StopServiceLemma DEF CaptureIndInv, OnItsWay, StopTracking
<1>6. ServedFaithfully'
  BY DEF CaptureIndInv, ServedFaithfully, Serves, StopTracking
<1>7. AttemptsArePaused'
  BY DEF CaptureIndInv, AttemptsArePaused, StopTracking
<1>8. OnlyForItsSession'
  BY DEF CaptureIndInv, OnlyForItsSession, StopTracking
<1>9. SubscribedAsNeeded'
  BY DEF CaptureIndInv, SubscribedAsNeeded, Serves, StopTracking
<1> QED
  BY <1>1, <1>2, <1>3, <1>4, <1>5, <1>6, <1>7, <1>8, <1>9 DEF CaptureIndInv

\* onCreate.
LEMMA CreateStep ==
    ASSUME CaptureIndInv, Create
    PROVE  CaptureIndInv'
<1>1. CaptureTypeOK'
  <2>1. looper' \in Seq(Message)
    BY HandledLemma DEF CaptureIndInv, CaptureTypeOK, Create, NextMessage
  <2>2. service' \in Instance
    BY DEF CaptureIndInv, Create, Created, NoService, Instance
  <2>3. QED
    BY <2>1, <2>2 DEF CaptureIndInv, CaptureTypeOK, Create, runtime
<1>2. MessagesFit'
  BY HandledLemma
     DEF CaptureIndInv, CaptureTypeOK, Instance, MessagesFit, Create, NextMessage, Created,
         NoService
<1>3. NamesAreClaimed'
  BY DEF CaptureIndInv, NamesAreClaimed, Create, Created, NoService, runtime
<1>4. WaitersServed'
  <2>1. service = NoService
    BY DEF CaptureIndInv, MessagesFit, Fit, Create, NextMessage
  <2>2. QED
    BY <2>1 DEF CaptureIndInv, WaitersServed, Create, Created
<1>5. OnItsWay'
  <2>1. service = NoService /\ looper # <<>> /\ Head(looper) = "create" /\ looper' = Tail(looper)
    BY DEF CaptureIndInv, MessagesFit, Fit, Create, NextMessage
  <2>2. ASSUME NEW i \in DOMAIN looper, looper[i] = "start"
        PROVE  \E j \in DOMAIN looper' : looper'[j] = "start"
    BY <2>1, <2>2, HandledLemma DEF CaptureIndInv, CaptureTypeOK, Instance, MessagesFit
  <2>3. active = Null \/ service.owned # active
    BY <2>1 DEF NoService
  <2>4. QED
    BY <2>2, <2>3 DEF CaptureIndInv, OnItsWay, Create, runtime
<1>6. ServedFaithfully'
  BY DEF CaptureIndInv, ServedFaithfully, Serves, Create, Created, NoService
<1>7. AttemptsArePaused'
  BY DEF CaptureIndInv, AttemptsArePaused, Create, Created, NoService
<1>8. OnlyForItsSession'
  BY DEF CaptureIndInv, OnlyForItsSession, Create, Created, NoService
<1>9. SubscribedAsNeeded'
  BY DEF CaptureIndInv, SubscribedAsNeeded, Serves, Create, Created, NoService
<1> QED
  BY <1>1, <1>2, <1>3, <1>4, <1>5, <1>6, <1>7, <1>8, <1>9 DEF CaptureIndInv

\* onStartCommand reads the active session.
LEMMA StartCommandStep ==
    ASSUME CaptureIndInv, StartCommand
    PROVE  CaptureIndInv'
<1>1. CaptureTypeOK'
  <2>1. looper' \in Seq(Message)
    <3>1. /\ looper \in Seq(Message) /\ service.live \in BOOLEAN /\ Fit(looper, service.live)
          /\ looper # <<>> /\ Head(looper) = "start"
      BY DEF CaptureIndInv, CaptureTypeOK, StartCommand, MessagesFit, NextMessage, Instance
    <3>2. Tail(looper) \in Seq(Message) /\ Fit(Tail(looper), TRUE)
      BY <3>1, HandledLemma
    <3>3. looper' \in {Tail(looper), StopSelf(Tail(looper))}
      BY DEF StartCommand
    <3>4. QED
      BY <3>2, <3>3, PerhapsStopsLemma
  <2>2. main' \in Moment
    BY DEF CaptureIndInv, CaptureTypeOK, StartCommand, Moment
  <2>3. QED
    BY <2>1, <2>2 DEF CaptureIndInv, CaptureTypeOK, StartCommand, runtime
<1>2. MessagesFit'
  <2>1. looper # <<>> /\ Head(looper) = "start" /\ Fit(Tail(looper), TRUE)
        /\ Tail(looper) \in Seq(Message)
    BY HandledLemma
       DEF CaptureIndInv, CaptureTypeOK, Instance, MessagesFit, StartCommand, NextMessage
  <2>2. service.live
    BY <2>1 DEF CaptureIndInv, MessagesFit, Fit
  <2>3. Fit(looper', TRUE)
    BY <2>1, StopSelfLemma DEF StartCommand
  <2>4. QED
    BY <2>2, <2>3 DEF CaptureIndInv, MessagesFit, StartCommand
<1>3. NamesAreClaimed'
  BY DEF CaptureIndInv, NamesAreClaimed, StartCommand, runtime
<1>4. WaitersServed'
  BY DEF CaptureIndInv, WaitersServed, StartCommand
<1>5. OnItsWay'
  BY HandledLemma, StopSelfLemma DEF CaptureIndInv, OnItsWay, StartCommand, runtime
<1>6. ServedFaithfully'
  BY DEF CaptureIndInv, ServedFaithfully, Serves, StartCommand, runtime
<1>7. AttemptsArePaused'
  BY DEF CaptureIndInv, AttemptsArePaused, StartCommand, runtime
<1>8. OnlyForItsSession'
  BY DEF CaptureIndInv, OnlyForItsSession, StartCommand
<1>9. SubscribedAsNeeded'
  BY DEF CaptureIndInv, SubscribedAsNeeded, Serves, StartCommand, NextMessage, MainFree, AtRest,
         runtime
<1> QED
  BY <1>1, <1>2, <1>3, <1>4, <1>5, <1>6, <1>7, <1>8, <1>9 DEF CaptureIndInv

\* onStartCommand fails: a session that is still active ends with the service.
LEMMA NotServedStep ==
    ASSUME CaptureIndInv, NotServed
    PROVE  CaptureIndInv'
<1>1. CaptureTypeOK'
  <2>1. (active \in Session \cup {Null} /\ paused \in BOOLEAN)'
    BY DEF CaptureIndInv, CaptureTypeOK, NotServed, Fail
  <2>2. looper' \in Seq(Message)
    <3>1. looper \in Seq(Message) /\ Fit(looper, TRUE)
      BY DEF CaptureIndInv, CaptureTypeOK, NotServed, MessagesFit
    <3>2. looper' \in {looper, StopSelf(looper)}
      BY DEF NotServed, Fail
    <3>3. QED
      BY <3>1, <3>2, PerhapsStopsLemma
  <2>3. main' \in Moment
    BY DEF CaptureIndInv, NotServed, AtRest, Moment
  <2>4. service' \in Instance
    BY DEF CaptureIndInv, CaptureTypeOK, NotServed, Fail, WithoutCallback, Instance
  <2>5. registration' \in [Callback -> Subscription]
    BY DEF CaptureIndInv, CaptureTypeOK, NotServed, Fail, Retired, Remove, Unused, Subscription
  <2>6. QED
    BY <2>1, <2>2, <2>3, <2>4, <2>5 DEF CaptureIndInv, CaptureTypeOK, NotServed
<1>2. MessagesFit'
  <2>1. service.live
    BY DEF CaptureIndInv, MessagesFit, NotServed, Moment
  <2>2. service'.live /\ Fit(looper', TRUE)
    <3>1. service'.live /\ looper' \in {looper, StopSelf(looper)}
      BY <2>1 DEF CaptureIndInv, CaptureTypeOK, Instance, NotServed, Fail, WithoutCallback
    <3>2. looper \in Seq(Message) /\ Fit(looper, TRUE)
      BY <2>1 DEF CaptureIndInv, CaptureTypeOK, MessagesFit
    <3>3. QED
      BY <3>1, <3>2, PerhapsStopsLemma
  <2>3. QED
    BY <2>1, <2>2 DEF CaptureIndInv, MessagesFit, NotServed
<1>3. NamesAreClaimed'
  <2>1. \A k \in Callback :
          registration'[k].of \in IF registration'[k].at = "unused" THEN {Null} ELSE claimed
    <3>1. registration' = registration \/ (registration' = Retired(main.for)
          /\ main.for \in Session)
      BY DEF CaptureIndInv, CaptureTypeOK, NotServed, Fail, Moment, NamesAreClaimed
    <3>2. CASE registration' = registration
      BY <3>2 DEF CaptureIndInv, NamesAreClaimed
    <3>3. ASSUME NEW k \in Callback, registration' = Retired(main.for), main.for \in Session
          PROVE  registration'[k].of \in IF registration'[k].at = "unused" THEN {Null} ELSE claimed
      <4>1. \/ Retired(main.for)[k] = registration[k] \/ Retired(main.for)[k] = Unused
            \/ Retired(main.for)[k] = [of |-> registration[k].of, at |-> "dropped"]
               /\ registration[k].of \in claimed
        BY <3>3, RetiredLemma
      <4>2. QED
        BY <3>3, <4>1 DEF CaptureIndInv, NamesAreClaimed, Unused
    <3>4. QED
      BY <3>1, <3>2, <3>3
  <2>2. QED
    BY <2>1
       DEF CaptureIndInv, CaptureTypeOK, Instance, NamesAreClaimed, NotServed, Fail,
           WithoutCallback, AtRest
<1>4. WaitersServed'
  <2>1. /\ service'.waiters = service.waiters /\ service'.pending = service.pending
        /\ answer' = answer
    BY DEF CaptureIndInv, CaptureTypeOK, Instance, NotServed, Fail, WithoutCallback
  <2>2. ASSUME service.pending # Null
        PROVE  registration'[service.pending].at \in {"asked", "dropped"}
    <3>1. registration' = registration \/ (registration' = Retired(main.for) /\ main.for \in Session)
      BY DEF CaptureIndInv, CaptureTypeOK, NotServed, Fail, Moment, NamesAreClaimed
    <3>2. service.pending \in Callback
      BY <2>2 DEF CaptureIndInv, CaptureTypeOK, Instance
    <3>3. QED
      BY <2>2, <3>1, <3>2 DEF CaptureIndInv, CaptureTypeOK, WaitersServed, Retired, Remove, Subscription
  <2>3. service.live => service'.live
    BY DEF CaptureIndInv, CaptureTypeOK, Instance, NotServed, Fail, WithoutCallback
  <2>4. WaitersServed
    BY DEF CaptureIndInv
  <2>5. QED
    BY <2>1, <2>2, <2>3, <2>4 DEF WaitersServed
<1>5. OnItsWay'
  BY StopSelfLemma DEF CaptureIndInv, OnItsWay, NotServed, Fail, Retired, Retires
<1>6. ServedFaithfully'
  BY DEF CaptureIndInv, ServedFaithfully, Serves, NotServed, Fail, Retired, Retires
<1>7. AttemptsArePaused'
  BY DEF CaptureIndInv, AttemptsArePaused, NotServed, Fail, Retired, Retires
<1>8. OnlyForItsSession'
  BY DEF CaptureIndInv, CaptureTypeOK, Instance, Subscription, OnlyForItsSession, MessagesFit,
         NotServed, Fail, Retired, WithoutCallback, Retires, Remove
<1>9. SubscribedAsNeeded'
  BY DEF CaptureIndInv, SubscribedAsNeeded, Serves, NotServed, Fail, Retired, Retires
<1> QED
  BY <1>1, <1>2, <1>3, <1>4, <1>5, <1>6, <1>7, <1>8, <1>9 DEF CaptureIndInv

\* onDestroy answers whoever waits and releases the session.
LEMMA DestroyStep ==
    ASSUME CaptureIndInv, Destroy
    PROVE  CaptureIndInv'
<1>1. CaptureTypeOK'
  <2>1. (active \in Session \cup {Null} /\ paused \in BOOLEAN)'
    BY DEF CaptureIndInv, CaptureTypeOK, Destroy
  <2>2. looper' \in Seq(Message)
    BY HandledLemma DEF CaptureIndInv, CaptureTypeOK, Destroy, NextMessage
  <2>3. service' \in Instance
    BY DEF CaptureIndInv, Destroy, NoService, Instance
  <2>4. registration' \in [Callback -> Subscription]
    BY DEF CaptureIndInv, Destroy, Unused, Subscription
  <2>5. answer' \in [Caller -> Reply]
    BY DEF CaptureIndInv, CaptureTypeOK, Destroy, Answered, Reply
  <2>6. QED
    BY <2>1, <2>2, <2>3, <2>4, <2>5 DEF CaptureIndInv, CaptureTypeOK, Destroy
<1>2. MessagesFit'
  BY HandledLemma
     DEF CaptureIndInv, CaptureTypeOK, Instance, MessagesFit, Destroy, NextMessage, MainFree,
         AtRest, NoService
<1>3. NamesAreClaimed'
  BY DEF CaptureIndInv, NamesAreClaimed, Destroy, NoService, Unused
<1>4. WaitersServed'
  BY DEF CaptureIndInv, WaitersServed, Destroy, NoService, Answered
<1>5. OnItsWay'
  BY HandledLemma
     DEF CaptureIndInv, CaptureTypeOK, Instance, OnItsWay, MessagesFit, Destroy, NextMessage
<1>6. ServedFaithfully'
  BY DEF CaptureIndInv, ServedFaithfully, Serves, Destroy, NoService
<1>7. AttemptsArePaused'
  BY DEF CaptureIndInv, AttemptsArePaused, Destroy, NoService
<1>8. OnlyForItsSession'
  BY DEF CaptureIndInv, OnlyForItsSession, Destroy, NoService
<1>9. SubscribedAsNeeded'
  BY DEF CaptureIndInv, SubscribedAsNeeded, Serves, Destroy, NoService
<1> QED
  BY <1>1, <1>2, <1>3, <1>4, <1>5, <1>6, <1>7, <1>8, <1>9 DEF CaptureIndInv

\* The repeating request for a drain notices that it is not needed.
LEMMA DrainKickStep ==
    ASSUME CaptureIndInv, DrainKick
    PROVE  CaptureIndInv'
<1>1. CaptureTypeOK'
  <2>1. service' \in Instance
    BY DEF CaptureIndInv, CaptureTypeOK, DrainKick, Instance
  <2>2. QED
    BY <2>1 DEF CaptureIndInv, CaptureTypeOK, DrainKick, runtime
<1>2. MessagesFit'
  <2>1. service.live /\ service'.live
    BY DEF CaptureIndInv, DrainKick, MessagesFit, NoService
  <2>2. QED
    BY <2>1 DEF CaptureIndInv, MessagesFit, DrainKick
<1>3. NamesAreClaimed'
  BY DEF CaptureIndInv, NamesAreClaimed, DrainKick, runtime
<1>4. WaitersServed'
  BY DEF CaptureIndInv, WaitersServed, DrainKick
<1>5. OnItsWay'
  BY DEF CaptureIndInv, OnItsWay, DrainKick, runtime
<1>6. ServedFaithfully'
  BY DEF CaptureIndInv, ServedFaithfully, Serves, DrainKick, runtime
<1>7. AttemptsArePaused'
  BY DEF CaptureIndInv, AttemptsArePaused, DrainKick, runtime
<1>8. OnlyForItsSession'
  BY DEF CaptureIndInv, OnlyForItsSession, DrainKick
<1>9. SubscribedAsNeeded'
  BY DEF CaptureIndInv, SubscribedAsNeeded, Serves, DrainKick, runtime
<1> QED
  BY <1>1, <1>2, <1>3, <1>4, <1>5, <1>6, <1>7, <1>8, <1>9 DEF CaptureIndInv

\* pauseTracking closes admission.
LEMMA PauseStep ==
    ASSUME CaptureIndInv, NEW j \in Journey, Pause(j)
    PROVE  CaptureIndInv'
<1>1. CaptureTypeOK'
  <2>1. main' \in Moment
    BY DEF CaptureIndInv, Pause, AtRest, Moment
  <2>2. QED
    BY <2>1 DEF CaptureIndInv, CaptureTypeOK, Pause
<1>2. MessagesFit'
  BY DEF CaptureIndInv, MessagesFit, Pause, MainFree
<1>3. NamesAreClaimed'
  BY DEF CaptureIndInv, NamesAreClaimed, Pause, MainFree
<1>4. WaitersServed'
  BY DEF CaptureIndInv, WaitersServed, Pause
<1>5. OnItsWay'
  BY DEF CaptureIndInv, OnItsWay, Pause, MainFree, AtRest
<1>6. ServedFaithfully'
  BY DEF CaptureIndInv, ServedFaithfully, Serves, Pause, MainFree
<1>7. AttemptsArePaused'
  BY DEF CaptureIndInv, AttemptsArePaused, Pause
<1>8. OnlyForItsSession'
  BY DEF CaptureIndInv, OnlyForItsSession, Pause
<1>9. SubscribedAsNeeded'
  <2> SUFFICES ASSUME ~service'.ahead, Serves'
               PROVE  /\ ~paused' => service'.callback # Null
                      /\ service'.pending # Null => service'.callback = service'.pending
                      /\ paused' /\ main'.at # "pausing" => service'.callback = service'.pending
    BY DEF SubscribedAsNeeded
  <2>1. ~service.ahead /\ Serves /\ service' = service /\ paused'
    BY DEF Pause, Serves
  <2>2. service.live
    BY <2>1 DEF CaptureIndInv, MessagesFit, NoService, Serves
  <2>3. main'.at = "pausing"
    BY <2>2 DEF Pause
  <2>4. QED
    BY <2>1, <2>3 DEF CaptureIndInv, SubscribedAsNeeded
<1> QED
  BY <1>1, <1>2, <1>3, <1>4, <1>5, <1>6, <1>7, <1>8, <1>9 DEF CaptureIndInv

\* Only then does the service stop listening and give up an attempt to resume.
LEMMA PauseServiceStep ==
    ASSUME CaptureIndInv, PauseService
    PROVE  CaptureIndInv'
<1>1. CaptureTypeOK'
  <2>1. main' \in Moment
    BY DEF CaptureIndInv, PauseService, AtRest, Moment
  <2>2. service' \in Instance
    BY DEF CaptureIndInv, CaptureTypeOK, PauseService, WithoutCallback, Instance
  <2>3. registration' \in [Callback -> Subscription]
    <3>1. CASE registration' = Retired(active)
      BY <3>1, RetiredLemma DEF CaptureIndInv, CaptureTypeOK
    <3>2. CASE registration' = Remove(service.pending)
      BY <3>2 DEF CaptureIndInv, CaptureTypeOK, Remove, Unused, Subscription
    <3>3. QED
      BY <3>1, <3>2 DEF PauseService
  <2>4. answer' \in [Caller -> Reply]
    BY DEF CaptureIndInv, CaptureTypeOK, PauseService, Answered, Reply
  <2>5. QED
    BY <2>1, <2>2, <2>3, <2>4 DEF CaptureIndInv, CaptureTypeOK, PauseService, runtime
<1>2. MessagesFit'
  BY DEF CaptureIndInv, MessagesFit, PauseService, Retired, Retires, WithoutCallback
<1>3. NamesAreClaimed'
  <2>1. \/ registration' = Retired(active) /\ active \in Session \cup {Null}
        \/ registration' = [registration EXCEPT ![service.pending] = Unused]
           /\ service.pending \in Callback
    BY DEF CaptureIndInv, CaptureTypeOK, Instance, PauseService, Superseded, Remove
  <2>2. ASSUME NEW k \in Callback
        PROVE  registration'[k].of \in IF registration'[k].at = "unused" THEN {Null} ELSE claimed
    <3>1. CASE registration' = Retired(active)
      <4>1. \/ Retired(active)[k] = registration[k] \/ Retired(active)[k] = Unused
            \/ Retired(active)[k] = [of |-> registration[k].of, at |-> "dropped"]
               /\ registration[k].of \in claimed
        <5>1. active \in Session \cup {Null}
          BY DEF CaptureIndInv, CaptureTypeOK
        <5>2. QED
          BY <5>1, RetiredLemma
      <4>2. QED
        BY <3>1, <4>1 DEF CaptureIndInv, NamesAreClaimed, Unused
    <3>2. CASE registration' # Retired(active)
      BY <2>1, <3>2 DEF CaptureIndInv, CaptureTypeOK, Subscription, NamesAreClaimed, Unused
    <3>3. QED
      BY <2>1, <3>1, <3>2
  <2>3. QED
    BY <2>2 DEF CaptureIndInv, NamesAreClaimed, PauseService, WithoutCallback, AtRest, runtime
<1>4. WaitersServed'
  BY DEF CaptureIndInv, WaitersServed, PauseService, Remove, Retired, Retires, WithoutCallback,
         Answered
<1>5. OnItsWay'
  BY DEF CaptureIndInv, OnItsWay, PauseService, Retired, Retires, WithoutCallback, runtime
<1>6. ServedFaithfully'
  BY DEF CaptureIndInv, ServedFaithfully, Serves, PauseService, AtRest, Retired, Retires,
         WithoutCallback, runtime
<1>7. AttemptsArePaused'
  BY DEF CaptureIndInv, AttemptsArePaused, PauseService, Remove, Retired, Retires,
         WithoutCallback, runtime
<1>8. OnlyForItsSession'
  BY DEF CaptureIndInv, OnlyForItsSession, PauseService, Remove, Retired, Retires, WithoutCallback
<1>9. SubscribedAsNeeded'
  <2> SUFFICES ASSUME ~service'.ahead, Serves'
               PROVE  /\ ~paused' => service'.callback # Null
                      /\ service'.pending # Null => service'.callback = service'.pending
                      /\ paused' /\ main'.at # "pausing" => service'.callback = service'.pending
    BY DEF SubscribedAsNeeded
  <2>1. ~service.ahead /\ Serves /\ active' = active /\ paused' = paused
    BY DEF CaptureIndInv, PauseService, WithoutCallback, Serves, runtime
  <2>2. paused
    BY <2>1 DEF CaptureIndInv, ServedFaithfully, PauseService
  <2>3. service'.pending = Null /\ service'.callback = Null
    <3>1. CASE Superseded
      BY <3>1 DEF CaptureIndInv, PauseService
    <3>2. CASE ~Superseded
      <4>1. service.pending = Null
        BY <2>1, <3>2 DEF CaptureIndInv, OnlyForItsSession, Superseded, Serves
      <4>2. service.callback # Null => SameJourney(CallbackSession, active)
        BY <2>1 DEF CaptureIndInv, OnlyForItsSession, Serves, SameJourney, CallbackSession
      <4>3. QED
        BY <3>2, <4>1, <4>2 DEF CaptureIndInv, PauseService, WithoutCallback, Retires
    <3>3. QED
      BY <3>1, <3>2
  <2>4. QED
    BY <2>1, <2>2, <2>3
<1> QED
  BY <1>1, <1>2, <1>3, <1>4, <1>5, <1>6, <1>7, <1>8, <1>9 DEF CaptureIndInv

\* resumeTracking has nothing to wait for.
LEMMA ResumeAnsweredStep ==
    ASSUME CaptureIndInv, NEW c \in Caller, NEW j \in Journey, ResumeAnswered(c, j)
    PROVE  CaptureIndInv'
<1>1. CaptureTypeOK'
  <2>1. answer' \in [Caller -> Reply]
    BY DEF CaptureIndInv, CaptureTypeOK, ResumeAnswered, Reply
  <2>2. QED
    BY <2>1 DEF CaptureIndInv, CaptureTypeOK, ResumeAnswered, runtime
<1>2. MessagesFit'
  BY DEF CaptureIndInv, MessagesFit, ResumeAnswered
<1>3. NamesAreClaimed'
  BY DEF CaptureIndInv, NamesAreClaimed, ResumeAnswered, runtime
<1>4. WaitersServed'
  BY DEF CaptureIndInv, WaitersServed, ResumeAnswered
<1>5. OnItsWay'
  BY DEF CaptureIndInv, OnItsWay, ResumeAnswered, runtime
<1>6. ServedFaithfully'
  BY DEF CaptureIndInv, ServedFaithfully, Serves, ResumeAnswered, runtime
<1>7. AttemptsArePaused'
  BY DEF CaptureIndInv, AttemptsArePaused, ResumeAnswered, runtime
<1>8. OnlyForItsSession'
  BY DEF CaptureIndInv, OnlyForItsSession, ResumeAnswered
<1>9. SubscribedAsNeeded'
  BY DEF CaptureIndInv, SubscribedAsNeeded, Serves, ResumeAnswered, runtime
<1> QED
  BY <1>1, <1>2, <1>3, <1>4, <1>5, <1>6, <1>7, <1>8, <1>9 DEF CaptureIndInv

\* A second call waits with the first.
LEMMA ResumeJoinsStep ==
    ASSUME CaptureIndInv, NEW c \in Caller, NEW j \in Journey, ResumeJoins(c, j)
    PROVE  CaptureIndInv'
<1>1. CaptureTypeOK'
  <2>1. service' \in Instance
    BY DEF CaptureIndInv, CaptureTypeOK, ResumeJoins, Instance
  <2>2. answer' \in [Caller -> Reply]
    BY DEF CaptureIndInv, CaptureTypeOK, ResumeJoins, Reply
  <2>3. QED
    BY <2>1, <2>2 DEF CaptureIndInv, CaptureTypeOK, ResumeJoins, runtime
<1>2. MessagesFit'
  BY DEF CaptureIndInv, CaptureTypeOK, Instance, MessagesFit, ResumeJoins
<1>3. NamesAreClaimed'
  BY DEF CaptureIndInv, NamesAreClaimed, ResumeJoins, runtime
<1>4. WaitersServed'
  BY DEF CaptureIndInv, CaptureTypeOK, WaitersServed, ResumeJoins, Superseded
<1>5. OnItsWay'
  BY DEF CaptureIndInv, OnItsWay, ResumeJoins, runtime
<1>6. ServedFaithfully'
  BY DEF CaptureIndInv, ServedFaithfully, Serves, ResumeJoins, runtime
<1>7. AttemptsArePaused'
  BY DEF CaptureIndInv, AttemptsArePaused, ResumeJoins, runtime
<1>8. OnlyForItsSession'
  BY DEF CaptureIndInv, OnlyForItsSession, ResumeJoins
<1>9. SubscribedAsNeeded'
  BY DEF CaptureIndInv, SubscribedAsNeeded, Serves, OnlyForItsSession, ResumeJoins, Superseded
<1> QED
  BY <1>1, <1>2, <1>3, <1>4, <1>5, <1>6, <1>7, <1>8, <1>9 DEF CaptureIndInv

\* resumeTracking subscribes and waits for the provider.
LEMMA ResumeAsksStep ==
    ASSUME CaptureIndInv, NEW c \in Caller, NEW j \in Journey, ResumeAsks(c, j)
    PROVE  CaptureIndInv'
<1>1. CaptureTypeOK'
  <2>1. service' \in Instance
    <3>1. (service.ahead \/ service.owned # active) \in BOOLEAN
      BY DEF CaptureIndInv
    <3>2. PICK k \in Callback : service' = [service EXCEPT !.callback = k, !.pending = k,
                                !.waiters = {c},
                                       !.ahead = @ \/ service.owned # active]
      BY DEF ResumeAsks
    <3>3. QED
      BY <3>1, <3>2 DEF CaptureIndInv, CaptureTypeOK, Instance
  <2>2. registration' \in [Callback -> Subscription]
    BY DEF CaptureIndInv, CaptureTypeOK, ResumeAsks, Remove, Subscription
  <2>3. answer' \in [Caller -> Reply]
    BY DEF CaptureIndInv, CaptureTypeOK, ResumeAsks, Answered, Reply
  <2>4. QED
    BY <2>1, <2>2, <2>3 DEF CaptureIndInv, CaptureTypeOK, ResumeAsks, runtime
<1>2. MessagesFit'
  BY DEF CaptureIndInv, CaptureTypeOK, Instance, MessagesFit, ResumeAsks
<1>3. NamesAreClaimed'
  BY DEF CaptureIndInv, CaptureTypeOK, Instance, NamesAreClaimed, ResumeAsks, Names, Remove,
         runtime
<1>4. WaitersServed'
  BY DEF CaptureIndInv, CaptureTypeOK, WaitersServed, ResumeAsks, Remove, Answered
<1>5. OnItsWay'
  BY DEF CaptureIndInv, OnItsWay, ResumeAsks, runtime
<1>6. ServedFaithfully'
  BY DEF CaptureIndInv, ServedFaithfully, Serves, ResumeAsks, runtime
<1>7. AttemptsArePaused'
  BY DEF CaptureIndInv, AttemptsArePaused, ResumeAsks, runtime
<1>8. OnlyForItsSession'
  BY DEF CaptureIndInv, CaptureTypeOK, Instance, OnlyForItsSession, ResumeAsks, Names, Superseded
<1>9. SubscribedAsNeeded'
  BY DEF CaptureIndInv, SubscribedAsNeeded, ResumeAsks
<1> QED
  BY <1>1, <1>2, <1>3, <1>4, <1>5, <1>6, <1>7, <1>8, <1>9 DEF CaptureIndInv

\* confirmResume.
LEMMA ConfirmStep ==
    ASSUME CaptureIndInv, NEW k \in Callback, Confirm(k)
    PROVE  CaptureIndInv'
<1>1. CaptureTypeOK'
  <2>1. service' \in Instance
    BY DEF CaptureIndInv, CaptureTypeOK, Confirm, Settles, Instance
  <2>2. registration' \in [Callback -> Subscription]
    BY DEF CaptureIndInv, CaptureTypeOK, Confirm, Subscription
  <2>3. answer' \in [Caller -> Reply]
    BY DEF CaptureIndInv, CaptureTypeOK, Confirm, Answered, Reply
  <2>4. QED
    BY <2>1, <2>2, <2>3 DEF CaptureIndInv, CaptureTypeOK, Confirm
<1>2. MessagesFit'
  <2>1. service.live /\ service'.live
    BY DEF CaptureIndInv, WaitersServed, Confirm, Settles
  <2>2. QED
    BY <2>1 DEF CaptureIndInv, MessagesFit, Confirm
<1>3. NamesAreClaimed'
  BY DEF CaptureIndInv, NamesAreClaimed, Confirm, Awaited, Settles
<1>4. WaitersServed'
  BY DEF CaptureIndInv, WaitersServed, Confirm, Settles, Answered
<1>5. OnItsWay'
  BY DEF CaptureIndInv, OnItsWay, Confirm, Settles
<1>6. ServedFaithfully'
  BY DEF CaptureIndInv, ServedFaithfully, Confirm, Awaited, MainFree, AtRest
<1>7. AttemptsArePaused'
  BY DEF CaptureIndInv, AttemptsArePaused, Confirm, Settles
<1>8. OnlyForItsSession'
  BY DEF CaptureIndInv, OnlyForItsSession, Confirm, Settles
<1>9. SubscribedAsNeeded'
  BY DEF CaptureIndInv, SubscribedAsNeeded, Serves, Confirm, Settles
<1> QED
  BY <1>1, <1>2, <1>3, <1>4, <1>5, <1>6, <1>7, <1>8, <1>9 DEF CaptureIndInv

\* The provider answers for a session that is over.
LEMMA ConfirmTooLateStep ==
    ASSUME CaptureIndInv, NEW k \in Callback, ConfirmTooLate(k)
    PROVE  CaptureIndInv'
<1>1. CaptureTypeOK'
  <2>1. service' \in Instance
    BY DEF CaptureIndInv, CaptureTypeOK, ConfirmTooLate, Settles, Instance
  <2>2. registration' \in [Callback -> Subscription]
    BY DEF CaptureIndInv, CaptureTypeOK, ConfirmTooLate, Remove, Unused, Subscription
  <2>3. answer' \in [Caller -> Reply]
    BY DEF CaptureIndInv, CaptureTypeOK, ConfirmTooLate, Answered, Reply
  <2>4. QED
    BY <2>1, <2>2, <2>3 DEF CaptureIndInv, CaptureTypeOK, ConfirmTooLate, runtime
<1>2. MessagesFit'
  <2>1. service.live /\ service'.live
    BY DEF CaptureIndInv, WaitersServed, ConfirmTooLate, Settles
  <2>2. QED
    BY <2>1 DEF CaptureIndInv, MessagesFit, ConfirmTooLate
<1>3. NamesAreClaimed'
  BY DEF CaptureIndInv, NamesAreClaimed, ConfirmTooLate, Remove, Unused, Settles, runtime
<1>4. WaitersServed'
  BY DEF CaptureIndInv, WaitersServed, ConfirmTooLate, Settles, Answered
<1>5. OnItsWay'
  BY DEF CaptureIndInv, OnItsWay, ConfirmTooLate, Settles, runtime
<1>6. ServedFaithfully'
  BY DEF CaptureIndInv, ServedFaithfully, Serves, ConfirmTooLate, Settles, runtime
<1>7. AttemptsArePaused'
  BY DEF CaptureIndInv, AttemptsArePaused, ConfirmTooLate, Settles
<1>8. OnlyForItsSession'
  BY DEF CaptureIndInv, OnlyForItsSession, ConfirmTooLate, Remove, Settles
<1>9. SubscribedAsNeeded'
  BY DEF CaptureIndInv, SubscribedAsNeeded, Serves, OnlyForItsSession, ConfirmTooLate, Settles,
         runtime
<1> QED
  BY <1>1, <1>2, <1>3, <1>4, <1>5, <1>6, <1>7, <1>8, <1>9 DEF CaptureIndInv

\* failResume.
LEMMA ResumeFailsStep ==
    ASSUME CaptureIndInv, NEW k \in Callback, ResumeFails(k)
    PROVE  CaptureIndInv'
<1>1. CaptureTypeOK'
  <2>1. service' \in Instance
    BY DEF CaptureIndInv, CaptureTypeOK, ResumeFails, Settles, Instance
  <2>2. registration' \in [Callback -> Subscription]
    BY DEF CaptureIndInv, CaptureTypeOK, ResumeFails, Remove, Unused, Subscription
  <2>3. answer' \in [Caller -> Reply]
    BY DEF CaptureIndInv, CaptureTypeOK, ResumeFails, Answered, Reply
  <2>4. QED
    BY <2>1, <2>2, <2>3 DEF CaptureIndInv, CaptureTypeOK, ResumeFails, runtime
<1>2. MessagesFit'
  <2>1. service.live /\ service'.live
    BY DEF CaptureIndInv, WaitersServed, ResumeFails, Settles
  <2>2. QED
    BY <2>1 DEF CaptureIndInv, MessagesFit, ResumeFails
<1>3. NamesAreClaimed'
  BY DEF CaptureIndInv, NamesAreClaimed, ResumeFails, Remove, Unused, Settles, runtime
<1>4. WaitersServed'
  BY DEF CaptureIndInv, WaitersServed, ResumeFails, Settles, Answered
<1>5. OnItsWay'
  BY DEF CaptureIndInv, OnItsWay, ResumeFails, Settles, runtime
<1>6. ServedFaithfully'
  BY DEF CaptureIndInv, ServedFaithfully, Serves, ResumeFails, Settles, runtime
<1>7. AttemptsArePaused'
  BY DEF CaptureIndInv, AttemptsArePaused, ResumeFails, Settles
<1>8. OnlyForItsSession'
  BY DEF CaptureIndInv, OnlyForItsSession, ResumeFails, Remove, Settles
<1>9. SubscribedAsNeeded'
  BY DEF CaptureIndInv, SubscribedAsNeeded, Serves, OnlyForItsSession, AttemptsArePaused,
         ResumeFails, Settles, runtime
<1> QED
  BY <1>1, <1>2, <1>3, <1>4, <1>5, <1>6, <1>7, <1>8, <1>9 DEF CaptureIndInv

\* The provider confirms the first subscription of a session, or one nobody needs.
LEMMA RegisteredStep ==
    ASSUME CaptureIndInv, NEW k \in Callback, Registered(k)
    PROVE  CaptureIndInv'
<1>1. CaptureTypeOK'
  <2>1. service' \in Instance
    BY DEF CaptureIndInv, CaptureTypeOK, Registered, Instance
  <2>2. registration' \in [Callback -> Subscription]
    BY DEF CaptureIndInv, CaptureTypeOK, Registered, Remove, Unused, Subscription
  <2>3. QED
    BY <2>1, <2>2 DEF CaptureIndInv, CaptureTypeOK, Registered, runtime
<1>2. MessagesFit'
  <2>1. CASE service.live
    <3>1. service'.live
      BY <2>1 DEF CaptureIndInv, CaptureTypeOK, Instance, Registered
    <3>2. QED
      BY <2>1, <3>1 DEF CaptureIndInv, MessagesFit, Registered
  <2>2. CASE ~service.live
    <3>1. service' = service
      BY <2>2 DEF CaptureIndInv, MessagesFit, NoService, Registered
    <3>2. QED
      BY <3>1 DEF CaptureIndInv, MessagesFit, Registered
  <2>3. QED
    BY <2>1, <2>2 DEF CaptureIndInv
<1>3. NamesAreClaimed'
  <2>1. /\ UNCHANGED <<active, claimed, starting, main>> /\ service'.owned = service.owned
        /\ registration[k].at # "unused"
    BY DEF CaptureIndInv, CaptureTypeOK, Instance, Registered, Awaited, runtime
  <2>2. ASSUME NEW h \in Callback
        PROVE  registration'[h].of \in IF registration'[h].at = "unused" THEN {Null} ELSE claimed
    <3>1. \/ registration' = [registration EXCEPT ![k].at = "listening"]
          \/ registration' = [registration EXCEPT ![k] = Unused]
      BY DEF Registered, Remove
    <3>2. \/ registration'[h] = registration[h] \/ registration'[h] = Unused
          \/ h = k /\ registration'[h].of = registration[h].of /\ registration'[h].at = "listening"
      BY <3>1 DEF CaptureIndInv, CaptureTypeOK, Subscription
    <3>3. QED
      BY <2>1, <3>2 DEF CaptureIndInv, NamesAreClaimed, Unused
  <2>3. QED
    BY <2>1, <2>2 DEF CaptureIndInv, NamesAreClaimed
<1>4. WaitersServed'
  BY DEF CaptureIndInv, CaptureTypeOK, Instance, WaitersServed, MessagesFit, Registered, Current,
         Remove
<1>5. OnItsWay'
  BY DEF CaptureIndInv, CaptureTypeOK, Instance, OnItsWay, Registered, Current, runtime
<1>6. ServedFaithfully'
  BY DEF CaptureIndInv, CaptureTypeOK, Instance, ServedFaithfully, Serves, Registered, Current,
         runtime
<1>7. AttemptsArePaused'
  BY DEF CaptureIndInv, CaptureTypeOK, Instance, AttemptsArePaused, Registered, Current, Remove,
         runtime
<1>8. OnlyForItsSession'
  BY DEF CaptureIndInv, CaptureTypeOK, Instance, Subscription, OnlyForItsSession, MessagesFit,
         Registered, Current, Remove
<1>9. SubscribedAsNeeded'
  BY DEF CaptureIndInv, CaptureTypeOK, Instance, SubscribedAsNeeded, Serves, OnlyForItsSession,
         Registered, Current, runtime
<1> QED
  BY <1>1, <1>2, <1>3, <1>4, <1>5, <1>6, <1>7, <1>8, <1>9 DEF CaptureIndInv

\* The provider refuses it: the session ends with its service.
LEMMA NotRegisteredStep ==
    ASSUME CaptureIndInv, NEW k \in Callback, NotRegistered(k)
    PROVE  CaptureIndInv'
<1>1. CaptureTypeOK'
  <2>1. (active \in Session \cup {Null} /\ paused \in BOOLEAN)'
    BY DEF CaptureIndInv, CaptureTypeOK, NotRegistered, Fail
  <2>2. looper' \in Seq(Message)
    <3>1. CASE looper' = looper
      BY <3>1 DEF CaptureIndInv, CaptureTypeOK
    <3>2. CASE looper' # looper
      <4>1. looper' = StopSelf(looper) /\ service.owned # Null
        BY <3>2 DEF NotRegistered, Fail, Current
      <4>2. Fit(looper, TRUE)
        <5>1. service.live
          BY <4>1 DEF CaptureIndInv, MessagesFit, NoService
        <5>2. QED
          BY <5>1 DEF CaptureIndInv, MessagesFit
      <4>3. QED
        BY <4>1, <4>2, StopSelfLemma DEF CaptureIndInv, CaptureTypeOK
    <3>3. QED
      BY <3>1, <3>2
  <2>3. service' \in Instance
    BY DEF CaptureIndInv, CaptureTypeOK, NotRegistered, Fail, WithoutCallback, Instance
  <2>4. registration' \in [Callback -> Subscription]
    BY DEF CaptureIndInv, CaptureTypeOK, NotRegistered, Fail, Retired, Remove, Unused,
           Subscription
  <2>5. QED
    BY <2>1, <2>2, <2>3, <2>4 DEF CaptureIndInv, CaptureTypeOK, NotRegistered
<1>2. MessagesFit'
  <2>1. CASE service.live
    <3>1. service'.live /\ Fit(looper', TRUE)
      <4>1. service'.live /\ looper' \in {looper, StopSelf(looper)}
        BY <2>1 DEF CaptureIndInv, CaptureTypeOK, Instance, NotRegistered, Fail, WithoutCallback
      <4>2. looper \in Seq(Message) /\ Fit(looper, TRUE)
        BY <2>1 DEF CaptureIndInv, CaptureTypeOK, MessagesFit
      <4>3. QED
        BY <4>1, <4>2, PerhapsStopsLemma
    <3>2. QED
      BY <2>1, <3>1 DEF CaptureIndInv, MessagesFit, NotRegistered
  <2>2. CASE ~service.live
    <3>1. service' = service /\ looper' = looper
      BY <2>2 DEF CaptureIndInv, MessagesFit, NoService, NotRegistered, Current
    <3>2. QED
      BY <3>1 DEF CaptureIndInv, MessagesFit, NotRegistered
  <2>3. QED
    BY <2>1, <2>2 DEF CaptureIndInv
<1>3. NamesAreClaimed'
  <2>1. \/ registration' = [registration EXCEPT ![k].at = "refused"]
           /\ registration[k].of \in claimed
        \/ registration' = Retired(active) /\ active \in Session
        \/ registration' = [registration EXCEPT ![k] = Unused] /\ k # service.pending
    BY DEF CaptureIndInv, CaptureTypeOK, NotRegistered, Fail, NamesAreClaimed, Current, Remove
  <2>2. ASSUME NEW h \in Callback
        PROVE  registration'[h].of \in IF registration'[h].at = "unused" THEN {Null} ELSE claimed
    <3>1. CASE registration' = Retired(active) /\ active \in Session
      <4>1. \/ Retired(active)[h] = registration[h] \/ Retired(active)[h] = Unused
            \/ Retired(active)[h] = [of |-> registration[h].of, at |-> "dropped"]
               /\ registration[h].of \in claimed
        BY <3>1, RetiredLemma
      <4>2. QED
        BY <3>1, <4>1 DEF CaptureIndInv, NamesAreClaimed, Unused
    <3>2. CASE ~ (registration' = Retired(active) /\ active \in Session)
      BY <2>1, <3>2 DEF CaptureIndInv, CaptureTypeOK, Subscription, NamesAreClaimed, Unused
    <3>3. QED
      BY <2>1, <3>1, <3>2
  <2>3. QED
    BY <2>2
       DEF CaptureIndInv, CaptureTypeOK, Instance, NamesAreClaimed, NotRegistered, Fail,
           WithoutCallback
<1>4. WaitersServed'
  <2>1. service'.waiters = service.waiters /\ service'.pending = service.pending
        /\ service'.live = service.live
    BY DEF CaptureIndInv, CaptureTypeOK, Instance, NotRegistered, Fail, WithoutCallback
  <2>2. service.pending # Null => registration'[service.pending].at \in {"asked", "dropped"}
    <3>1. \/ registration' = [registration EXCEPT ![k].at = "refused"] /\ k # service.pending
          \/ registration' = Retired(active) /\ active \in Session
          \/ registration' = [registration EXCEPT ![k] = Unused] /\ k # service.pending
      BY DEF CaptureIndInv, CaptureTypeOK, NotRegistered, Fail, Current, Remove
    <3> SUFFICES ASSUME service.pending # Null
                 PROVE  registration'[service.pending].at \in {"asked", "dropped"}
      OBVIOUS
    <3>2. service.pending \in Callback /\ registration[service.pending].at \in {"asked",
          "dropped"}
      BY DEF CaptureIndInv, CaptureTypeOK, Instance, WaitersServed
    <3>3. CASE registration' = Retired(active) /\ active \in Session
      <4>1. \/ Retired(active)[service.pending] = registration[service.pending]
            \/ Retired(active)[service.pending] = [of |-> registration[service.pending].of,
               at |-> "dropped"]
        BY <3>2, <3>3, RetiredLemma
      <4>2. QED
        BY <3>2, <3>3, <4>1
    <3>4. CASE ~ (registration' = Retired(active) /\ active \in Session)
      BY <3>1, <3>2, <3>4 DEF CaptureIndInv, CaptureTypeOK
    <3>5. QED
      BY <3>1, <3>3, <3>4
  <2>3. QED
    BY <2>1, <2>2 DEF CaptureIndInv, WaitersServed, NotRegistered
<1>5. OnItsWay'
  BY StopSelfLemma
     DEF CaptureIndInv, CaptureTypeOK, Instance, OnItsWay, NotRegistered, Current, Fail, Retired,
         Retires
<1>6. ServedFaithfully'
  BY DEF CaptureIndInv, CaptureTypeOK, Instance, ServedFaithfully, Serves, NotRegistered, Current,
         Fail, Retired, Retires
<1>7. AttemptsArePaused'
  BY DEF CaptureIndInv, CaptureTypeOK, Instance, AttemptsArePaused, NotRegistered, Current, Fail,
         Remove, Retired, Retires
<1>8. OnlyForItsSession'
  BY SMTT(20)
     DEF CaptureIndInv, CaptureTypeOK, Instance, Subscription, OnlyForItsSession, NamesAreClaimed,
         MessagesFit, WaitersServed, NotRegistered, Awaited, MainFree, AtRest, Current, Fail,
         Remove, Unused, Retired, WithoutCallback, Retires, runtime, captureVars
<1>9. SubscribedAsNeeded'
  BY DEF CaptureIndInv, CaptureTypeOK, Instance, SubscribedAsNeeded, Serves, OnlyForItsSession,
         NotRegistered, Current, Fail, Retired, Retires
<1> QED
  BY <1>1, <1>2, <1>3, <1>4, <1>5, <1>6, <1>7, <1>8, <1>9 DEF CaptureIndInv

\* Android stops the service.
LEMMA SystemStopsStep ==
    ASSUME CaptureIndInv, SystemStops
    PROVE  CaptureIndInv'
<1>1. CaptureTypeOK'
  <2>1. looper' \in Seq(Message)
    BY StopServiceLemma DEF CaptureIndInv, CaptureTypeOK, SystemStops, MessagesFit, Instance
  <2>2. QED
    BY <2>1 DEF CaptureIndInv, CaptureTypeOK, SystemStops, runtime
<1>2. MessagesFit'
  BY StopServiceLemma DEF CaptureIndInv, CaptureTypeOK, Instance, MessagesFit, SystemStops
<1>3. NamesAreClaimed'
  BY DEF CaptureIndInv, NamesAreClaimed, SystemStops, runtime
<1>4. WaitersServed'
  BY DEF CaptureIndInv, WaitersServed, SystemStops
<1>5. OnItsWay'
  BY StopServiceLemma
     DEF CaptureIndInv, CaptureTypeOK, Instance, OnItsWay, MessagesFit, SystemStops, runtime
<1>6. ServedFaithfully'
  BY DEF CaptureIndInv, ServedFaithfully, Serves, SystemStops, runtime
<1>7. AttemptsArePaused'
  BY DEF CaptureIndInv, AttemptsArePaused, SystemStops, runtime
<1>8. OnlyForItsSession'
  BY DEF CaptureIndInv, OnlyForItsSession, SystemStops
<1>9. SubscribedAsNeeded'
  BY DEF CaptureIndInv, SubscribedAsNeeded, Serves, SystemStops, runtime
<1> QED
  BY <1>1, <1>2, <1>3, <1>4, <1>5, <1>6, <1>7, <1>8, <1>9 DEF CaptureIndInv

\* The process dies, and everything with it but what JavaScript was told.
LEMMA ProcessDiesStep ==
    ASSUME CaptureIndInv, ProcessDies
    PROVE  CaptureIndInv'
<1>1. CaptureTypeOK'
  <2>1. (active \in Session \cup {Null} /\ paused \in BOOLEAN)'
    BY DEF CaptureIndInv, ProcessDies
  <2>2. (claimed \subseteq Session /\ starting \in claimed \cup {Null})'
    BY DEF CaptureIndInv, CaptureTypeOK, ProcessDies
  <2>3. looper' \in Seq(Message)
    BY DEF CaptureIndInv, ProcessDies
  <2>4. main' \in Moment
    BY DEF CaptureIndInv, ProcessDies, AtRest, Moment
  <2>5. service' \in Instance
    BY DEF CaptureIndInv, ProcessDies, NoService, Instance
  <2>6. registration' \in [Callback -> Subscription]
    BY DEF CaptureIndInv, ProcessDies, Unused, Subscription
  <2>7. answer' \in [Caller -> Reply]
    BY DEF CaptureIndInv, ProcessDies, Reply
  <2>8. QED
    BY <2>1, <2>2, <2>3, <2>4, <2>5, <2>6, <2>7 DEF CaptureIndInv, CaptureTypeOK, ProcessDies
<1>2. MessagesFit'
  BY DEF MessagesFit, Fit, ProcessDies, AtRest
<1>3. NamesAreClaimed'
  BY DEF CaptureIndInv, NamesAreClaimed, ProcessDies, AtRest, NoService, Unused
<1>4. WaitersServed'
  BY DEF CaptureIndInv, WaitersServed, ProcessDies, NoService
<1>5. OnItsWay'
  BY DEF CaptureIndInv, OnItsWay, ProcessDies
<1>6. ServedFaithfully'
  BY DEF CaptureIndInv, ServedFaithfully, Serves, ProcessDies
<1>7. AttemptsArePaused'
  BY DEF CaptureIndInv, AttemptsArePaused, ProcessDies
<1>8. OnlyForItsSession'
  BY DEF CaptureIndInv, OnlyForItsSession, ProcessDies, NoService
<1>9. SubscribedAsNeeded'
  BY DEF CaptureIndInv, SubscribedAsNeeded, Serves, ProcessDies
<1> QED
  BY <1>1, <1>2, <1>3, <1>4, <1>5, <1>6, <1>7, <1>8, <1>9 DEF CaptureIndInv

\* What is left of the subscriptions once a session this instance served before
\* has given way.
LEMMA ClearedLemma ==
    ASSUME CaptureIndInv
    PROVE  /\ Cleared \in [Callback -> Subscription]
           /\ \A k \in Callback :
                 \/ Cleared[k] = registration[k]
                 \/ Cleared[k] = Unused /\ (k = service.pending => GivesWay)
                 \/ Cleared[k] = [of |-> registration[k].of, at |-> "dropped"]
                    /\ registration[k].of \in claimed
           /\ ~Replaces => Cleared = registration
<1>1. registration \in [Callback -> Subscription] /\ Unused \in Subscription
  BY DEF CaptureIndInv, CaptureTypeOK, Unused, Subscription
<1>2. Retired(Null) \in [Callback -> Subscription]
  BY RetiredLemma
<1>3. \A k \in Callback :
        \/ Retired(Null)[k] = registration[k]
        \/ Retired(Null)[k] = Unused /\ k # service.pending
        \/ Retired(Null)[k] = [of |-> registration[k].of, at |-> "dropped"]
           /\ registration[k].of \in claimed
  BY RetiredLemma
<1>4. Cleared \in [Callback -> Subscription]
  BY <1>1, <1>2 DEF Cleared
<1>5. ASSUME NEW k \in Callback
      PROVE  \/ Cleared[k] = registration[k]
             \/ Cleared[k] = Unused /\ (k = service.pending => GivesWay)
             \/ Cleared[k] = [of |-> registration[k].of, at |-> "dropped"]
                /\ registration[k].of \in claimed
  BY <1>3 DEF Cleared
<1>6. ~Replaces => Cleared = registration
  BY <1>1, <1>4 DEF Cleared, GivesWay
<1>7. QED
  BY <1>4, <1>5, <1>6

\* What serving a session does: the instance keeps a subscription only of the
\* session it served already, and asks for one if there is none and none is unwanted.
LEMMA ServeLemma ==
    ASSUME CaptureIndInv, Serve
    PROVE  /\ main.at = "starting" /\ main' = AtRest /\ main.for \in claimed
           /\ service.live /\ service' \in Instance
           /\ service'.live /\ service'.owned = main.for /\ service'.kick
           /\ service'.ahead = service.ahead
           /\ service'.pending = IF GivesWay THEN Null ELSE service.pending
           /\ service'.waiters = IF GivesWay THEN {} ELSE service.waiters
           /\ \/ /\ service'.callback = IF Replaces THEN Null ELSE service.callback
                 /\ service'.callback # Null \/ paused
                 /\ registration' = Cleared
              \/ \E k \in Callback :
                    /\ Replaces \/ service.callback = Null
                    /\ ~paused /\ service'.callback = k /\ Cleared[k] = Unused
                    /\ registration' = [Cleared EXCEPT ![k] = [of |-> main.for, at |-> "asked"]]
<1> DEFINE kept == Resumed(IF Replaces THEN WithoutCallback(Null) ELSE service)
<1>1. main.at = "starting" /\ main' = AtRest /\ main.for \in claimed /\ service.live
  BY DEF CaptureIndInv, Serve, NamesAreClaimed, MessagesFit
<1>2. /\ kept \in Instance /\ kept.live = service.live /\ kept.ahead = service.ahead
      /\ kept.callback = IF Replaces THEN Null ELSE service.callback
      /\ kept.pending = IF GivesWay THEN Null ELSE service.pending
      /\ kept.waiters = IF GivesWay THEN {} ELSE service.waiters
  BY DEF CaptureIndInv, CaptureTypeOK, Resumed, WithoutCallback, Retires, GivesWay, Instance
<1>3. \/ /\ service' = [kept EXCEPT !.owned = main.for, !.kick = TRUE]
         /\ kept.callback # Null \/ paused
         /\ registration' = Cleared
      \/ \E k \in Callback :
            /\ kept.callback = Null /\ ~paused /\ Cleared[k] = Unused
            /\ service' = [kept EXCEPT !.owned = main.for, !.callback = k, !.kick = TRUE]
            /\ registration' = [Cleared EXCEPT ![k] = [of |-> main.for, at |-> "asked"]]
  BY DEF CaptureIndInv, Serve
<1>4. claimed \subseteq Session
  BY DEF CaptureIndInv, CaptureTypeOK
<1> HIDE DEF kept
<1>5. CASE /\ service' = [kept EXCEPT !.owned = main.for, !.kick = TRUE]
           /\ kept.callback # Null \/ paused
           /\ registration' = Cleared
  BY <1>1, <1>2, <1>4, <1>5 DEF Instance
<1>6. ASSUME NEW k \in Callback, kept.callback = Null, ~paused, Cleared[k] = Unused,
             service' = [kept EXCEPT !.owned = main.for, !.callback = k, !.kick = TRUE],
             registration' = [Cleared EXCEPT ![k] = [of |-> main.for, at |-> "asked"]]
      PROVE  /\ service' \in Instance
             /\ service'.live /\ service'.owned = main.for /\ service'.kick
             /\ service'.ahead = service.ahead
             /\ service'.pending = IF GivesWay THEN Null ELSE service.pending
             /\ service'.waiters = IF GivesWay THEN {} ELSE service.waiters
             /\ Replaces \/ service.callback = Null
             /\ service'.callback = k
  BY <1>1, <1>2, <1>4, <1>6 DEF Instance
<1>7. QED
  BY <1>1, <1>3, <1>5, <1>6

\* onStartCommand serves the session it read.
LEMMA ServeStep ==
    ASSUME CaptureIndInv, Serve
    PROVE  CaptureIndInv'
<1> USE ServeLemma, ClearedLemma
<1>0. UNCHANGED <<active, paused, claimed, starting, looper>>
  BY DEF Serve, runtime
<1>1. CaptureTypeOK'
  <2>1. main' \in Moment
    BY DEF AtRest, Moment
  <2>2. registration' \in [Callback -> Subscription]
    <3>1. claimed \subseteq Session
      BY DEF CaptureIndInv, CaptureTypeOK
    <3>2. QED
      BY <3>1 DEF Subscription
  <2>3. answer' \in [Caller -> Reply]
    BY DEF CaptureIndInv, CaptureTypeOK, Serve, Answered, Reply
  <2>4. QED
    BY <1>0, <2>1, <2>2, <2>3 DEF CaptureIndInv, CaptureTypeOK
<1>2. MessagesFit'
  BY <1>0 DEF CaptureIndInv, MessagesFit
<1>3. NamesAreClaimed'
  <2>1. ASSUME NEW k \in Callback
        PROVE  registration'[k].of \in IF registration'[k].at = "unused" THEN {Null} ELSE claimed
    <3>1. Cleared[k].of \in IF Cleared[k].at = "unused" THEN {Null} ELSE claimed
      <4>1. \/ Cleared[k] = registration[k] \/ Cleared[k] = Unused
            \/ Cleared[k] = [of |-> registration[k].of, at |-> "dropped"]
               /\ registration[k].of \in claimed
        OBVIOUS
      <4>2. registration[k].of \in IF registration[k].at = "unused" THEN {Null} ELSE claimed
        BY DEF CaptureIndInv, NamesAreClaimed
      <4>3. QED
        BY <4>1, <4>2 DEF Unused
    <3>2. registration'[k] \in {Cleared[k], [of |-> main.for, at |-> "asked"]}
          /\ main.for \in claimed
      OBVIOUS
    <3>3. QED
      BY <3>1, <3>2
  <2>2. QED
    BY <1>0, <2>1 DEF CaptureIndInv, NamesAreClaimed, AtRest
<1>4. WaitersServed'
  <2>1. \A c \in Caller : answer'[c] = "waiting" <=> c \in service'.waiters
    BY DEF CaptureIndInv, WaitersServed, Serve, Answered
  <2>2. service'.waiters # {} <=> service'.pending # Null
    BY DEF CaptureIndInv, WaitersServed
  <2>3. ASSUME service'.pending # Null
        PROVE  registration'[service'.pending].at \in {"asked", "dropped"}
    <3>1. /\ ~GivesWay /\ service'.pending = service.pending /\ service.pending \in Callback
          /\ registration[service.pending].at \in {"asked", "dropped"}
      BY <2>3 DEF CaptureIndInv, Instance, WaitersServed
    <3>2. Cleared[service.pending].at \in {"asked", "dropped"}
      BY <3>1
    <3>3. QED
      BY <3>1, <3>2
  <2>4. QED
    BY <2>1, <2>2, <2>3 DEF WaitersServed
<1>5. OnItsWay'
  BY <1>0 DEF CaptureIndInv, OnItsWay, ServedFaithfully, Serves
<1>6. ServedFaithfully'
  BY <1>0 DEF ServedFaithfully, AtRest
<1>7. AttemptsArePaused'
  <2> SUFFICES ASSUME service'.pending # Null, active' # Null,
                      registration'[service'.pending].of = active'
               PROVE  paused'
    BY DEF AttemptsArePaused
  <2>1. /\ ~GivesWay /\ service'.pending = service.pending /\ service.pending \in Callback
        /\ registration[service.pending].at \in {"asked", "dropped"}
    BY DEF CaptureIndInv, Instance, WaitersServed
  <2>2. Cleared[service.pending].of = registration[service.pending].of
        /\ Cleared[service.pending] # Unused
    BY <2>1 DEF Unused
  <2>3. registration'[service.pending].of = registration[service.pending].of
    BY <2>1, <2>2
  <2>4. QED
    BY <1>0, <2>1, <2>3 DEF CaptureIndInv, AttemptsArePaused
<1>8. OnlyForItsSession'
  <2> SUFFICES ASSUME ~service'.ahead
               PROVE  /\ service'.callback # Null =>
                            service'.owned # Null
                            /\ registration'[service'.callback].of = service'.owned
                      /\ service'.pending # Null =>
                            service'.owned # Null
                            /\ registration'[service'.pending].of = service'.owned
    BY DEF OnlyForItsSession
  <2>1. main.for # Null
    BY DEF CaptureIndInv, CaptureTypeOK
  <2>2. service.pending # Null => service.owned # Null
        /\ registration[service.pending].of = service.owned
    BY DEF CaptureIndInv, OnlyForItsSession
  <2>3. service'.pending # Null => ~Replaces /\ service'.pending = service.pending
    BY <2>2 DEF GivesWay
  <2>4. ~Replaces /\ service.owned # Null => service.owned = main.for
    BY DEF Replaces
  <2>5. service'.pending # Null => registration'[service'.pending].of = main.for
    <3> SUFFICES ASSUME service'.pending # Null PROVE registration'[service'.pending].of = main.for
      OBVIOUS
    <3>1. /\ service'.pending = service.pending /\ service.pending \in Callback
          /\ Cleared = registration /\ registration[service.pending].at # "unused"
          /\ registration[service.pending].of = main.for
      BY <2>2, <2>3, <2>4 DEF CaptureIndInv, Instance, WaitersServed
    <3>2. QED
      BY <3>1
  <2>6. service'.callback # Null => registration'[service'.callback].of = main.for
    <3>1. CASE /\ registration' = Cleared
               /\ service'.callback = IF Replaces THEN Null ELSE service.callback
      BY <2>4, <3>1 DEF CaptureIndInv, OnlyForItsSession
    <3>2. ASSUME NEW k \in Callback, service'.callback = k,
                 registration' = [Cleared EXCEPT ![k] = [of |-> main.for, at |-> "asked"]]
          PROVE  registration'[service'.callback].of = main.for
      BY <3>2
    <3>3. QED
      BY <3>1, <3>2
  <2>7. QED
    BY <2>1, <2>5, <2>6
<1>9. SubscribedAsNeeded'
  <2> SUFFICES ASSUME ~service'.ahead, Serves'
               PROVE  /\ ~paused' => service'.callback # Null
                      /\ service'.pending # Null => service'.callback = service'.pending
                      /\ paused' => service'.callback = service'.pending
    BY DEF SubscribedAsNeeded
  <2>1. active = main.for /\ active # Null /\ ~service.ahead
    BY <1>0 DEF Serves
  <2>2. ~paused' => service'.callback # Null
    BY <1>0
  <2>3. CASE service.owned = active
    <3>1. ~Replaces /\ ~GivesWay /\ Serves
      BY <2>1, <2>3 DEF Replaces, GivesWay, Serves
    <3>2. /\ ~paused => service.callback # Null
          /\ service.pending # Null => service.callback = service.pending
          /\ paused => service.callback = service.pending
      BY <2>1, <3>1 DEF CaptureIndInv, SubscribedAsNeeded
    <3>3. service'.pending = service.pending /\ service'.callback = service.callback
      BY <3>1, <3>2
    <3>4. QED
      BY <1>0, <3>2, <3>3
  <2>4. CASE service.owned # active
    <3>1. service'.pending = Null
      BY <2>1, <2>4 DEF CaptureIndInv, OnlyForItsSession, GivesWay, Replaces
    <3>2. Replaces \/ service.callback = Null
      BY <2>1, <2>4 DEF CaptureIndInv, OnlyForItsSession, Replaces
    <3>3. paused' => service'.callback = Null
      BY <1>0, <3>2
    <3>4. QED
      BY <2>2, <3>1, <3>3
  <2>5. QED
    BY <2>3, <2>4
<1>10. QED
  BY <1>1, <1>2, <1>3, <1>4, <1>5, <1>6, <1>7, <1>8, <1>9 DEF CaptureIndInv

\* The inductive invariant holds from the start and every step keeps it.
LEMMA CaptureInduction == CaptureSpec => []CaptureIndInv
<1>1. CaptureInit => CaptureIndInv
  <2> SUFFICES ASSUME CaptureInit PROVE CaptureIndInv
    OBVIOUS
  <2> USE DEF CaptureInit
  <2>1. AtRest \in Moment /\ NoService \in Instance /\ Unused \in Subscription
    BY DEF AtRest, Moment, NoService, Instance, Unused, Subscription
  <2>2. CaptureTypeOK
    <3>1. looper \in Seq(Message) /\ answer \in [Caller -> Reply]
      BY DEF Reply
    <3>2. registration \in [Callback -> Subscription]
      BY <2>1
    <3>3. QED
      BY <2>1, <3>1, <3>2 DEF CaptureTypeOK
  <2>3. MessagesFit
    BY DEF MessagesFit, Fit, AtRest
  <2>4. NamesAreClaimed /\ WaitersServed
    BY DEF NamesAreClaimed, WaitersServed, AtRest, NoService, Unused
  <2>5. OnItsWay /\ ServedFaithfully /\ AttemptsArePaused /\ OnlyForItsSession
        /\ SubscribedAsNeeded
    BY DEF OnItsWay, ServedFaithfully, Serves, AttemptsArePaused, OnlyForItsSession,
           SubscribedAsNeeded, NoService
  <2>6. QED
    BY <2>2, <2>3, <2>4, <2>5 DEF CaptureIndInv
<1>2. ASSUME CaptureIndInv, [CaptureNext]_captureVars PROVE CaptureIndInv'
  <2>1. CASE UNCHANGED captureVars
    BY <1>2, <2>1
       DEF captureVars, runtime, CaptureIndInv, CaptureTypeOK, MessagesFit, NamesAreClaimed,
           WaitersServed, OnItsWay, ServedFaithfully, Serves, AttemptsArePaused,
           OnlyForItsSession, SubscribedAsNeeded
  <2>2. CASE Bridge
    BY <1>2, <2>2, ClaimStep, RequestStartStep, StopTrackingStep DEF Bridge
  <2>3. CASE MainThread
    BY <1>2, <2>3, CreateStep, StartCommandStep, NotServedStep, ServeStep, DestroyStep,
       DrainKickStep, PauseServiceStep, PauseStep, ResumeAnsweredStep, ResumeJoinsStep,
       ResumeAsksStep
       DEF MainThread
  <2>4. CASE Provider
    BY <1>2, <2>4, ConfirmStep, ConfirmTooLateStep, ResumeFailsStep, RegisteredStep,
       NotRegisteredStep
       DEF Provider
  <2>5. QED
    BY <1>2, <2>1, <2>2, <2>3, <2>4, SystemStopsStep, ProcessDiesStep DEF CaptureNext
<1>3. QED
  BY <1>1, <1>2, PTL DEF CaptureSpec

\* Once the start of a session and the main thread have come to rest, the active session
\* has its service, subscribed as the session needs; whoever waits for a resume waits for
\* one under way; and drains are asked for only for a session that captures
\* (TripLocationService.onStartCommand, pauseOwned, resumeOwned; TripLocationRuntime).
THEOREM CaptureInvariant == CaptureSpec => []CaptureInv
<1>1. ASSUME CaptureIndInv PROVE CaptureBacked
  <2> SUFFICES ASSUME active # Null, Quiet
               PROVE  /\ service.live /\ service.owned = active
                      /\ ~service.ahead =>
                            IF paused THEN service.callback = service.pending
                            ELSE service.callback # Null /\ CallbackSession = active
    BY DEF CaptureBacked
  <2>1. service.owned = active
    BY <1>1 DEF CaptureIndInv, OnItsWay, Quiet, AtRest
  <2>2. service.live
    BY <1>1, <2>1 DEF CaptureIndInv, MessagesFit, NoService
  <2>3. QED
    BY <1>1, <2>1, <2>2
       DEF CaptureIndInv, SubscribedAsNeeded, OnlyForItsSession, Serves, Quiet, AtRest,
           CallbackSession
<1>2. ASSUME CaptureIndInv PROVE KicksWhileCapturing
  BY <1>2
     DEF CaptureIndInv, KicksWhileCapturing, OnItsWay, ServedFaithfully, Serves, Quiet, AtRest
<1>3. CaptureIndInv => CaptureInv
  BY <1>1, <1>2 DEF CaptureIndInv, CaptureInv
<1>4. QED
  BY <1>3, CaptureInduction, PTL

\* "applied" says that the provider listens for the session that is active now, unless the
\* instance was asked to resume a session before it had taken up its start command
\* (confirmResume).
THEOREM ResumesHonestly == CaptureSpec => ResumeHonest
<1>1. ASSUME CaptureIndInv, [CaptureNext]_captureVars, ~service.ahead PROVE ToldOnceListening
  <2> SUFFICES ASSUME NEW c \in Caller, answer[c] = "waiting", answer'[c] = "applied"
               PROVE  /\ active' # Null /\ ~paused' /\ service'.callback # Null
                      /\ registration'[service'.callback] = [of |-> active', at |-> "listening"]
    BY DEF ToldOnceListening
  <2>1. \E k \in Callback : Confirm(k)
    BY <1>1
       DEF CaptureIndInv, CaptureTypeOK, CaptureNext, Bridge, MainThread, Provider, captureVars,
           Claim, RequestStart, StopTracking, Create, StartCommand, NotServed, Serve, Destroy,
           DrainKick, Pause, PauseService, ResumeAnswered, ResumeJoins, ResumeAsks,
           ConfirmTooLate, ResumeFails, Registered, NotRegistered, SystemStops, ProcessDies,
           Answered
  <2>2. PICK k \in Callback : Confirm(k)
    BY <2>1
  <2>3. active # Null /\ service.owned = active
    BY <1>1, <2>2 DEF CaptureIndInv, OnlyForItsSession, Confirm
  <2>4. service.callback = k
    BY <1>1, <2>2, <2>3 DEF CaptureIndInv, SubscribedAsNeeded, Serves, Confirm
  <2>5. QED
    BY <1>1, <2>2, <2>3, <2>4 DEF CaptureIndInv, CaptureTypeOK, Subscription, Confirm, Settles
<1>2. QED
  BY <1>1, CaptureInduction, PTL DEF CaptureSpec, ResumeHonest

-----------------------------------------------------------------------------
(* The orchestrator.  What an operation record may hold. *)

Kinds == {"none", "reconcile", "request", "start", "complete", "signOut", "lost"}
Places == {"free"} \cup BridgeWaits \cup MainWaits \cup ServerWaits \cup OtherWaits
Seens == {"nothing", "status", "unreadable", "proved", "unproved", "refuted", "rejected",
          "asked", "noTrip", "oneTrip", "done", "refused", "assigned", "running", "over"}
\* A session of the native module, an operation, what the driver sees.
SessionRecord == [by : Whose \cup {"nobody"}, trip : Trip \cup {None}, paused : BOOLEAN]
OpRecord ==
    [kind : Kinds, at : Places, current : BOOLEAN, by : Whose \cup {"nobody"},
     trip : Trip \cup {None}, seen : Seens, status : SessionRecord]
ViewRecord ==
    [phase : {"reconciling", "inactive", "active", "paused", "unavailable"},
     trip : Trip \cup {None}, unknown : BOOLEAN, busy : BOOLEAN]

\* What only a sign-out awaits, what only a completion does.
LeavingAts == {"proveOut", "lastBatch", "logout"}
CompleteAts == {"admission", "admitOther", "pauseTrip", "drain", "complete", "completeCheck"}

\* An operation in progress knows whose it is; what it awaits says which it is.
OpFits(r) ==
    r = NoOp \/
    /\ r.kind # "none" /\ r.at # "free" /\ r.by \in Whose
    /\ r.kind = "signOut" <=> r.at \in LeavingAts
    /\ r.kind = "lost" <=> r.at = "lost"
    /\ r.at \in CompleteAts => r.kind = "complete"
    /\ r.at \in CompleteAts \cup {"start", "startCheck", "recover"} => r.trip \in Trip

\* The types.
TrackingShapes ==
    /\ op \in [Op -> OpRecord] /\ \A o \in Op : OpFits(op[o])
    /\ bridge \in Seq(Op) /\ mainThread \in Seq(Op) /\ resumers \subseteq Op
    /\ native \in SessionRecord
    /\ server \in [Trip -> {"assigned", "running", "over"}]
    /\ {authenticated, mounted, signingOut, overlapped, foreground, foregroundPending,
        automatic} \subseteq BOOLEAN
    /\ view \in ViewRecord

\* A queue of calls: who is in it, and in front of whom.
IsIn(queue, o) == \E i \in 1..Len(queue) : queue[i] = o
NoneTwice(queue) == \A i, j \in 1..Len(queue) : queue[i] = queue[j] => i = j
InOrder(queue, o, q) ==
    \E i, j \in 1..Len(queue) : i < j /\ queue[i] = o /\ queue[j] = q

\* The native-modules thread answers each call that awaits it, once.
Queued ==
    /\ \A o \in Op : op[o].at \in BridgeWaits <=> IsIn(bridge, o)
    /\ NoneTwice(bridge)

\* Behind the fence no operation is live, and nothing captures, unless the driver began
\* something while signing out.  A sign-out, a loss, a fenced start or completion of this
\* login says that it is ending.
Leaving == signingOut \/ ~authenticated

Fenced ==
    /\ authenticated => mounted
    /\ Leaving /\ ~overlapped => native = Stopped /\ \A o \in Op : ~Live(o)
    /\ \A o \in Op : Mine(o) /\ op[o].kind = "signOut" => signingOut
    /\ \A o, q \in Op : Mine(o) /\ Mine(q) /\ op[o].kind = "signOut" /\ op[q].kind = "signOut" =>
                         o = q
    /\ \A o \in Op : Mine(o) /\ op[o].kind = "lost" => ~authenticated
    /\ \A o \in Op : Mine(o) /\ op[o].kind \in {"start", "complete"} /\ ~op[o].current =>
                      ~authenticated

\* An operation that has just started a session; one that has proof of a stop.
Starting(q) == op[q].at = "started" /\ op[q].seen = "status"
ProvesStop(o) == op[o].at \in StopWaits /\ op[o].seen = "proved"

\* Whoever waits for the provider is waiting.
Waiting == \A o \in resumers : op[o].at = "resume" /\ op[o].seen = "asked"

\* A proof of a stop is about the past: if something captures again, whoever started it is
\* behind it in the queue of the native-modules thread.
StopsInOrder ==
    \A o \in Op : ProvesStop(o) /\ native # Stopped =>
        \E q \in Op : Starting(q) /\ InOrder(bridge, o, q)

\* Who will still say what the native module is doing.
DecidingAts == {"look", "replace", "lookAgain", "started", "resume", "drain", "complete",
                "completeCheck", "settle"}
Deciding(q) == Starting(q) \/ (Live(q) /\ op[q].at \in DecidingAts)
QuietView == view.phase = "inactive" /\ ~view.unknown

\* "Inactive" over a capture does not last: somebody is about to say otherwise.
QuietIsDecided == QuietView /\ ~overlapped /\ native # Stopped => \E q \in Op : Deciding(q)

\* A foreground that has not started the drain is owed it by an operation in progress.
DrainOwed ==
    mounted /\ authenticated /\ foreground /\ ~signingOut /\ ~automatic =>
        foregroundPending /\ Underway # {}

\* What the orchestrator's promises rest on.
TrackingIndInv ==
    /\ TrackingShapes /\ Queued /\ Waiting /\ Fenced
    /\ StopsInOrder /\ QuietIsDecided /\ DrainOwed
-----------------------------------------------------------------------------
(* The queue of the native-modules thread. *)

\* The call in front is answered: the others keep their order.
LEMMA BehindQueue ==
    ASSUME NEW queue \in Seq(Op), NEW o \in Op, NoneTwice(queue),
           IsIn(queue, o) => queue # <<>> /\ Head(queue) = o
    PROVE  /\ Behind(queue, o) \in Seq(Op) /\ NoneTwice(Behind(queue, o))
           /\ \A q \in Op : IsIn(Behind(queue, o), q) <=> IsIn(queue, q) /\ q # o
           /\ \A a, q \in Op : InOrder(queue, a, q) /\ a # o /\ q # o =>
                                  InOrder(Behind(queue, o), a, q)
<1>1. CASE queue # <<>> /\ Head(queue) = o
  <2> DEFINE rest == Tail(queue)
  <2>1. /\ Behind(queue, o) = rest /\ rest \in Seq(Op) /\ Len(queue) \in Nat \ {0}
        /\ Len(rest) = Len(queue) - 1 /\ queue[1] = o
        /\ \A i \in 1..Len(rest) : rest[i] = queue[i + 1]
    BY <1>1, HeadTailProperties, LenProperties DEF Behind
  <2> HIDE DEF rest
  <2>2. NoneTwice(rest)
    BY <2>1 DEF NoneTwice
  <2>3. ASSUME NEW q \in Op PROVE IsIn(rest, q) <=> IsIn(queue, q) /\ q # o
    <3>1. IsIn(rest, q) => IsIn(queue, q) /\ q # o
      BY <2>1 DEF IsIn, NoneTwice
    <3>2. ASSUME NEW i \in 1..Len(queue), queue[i] = q, q # o PROVE IsIn(rest, q)
      <4>1. i - 1 \in 1..Len(rest) /\ rest[i - 1] = q
        BY <2>1, <3>2
      <4>2. QED
        BY <4>1 DEF IsIn
    <3>3. QED
      BY <3>1, <3>2 DEF IsIn
  <2>4. ASSUME NEW a \in Op, NEW q \in Op, InOrder(queue, a, q), a # o, q # o
        PROVE  InOrder(rest, a, q)
    <3>1. PICK i \in 1..Len(queue), j \in 1..Len(queue) : i < j /\ queue[i] = a /\ queue[j] = q
      BY <2>4 DEF InOrder
    <3>2. /\ i - 1 \in 1..Len(rest) /\ rest[i - 1] = a
          /\ j - 1 \in 1..Len(rest) /\ rest[j - 1] = q /\ i - 1 < j - 1
      BY <2>1, <2>4, <3>1
    <3>3. QED
      BY <3>2 DEF InOrder
  <2>5. QED
    BY <2>1, <2>2, <2>3, <2>4
<1>2. CASE ~(queue # <<>> /\ Head(queue) = o)
  <2>1. Behind(queue, o) = queue /\ ~IsIn(queue, o)
    BY <1>2 DEF Behind
  <2>2. QED
    BY <2>1
<1>3. QED
  BY <1>1, <1>2

\* A call is queued behind the others.
LEMMA AppendedQueue ==
    ASSUME NEW queue \in Seq(Op), NEW o \in Op, NoneTwice(queue), ~IsIn(queue, o)
    PROVE  /\ Append(queue, o) \in Seq(Op) /\ NoneTwice(Append(queue, o))
           /\ \A q \in Op : IsIn(Append(queue, o), q) <=> IsIn(queue, q) \/ q = o
           /\ \A a, q \in Op : InOrder(queue, a, q) => InOrder(Append(queue, o), a, q)
           /\ \A a \in Op : IsIn(queue, a) => InOrder(Append(queue, o), a, o)
<1> DEFINE longer == Append(queue, o)
<1>1. /\ longer \in Seq(Op) /\ Len(queue) \in Nat /\ Len(longer) = Len(queue) + 1
      /\ longer[Len(queue) + 1] = o /\ \A i \in 1..Len(queue) : longer[i] = queue[i]
  BY AppendProperties, LenProperties
<1> HIDE DEF longer
<1>2. NoneTwice(longer)
  BY <1>1 DEF NoneTwice, IsIn
<1>3. ASSUME NEW q \in Op PROVE IsIn(longer, q) <=> IsIn(queue, q) \/ q = o
  BY <1>1 DEF IsIn
<1>4. ASSUME NEW a \in Op, NEW q \in Op, InOrder(queue, a, q) PROVE InOrder(longer, a, q)
  <2>1. PICK i \in 1..Len(queue), j \in 1..Len(queue) : i < j /\ queue[i] = a /\ queue[j] = q
    BY <1>4 DEF InOrder
  <2>2. /\ i \in 1..Len(longer) /\ j \in 1..Len(longer)
        /\ longer[i] = a /\ longer[j] = q
    BY <1>1, <2>1
  <2>3. QED
    BY <2>1, <2>2 DEF InOrder
<1>5. ASSUME NEW a \in Op, IsIn(queue, a) PROVE InOrder(longer, a, o)
  <2>1. PICK i \in 1..Len(queue) : queue[i] = a
    BY <1>5 DEF IsIn
  <2>2. /\ i \in 1..Len(longer) /\ Len(queue) + 1 \in 1..Len(longer) /\ i < Len(queue) + 1
        /\ longer[i] = a
    BY <1>1, <2>1
  <2>3. QED
    BY <1>1, <2>2 DEF InOrder
<1>6. QED
  BY <1>1, <1>2, <1>3, <1>4, <1>5 DEF longer

\* Whoever is answered is in front, so nobody proves a stop in front of it.
LEMMA FrontIsFirst ==
    ASSUME NEW queue, Len(queue) \in Nat, NoneTwice(queue), queue # <<>>, NEW o, Head(queue) = o
    PROVE  \A a : ~InOrder(queue, a, o)
  BY DEF InOrder, NoneTwice
-----------------------------------------------------------------------------
(* An operation goes on. *)

\* It is answered: in front of the native-modules thread, or not waiting for it.
Acts(o) ==
    /\ op[o] # NoOp
    /\ op[o].at \in BridgeWaits => bridge # <<>> /\ Head(bridge) = o
    /\ op[o].at = "resume" => op[o].seen # "asked"

\* It stays the operation it was.
Same(r, o) == r.kind = op[o].kind /\ r.by = op[o].by /\ r.current = op[o].current

\* The view is quiet about a capture only if somebody else decides on it, or o still does.
Speaks(o) ==
    QuietView' => \/ native' = Stopped \/ ProvesStop(o) \/ Leaving
              \/ (QuietView /\ ~Deciding(o)) \/ Deciding(o)'

\* Whoever is answered leaves the queue, and may be queued again behind the others.
LEMMA QueueGoesOn ==
    ASSUME TrackingIndInv, NEW o \in Op, Acts(o), NEW r \in OpRecord,
           op' = [op EXCEPT ![o] = r],
           bridge' = IF r.at \in BridgeWaits THEN Append(Behind(bridge, o), o)
                     ELSE Behind(bridge, o)
    PROVE  /\ bridge' \in Seq(Op) /\ Queued'
           /\ \A a, q \in Op : InOrder(bridge, a, q) /\ a # o /\ q # o => InOrder(bridge', a, q)
           /\ \A a \in Op : r.at \in BridgeWaits /\ a # o /\ IsIn(bridge, a) =>
                         InOrder(bridge', a, o)
           /\ \A a \in Op : ~InOrder(bridge, a, o) \/ op[o].at \notin BridgeWaits
<1>1. /\ bridge \in Seq(Op) /\ NoneTwice(bridge) /\ op \in [Op -> OpRecord]
      /\ \A q \in Op : op[q].at \in BridgeWaits <=> IsIn(bridge, q)
  BY DEF TrackingIndInv, TrackingShapes, Queued
<1> DEFINE rest == Behind(bridge, o)
<1>2. /\ rest \in Seq(Op) /\ NoneTwice(rest)
      /\ \A q \in Op : IsIn(rest, q) <=> IsIn(bridge, q) /\ q # o
      /\ \A a, q \in Op : InOrder(bridge, a, q) /\ a # o /\ q # o => InOrder(rest, a, q)
  BY <1>1, BehindQueue DEF Acts
<1> HIDE DEF rest
<1>3. op'[o] = r /\ \A q \in Op : q # o => op'[q] = op[q]
  BY <1>1
<1>4. op[o].at \notin BridgeWaits \/ \A a : ~InOrder(bridge, a, o)
  BY <1>1, FrontIsFirst, LenProperties DEF Acts
<1>5. CASE r.at \in BridgeWaits
  <2>1. bridge' = Append(rest, o)
    BY <1>5 DEF rest
  <2>2. /\ bridge' \in Seq(Op) /\ NoneTwice(bridge')
        /\ \A q \in Op : IsIn(bridge', q) <=> IsIn(rest, q) \/ q = o
        /\ \A a, q \in Op : InOrder(rest, a, q) => InOrder(bridge', a, q)
        /\ \A a \in Op : IsIn(rest, a) => InOrder(bridge', a, o)
    <3>1. ~IsIn(rest, o)
      BY <1>2
    <3>2. /\ Append(rest, o) \in Seq(Op) /\ NoneTwice(Append(rest, o))
          /\ \A q \in Op : IsIn(Append(rest, o), q) <=> IsIn(rest, q) \/ q = o
          /\ \A a, q \in Op : InOrder(rest, a, q) => InOrder(Append(rest, o), a, q)
          /\ \A a \in Op : IsIn(rest, a) => InOrder(Append(rest, o), a, o)
      BY ONLY <1>2, <3>1, AppendedQueue, o \in Op
    <3>3. QED
      BY <2>1, <3>2
  <2>3. \A q \in Op : op'[q].at \in BridgeWaits <=> IsIn(bridge', q)
    BY <1>1, <1>2, <1>3, <1>5, <2>2
  <2>4. Queued'
    BY <2>2, <2>3 DEF Queued
  <2>5. QED
    BY <1>2, <1>4, <2>2, <2>4
<1>6. CASE r.at \notin BridgeWaits
  <2>1. bridge' = rest
    BY <1>6 DEF rest
  <2>2. \A q \in Op : op'[q].at \in BridgeWaits <=> IsIn(bridge', q)
    BY <1>1, <1>2, <1>3, <1>6, <2>1
  <2>3. Queued'
    BY <1>2, <2>1, <2>2 DEF Queued
  <2>4. QED
    BY <1>2, <1>4, <1>6, <2>1, <2>3
<1>7. QED
  BY <1>5, <1>6

\* An operation that awaits its next call keeps the invariant, whatever it does to the native
\* module and the view within these bounds.
LEMMA GoesOn ==
    ASSUME TrackingIndInv, NEW o \in Op, Acts(o), NEW r \in OpRecord, Awaits(o, r),
           OpFits(r), Same(r, o),
           native' \in SessionRecord, mainThread' \in Seq(Op), resumers' \subseteq resumers,
           \/ native' = Stopped \/ native' = native
           \/ Live(o) /\ r.at = "started" /\ r.seen = "status",
           r.at \in StopWaits /\ r.seen = "proved" => native' = Stopped,
           UNCHANGED <<server, mounted, signingOut, overlapped, foreground, foregroundPending>>,
           authenticated' \in BOOLEAN, automatic' \in BOOLEAN,
           authenticated' = authenticated \/ (signingOut /\ ~authenticated'),
           automatic' = automatic \/ signingOut,
           view' \in ViewRecord, Speaks(o)
    PROVE  TrackingIndInv'
<1>1. /\ op \in [Op -> OpRecord] /\ op' = [op EXCEPT ![o] = r]
      /\ \A q \in Op : OpFits(op[q])
      /\ resumers \subseteq Op
  BY DEF TrackingIndInv, TrackingShapes, Awaits
<1>2. op'[o] = r /\ \A q \in Op : q # o => op'[q] = op[q]
  BY <1>1
<1>3. /\ bridge' \in Seq(Op) /\ Queued'
      /\ \A a, q \in Op : InOrder(bridge, a, q) /\ a # o /\ q # o => InOrder(bridge', a, q)
      /\ \A a \in Op : r.at \in BridgeWaits /\ a # o /\ IsIn(bridge, a) =>
                         InOrder(bridge', a, o)
      /\ \A a \in Op : ~InOrder(bridge, a, o) \/ op[o].at \notin BridgeWaits
  BY QueueGoesOn DEF Awaits
<1>4. TrackingShapes'
  <2>1. op' \in [Op -> OpRecord] /\ \A q \in Op : OpFits(op'[q])
    BY <1>1, <1>2
  <2>2. QED
    BY <1>1, <1>3, <2>1 DEF TrackingIndInv, TrackingShapes
<1>5. Waiting'
  <2>1. o \notin resumers
    BY DEF TrackingIndInv, Waiting, Acts
  <2>2. QED
    BY <1>1, <1>2, <2>1 DEF TrackingIndInv, Waiting
<1>6. /\ \A q \in Op : Mine(q)' <=> Mine(q)
      /\ \A q \in Op : Live(q)' <=> Live(q)
      /\ \A q \in Op : op'[q].kind = op[q].kind /\ op'[q].current = op[q].current
  BY <1>2 DEF Mine, Live, Same
<1>7. Fenced'
  <2>1. Leaving' => Leaving
    BY DEF Leaving
  <2>2. Leaving /\ ~overlapped => native' = Stopped
    BY DEF TrackingIndInv, Fenced
  <2>3. authenticated' => authenticated
    OBVIOUS
  <2>4. QED
    BY <1>6, <2>1, <2>2, <2>3 DEF TrackingIndInv, Fenced
<1>8. StopsInOrder'
  <2> SUFFICES ASSUME NEW a \in Op, ProvesStop(a)', native' # Stopped
               PROVE  \E q \in Op : Starting(q)' /\ InOrder(bridge', a, q)
    BY DEF StopsInOrder
  <2>1. a # o /\ ProvesStop(a)
    BY <1>2 DEF ProvesStop
  <2>2. IsIn(bridge, a)
    BY <2>1 DEF TrackingIndInv, Queued, ProvesStop, BridgeWaits
  <2>3. CASE native' = native
    <3>1. PICK q \in Op : Starting(q) /\ InOrder(bridge, a, q)
      BY <2>1, <2>3 DEF TrackingIndInv, StopsInOrder
    <3>2. q # o
      BY <1>3, <3>1 DEF Starting, BridgeWaits
    <3>3. QED
      BY <1>2, <1>3, <2>1, <3>1, <3>2 DEF Starting
  <2>4. CASE r.at = "started" /\ r.seen = "status"
    <3>1. Starting(o)' /\ InOrder(bridge', a, o)
      BY <1>2, <1>3, <2>1, <2>2, <2>4 DEF Starting, BridgeWaits
    <3>2. QED
      BY <3>1
  <2>5. QED
    BY <2>3, <2>4
<1>9. QuietIsDecided'
  <2> SUFFICES ASSUME QuietView', ~overlapped, native' # Stopped PROVE \E q \in Op : Deciding(q)'
    BY DEF QuietIsDecided
  <2>1. \A q \in Op : q # o => (Deciding(q)' <=> Deciding(q)) /\ (Starting(q)' <=> Starting(q))
    BY <1>2, <1>6 DEF Deciding, Starting
  <2>2. CASE native' # native
    BY <1>2, <2>2 DEF Deciding, Starting
  <2>3. CASE native' = native
    <3>1. ~Leaving
      BY <2>3 DEF TrackingIndInv, Fenced
    <3>2. CASE Deciding(o)'
      BY <3>2
    <3>3. CASE QuietView /\ ~Deciding(o)
      <4>1. PICK q \in Op : Deciding(q)
        BY <2>3, <3>3 DEF TrackingIndInv, QuietIsDecided
      <4>2. QED
        BY <2>1, <3>3, <4>1
    <3>4. CASE ProvesStop(o)
      <4>1. PICK q \in Op : Starting(q) /\ InOrder(bridge, o, q)
        BY <2>3, <3>4 DEF TrackingIndInv, StopsInOrder
      <4>2. q # o
        BY <3>4, <4>1 DEF Starting, ProvesStop, StopWaits
      <4>3. QED
        BY <2>1, <4>1, <4>2 DEF Deciding
    <3>5. QED
      BY <3>1, <3>2, <3>3, <3>4 DEF Speaks
  <2>4. QED
    BY <2>2, <2>3
<1>10. DrainOwed'
  <2>1. Underway' = Underway
    BY <1>6 DEF Underway
  <2>2. QED
    BY <2>1 DEF TrackingIndInv, DrainOwed
<1>11. QED
  BY <1>4, <1>3, <1>5, <1>7, <1>8, <1>9, <1>10 DEF TrackingIndInv
-----------------------------------------------------------------------------
(* An operation ends. *)

\* The records that stand for no session, no operation, a restoration and a new login.
LEMMA RecordsFit ==
    /\ Stopped \in SessionRecord /\ NoOp \in OpRecord /\ OpFits(NoOp)
    /\ Restoration \in OpRecord /\ OpFits(Restoration) /\ Restoration # NoOp
    /\ NoOp.at \notin BridgeWaits /\ Restoration.at \notin BridgeWaits
    /\ NoOp.at = "free" /\ NoOp.kind = "none" /\ NoOp.by = "nobody"
    /\ NoOp.current = FALSE /\ NoOp.status = Stopped /\ Stopped.by = "nobody"
    /\ Restoration.at = "restore" /\ Restoration.kind = "reconcile" /\ Restoration.by = "mine"
    /\ Restoration.current = TRUE /\ NoOp.seen = "nothing" /\ Restoration.seen = "nothing"
    /\ Blank \in ViewRecord /\ Blank.phase = "reconciling"
<1>1. Stopped \in SessionRecord /\ Stopped.by = "nobody"
  BY DEF Stopped, SessionRecord
<1>2. NoOp \in OpRecord /\ NoOp.at = "free" /\ NoOp.kind = "none" /\ NoOp.by = "nobody"
      /\ NoOp.seen = "nothing" /\ NoOp.current = FALSE /\ NoOp.status = Stopped
  BY <1>1 DEF NoOp, OpRecord, Kinds, Places, Seens
<1>4. Restoration \in OpRecord
  BY <1>2 DEF Restoration, OpRecord, Kinds, Places, OtherWaits, Whose
<1>5. /\ Restoration.at = "restore" /\ Restoration.kind = "reconcile"
      /\ Restoration.by = "mine" /\ Restoration.current = TRUE /\ Restoration.seen = "nothing"
  BY <1>2 DEF Restoration, OpRecord
<1>6. OpFits(NoOp) /\ OpFits(Restoration)
  BY <1>5 DEF OpFits, Whose, LeavingAts, CompleteAts
<1>7. NoOp.at \notin BridgeWaits /\ Restoration.at \notin BridgeWaits
  BY <1>2, <1>5 DEF BridgeWaits, StopWaits, StatusWaits
<1>8. Blank \in ViewRecord /\ Blank.phase = "reconciling"
  BY DEF Blank, ViewRecord
<1>9. QED
  BY <1>1, <1>2, <1>4, <1>5, <1>6, <1>7, <1>8

\* exclusive's finally: an operation that is over leaves the rest as it is, and the last
\* one pays a foreground back.
LEMMA Finishes ==
    ASSUME TrackingIndInv, NEW o \in Op, Acts(o), NEW owed \in BOOLEAN,
           Ends(o, owed),
           UNCHANGED <<device, server, authenticated, mounted, overlapped>>,
           \/ signingOut' = signingOut /\ owed = foregroundPending
           \/ /\ op[o].kind = "signOut" /\ signingOut' = (signingOut /\ ~Mine(o))
              /\ owed = (foregroundPending \/ (mounted /\ authenticated /\ foreground))
              /\ Mine(o) => ~QuietView',
           view' \in ViewRecord, Speaks(o)
    PROVE  TrackingIndInv'
<1> DEFINE pays == /\ Underway = {o} /\ owed /\ mounted /\ foreground
                   /\ ~signingOut' /\ authenticated'
           r == IF pays /\ ~automatic THEN Restoration ELSE NoOp
<1>1. /\ op \in [Op -> OpRecord] /\ \A q \in Op : OpFits(op[q])
      /\ resumers \subseteq Op
  BY DEF TrackingIndInv, TrackingShapes
<1>2. /\ op' = [op EXCEPT ![o] = r] /\ bridge' = Behind(bridge, o)
      /\ foregroundPending' = IF Mine(o) THEN owed /\ ~pays ELSE foregroundPending
      /\ automatic' = (automatic \/ pays) /\ UNCHANGED foreground
  BY DEF Ends
<1>3. /\ {authenticated, mounted, signingOut, overlapped, foreground, foregroundPending,
          automatic} \subseteq BOOLEAN
      /\ UNCHANGED <<native, mainThread, resumers, server, authenticated, mounted, overlapped>>
  BY DEF TrackingIndInv, TrackingShapes, device
<1>4. /\ r \in OpRecord /\ OpFits(r) /\ r.at \notin BridgeWaits /\ r.at \in {"free", "restore"}
      /\ r = NoOp \/ (pays /\ ~automatic /\ r = Restoration)
      /\ r.kind \in {"none", "reconcile"}
  BY RecordsFit
<1>5. signingOut' \in BOOLEAN /\ (signingOut' => signingOut)
      /\ \/ signingOut' = signingOut
         \/ op[o].kind = "signOut" /\ Mine(o) /\ ~signingOut' /\ ~QuietView'
  <2>1. CASE signingOut' = signingOut
    BY <1>3, <2>1
  <2>2. CASE Mine(o) /\ signingOut' # signingOut
    BY <1>3, <2>2
  <2>3. CASE ~Mine(o)
    BY <1>3, <2>3
  <2>4. QED
    BY <2>1, <2>2, <2>3
<1> HIDE DEF pays, r
<1>6. op'[o] = r /\ \A q \in Op : q # o => op'[q] = op[q]
  BY <1>1, <1>2
<1>7. /\ bridge' \in Seq(Op) /\ Queued'
      /\ \A a, q \in Op : InOrder(bridge, a, q) /\ a # o /\ q # o => InOrder(bridge', a, q)
      /\ \A a \in Op : ~InOrder(bridge, a, o) \/ op[o].at \notin BridgeWaits
  BY <1>2, <1>4, QueueGoesOn
<1>8. TrackingShapes'
  <2>1. op' \in [Op -> OpRecord] /\ \A q \in Op : OpFits(op'[q])
    BY <1>1, <1>2, <1>4, <1>6
  <2>2. foregroundPending' \in BOOLEAN /\ automatic' \in BOOLEAN
    BY <1>2, <1>3 DEF pays
  <2>3. QED
    BY <1>2, <1>3, <1>5, <1>7, <2>1, <2>2 DEF TrackingIndInv, TrackingShapes
<1>9. Waiting'
  <2>1. o \notin resumers
    BY DEF TrackingIndInv, Waiting, Acts
  <2>2. QED
    BY <1>1, <1>3, <1>6, <2>1 DEF TrackingIndInv, Waiting
<1>10. \A q \in Op : q # o => (Mine(q)' <=> Mine(q)) /\ (Live(q)' <=> Live(q))
  BY <1>3, <1>6 DEF Mine, Live
<1>11. Fenced'
  <2>1. \A p, q \in Op : Mine(p)' /\ op'[p].kind \in {"signOut", "lost", "start", "complete"} =>
          Mine(p) /\ op'[p] = op[p] /\ p # o
    BY <1>4, <1>6, <1>10
  <2>2. CASE ~Leaving'
    <3>1. authenticated => mounted
      BY DEF TrackingIndInv, Fenced
    <3>2. \A q \in Op : Mine(q) /\ op[q].kind = "signOut" /\ q # o => signingOut'
      BY <1>5 DEF TrackingIndInv, Fenced
    <3>3. QED
      BY <1>3, <2>1, <2>2, <3>1, <3>2 DEF TrackingIndInv, Fenced
  <2>3. CASE Leaving'
    <3>1. ~pays
      BY <2>3 DEF Leaving, pays
    <3>2. r = NoOp /\ ~Live(o)'
      BY <1>4, <1>6, <3>1, RecordsFit DEF Live, Mine
    <3>3. Leaving
      BY <1>3, <1>5, <2>3 DEF Leaving
    <3>4. ~overlapped => native' = Stopped /\ \A q \in Op : ~Live(q)'
      BY <1>3, <1>10, <3>2, <3>3 DEF TrackingIndInv, Fenced
    <3>5. \A q \in Op : Mine(q) /\ op[q].kind = "signOut" /\ q # o => signingOut'
      BY <1>5 DEF TrackingIndInv, Fenced
    <3>6. QED
      BY <1>3, <2>1, <3>4, <3>5 DEF TrackingIndInv, Fenced
  <2>4. QED
    BY <2>2, <2>3
<1>12. StopsInOrder'
  <2> SUFFICES ASSUME NEW a \in Op, ProvesStop(a)', native' # Stopped
               PROVE  \E q \in Op : Starting(q)' /\ InOrder(bridge', a, q)
    BY DEF StopsInOrder
  <2>1. a # o /\ ProvesStop(a)
    BY <1>4, <1>6 DEF ProvesStop, StopWaits
  <2>2. PICK q \in Op : Starting(q) /\ InOrder(bridge, a, q)
    BY <1>3, <2>1 DEF TrackingIndInv, StopsInOrder
  <2>3. q # o
    BY <1>7, <2>2 DEF Starting, BridgeWaits
  <2>4. QED
    BY <1>6, <1>7, <2>1, <2>2, <2>3 DEF Starting
<1>13. QuietIsDecided'
  <2> SUFFICES ASSUME QuietView', ~overlapped, native # Stopped PROVE \E q \in Op : Deciding(q)'
    BY <1>3 DEF QuietIsDecided
  <2>1. \A q \in Op : q # o => (Deciding(q)' <=> Deciding(q)) /\ (Starting(q)' <=> Starting(q))
    BY <1>6, <1>10 DEF Deciding, Starting
  <2>2. ~Leaving
    BY <1>3, <1>5 DEF TrackingIndInv, Fenced, Leaving
  <2>3. CASE Deciding(o)'
    BY <2>3
  <2>4. CASE QuietView /\ ~Deciding(o)
    BY <2>1, <2>4 DEF TrackingIndInv, QuietIsDecided
  <2>5. CASE ProvesStop(o)
    <3>1. PICK q \in Op : Starting(q) /\ InOrder(bridge, o, q)
      BY <2>5 DEF TrackingIndInv, StopsInOrder
    <3>2. q # o
      BY <2>5, <3>1 DEF Starting, ProvesStop, StopWaits
    <3>3. QED
      BY <2>1, <3>1, <3>2 DEF Deciding
  <2>6. QED
    BY <1>3, <2>2, <2>3, <2>4, <2>5 DEF Speaks
<1>14. DrainOwed'
  <2> SUFFICES ASSUME mounted, authenticated, foreground, ~signingOut', ~automatic'
               PROVE  foregroundPending' /\ Underway' # {}
    BY <1>2, <1>3 DEF DrainOwed
  <2>1. ~automatic /\ ~pays /\ r = NoOp
    BY <1>2, <1>4
  <2>2. \A q \in Op : q # o => (q \in Underway' <=> q \in Underway)
    BY <1>6, <1>10 DEF Underway
  <2>3. CASE o \notin Underway
    <3>1. Mine(o) => op[o].kind = "lost"
      BY <2>3 DEF Underway, Acts, TrackingIndInv, TrackingShapes, OpFits
    <3>2. ~signingOut /\ foregroundPending' = foregroundPending
      BY <1>2, <1>3, <1>5, <2>1, <3>1
    <3>3. foregroundPending /\ Underway # {}
      BY <2>1, <3>2 DEF TrackingIndInv, DrainOwed
    <3>4. PICK q \in Underway : q # o
      BY <2>3, <3>3
    <3>5. q \in Underway'
      BY <2>2, <3>4 DEF Underway
    <3>6. QED
      BY <3>2, <3>3, <3>5
  <2>4. CASE o \in Underway
    <3>0. Mine(o)
      BY <2>4 DEF Underway
    <3>1. owed
      <4>1. CASE signingOut
        BY <1>5, <3>0, <4>1
      <4>2. CASE ~signingOut
        BY <2>1, <4>2 DEF TrackingIndInv, DrainOwed
      <4>3. QED
        BY <4>1, <4>2
    <3>3. Underway # {o}
      BY <1>3, <2>1, <3>1 DEF pays
    <3>4. PICK q \in Underway : q # o
      BY <2>4, <3>3
    <3>5. q \in Underway'
      BY <2>2, <3>4 DEF Underway
    <3>6. foregroundPending' = (owed /\ ~pays)
      BY <1>2, <3>0
    <3>7. QED
      BY <2>1, <3>1, <3>5, <3>6
  <2>5. QED
    BY <2>3, <2>4
<1>15. QED
  BY <1>7, <1>8, <1>9, <1>11, <1>12, <1>13, <1>14 DEF TrackingIndInv
-----------------------------------------------------------------------------
(* An operation begins. *)

\* One the driver asks for in front of it, or that a foreground is paid with.
Begun(r) ==
    /\ r \in OpRecord /\ OpFits(r) /\ r.by = "mine" /\ r.current = TRUE
    /\ r.kind \in {"reconcile", "request", "start", "complete"}
    /\ r.at \notin StopWaits /\ r.at # "started"

\* A new operation's call is queued behind the others.
LEMMA QueueBegins ==
    ASSUME TrackingIndInv, NEW o \in Op, op[o] = NoOp, NEW r, op'[o] = r,
           \A q \in Op : q # o => op'[q].at = op[q].at,
           bridge' = IF r.at \in BridgeWaits THEN Append(bridge, o) ELSE bridge
    PROVE  /\ bridge' \in Seq(Op) /\ Queued'
           /\ \A a, q \in Op : InOrder(bridge, a, q) => InOrder(bridge', a, q)
<1>1. /\ bridge \in Seq(Op) /\ NoneTwice(bridge)
      /\ \A q \in Op : op[q].at \in BridgeWaits <=> IsIn(bridge, q)
  BY DEF TrackingIndInv, TrackingShapes, Queued
<1>2. ~IsIn(bridge, o)
  BY <1>1, RecordsFit
<1>3. CASE r.at \in BridgeWaits
  <2>1. /\ Append(bridge, o) \in Seq(Op) /\ NoneTwice(Append(bridge, o))
        /\ \A q \in Op : IsIn(Append(bridge, o), q) <=> IsIn(bridge, q) \/ q = o
        /\ \A a, q \in Op : InOrder(bridge, a, q) => InOrder(Append(bridge, o), a, q)
    BY ONLY <1>1, <1>2, AppendedQueue, o \in Op
  <2>2. bridge' = Append(bridge, o)
    BY <1>3
  <2>3. \A q \in Op : op'[q].at \in BridgeWaits <=> IsIn(bridge', q)
    BY <1>1, <1>3, <2>1, <2>2
  <2>4. QED
    BY <2>1, <2>2, <2>3 DEF Queued
<1>4. CASE r.at \notin BridgeWaits
  <2>1. bridge' = bridge
    BY <1>4
  <2>2. \A q \in Op : op'[q].at \in BridgeWaits <=> IsIn(bridge', q)
    BY <1>1, <1>2, <1>4, <2>1
  <2>3. QED
    BY <1>1, <2>1, <2>2 DEF Queued
<1>5. QED
  BY <1>3, <1>4

\* What the driver asks for in front of the app begins.
LEMMA BeginsStep ==
    ASSUME TrackingIndInv, NEW o \in Op, NEW r, Begun(r), Begins(o, r), authenticated,
           view' \in ViewRecord, QuietView' => QuietView,
           foreground' \in BOOLEAN, foregroundPending' \in BOOLEAN, automatic' \in BOOLEAN,
           automatic' \/ UNCHANGED screen
    PROVE  TrackingIndInv'
<1>1. /\ op \in [Op -> OpRecord] /\ \A q \in Op : OpFits(op[q])
      /\ resumers \subseteq Op
      /\ {authenticated, mounted, signingOut, overlapped, foreground, foregroundPending,
          automatic} \subseteq BOOLEAN
  BY DEF TrackingIndInv, TrackingShapes
<1>2. /\ op[o] = NoOp /\ op' = [op EXCEPT ![o] = r]
      /\ bridge' = IF r.at \in BridgeWaits THEN Append(bridge, o) ELSE bridge
      /\ overlapped' = (overlapped \/ signingOut)
      /\ UNCHANGED <<native, mainThread, resumers, server, authenticated, mounted, signingOut>>
  BY DEF Begins, device
<1>3. op'[o] = r /\ \A q \in Op : q # o => op'[q] = op[q]
  BY <1>1, <1>2
<1>4. /\ bridge' \in Seq(Op) /\ Queued'
      /\ \A a, q \in Op : InOrder(bridge, a, q) => InOrder(bridge', a, q)
  BY <1>2, <1>3, QueueBegins
<1>5. TrackingShapes'
  <2>1. op' \in [Op -> OpRecord] /\ \A q \in Op : OpFits(op'[q])
    BY <1>1, <1>2, <1>3 DEF Begun
  <2>2. overlapped' \in BOOLEAN
    BY <1>1, <1>2
  <2>3. QED
    BY <1>2, <1>4, <2>1, <2>2 DEF TrackingIndInv, TrackingShapes
<1>6. Waiting'
  <2>1. o \notin resumers
    BY <1>2, RecordsFit DEF TrackingIndInv, Waiting
  <2>2. QED
    BY <1>1, <1>2, <1>3, <2>1 DEF TrackingIndInv, Waiting
<1>7. /\ \A q \in Op : q # o => (Mine(q)' <=> Mine(q)) /\ (Live(q)' <=> Live(q))
  BY <1>2, <1>3 DEF Mine, Live
<1>8. Fenced'
  <2>1. ~(Leaving' /\ ~overlapped')
    BY <1>2 DEF Leaving
  <2>2. authenticated => mounted
    BY DEF TrackingIndInv, Fenced
  <2>3. r.kind \notin {"signOut", "lost"} /\ r.current
    BY DEF Begun
  <2>4. \A p \in Op : Mine(p)' /\ op'[p].kind = "signOut" => Mine(p) /\ op[p].kind = "signOut"
    BY <1>3, <1>7, <2>3
  <2>5. /\ \A p \in Op : Mine(p)' /\ op'[p].kind = "signOut" => signingOut'
        /\ \A p, q \in Op : Mine(p)' /\ Mine(q)' /\ op'[p].kind = "signOut"
                            /\ op'[q].kind = "signOut" => p = q
    BY <1>2, <2>4 DEF TrackingIndInv, Fenced
  <2>6. /\ \A p \in Op : Mine(p)' /\ op'[p].kind = "lost" => ~authenticated'
        /\ \A p \in Op : Mine(p)' /\ op'[p].kind \in {"start", "complete"} /\ ~op'[p].current
              => ~authenticated'
    BY <1>2, <1>3, <1>7, <2>3 DEF TrackingIndInv, Fenced
  <2>7. QED
    BY <1>2, <2>1, <2>2, <2>5, <2>6 DEF Fenced
<1>9. StopsInOrder'
  <2> SUFFICES ASSUME NEW a \in Op, ProvesStop(a)', native' # Stopped
               PROVE  \E q \in Op : Starting(q)' /\ InOrder(bridge', a, q)
    BY DEF StopsInOrder
  <2>1. a # o /\ ProvesStop(a)
    BY <1>3 DEF ProvesStop, Begun
  <2>2. PICK q \in Op : Starting(q) /\ InOrder(bridge, a, q)
    BY <1>2, <2>1 DEF TrackingIndInv, StopsInOrder
  <2>3. q # o
    BY <1>2, <2>2, RecordsFit DEF Starting
  <2>4. QED
    BY <1>3, <1>4, <2>2, <2>3 DEF Starting
<1>10. QuietIsDecided'
  <2> SUFFICES ASSUME QuietView', ~overlapped', native' # Stopped PROVE \E q \in Op : Deciding(q)'
    BY DEF QuietIsDecided
  <2>1. PICK q \in Op : Deciding(q)
    BY <1>1, <1>2 DEF TrackingIndInv, QuietIsDecided
  <2>2. q # o
    BY <1>2, <2>1, RecordsFit DEF Deciding, DecidingAts, Starting
  <2>3. QED
    BY <1>3, <1>7, <2>1, <2>2 DEF Deciding, Starting
<1>11. DrainOwed'
  <2>1. o \in Underway'
    BY <1>3 DEF Underway, Begun, Mine
  <2>2. QED
    BY <1>2, <2>1 DEF TrackingIndInv, DrainOwed, screen
<1>12. QED
  BY <1>4, <1>5, <1>6, <1>8, <1>9, <1>10, <1>11 DEF TrackingIndInv
-----------------------------------------------------------------------------
(* The login ends: whatever is in flight is told, and capture stopped. *)

\* signOut and handleAuthenticationLoss: everything in flight falls behind the fence before
\* capture is stopped.
LEMMA LoginEndsStep ==
    ASSUME TrackingIndInv, NEW o \in Op,
           NEW kind, NEW at, StopsBehindFence(o, kind, at),
           UNCHANGED <<server, mounted, overlapped, foreground, foregroundPending>>,
           view' \in ViewRecord,
           \/ /\ kind = "signOut" /\ at = "proveOut" /\ ~signingOut /\ signingOut' = TRUE
              /\ ~AtDetail
              /\ UNCHANGED <<authenticated, automatic>>
           \/ /\ kind = "lost" /\ at = "lost" /\ authenticated' = FALSE /\ automatic' = FALSE
              /\ UNCHANGED signingOut
    PROVE  TrackingIndInv'
<1>1. /\ op \in [Op -> OpRecord] /\ \A q \in Op : OpFits(op[q])
      /\ {authenticated, mounted, signingOut, overlapped, foreground, foregroundPending,
          automatic} \subseteq BOOLEAN
  BY DEF TrackingIndInv, TrackingShapes
<1>2. PICK proof \in Proofs :
        /\ op[o] = NoOp /\ native' = Stopped /\ resumers' = {} /\ mainThread' = mainThread
        /\ op' = [q \in Op |->
                    IF q # o THEN [op[q] EXCEPT !.current = FALSE]
                    ELSE [New(kind, at, None) EXCEPT !.current = FALSE, !.seen = proof]]
        /\ bridge' = Append(bridge, o)
  BY DEF StopsBehindFence, NativeStops
<1>3. \A q \in Op : q # o => /\ op'[q] \in OpRecord /\ op'[q].current = FALSE
                             /\ op'[q].at = op[q].at /\ op'[q].kind = op[q].kind
                             /\ op'[q].by = op[q].by /\ op'[q].trip = op[q].trip
                             /\ op'[q].seen = op[q].seen /\ op'[q].status = op[q].status
  BY <1>1, <1>2 DEF OpRecord
<1>4. /\ op'[o] \in OpRecord /\ op'[o].current = FALSE /\ op'[o].at = at
      /\ op'[o].kind = kind /\ op'[o].by = "mine"
  <2>1. kind \in Kinds /\ proof \in Seens
    BY <1>2 DEF Kinds, Seens, Proofs
  <2>2. at \in Places /\ "mine" \in Whose
    BY DEF Places, BridgeWaits, StopWaits, Whose
  <2>3. op'[o] = [New(kind, at, None) EXCEPT !.current = FALSE, !.seen = proof]
    BY <1>2
  <2>4. NoOp \in OpRecord
    BY RecordsFit
  <2>5. New(kind, at, None) \in OpRecord
    BY <2>1, <2>2, <2>4 DEF New, OpRecord
  <2>6. op'[o] \in OpRecord
    BY <2>1, <2>3, <2>5 DEF OpRecord
  <2>7. QED
    BY <2>3, <2>4, <2>5, <2>6 DEF New, OpRecord
<1>5. bridge' \in Seq(Op) /\ Queued'
  <2>1. at \in BridgeWaits
    BY DEF BridgeWaits, StopWaits
  <2>2. bridge' = IF op'[o].at \in BridgeWaits THEN Append(bridge, o) ELSE bridge
    BY <1>2, <1>4, <2>1
  <2>3. QED
    BY <1>2, <1>3, <2>2, QueueBegins
<1>6. TrackingShapes'
  <2>1. op' \in [Op -> OpRecord]
    BY <1>2, <1>3, <1>4
  <2>2. \A q \in Op : q # o => OpFits(op'[q])
    <3> TAKE q \in Op
    <3>1. CASE q # o /\ op[q] = NoOp
      <4>1. op'[q] = [NoOp EXCEPT !.current = FALSE]
        BY <1>2, <3>1
      <4>2. [NoOp EXCEPT !.current = FALSE] = NoOp
        BY RecordsFit DEF OpRecord
      <4>3. QED
        BY <4>1, <4>2, RecordsFit
    <3>2. CASE q # o /\ op[q] # NoOp
      BY <1>1, <1>3, <3>2 DEF OpFits
    <3>3. QED
      BY <3>1, <3>2
  <2>3. OpFits(op'[o])
    BY <1>4 DEF OpFits, Whose, LeavingAts, CompleteAts
  <2>4. native' \in SessionRecord /\ resumers' \subseteq Op
    BY <1>2, RecordsFit
  <2>5. QED
    BY <1>1, <1>2, <1>5, <2>1, <2>2, <2>3, <2>4 DEF TrackingIndInv, TrackingShapes
<1>7. Waiting' /\ StopsInOrder' /\ QuietIsDecided'
  BY <1>2 DEF Waiting, StopsInOrder, QuietIsDecided
<1>8. Fenced'
  <2>1. \A q \in Op : ~Live(q)'
    BY <1>3, <1>4 DEF Live
  <2>2. authenticated' => mounted'
    BY DEF TrackingIndInv, Fenced
  <2>3. \A q \in Op : Mine(q)' /\ q # o => Mine(q)
    BY <1>3 DEF Mine
  <2>4. CASE kind = "signOut"
    <3>1. \A q \in Op : Mine(q)' /\ op'[q].kind = "signOut" => q = o
      BY <1>3, <2>3, <2>4 DEF TrackingIndInv, Fenced
    <3>2. \A q \in Op : Mine(q)' => op'[q].kind \notin {"start", "complete"}
      BY <1>3, <1>4, <2>3, <2>4 DEF AtDetail, Underway
    <3>3. \A q \in Op : Mine(q)' /\ op'[q].kind = "lost" => ~authenticated
      BY <1>3, <1>4, <2>3, <2>4 DEF TrackingIndInv, Fenced
    <3>4. QED
      BY <1>2, <2>1, <2>2, <2>4, <3>1, <3>2, <3>3 DEF Fenced
  <2>5. CASE kind = "lost"
    <3>1. \A q \in Op : Mine(q)' /\ op'[q].kind = "signOut" =>
                           Mine(q) /\ op[q].kind = "signOut"
      BY <1>3, <1>4, <2>3, <2>5
    <3>2. QED
      BY <1>2, <2>1, <2>2, <2>5, <3>1 DEF TrackingIndInv, Fenced
  <2>6. QED
    BY <2>4, <2>5
<1>9. DrainOwed'
  BY DEF DrainOwed
<1>10. QED
  BY <1>5, <1>6, <1>7, <1>8, <1>9 DEF TrackingIndInv
-----------------------------------------------------------------------------
(* The app, the server and the main thread. *)

\* The session is refused while its sign-out runs, or when nothing is shown any more.
LEMMA LostUnfenced ==
    ASSUME TrackingIndInv, authenticated, authenticated' = FALSE, ~mounted \/ signingOut,
           UNCHANGED <<op, bridge, device, view, automatic, server, mounted, signingOut,
                       overlapped, foreground, foregroundPending>>
    PROVE  TrackingIndInv'
<1>1. UNCHANGED <<native, mainThread, resumers>> /\ authenticated' \in BOOLEAN
  BY DEF device
<1>2. TrackingShapes' /\ Queued' /\ Waiting'
  BY <1>1 DEF TrackingIndInv, TrackingShapes, Queued, Waiting
<1>3. Leaving
  BY DEF TrackingIndInv, Fenced, Leaving
<1>4. \A q \in Op : (Mine(q)' <=> Mine(q)) /\ (Live(q)' <=> Live(q))
  BY DEF Mine, Live
<1>5. Fenced'
  BY <1>1, <1>3, <1>4 DEF TrackingIndInv, Fenced
<1>6. StopsInOrder' /\ QuietIsDecided' /\ DrainOwed'
  BY <1>1, <1>4
     DEF TrackingIndInv, StopsInOrder, ProvesStop, Starting, QuietIsDecided, QuietView, Deciding,
         DrainOwed
<1>7. QED
  BY <1>2, <1>5, <1>6 DEF TrackingIndInv

\* The app goes to the background: nothing is owed to it.
LEMMA BackgroundStep == ASSUME TrackingIndInv, Background PROVE TrackingIndInv'
<1>1. /\ UNCHANGED <<op, bridge, native, mainThread, resumers, server, authenticated, mounted,
                     signingOut, overlapped, view>>
      /\ foreground' = FALSE /\ foregroundPending' = FALSE /\ automatic' = FALSE
  BY DEF Background, device, account
<1>2. TrackingShapes' /\ Queued' /\ Waiting'
  BY <1>1 DEF TrackingIndInv, TrackingShapes, Queued, Waiting
<1>3. \A q \in Op : (Mine(q)' <=> Mine(q)) /\ (Live(q)' <=> Live(q))
  BY <1>1 DEF Mine, Live
<1>4. Fenced'
  BY <1>1, <1>3 DEF TrackingIndInv, Fenced, Leaving
<1>5. StopsInOrder' /\ QuietIsDecided' /\ DrainOwed'
  BY <1>1, <1>3
     DEF TrackingIndInv, StopsInOrder, ProvesStop, Starting, QuietIsDecided, QuietView, Deciding,
         DrainOwed
<1>6. QED
  BY <1>2, <1>4, <1>5 DEF TrackingIndInv

\* The screens of an ended session are taken down.
LEMMA DisposeStep == ASSUME TrackingIndInv, Dispose PROVE TrackingIndInv'
<1>1. /\ op \in [Op -> OpRecord] /\ \A q \in Op : OpFits(op[q])
      /\ resumers \subseteq Op
  BY DEF TrackingIndInv, TrackingShapes
<1>2. /\ ~authenticated /\ mounted' = FALSE /\ automatic' = FALSE
      /\ op' = [o \in Op |-> [op[o] EXCEPT !.current = FALSE]]
      /\ UNCHANGED <<bridge, native, mainThread, resumers, server, authenticated, signingOut,
                     overlapped, view, foreground, foregroundPending>>
  BY DEF Dispose, device
<1>3. \A q \in Op : /\ op'[q] \in OpRecord /\ op'[q].current = FALSE
                    /\ op'[q].at = op[q].at /\ op'[q].kind = op[q].kind
                    /\ op'[q].by = op[q].by /\ op'[q].trip = op[q].trip
                    /\ op'[q].seen = op[q].seen /\ op'[q].status = op[q].status
  BY <1>1, <1>2 DEF OpRecord
<1>4. TrackingShapes'
  <2>1. op' \in [Op -> OpRecord]
    BY <1>2, <1>3
  <2>2. \A q \in Op : OpFits(op'[q])
    <3> TAKE q \in Op
    <3>1. CASE op[q] = NoOp
      <4>1. op'[q] = [NoOp EXCEPT !.current = FALSE]
        BY <1>2, <3>1
      <4>2. [NoOp EXCEPT !.current = FALSE] = NoOp
        BY RecordsFit DEF OpRecord
      <4>3. QED
        BY <4>1, <4>2, RecordsFit
    <3>2. CASE op[q] # NoOp
      BY <1>1, <1>3, <3>2 DEF OpFits
    <3>3. QED
      BY <3>1, <3>2
  <2>3. QED
    BY <1>2, <2>1, <2>2 DEF TrackingIndInv, TrackingShapes
<1>5. Queued' /\ Waiting'
  BY <1>1, <1>2, <1>3 DEF TrackingIndInv, Queued, Waiting
<1>6. Fenced'
  <2>1. \A q \in Op : ~Live(q)' /\ (Mine(q)' <=> Mine(q))
    BY <1>3 DEF Live, Mine
  <2>2. Leaving
    BY <1>2 DEF Leaving
  <2>3. QED
    BY <1>2, <1>3, <2>1, <2>2 DEF TrackingIndInv, Fenced
<1>7. StopsInOrder'
  <2>1. \A q \in Op : (ProvesStop(q)' <=> ProvesStop(q)) /\ (Starting(q)' <=> Starting(q))
    BY <1>3 DEF ProvesStop, Starting
  <2>2. QED
    BY <1>2, <2>1 DEF TrackingIndInv, StopsInOrder
<1>8. QuietIsDecided'
  <2>1. overlapped \/ native = Stopped
    BY <1>2 DEF TrackingIndInv, Fenced, Leaving
  <2>2. QED
    BY <1>2, <2>1 DEF QuietIsDecided
<1>9. DrainOwed'
  BY <1>2 DEF DrainOwed
<1>10. QED
  BY <1>4, <1>5, <1>6, <1>7, <1>8, <1>9 DEF TrackingIndInv

\* What was mine is another driver's from now on.
LEMMA PastFits ==
    /\ \A kept \in SessionRecord : Past(kept) \in SessionRecord
    /\ Past(Stopped) = Stopped
    /\ \A r \in OpRecord :
          LET past == [Past(r) EXCEPT !.status = Past(@)]
          IN  /\ past \in OpRecord /\ past.current = r.current /\ past.at = r.at
              /\ past.kind = r.kind /\ past.trip = r.trip /\ past.seen = r.seen
              /\ past.by # "mine" /\ (r.by \in Whose => past.by \in Whose)
    /\ [Past(NoOp) EXCEPT !.status = Past(@)] = NoOp
<1>1. \A by \in Whose \cup {"nobody"} :
         /\ Anothers(by) \in Whose \cup {"nobody"} /\ Anothers(by) # "mine"
         /\ by \in Whose => Anothers(by) \in Whose
         /\ by = "nobody" => Anothers(by) = "nobody"
  BY DEF Anothers, Whose
<1>2. \A kept \in SessionRecord : Past(kept) \in SessionRecord
  BY <1>1 DEF Past, SessionRecord
<1>3. Past(Stopped) = Stopped
  <2>1. Stopped \in SessionRecord /\ Anothers(Stopped.by) = Stopped.by
    BY <1>1, RecordsFit
  <2>2. QED
    BY <2>1 DEF Past, SessionRecord
<1>4. ASSUME NEW r \in OpRecord
      PROVE  LET past == [Past(r) EXCEPT !.status = Past(@)]
             IN  /\ past \in OpRecord /\ past.current = r.current /\ past.at = r.at
                 /\ past.kind = r.kind /\ past.trip = r.trip /\ past.seen = r.seen
                 /\ past.by # "mine" /\ (r.by \in Whose => past.by \in Whose)
  <2> DEFINE by == Anothers(r.by)
             status == Past(r.status)
  <2>1. /\ by \in Whose \cup {"nobody"} /\ by # "mine"
        /\ r.by \in Whose => by \in Whose
    BY <1>1 DEF OpRecord
  <2>2. status \in SessionRecord
    BY <1>2 DEF OpRecord
  <2>3. Past(r) = [r EXCEPT !.by = by] /\ Past(r).status = r.status
    BY DEF Past, OpRecord
  <2>4. [Past(r) EXCEPT !.status = Past(@)] = [[r EXCEPT !.by = by] EXCEPT !.status = status]
    BY <2>3
  <2> DEFINE past == [[r EXCEPT !.by = by] EXCEPT !.status = status]
  <2>5. /\ past \in OpRecord /\ past.current = r.current /\ past.at = r.at
        /\ past.kind = r.kind /\ past.trip = r.trip /\ past.seen = r.seen /\ past.by = by
    <3> HIDE DEF by, status
    <3>1. QED
      BY <2>1, <2>2 DEF OpRecord
  <2> HIDE DEF past
  <2>6. QED
    BY <2>1, <2>4, <2>5 DEF past
<1>5. [Past(NoOp) EXCEPT !.status = Past(@)] = NoOp
  <2>1. NoOp \in OpRecord /\ Anothers(NoOp.by) = NoOp.by /\ NoOp.status = Stopped
    BY <1>1, RecordsFit
  <2>2. Past(NoOp) = NoOp
    BY <2>1 DEF Past, OpRecord
  <2>3. [NoOp EXCEPT !.status = Stopped] = NoOp
    BY <2>1 DEF OpRecord
  <2>4. QED
    BY <1>3, <2>1, <2>2, <2>3
<1>6. QED
  BY <1>2, <1>3, <1>4, <1>5

\* The next login begins with a restoration, and owns nothing of what is in flight.
LEMMA SignsInStep == ASSUME TrackingIndInv, NEW o \in Op, SignsIn(o) PROVE TrackingIndInv'
<1>1. /\ op \in [Op -> OpRecord] /\ \A q \in Op : OpFits(op[q])
      /\ resumers \subseteq Op /\ native \in SessionRecord
  BY DEF TrackingIndInv, TrackingShapes
<1>2. /\ op[o] = NoOp /\ authenticated' = TRUE /\ mounted' = TRUE
      /\ signingOut' = FALSE /\ overlapped' = FALSE /\ view' = Blank
      /\ op' = [q \in Op |-> IF q = o THEN Restoration
                             ELSE [Past(op[q]) EXCEPT !.status = Past(@)]]
      /\ native' = Past(native)
      /\ automatic' = TRUE /\ foregroundPending' = FALSE
      /\ UNCHANGED <<bridge, mainThread, resumers, server, foreground>>
  BY DEF SignsIn
<1>4. native' \in SessionRecord /\ (native = Stopped => native' = Stopped)
  BY <1>1, <1>2, PastFits
<1>5. \A q \in Op : q # o =>
         /\ op'[q] = [Past(op[q]) EXCEPT !.status = Past(@)]
         /\ op'[q] \in OpRecord
         /\ op'[q].current = op[q].current
         /\ op'[q].at = op[q].at /\ op'[q].kind = op[q].kind
         /\ op'[q].trip = op[q].trip /\ op'[q].seen = op[q].seen
         /\ op'[q].by # "mine" /\ (op[q].by \in Whose => op'[q].by \in Whose)
  BY <1>1, <1>2, PastFits
<1>6. op'[o] = Restoration
  BY <1>2
<1>7. TrackingShapes'
  <2>1. op' \in [Op -> OpRecord]
    BY <1>2, <1>5, <1>6, RecordsFit
  <2>2. \A q \in Op : OpFits(op'[q])
    <3> TAKE q \in Op
    <3>1. CASE q = o
      BY <1>6, <3>1, RecordsFit
    <3>2. CASE q # o /\ op[q] = NoOp
      BY <1>5, <3>2, PastFits, RecordsFit
    <3>3. CASE q # o /\ op[q] # NoOp
      <4>1. op[q].by \in Whose /\ op'[q].by \in Whose
        BY <1>1, <1>5, <3>3 DEF OpFits
      <4>2. /\ op[q].kind # "none" /\ op[q].at # "free"
            /\ op[q].kind = "signOut" <=> op[q].at \in LeavingAts
            /\ op[q].kind = "lost" <=> op[q].at = "lost"
            /\ op[q].at \in CompleteAts => op[q].kind = "complete"
            /\ op[q].at \in CompleteAts \cup {"start", "startCheck", "recover"} =>
                   op[q].trip \in Trip
        BY <1>1, <3>3 DEF OpFits
      <4>3. op'[q].at = op[q].at /\ op'[q].kind = op[q].kind /\ op'[q].trip = op[q].trip
        BY <1>5, <3>3
      <4>4. QED
        BY <4>1, <4>2, <4>3 DEF OpFits
    <3>4. QED
      BY <3>1, <3>2, <3>3
  <2>3. QED
    BY <1>2, <1>4, <2>1, <2>2, RecordsFit DEF TrackingIndInv, TrackingShapes
<1>8. Queued' /\ Waiting'
  <2>1. \A q \in Op : op'[q].at \in BridgeWaits <=> op[q].at \in BridgeWaits
    BY <1>2, <1>5, <1>6, RecordsFit
  <2>2. o \notin resumers
    BY <1>2, RecordsFit DEF TrackingIndInv, Waiting
  <2>3. Queued'
    BY <1>1, <1>2, <2>1 DEF TrackingIndInv, Queued
  <2>4. Waiting'
    <3> SUFFICES ASSUME NEW q \in resumers PROVE op'[q].at = "resume" /\ op'[q].seen = "asked"
      BY <1>2 DEF Waiting
    <3>1. q \in Op /\ q # o /\ op[q].at = "resume" /\ op[q].seen = "asked"
      BY <1>1, <2>2 DEF TrackingIndInv, Waiting, TrackingShapes
    <3>2. QED
      BY <1>5, <3>1
  <2>5. QED
    BY <2>3, <2>4
<1>9. Fenced'
  <2>1. \A q \in Op : Mine(q)' => q = o
    BY <1>5 DEF Mine
  <2>2. op'[o].kind = "reconcile"
    BY <1>6, RecordsFit
  <2>3. QED
    BY <1>2, <2>1, <2>2 DEF Fenced, Leaving
<1>10. StopsInOrder'
  <2> SUFFICES ASSUME NEW a \in Op, ProvesStop(a)', native' # Stopped
               PROVE  \E q \in Op : Starting(q)' /\ InOrder(bridge', a, q)
    BY DEF StopsInOrder
  <2>1. a # o
    BY <1>6, RecordsFit DEF ProvesStop
  <2>2. PICK q \in Op : Starting(q) /\ InOrder(bridge, a, q)
    BY <1>4, <1>5, <2>1 DEF TrackingIndInv, StopsInOrder, ProvesStop
  <2>3. q # o
    BY <1>2, <2>2, RecordsFit DEF Starting
  <2>4. QED
    BY <1>2, <1>5, <2>2, <2>3 DEF Starting
<1>11. QuietIsDecided' /\ DrainOwed'
  BY <1>2, RecordsFit DEF QuietIsDecided, QuietView, DrainOwed
<1>12. QED
  BY <1>7, <1>8, <1>9, <1>10, <1>11 DEF TrackingIndInv

\* An answer arrives at operations that do not wait for the native-modules thread, or
\* capture ends.
LEMMA AnswersArrive ==
    ASSUME TrackingIndInv, op' \in [Op -> OpRecord],
           \A q \in Op : /\ op'[q].kind = op[q].kind /\ op'[q].at = op[q].at
                         /\ op'[q].current = op[q].current /\ op'[q].by = op[q].by
                         /\ \/ op'[q] = op[q]
                            \/ /\ op[q].at \notin BridgeWaits /\ op[q] # NoOp
                               /\ op'[q].trip \in Trip \/ op'[q].trip = op[q].trip,
           server' \in [Trip -> {"assigned", "running", "over"}], native' \in SessionRecord,
           native = Stopped => native' = Stopped,
           mainThread' \in Seq(Op), resumers' \subseteq Op,
           \A q \in resumers' : op'[q].at = "resume" /\ op'[q].seen = "asked",
           UNCHANGED <<bridge, account, view, screen>>
    PROVE  TrackingIndInv'
<1>1. /\ op \in [Op -> OpRecord] /\ \A q \in Op : OpFits(op[q])
  BY DEF TrackingIndInv, TrackingShapes
<1>2. UNCHANGED <<authenticated, mounted, signingOut, overlapped, foreground, foregroundPending,
                  automatic>>
  BY DEF account, screen
<1>3. \A q \in Op : OpFits(op'[q])
  BY <1>1 DEF OpFits
<1>4. TrackingShapes' /\ Queued' /\ Waiting'
  BY <1>2, <1>3 DEF TrackingIndInv, TrackingShapes, Queued, Waiting
<1>5. \A q \in Op : (Mine(q)' <=> Mine(q)) /\ (Live(q)' <=> Live(q))
  BY <1>2 DEF Mine, Live
<1>6. Fenced'
  <2>1. Leaving' <=> Leaving
    BY <1>2 DEF Leaving
  <2>2. QED
    BY <1>2, <1>5, <2>1 DEF TrackingIndInv, Fenced
<1>7. \A q \in Op : /\ ProvesStop(q)' <=> ProvesStop(q)
                    /\ Starting(q)' <=> Starting(q)
  BY DEF ProvesStop, Starting, BridgeWaits
<1>8. StopsInOrder'
  BY <1>7 DEF TrackingIndInv, StopsInOrder
<1>9. QuietIsDecided'
  BY <1>2, <1>5, <1>7 DEF TrackingIndInv, QuietIsDecided, QuietView, Deciding
<1>10. DrainOwed'
  <2>1. Underway' = Underway
    BY <1>5 DEF Underway
  <2>2. QED
    BY <1>2, <2>1 DEF TrackingIndInv, DrainOwed
<1>11. QED
  BY <1>4, <1>6, <1>8, <1>9, <1>10 DEF TrackingIndInv
-----------------------------------------------------------------------------
(* How it goes on. *)

\* Every handler goes on with an answer it was owed.
LEMMA ActsWhenAnswered ==
    ASSUME TrackingIndInv, NEW o \in Op,
           \/ \E at \in BridgeWaits \cup MainWaits : Returns(o, at)
           \/ op[o].at \in ServerWaits \cup OtherWaits
           \/ op[o].at \in BridgeWaits /\ Head(bridge) = o
    PROVE  Acts(o) /\ op[o] \in OpRecord /\ OpFits(op[o])
<1>1. op[o].at # "free" /\ op[o].at = "resume" => op[o].seen # "asked"
  BY DEF Returns, BridgeWaits, StopWaits, StatusWaits, MainWaits, ServerWaits, OtherWaits
<1>2. op[o] # NoOp
  BY RecordsFit
     DEF Returns, BridgeWaits, StopWaits, StatusWaits, MainWaits, ServerWaits, OtherWaits
<1>3. op[o].at \in BridgeWaits => Head(bridge) = o
  BY DEF Returns, BridgeWaits, StopWaits, StatusWaits, MainWaits, ServerWaits, OtherWaits
<1>4. op[o].at \in BridgeWaits => bridge # <<>>
  BY LenProperties DEF TrackingIndInv, TrackingShapes, Queued, IsIn
<1>5. op[o].at = "resume" => op[o].seen # "asked"
  BY DEF Returns, BridgeWaits, StopWaits, StatusWaits, MainWaits, ServerWaits, OtherWaits
<1>6. QED
  BY <1>2, <1>3, <1>4, <1>5 DEF Acts, TrackingIndInv, TrackingShapes

\* The record of an operation that awaits something else.
LEMMA AtFits ==
    ASSUME TrackingIndInv, NEW o \in Op, NEW at \in Places, NEW seen \in Seens
    PROVE  /\ At(o, at, seen) \in OpRecord /\ Same(At(o, at, seen), o)
           /\ At(o, at, seen).at = at /\ At(o, at, seen).trip = op[o].trip
           /\ At(o, at, seen).seen = seen
  BY RecordsFit DEF TrackingIndInv, TrackingShapes, At, OpRecord, Same

\* The record of an operation that was told a status.
LEMMA ToldFits ==
    ASSUME NEW r \in OpRecord, NEW status \in SessionRecord
    PROVE  /\ Told(r, status) \in OpRecord /\ Told(r, status).kind = r.kind
           /\ Told(r, status).by = r.by /\ Told(r, status).current = r.current
           /\ Told(r, status).at = r.at /\ Told(r, status).trip = r.trip
           /\ Told(r, status).seen = "status"
  BY DEF Told, OpRecord, Seens

\* A reading is of the operation that asked for it.
LEMMA ReadingFits ==
    ASSUME TrackingIndInv, NEW r \in OpRecord, NEW x \in Readings(r)
    PROVE  /\ x \in OpRecord /\ x.kind = r.kind /\ x.by = r.by /\ x.current = r.current
           /\ x.at = r.at /\ x.trip = r.trip /\ x.seen \in {"status", "unreadable"}
<1>1. native \in SessionRecord
  BY DEF TrackingIndInv, TrackingShapes
<1>2. CASE x = Told(r, native)
  BY <1>1, <1>2, ToldFits
<1>3. CASE x = [r EXCEPT !.seen = "unreadable"]
  BY <1>3 DEF OpRecord, Seens
<1>4. QED
  BY <1>2, <1>3 DEF Readings

\* A record may be given another trip.
LEMMA TripFits ==
    ASSUME NEW r \in OpRecord, NEW t \in Trip \cup {None}
    PROVE  LET x == [r EXCEPT !.trip = t]
           IN  /\ x \in OpRecord /\ x.kind = r.kind /\ x.by = r.by /\ x.current = r.current
               /\ x.at = r.at /\ x.trip = t /\ x.seen = r.seen
  BY DEF OpRecord

\* What an operation may await next, of this trip.
Suits(o, at, t) ==
    /\ at # "free"
    /\ op[o].kind = "signOut" <=> at \in LeavingAts
    /\ op[o].kind = "lost" <=> at = "lost"
    /\ at \in CompleteAts => op[o].kind = "complete"
    /\ at \in CompleteAts \cup {"start", "startCheck", "recover"} => t \in Trip

\* What suits an operation makes its record fit.
LEMMA SuitsFits ==
    ASSUME TrackingIndInv, NEW o \in Op, Acts(o), NEW r, Same(r, o), Suits(o, r.at, r.trip)
    PROVE  OpFits(r)
<1>1. op[o].kind # "none" /\ op[o].by \in Whose
  BY DEF TrackingIndInv, TrackingShapes, OpFits, Acts
<1>2. QED
  BY <1>1 DEF OpFits, Suits, Same

\* Only an operation of this login changes what is shown.
LEMMA PublishesFits ==
    ASSUME TrackingIndInv, NEW o \in Op, NEW next \in ViewRecord, Publishes(o, next)
    PROVE  /\ view' \in ViewRecord
           /\ Mine(o) => view' = next
           /\ ~Mine(o) => view' = view
  BY DEF TrackingIndInv, TrackingShapes, Publishes

\* What most steps leave alone.
LEMMA GoesFacts ==
    ASSUME TrackingIndInv, Goes
    PROVE  /\ UNCHANGED <<server, mounted, signingOut, overlapped, foreground, foregroundPending,
                          authenticated, automatic>>
           /\ authenticated \in BOOLEAN /\ automatic \in BOOLEAN
           /\ native \in SessionRecord /\ mainThread \in Seq(Op) /\ resumers \subseteq Op
  BY DEF Goes, account, screen, TrackingIndInv, TrackingShapes

\* An operation awaits the server, the drain or the logout.
LEMMA AsksStep ==
    ASSUME TrackingIndInv, NEW o \in Op, Acts(o), NEW at \in Places, at \notin BridgeWaits,
           Suits(o, at, op[o].trip), Asks(o, at), view' \in ViewRecord, Speaks(o)
    PROVE  TrackingIndInv'
<1> DEFINE r == At(o, at, "nothing")
<1>1. r \in OpRecord /\ Same(r, o) /\ r.at = at /\ r.trip = op[o].trip /\ r.seen = "nothing"
  BY AtFits DEF Seens
<1>2. Awaits(o, r) /\ UNCHANGED <<native, mainThread, resumers>> /\ Goes
  BY DEF Asks, device
<1> HIDE DEF r
<1>3. OpFits(r)
  BY <1>1, SuitsFits
<1>4. QED
  BY <1>1, <1>2, <1>3, GoesFacts, GoesOn

\* An operation reads the status, of the trip it is about.
LEMMA ReadsStep ==
    ASSUME TrackingIndInv, NEW o \in Op, Acts(o), NEW at \in StatusWaits,
           NEW t \in Trip \cup {None},
           NEW r, r \in Readings([At(o, at, "nothing") EXCEPT !.trip = t]),
           Suits(o, at, t), Awaits(o, r), UNCHANGED device, Goes, view' \in ViewRecord, Speaks(o)
    PROVE  TrackingIndInv'
<1>1. at \in Places
  BY DEF Places, BridgeWaits
<1> DEFINE a == At(o, at, "nothing")
           x == [a EXCEPT !.trip = t]
<1>2. a \in OpRecord /\ Same(a, o) /\ a.at = at
  BY <1>1, AtFits DEF Seens
<1> HIDE DEF a
<1>3. x \in OpRecord /\ Same(x, o) /\ x.at = at /\ x.trip = t
  BY <1>2, TripFits DEF Same
<1>4. r \in Readings(x)
  BY DEF a
<1> HIDE DEF x
<1>5. /\ r \in OpRecord /\ Same(r, o) /\ r.at = at /\ r.trip = t
      /\ r.seen \in {"status", "unreadable"}
  BY <1>3, <1>4, ReadingFits DEF Same
<1>6. OpFits(r)
  BY <1>5, SuitsFits
<1>7. UNCHANGED <<native, mainThread, resumers>>
  BY DEF device
<1>8. QED
  BY <1>5, <1>6, <1>7, GoesFacts, GoesOn

\* A stop leaves no session, whoever asked for it.
LEMMA StopsStep ==
    ASSUME TrackingIndInv, NEW o \in Op, Acts(o), NEW at \in StopWaits,
           Suits(o, at, op[o].trip), Stops(o, at), view' \in ViewRecord
    PROVE  TrackingIndInv'
<1>1. PICK proof \in Proofs : Awaits(o, At(o, at, proof))
  BY DEF Stops
<1> DEFINE r == At(o, at, proof)
<1>2. at \in Places /\ proof \in Seens
  BY DEF Places, BridgeWaits, Proofs, Seens
<1>3. r \in OpRecord /\ Same(r, o) /\ r.at = at /\ r.trip = op[o].trip /\ r.seen = proof
  BY <1>2, AtFits
<1>4. Awaits(o, r) /\ native' = Stopped /\ resumers' = {} /\ mainThread' = mainThread /\ Goes
  BY <1>1 DEF Stops, NativeStops
<1> HIDE DEF r
<1>5. OpFits(r)
  BY <1>3, SuitsFits
<1>6. Speaks(o) /\ native' \in SessionRecord
  BY <1>4, RecordsFit DEF Speaks
<1>7. QED
  BY <1>3, <1>4, <1>5, <1>6, GoesFacts, GoesOn

\* A pause or a resume is sent to the main thread.
LEMMA MainStep ==
    ASSUME TrackingIndInv, NEW o \in Op, Acts(o), NEW r \in OpRecord, Same(r, o),
           r.at \in MainWaits, Suits(o, r.at, r.trip), Awaits(o, r),
           mainThread' = Append(mainThread, o), UNCHANGED <<native, resumers>>, Goes,
           view' \in ViewRecord, Speaks(o)
    PROVE  TrackingIndInv'
<1>1. OpFits(r)
  BY SuitsFits
<1>2. mainThread' \in Seq(Op)
  BY GoesFacts, AppendProperties
<1>3. r.at \notin StopWaits
  BY DEF MainWaits, StopWaits
<1>4. QED
  BY <1>1, <1>2, <1>3, GoesFacts, GoesOn

\* An operation is over that ends no login.
LEMMA DoneStep ==
    ASSUME TrackingIndInv, NEW o \in Op, Acts(o), op[o].kind # "lost", Done(o),
           view' \in ViewRecord, Speaks(o)
    PROVE  TrackingIndInv'
<1>1. /\ Ends(o, foregroundPending) /\ foregroundPending \in BOOLEAN
      /\ UNCHANGED <<device, server, authenticated, mounted, overlapped, signingOut>>
  BY DEF Done, account, TrackingIndInv, TrackingShapes
<1>2. QED
  BY <1>1, Finishes

\* What is said of the end of an operation that decided nothing.
LEMMA StaysSilent ==
    ASSUME NEW o \in Op, ~Starting(o), ~Live(o) \/ op[o].at \notin DecidingAts,
           view'.phase = view.phase, view'.unknown = view.unknown
    PROVE  Speaks(o)
  BY DEF Speaks, QuietView, Deciding

\* An operation gives its result: anything but "inactive".
LEMMA GivesStep ==
    ASSUME TrackingIndInv, NEW o \in Op, Acts(o), op[o].kind # "lost",
           NEW phase \in {"reconciling", "active", "paused", "unavailable"},
           NEW t \in Trip \cup {None}, Starting(o) => Mine(o), Gives(o, phase, t)
    PROVE  TrackingIndInv'
<1> DEFINE next == Shows(phase, t)
<1>1. next \in ViewRecord /\ next.phase = phase
  BY DEF Shows, ViewRecord, TrackingIndInv, TrackingShapes
<1> HIDE DEF next
<1>2. Publishes(o, next) /\ Done(o)
  BY DEF Gives, next
<1>3. view' \in ViewRecord /\ Speaks(o)
  <2>1. CASE Mine(o)
    BY <1>1, <1>2, <2>1, PublishesFits DEF Speaks, QuietView
  <2>2. CASE ~Mine(o)
    BY <1>1, <1>2, <2>2, PublishesFits, StaysSilent DEF Live
  <2>3. QED
    BY <2>1, <2>2
<1>4. QED
  BY <1>2, <1>3, DoneStep

\* A live operation that looks at the session or starts it still decides.
LEMMA StillDecides ==
    ASSUME TrackingIndInv, NEW o \in Op, NEW r, Awaits(o, r), Same(r, o), r.at \in DecidingAts,
           Live(o), UNCHANGED mounted
    PROVE  Speaks(o)
<1>1. op'[o] = r
  BY DEF TrackingIndInv, TrackingShapes, Awaits
<1>2. Deciding(o)'
  BY <1>1 DEF Deciding, Live, Mine, Same
<1>3. QED
  BY <1>2 DEF Speaks

\* establishCapture begins, or is given up behind the fence.
LEMMA EstablishesStep ==
    ASSUME TrackingIndInv, NEW o \in Op, Acts(o), op[o].kind \notin {"signOut", "lost"},
           ~Starting(o), NEW t \in Trip \cup {None}, NEW next \in ViewRecord,
           next.phase = view.phase,
           Mine(o) /\ ~Live(o) => next.unknown = view.unknown \/ Leaving,
           Establishes(o, t, next)
    PROVE  TrackingIndInv'
<1>1. CASE Live(o)
  <2>1. PICK r \in Readings([At(o, "look", "nothing") EXCEPT !.trip = t]) : Awaits(o, r)
    BY <1>1 DEF Establishes
  <2>2. Publishes(o, next) /\ UNCHANGED device /\ Goes
    BY <1>1 DEF Establishes
  <2>3. "look" \in StatusWaits /\ Suits(o, "look", t)
    BY DEF StatusWaits, Suits, LeavingAts, CompleteAts
  <2> DEFINE a == At(o, "look", "nothing")
             x == [a EXCEPT !.trip = t]
  <2>4. a \in OpRecord /\ Same(a, o) /\ a.at = "look"
    BY AtFits DEF Places, BridgeWaits, StatusWaits, Seens
  <2> HIDE DEF a
  <2>5. x \in OpRecord /\ Same(x, o) /\ x.at = "look"
    BY <2>4, TripFits DEF Same
  <2>6. r \in Readings(x)
    BY <2>1 DEF a
  <2> HIDE DEF x
  <2>7. Same(r, o) /\ r.at = "look"
    BY <2>5, <2>6, ReadingFits DEF Same
  <2>8. Speaks(o)
    BY <1>1, <2>1, <2>2, <2>7, GoesFacts, StillDecides DEF DecidingAts
  <2>9. QED
    BY <2>1, <2>2, <2>3, <2>8, PublishesFits, ReadsStep
<1>2. CASE ~Live(o)
  <2> DEFINE last == [next EXCEPT !.busy = FALSE]
  <2>1. last \in ViewRecord /\ last.phase = next.phase /\ last.unknown = next.unknown
    BY DEF ViewRecord
  <2> HIDE DEF last
  <2>2. Publishes(o, last) /\ Done(o)
    BY <1>2 DEF Establishes, last
  <2>3. view' \in ViewRecord /\ Speaks(o)
    <3>1. CASE Mine(o) /\ Leaving
      BY <2>1, <2>2, <3>1, PublishesFits DEF Speaks
    <3>2. CASE Mine(o) /\ ~Leaving
      BY <1>2, <2>1, <2>2, <3>2, PublishesFits, StaysSilent
    <3>3. CASE ~Mine(o)
      BY <1>2, <2>1, <2>2, <3>3, PublishesFits, StaysSilent
    <3>4. QED
      BY <3>1, <3>2, <3>3
  <2>4. QED
    BY <2>2, <2>3, DoneStep
<1>3. QED
  BY <1>1, <1>2

\* An operation ends, saying no more than that it is over.
LEMMA EndsSilently ==
    ASSUME TrackingIndInv, NEW o \in Op, Acts(o), op[o].kind # "lost", ~Starting(o),
           ~Live(o) \/ op[o].at \notin DecidingAts, Done(o),
           \/ UNCHANGED view
           \/ Publishes(o, [view EXCEPT !.busy = FALSE])
    PROVE  TrackingIndInv'
<1>1. view \in ViewRecord
  BY DEF TrackingIndInv, TrackingShapes
<1>2. view' \in ViewRecord /\ view'.phase = view.phase /\ view'.unknown = view.unknown
  <2> DEFINE next == [view EXCEPT !.busy = FALSE]
  <2>1. next \in ViewRecord /\ next.phase = view.phase /\ next.unknown = view.unknown
    BY <1>1 DEF ViewRecord
  <2> HIDE DEF next
  <2>2. CASE Publishes(o, next)
    BY <1>1, <2>1, <2>2 DEF Publishes
  <2>3. CASE UNCHANGED view
    BY <1>1, <2>3
  <2>4. QED
    BY <2>2, <2>3 DEF next
<1>3. QED
  BY <1>2, StaysSilent, DoneStep

\* The record of an operation that started a session.
LEMMA StartedRecord ==
    ASSUME TrackingIndInv, NEW o \in Op,
           NEW seen \in Seens, NEW status \in SessionRecord,
           NEW r \in {Told(At(o, "started", "nothing"), status), At(o, "started", seen)}
    PROVE  r \in OpRecord /\ Same(r, o) /\ r.at = "started" /\ r.trip = op[o].trip
<1> DEFINE a(s) == At(o, "started", s)
<1>1. /\ a("nothing") \in OpRecord /\ Same(a("nothing"), o) /\ a("nothing").at = "started"
      /\ a("nothing").trip = op[o].trip
      /\ a(seen) \in OpRecord /\ Same(a(seen), o) /\ a(seen).at = "started"
      /\ a(seen).trip = op[o].trip
  BY AtFits DEF Places, BridgeWaits, Seens
<1> HIDE DEF a
<1>2. r \in {Told(a("nothing"), status), a(seen)}
  BY DEF a
<1>3. QED
  BY <1>1, <1>2, ToldFits DEF Same

\* A live operation starts a session, or is refused one.
LEMMA StartsStep ==
    ASSUME TrackingIndInv, NEW o \in Op, Acts(o), op[o].kind \notin {"signOut", "lost"},
           op[o].by \in Whose, Live(o), NativeStarts(o), Goes, UNCHANGED view
    PROVE  TrackingIndInv'
<1> DEFINE started == [by |-> op[o].by, trip |-> op[o].trip, paused |-> FALSE]
<1>1. started \in SessionRecord /\ native \in SessionRecord /\ view' \in ViewRecord
      /\ op \in [Op -> OpRecord]
  BY DEF SessionRecord, OpRecord, TrackingIndInv, TrackingShapes
<1>2. \A t : Suits(o, "started", t)
  BY DEF Suits, LeavingAts, CompleteAts
<1>3. "started" \in DecidingAts /\ "started" \notin StopWaits
  BY DEF DecidingAts, StopWaits
<1>4. CASE native = Stopped /\ native' = started
           /\ Awaits(o, Told(At(o, "started", "nothing"), started))
           /\ UNCHANGED <<mainThread, resumers>>
  <2> DEFINE r == Told(At(o, "started", "nothing"), started)
  <2>1. r \in OpRecord /\ Same(r, o) /\ r.at = "started" /\ r.trip = op[o].trip
    BY <1>1, StartedRecord DEF Seens
  <2>2. r.seen = "status"
    BY <1>1, ToldFits, AtFits DEF Places, BridgeWaits, Seens
  <2> HIDE DEF r, started
  <2>3. Awaits(o, r)
    BY <1>4 DEF r
  <2>4. OpFits(r) /\ Speaks(o)
    BY <1>2, <1>3, <2>1, <2>3, SuitsFits, StillDecides, GoesFacts
  <2>5. QED
    BY <1>1, <1>3, <1>4, <2>1, <2>2, <2>3, <2>4, GoesFacts, GoesOn
<1>5. ASSUME NEW r \in {Told(At(o, "started", "nothing"), native), At(o, "started", "rejected")},
             Awaits(o, r), UNCHANGED device
      PROVE  TrackingIndInv'
  <2>1. r \in OpRecord /\ Same(r, o) /\ r.at = "started" /\ r.trip = op[o].trip
    BY <1>1, StartedRecord DEF Seens
  <2>2. OpFits(r) /\ Speaks(o)
    BY <1>2, <1>3, <1>5, <2>1, SuitsFits, StillDecides, GoesFacts
  <2>3. UNCHANGED <<native, mainThread, resumers>>
    BY <1>5 DEF device
  <2>4. QED
    BY <1>1, <1>3, <1>5, <2>1, <2>2, <2>3, GoesFacts, GoesOn
<1>6. QED
  BY <1>4, <1>5 DEF NativeStarts

\* On a status that is this session or none.
LEMMA ProceedsStep ==
    ASSUME TrackingIndInv, NEW o \in Op, Acts(o), op[o].at \in {"look", "lookAgain"},
           NEW seen, Proceeds(o, seen)
    PROVE  TrackingIndInv'
<1>1. /\ op[o].kind \notin {"signOut", "lost"} /\ op[o].by \in Whose
      /\ op[o].trip \in Trip \cup {None} /\ ~Starting(o)
  BY DEF TrackingIndInv, TrackingShapes, OpFits, Acts, LeavingAts, OpRecord, Starting
<1>2. CASE Gives(o, "unavailable", op[o].trip)
  BY <1>1, <1>2, GivesStep
<1>3. CASE ~Live(o) /\ Publishes(o, [view EXCEPT !.busy = FALSE]) /\ Done(o)
  BY <1>1, <1>3, EndsSilently
<1>4. CASE Live(o) /\ seen = Stopped /\ NativeStarts(o) /\ Goes /\ UNCHANGED view
  BY <1>1, <1>4, StartsStep
<1>5. CASE /\ Live(o) /\ seen # Stopped /\ seen.paused
           /\ Awaits(o, At(o, "resume", "nothing")) /\ mainThread' = Append(mainThread, o)
           /\ UNCHANGED <<native, resumers, view>> /\ Goes
  <2> DEFINE r == At(o, "resume", "nothing")
  <2>1. r \in OpRecord /\ Same(r, o) /\ r.at = "resume" /\ r.trip = op[o].trip
    BY AtFits DEF Places, MainWaits, Seens
  <2> HIDE DEF r
  <2>2. Awaits(o, r)
    BY <1>5 DEF r
  <2>3. "resume" \in DecidingAts /\ "resume" \in MainWaits /\ Suits(o, "resume", op[o].trip)
    BY <1>1 DEF DecidingAts, MainWaits, Suits, LeavingAts, CompleteAts
  <2>4. view' \in ViewRecord /\ Speaks(o)
    BY <1>5, <2>1, <2>2, <2>3, StillDecides, GoesFacts DEF TrackingIndInv, TrackingShapes
  <2>5. QED
    BY <1>5, <2>1, <2>2, <2>3, <2>4, MainStep
<1>6. CASE Live(o) /\ Gives(o, "active", op[o].trip)
  BY <1>1, <1>6, GivesStep
<1>7. QED
  BY <1>2, <1>3, <1>4, <1>5, <1>6 DEF Proceeds
-----------------------------------------------------------------------------
(* Each action of an operation. *)

\* What is known of an operation that has been answered.
LEMMA AnsweredFacts ==
    ASSUME TrackingIndInv, NEW o \in Op, Acts(o)
    PROVE  /\ op[o] \in OpRecord /\ op[o].by \in Whose /\ op[o].trip \in Trip \cup {None}
           /\ op[o].kind # "none" /\ op[o].status \in SessionRecord
           /\ op[o].kind = "signOut" <=> op[o].at \in LeavingAts
           /\ op[o].kind = "lost" <=> op[o].at = "lost"
           /\ op[o].at \in CompleteAts => op[o].kind = "complete"
           /\ op[o].at \in CompleteAts \cup {"start", "startCheck", "recover"} =>
                 op[o].trip \in Trip
           /\ op[o].at # "started" => ~Starting(o)
           /\ view \in ViewRecord /\ native \in SessionRecord
  BY DEF TrackingIndInv, TrackingShapes, OpFits, Acts, OpRecord, Starting

\* confirmStop: a stop its answer did not prove is read again.
LEMMA RechecksStep == ASSUME TrackingIndInv, NEW o \in Op, Rechecks(o) PROVE TrackingIndInv'
<1>1. /\ op[o].at \in StopWaits /\ op[o].seen = "unproved" /\ Head(bridge) = o
      /\ UNCHANGED <<native, mainThread, resumers, view>> /\ Goes
  BY DEF Rechecks, device
<1>2. PICK proof \in {"refuted"} \cup (IF native = Stopped THEN {"proved"} ELSE {}) :
         Awaits(o, At(o, op[o].at, proof))
  BY DEF Rechecks
<1>3. Acts(o) /\ op[o].at \in Places /\ proof \in Seens
  BY <1>1, ActsWhenAnswered DEF BridgeWaits, Places, Seens
<1> DEFINE r == At(o, op[o].at, proof)
<1>4. r \in OpRecord /\ Same(r, o) /\ r.at = op[o].at /\ r.trip = op[o].trip /\ r.seen = proof
  BY <1>3, AtFits
<1> HIDE DEF r
<1>5. Suits(o, op[o].at, op[o].trip)
  BY <1>1, <1>3, AnsweredFacts DEF Suits, StopWaits
<1>6. OpFits(r) /\ Awaits(o, r)
  BY <1>2, <1>3, <1>4, <1>5, SuitsFits DEF r
<1>7. r.at \in StopWaits /\ r.seen = "proved" => native' = Stopped
  BY <1>1, <1>2, <1>4
<1>8. Speaks(o)
  <2>1. CASE Deciding(o)
    <3>1. op'[o] = r
      BY <1>6 DEF Awaits, TrackingIndInv, TrackingShapes
    <3>2. Deciding(o)'
      BY <1>1, <1>4, <2>1, <3>1, GoesFacts DEF Deciding, Starting, Live, Mine, Same, StopWaits
    <3>3. QED
      BY <3>2 DEF Speaks
  <2>2. CASE ~Deciding(o)
    BY <1>1, <2>2 DEF Speaks, QuietView
  <2>3. QED
    BY <2>1, <2>2
<1>9. view' \in ViewRecord
  BY <1>1, <1>3, AnsweredFacts
<1>10. QED
  BY <1>1, <1>3, <1>4, <1>6, <1>7, <1>8, <1>9, GoesFacts, GoesOn

\* establishCapture's first look at the native module.
LEMMA LookedStep == ASSUME TrackingIndInv, NEW o \in Op, Looked(o) PROVE TrackingIndInv'
<1>1. Acts(o) /\ op[o].at = "look"
  BY ActsWhenAnswered DEF Looked, Returns, BridgeWaits, StatusWaits
<1>2. /\ op[o].kind \notin {"signOut", "lost"} /\ ~Starting(o) /\ view.trip \in Trip \cup {None}
      /\ view \in ViewRecord
  BY <1>1, AnsweredFacts DEF LeavingAts, ViewRecord
<1>3. CASE Gives(o, "unavailable", view.trip)
  BY <1>1, <1>2, <1>3, GivesStep
<1>4. CASE Proceeds(o, op[o].status)
  BY <1>1, <1>4, ProceedsStep
<1>5. CASE Stops(o, "replace") /\ UNCHANGED view
  <2>1. Suits(o, "replace", op[o].trip) /\ "replace" \in StopWaits
    BY <1>2 DEF Suits, LeavingAts, CompleteAts, StopWaits
  <2>2. QED
    BY <1>1, <1>2, <1>5, <2>1, StopsStep
<1>6. QED
  BY <1>3, <1>4, <1>5 DEF Looked

\* An operation that is live and looks again decides on.
LEMMA ReadsAgain ==
    ASSUME TrackingIndInv, NEW o \in Op, Acts(o), NEW at \in StatusWaits,
           Suits(o, at, op[o].trip), ~Starting(o), Reads(o, at), UNCHANGED view,
           op[o].at \in DecidingAts => at \in DecidingAts
    PROVE  TrackingIndInv'
<1> DEFINE a == At(o, at, "nothing")
<1>1. a \in OpRecord /\ Same(a, o) /\ a.at = at /\ a.trip = op[o].trip
  BY AtFits DEF Places, BridgeWaits, Seens
<1>2. PICK r \in Readings(a) : Awaits(o, r)
  BY DEF Reads
<1> HIDE DEF a
<1>3. r \in OpRecord /\ Same(r, o) /\ r.at = at /\ r.trip = op[o].trip
      /\ r.seen \in {"status", "unreadable"}
  BY <1>1, ReadingFits DEF Same
<1>4. OpFits(r) /\ UNCHANGED <<native, mainThread, resumers>> /\ Goes
  BY <1>3, SuitsFits DEF Reads, device
<1>5. Speaks(o)
  <2>1. CASE Live(o) /\ op[o].at \in DecidingAts
    BY <1>2, <1>3, <1>4, <2>1, GoesFacts, StillDecides
  <2>2. CASE ~(Live(o) /\ op[o].at \in DecidingAts)
    BY <2>2, StaysSilent
  <2>3. QED
    BY <2>1, <2>2
<1>6. view' \in ViewRecord
  BY AnsweredFacts
<1>7. QED
  BY <1>2, <1>3, <1>4, <1>5, <1>6, GoesFacts, GoesOn

\* Another session was stopped for this one.
LEMMA ReplacedStep == ASSUME TrackingIndInv, NEW o \in Op, Replaced(o) PROVE TrackingIndInv'
<1>1. Acts(o) /\ op[o].at = "replace"
  BY ActsWhenAnswered DEF Replaced, Returns, BridgeWaits, StopWaits
<1>2. /\ op[o].kind \notin {"signOut", "lost"} /\ ~Starting(o) /\ op[o].trip \in Trip \cup {None}
  BY <1>1, AnsweredFacts DEF LeavingAts
<1>3. CASE Gives(o, "unavailable", op[o].trip)
  BY <1>1, <1>2, <1>3, GivesStep
<1>4. CASE Reads(o, "lookAgain") /\ UNCHANGED view
  <2>1. /\ Suits(o, "lookAgain", op[o].trip) /\ "lookAgain" \in StatusWaits
        /\ "lookAgain" \in DecidingAts
    BY <1>2 DEF Suits, LeavingAts, CompleteAts, StatusWaits, DecidingAts
  <2>2. QED
    BY <1>1, <1>2, <1>4, <2>1, ReadsAgain
<1>5. QED
  BY <1>3, <1>4 DEF Replaced

\* The look after it.
LEMMA LookedAgainStep == ASSUME TrackingIndInv, NEW o \in Op, LookedAgain(o) PROVE TrackingIndInv'
<1>1. Acts(o) /\ op[o].at = "lookAgain"
  BY ActsWhenAnswered DEF LookedAgain, Returns, BridgeWaits, StatusWaits
<1>2. op[o].kind # "lost" /\ ~Starting(o) /\ op[o].trip \in Trip \cup {None}
  BY <1>1, AnsweredFacts
<1>3. QED
  BY <1>1, <1>2, GivesStep, ProceedsStep DEF LookedAgain

\* A start or a resume is answered.
LEMMA EstablishedStep == ASSUME TrackingIndInv, NEW o \in Op, Established(o) PROVE TrackingIndInv'
<1>1. Acts(o) /\ op[o].at \in {"started", "resume"}
  BY ActsWhenAnswered DEF Established, Returns, BridgeWaits, MainWaits
<1>2. /\ op[o].kind \notin {"signOut", "lost"} /\ op[o].trip \in Trip \cup {None}
      /\ view \in ViewRecord
  BY <1>1, AnsweredFacts DEF LeavingAts
<1>3. CASE op[o].seen = "rejected"
  BY <1>1, <1>2, <1>3, GivesStep DEF Established, Starting
<1>4. CASE op[o].seen # "rejected" /\ ~Live(o)
  <2>1. Suits(o, "endLate", op[o].trip) /\ "endLate" \in StopWaits
    BY <1>2 DEF Suits, LeavingAts, CompleteAts, StopWaits
  <2>2. QED
    BY <1>1, <1>2, <1>4, <2>1, StopsStep DEF Established
<1>5. CASE op[o].seen # "rejected" /\ Live(o)
  BY <1>1, <1>2, <1>5, GivesStep DEF Established, Live
<1>6. QED
  BY <1>3, <1>4, <1>5

\* What came back behind the fence was stopped.
LEMMA EndedLateStep == ASSUME TrackingIndInv, NEW o \in Op, EndedLate(o) PROVE TrackingIndInv'
<1>1. Acts(o) /\ op[o].at = "endLate"
  BY ActsWhenAnswered DEF EndedLate, Returns, BridgeWaits, StopWaits
<1>2. op[o].kind # "lost" /\ ~Starting(o) /\ op[o].at \notin DecidingAts
  BY <1>1, AnsweredFacts DEF DecidingAts
<1>3. QED
  BY <1>1, <1>2, EndsSilently DEF EndedLate

\* The queue was restored, and the trip is looked for.
LEMMA RestoredStep == ASSUME TrackingIndInv, NEW o \in Op, Restored(o) PROVE TrackingIndInv'
<1>1. Acts(o) /\ op[o].at = "restore"
  BY ActsWhenAnswered DEF Restored, OtherWaits
<1>2. /\ op[o].kind \notin {"signOut", "lost"} /\ ~Starting(o) /\ op[o].at \notin DecidingAts
      /\ view \in ViewRecord /\ view.trip \in Trip \cup {None} /\ op[o].trip \in Trip \cup {None}
  BY <1>1, AnsweredFacts DEF LeavingAts, DecidingAts, ViewRecord
<1>3. CASE Done(o) /\ UNCHANGED view
  BY <1>1, <1>2, <1>3, EndsSilently
<1>4. CASE /\ view.trip # None
           /\ Awaits(o, [At(o, "recover", "nothing") EXCEPT !.trip = view.trip])
           /\ Publishes(o, [view EXCEPT !.busy = TRUE])
           /\ UNCHANGED device /\ Goes
  <2> DEFINE a == At(o, "recover", "nothing")
             r == [a EXCEPT !.trip = view.trip]
             next == [view EXCEPT !.busy = TRUE]
  <2>1. a \in OpRecord /\ Same(a, o) /\ a.at = "recover"
    BY AtFits DEF Places, ServerWaits, Seens
  <2>2. Awaits(o, r)
    BY <1>4
  <2> HIDE DEF a
  <2>3. r \in OpRecord /\ Same(r, o) /\ r.at = "recover" /\ r.trip = view.trip
    BY <1>2, <2>1, TripFits DEF Same
  <2> HIDE DEF r
  <2>4. Suits(o, "recover", view.trip)
    BY <1>2, <1>4 DEF Suits, LeavingAts, CompleteAts
  <2>5. OpFits(r) /\ "recover" \notin StopWaits
    BY <1>1, <2>3, <2>4, SuitsFits DEF StopWaits
  <2>6. next \in ViewRecord /\ next.phase = view.phase /\ next.unknown = view.unknown
    BY <1>2 DEF ViewRecord
  <2>7. Publishes(o, next)
    BY <1>4
  <2> HIDE DEF next
  <2>8. view' \in ViewRecord /\ view'.phase = view.phase /\ view'.unknown = view.unknown
    BY <1>2, <2>6, <2>7 DEF Publishes
  <2>9. Speaks(o)
    BY <1>2, <2>8, StaysSilent
  <2>10. UNCHANGED <<native, mainThread, resumers>> /\ Goes
    BY <1>4 DEF device
  <2>11. QED
    BY <1>1, <2>2, <2>3, <2>5, <2>8, <2>9, <2>10, GoesFacts, GoesOn
<1>5. CASE Asks(o, "list") /\ Publishes(o, [view EXCEPT !.phase = "reconciling", !.busy = TRUE])
  <2> DEFINE next == [view EXCEPT !.phase = "reconciling", !.busy = TRUE]
  <2>1. next \in ViewRecord /\ next.phase = "reconciling"
    BY <1>2 DEF ViewRecord
  <2>2. Publishes(o, next)
    BY <1>5
  <2> HIDE DEF next
  <2>3. view' \in ViewRecord /\ (view' = view \/ ~QuietView')
    BY <1>2, <2>1, <2>2 DEF Publishes, QuietView
  <2>4. Speaks(o)
    BY <1>2, <2>3, StaysSilent DEF Speaks
  <2>5. "list" \in Places /\ "list" \notin BridgeWaits /\ Suits(o, "list", op[o].trip)
    BY <1>2
       DEF Places, ServerWaits, BridgeWaits, StopWaits, StatusWaits, Suits, LeavingAts,
           CompleteAts
  <2>6. QED
    BY <1>1, <1>5, <2>3, <2>4, <2>5, AsksStep
<1>6. QED
  BY <1>3, <1>4, <1>5 DEF Restored, Reconciles

\* The server lists the trip in progress, or does not answer.
LEMMA RunningListedStep ==
    ASSUME TrackingIndInv, NEW o \in Op, RunningListed(o) PROVE TrackingIndInv'
<1>1. Acts(o) /\ op[o].at = "list"
  BY ActsWhenAnswered DEF RunningListed, ServerWaits
<1>2. /\ op[o].kind \notin {"signOut", "lost"} /\ ~Starting(o) /\ op[o].at \notin DecidingAts
      /\ view \in ViewRecord /\ op[o].trip \in Trip \cup {None}
  BY <1>1, AnsweredFacts DEF LeavingAts, DecidingAts
<1>3. CASE Reads(o, "closeAny") /\ UNCHANGED view
  <2>1. Suits(o, "closeAny", op[o].trip) /\ "closeAny" \in StatusWaits
    BY <1>2 DEF Suits, LeavingAts, CompleteAts, StatusWaits
  <2>2. QED
    BY <1>1, <1>2, <1>3, <2>1, ReadsAgain
<1>4. CASE Done(o) /\ UNCHANGED view
  BY <1>1, <1>2, <1>4, EndsSilently
<1>5. CASE Stops(o, "endNone") /\ UNCHANGED view
  <2>1. Suits(o, "endNone", op[o].trip) /\ "endNone" \in StopWaits
    BY <1>2 DEF Suits, LeavingAts, CompleteAts, StopWaits
  <2>2. QED
    BY <1>1, <1>2, <1>5, <2>1, StopsStep
<1>6. CASE Establishes(o, op[o].trip, [view EXCEPT !.trip = op[o].trip])
  <2> DEFINE next == [view EXCEPT !.trip = op[o].trip]
  <2>1. next \in ViewRecord /\ next.phase = view.phase /\ next.unknown = view.unknown
    BY <1>2 DEF ViewRecord
  <2>2. Establishes(o, op[o].trip, next)
    BY <1>6
  <2> HIDE DEF next
  <2>3. QED
    BY <1>1, <1>2, <2>1, <2>2, EstablishesStep
<1>7. QED
  BY <1>3, <1>4, <1>5, <1>6 DEF RunningListed

\* A stop that was proved when an operation ends lets it say so.
LEMMA GivesInactive ==
    ASSUME TrackingIndInv, NEW o \in Op, Acts(o), op[o].kind # "lost", ProvesStop(o),
           Gives(o, "inactive", None)
    PROVE  TrackingIndInv'
<1> DEFINE next == Shows("inactive", None)
<1>1. next \in ViewRecord
  BY AnsweredFacts DEF Shows, ViewRecord
<1>2. Publishes(o, next) /\ Done(o)
  BY DEF Gives
<1> HIDE DEF next
<1>3. view' \in ViewRecord /\ Speaks(o)
  BY <1>1, <1>2, PublishesFits DEF Speaks
<1>4. QED
  BY <1>2, <1>3, DoneStep

\* No trip is in progress: capture was stopped for that.
LEMMA EndedNoneStep == ASSUME TrackingIndInv, NEW o \in Op, EndedNone(o) PROVE TrackingIndInv'
<1>1. Acts(o) /\ op[o].at = "endNone"
  BY ActsWhenAnswered DEF EndedNone, Returns, BridgeWaits, StopWaits
<1>2. op[o].kind # "lost" /\ ~Starting(o)
  BY <1>1, AnsweredFacts
<1>3. CASE op[o].seen = "proved"
  BY <1>1, <1>2, <1>3, GivesInactive DEF EndedNone, ProvesStop, StopWaits
<1>4. CASE op[o].seen # "proved"
  BY <1>1, <1>2, <1>4, GivesStep DEF EndedNone
<1>5. QED
  BY <1>3, <1>4

\* Without an answer admission is closed.
LEMMA ClosedAnyStep == ASSUME TrackingIndInv, NEW o \in Op, ClosedAny(o) PROVE TrackingIndInv'
<1>1. Acts(o) /\ op[o].at = "closeAny"
  BY ActsWhenAnswered DEF ClosedAny, Returns, BridgeWaits, StatusWaits
<1>2. /\ op[o].kind \notin {"signOut", "lost"} /\ ~Starting(o) /\ op[o].at \notin DecidingAts
      /\ op[o].status.trip \in Trip \cup {None} /\ view \in ViewRecord
  BY <1>1, AnsweredFacts DEF LeavingAts, DecidingAts, SessionRecord
<1>3. CASE Gives(o, "reconciling", None)
  BY <1>1, <1>2, <1>3, GivesStep
<1>4. CASE /\ Awaits(o, [At(o, "pauseAny", "nothing") EXCEPT !.trip = op[o].status.trip])
           /\ mainThread' = Append(mainThread, o)
           /\ UNCHANGED <<native, resumers, view>> /\ Goes
  <2> DEFINE a == At(o, "pauseAny", "nothing")
             r == [a EXCEPT !.trip = op[o].status.trip]
  <2>1. a \in OpRecord /\ Same(a, o) /\ a.at = "pauseAny"
    BY AtFits DEF Places, MainWaits, Seens
  <2>2. Awaits(o, r)
    BY <1>4
  <2> HIDE DEF a
  <2>3. r \in OpRecord /\ Same(r, o) /\ r.at = "pauseAny"
    BY <1>2, <2>1, TripFits DEF Same
  <2> HIDE DEF r
  <2>4. Suits(o, "pauseAny", r.trip) /\ "pauseAny" \in MainWaits
    BY <1>2 DEF Suits, LeavingAts, CompleteAts, MainWaits
  <2>5. Speaks(o)
    BY <1>2, <1>4, StaysSilent
  <2>6. QED
    BY <1>1, <1>2, <1>4, <2>2, <2>3, <2>4, <2>5, MainStep
<1>5. CASE Stops(o, "endAny") /\ UNCHANGED view
  <2>1. Suits(o, "endAny", op[o].trip) /\ "endAny" \in StopWaits
    BY <1>2 DEF Suits, LeavingAts, CompleteAts, StopWaits
  <2>2. QED
    BY <1>1, <1>2, <1>5, <2>1, StopsStep
<1>6. QED
  BY <1>3, <1>4, <1>5 DEF ClosedAny

\* The pause that closes it is answered.
LEMMA PausedAnyStep == ASSUME TrackingIndInv, NEW o \in Op, PausedAny(o) PROVE TrackingIndInv'
<1>1. Acts(o) /\ op[o].at = "pauseAny"
  BY ActsWhenAnswered DEF PausedAny, Returns, MainWaits
<1>2. op[o].kind \notin {"signOut", "lost"} /\ ~Starting(o) /\ view \in ViewRecord
  BY <1>1, AnsweredFacts DEF LeavingAts
<1>3. CASE Stops(o, "endAny") /\ UNCHANGED view
  <2>1. Suits(o, "endAny", op[o].trip) /\ "endAny" \in StopWaits
    BY <1>2 DEF Suits, LeavingAts, CompleteAts, StopWaits
  <2>2. QED
    BY <1>1, <1>2, <1>3, <2>1, StopsStep
<1>4. CASE Gives(o, "reconciling", None)
  BY <1>1, <1>2, <1>4, GivesStep
<1>5. QED
  BY <1>3, <1>4 DEF PausedAny

\* The stop that closes it is answered.
LEMMA EndedAnyStep == ASSUME TrackingIndInv, NEW o \in Op, EndedAny(o) PROVE TrackingIndInv'
<1>1. Acts(o) /\ op[o].at = "endAny"
  BY ActsWhenAnswered DEF EndedAny, Returns, BridgeWaits, StopWaits
<1>2. op[o].kind # "lost" /\ ~Starting(o)
  BY <1>1, AnsweredFacts
<1>3. QED
  BY <1>1, <1>2, GivesStep DEF EndedAny

\* recoverCompletion is answered.
LEMMA RecoveredStep == ASSUME TrackingIndInv, NEW o \in Op, Recovered(o) PROVE TrackingIndInv'
<1>1. Acts(o) /\ op[o].at = "recover"
  BY ActsWhenAnswered DEF Recovered, ServerWaits
<1>2. /\ op[o].kind \notin {"signOut", "lost"} /\ ~Starting(o) /\ op[o].at \notin DecidingAts
      /\ view \in ViewRecord /\ op[o].trip \in Trip \cup {None}
  BY <1>1, AnsweredFacts DEF LeavingAts, DecidingAts
<1>3. CASE Publishes(o, [view EXCEPT !.busy = FALSE]) /\ Done(o)
  BY <1>1, <1>2, <1>3, EndsSilently
<1>4. CASE Publishes(o, view) /\ Done(o)
  BY <1>1, <1>2, <1>4, EndsSilently DEF Publishes
<1>5. CASE Live(o) /\ Establishes(o, op[o].trip, [view EXCEPT !.unknown = FALSE])
  <2> DEFINE next == [view EXCEPT !.unknown = FALSE]
  <2>1. next \in ViewRecord /\ next.phase = view.phase
    BY <1>2 DEF ViewRecord
  <2>2. Establishes(o, op[o].trip, next)
    BY <1>5
  <2> HIDE DEF next
  <2>3. QED
    BY <1>1, <1>2, <1>5, <2>1, <2>2, EstablishesStep
<1>6. CASE Stops(o, "settle") /\ UNCHANGED view
  <2>1. Suits(o, "settle", op[o].trip) /\ "settle" \in StopWaits
    BY <1>2 DEF Suits, LeavingAts, CompleteAts, StopWaits
  <2>2. QED
    BY <1>1, <1>2, <1>6, <2>1, StopsStep
<1>7. QED
  BY <1>3, <1>4, <1>5, <1>6 DEF Recovered

\* startTrip is answered, or asked again.
LEMMA StartAnsweredStep ==
    ASSUME TrackingIndInv, NEW o \in Op, StartAnswered(o) \/ StartChecked(o) PROVE TrackingIndInv'
<1>1. Acts(o) /\ op[o].at \in {"start", "startCheck"}
  BY ActsWhenAnswered DEF StartAnswered, StartChecked, ServerWaits
<1>2. /\ op[o].kind \notin {"signOut", "lost"} /\ ~Starting(o) /\ op[o].at \notin DecidingAts
      /\ view \in ViewRecord /\ op[o].trip \in Trip
  BY <1>1, AnsweredFacts DEF LeavingAts, DecidingAts
<1>3. CASE Publishes(o, [view EXCEPT !.busy = FALSE]) /\ Done(o)
  BY <1>1, <1>2, <1>3, EndsSilently
<1>4. CASE Establishes(o, op[o].trip, [view EXCEPT !.trip = op[o].trip])
  <2> DEFINE next == [view EXCEPT !.trip = op[o].trip]
  <2>1. next \in ViewRecord /\ next.phase = view.phase /\ next.unknown = view.unknown
    BY <1>2 DEF ViewRecord
  <2>2. Establishes(o, op[o].trip, next)
    BY <1>4
  <2> HIDE DEF next
  <2>3. QED
    BY <1>1, <1>2, <2>1, <2>2, EstablishesStep
<1>5. CASE Asks(o, "startCheck") /\ UNCHANGED view
  <2>1. Speaks(o)
    BY <1>2, <1>5, StaysSilent
  <2>2. /\ "startCheck" \in Places /\ "startCheck" \notin BridgeWaits
        /\ Suits(o, "startCheck", op[o].trip)
    BY <1>2
       DEF Places, ServerWaits, BridgeWaits, StopWaits, StatusWaits, Suits, LeavingAts,
           CompleteAts
  <2>3. QED
    BY <1>1, <1>2, <1>5, <2>1, <2>2, AsksStep
<1>6. QED
  BY <1>3, <1>4, <1>5 DEF StartAnswered, StartChecked
-----------------------------------------------------------------------------
(* A completion, the end of a login. *)

\* A completion of this login that is behind the fence is behind its end.
LEMMA CompletionLeaves ==
    ASSUME TrackingIndInv, NEW o \in Op, Mine(o), ~Live(o), op[o].kind = "complete"
    PROVE  Leaving
  BY DEF TrackingIndInv, Fenced, Live, Leaving

\* A completion goes on to the next of its calls, the view as it was.
LEMMA CompletionAsks ==
    ASSUME TrackingIndInv, NEW o \in Op, Acts(o), op[o].kind = "complete",
           ~Starting(o), NEW at \in {"drain", "complete", "completeCheck"}, Asks(o, at),
           op[o].trip \in Trip, UNCHANGED view
    PROVE  TrackingIndInv'
<1> DEFINE r == At(o, at, "nothing")
<1>1. at \in Places /\ at \notin BridgeWaits /\ at \in DecidingAts
  BY DEF Places, ServerWaits, OtherWaits, BridgeWaits, StopWaits, StatusWaits, DecidingAts
<1>2. Same(r, o) /\ r.at = at /\ Awaits(o, r) /\ Goes
  BY <1>1, AtFits DEF Asks, Seens
<1> HIDE DEF r
<1>3. Speaks(o)
  <2>1. CASE Live(o)
    BY <1>1, <1>2, <2>1, StillDecides, GoesFacts
  <2>2. CASE ~Live(o)
    BY <2>2, StaysSilent
  <2>3. QED
    BY <2>1, <2>2
<1>4. Suits(o, at, op[o].trip)
  BY DEF Suits, LeavingAts, CompleteAts
<1>5. QED
  BY <1>1, <1>3, <1>4, AnsweredFacts, AsksStep

\* A completion that goes on to the upload and says that the trip is paused, or over.
LEMMA CompletionUploads ==
    ASSUME TrackingIndInv, NEW o \in Op, Acts(o), op[o].kind = "complete", op[o].trip \in Trip,
           op[o].at \in {"admission", "pauseTrip"}, Uploads(o), NEW next \in ViewRecord,
           Publishes(o, next)
    PROVE  TrackingIndInv'
<1> DEFINE r == At(o, "drain", "nothing")
<1>1. "drain" \in Places /\ "drain" \notin BridgeWaits /\ "drain" \in DecidingAts
  BY DEF Places, OtherWaits, BridgeWaits, StopWaits, StatusWaits, DecidingAts
<1>2. Same(r, o) /\ r.at = "drain" /\ Awaits(o, r) /\ Goes /\ Asks(o, "drain")
  BY <1>1, AtFits DEF Uploads, Asks, Seens
<1> HIDE DEF r
<1>3. view' \in ViewRecord /\ Speaks(o)
  <2>1. CASE Live(o)
    BY <1>1, <1>2, <2>1, StillDecides, GoesFacts, PublishesFits
  <2>2. CASE Mine(o) /\ ~Live(o)
    BY <2>2, CompletionLeaves, PublishesFits DEF Speaks
  <2>3. CASE ~Mine(o)
    BY <2>3, AnsweredFacts, StaysSilent, PublishesFits DEF Live
  <2>4. QED
    BY <2>1, <2>2, <2>3
<1>4. Suits(o, "drain", op[o].trip)
  BY DEF Suits, LeavingAts, CompleteAts
<1>5. QED
  BY <1>1, <1>2, <1>3, <1>4, AsksStep

\* closeAdmission's reading of the native module.
LEMMA AdmissionStep == ASSUME TrackingIndInv, NEW o \in Op, Admission(o) PROVE TrackingIndInv'
<1>1. Acts(o) /\ op[o].at = "admission"
  BY ActsWhenAnswered DEF Admission, Returns, BridgeWaits, StatusWaits
<1>2. /\ op[o].kind = "complete" /\ ~Starting(o) /\ op[o].at \notin DecidingAts
      /\ view \in ViewRecord /\ op[o].trip \in Trip
  BY <1>1, AnsweredFacts DEF CompleteAts, DecidingAts
<1>3. CASE Refuses(o)
  BY <1>1, <1>2, <1>3, EndsSilently DEF Refuses
<1>4. CASE Uploads(o) /\ UNCHANGED view
  BY <1>1, <1>2, <1>4, CompletionAsks DEF Uploads, Asks
<1>5. CASE Stops(o, "admitOther") /\ UNCHANGED view
  <2>1. Suits(o, "admitOther", op[o].trip) /\ "admitOther" \in StopWaits
    BY <1>2 DEF Suits, LeavingAts, CompleteAts, StopWaits
  <2>2. QED
    BY <1>1, <1>2, <1>5, <2>1, StopsStep
<1>6. CASE Uploads(o) /\ Publishes(o, [view EXCEPT !.phase = "paused", !.trip = op[o].trip])
  <2> DEFINE next == [view EXCEPT !.phase = "paused", !.trip = op[o].trip]
  <2>1. next \in ViewRecord
    BY <1>2 DEF ViewRecord
  <2>2. Publishes(o, next)
    BY <1>6
  <2> HIDE DEF next
  <2>3. QED
    BY <1>1, <1>2, <1>6, <2>1, <2>2, CompletionUploads
<1>7. CASE /\ Awaits(o, At(o, "pauseTrip", "nothing")) /\ mainThread' = Append(mainThread, o)
           /\ UNCHANGED <<native, resumers, view>> /\ Goes
  <2> DEFINE r == At(o, "pauseTrip", "nothing")
  <2>1. r \in OpRecord /\ Same(r, o) /\ r.at = "pauseTrip" /\ r.trip = op[o].trip
    BY AtFits DEF Places, MainWaits, Seens
  <2>2. Awaits(o, r)
    BY <1>7
  <2> HIDE DEF r
  <2>3. Suits(o, "pauseTrip", op[o].trip) /\ "pauseTrip" \in MainWaits
    BY <1>2 DEF Suits, LeavingAts, CompleteAts, MainWaits
  <2>4. Speaks(o)
    BY <1>2, <1>7, StaysSilent
  <2>5. QED
    BY <1>1, <1>2, <1>7, <2>1, <2>2, <2>3, <2>4, MainStep
<1>8. QED
  BY <1>3, <1>4, <1>5, <1>6, <1>7 DEF Admission

\* Another session was stopped in front of a completion.
LEMMA AdmittedOtherStep ==
    ASSUME TrackingIndInv, NEW o \in Op, AdmittedOther(o) PROVE TrackingIndInv'
<1>1. Acts(o) /\ op[o].at = "admitOther"
  BY ActsWhenAnswered DEF AdmittedOther, Returns, BridgeWaits, StopWaits
<1>2. /\ op[o].kind = "complete" /\ ~Starting(o) /\ op[o].at \notin DecidingAts
      /\ op[o].trip \in Trip
  BY <1>1, AnsweredFacts DEF CompleteAts, DecidingAts
<1>3. CASE Refuses(o)
  BY <1>1, <1>2, <1>3, EndsSilently DEF Refuses
<1>4. CASE Uploads(o) /\ UNCHANGED view
  BY <1>1, <1>2, <1>4, CompletionAsks DEF Uploads, Asks
<1>5. QED
  BY <1>3, <1>4 DEF AdmittedOther

\* The trip's capture is paused in front of its completion.
LEMMA PausedTripStep == ASSUME TrackingIndInv, NEW o \in Op, PausedTrip(o) PROVE TrackingIndInv'
<1>1. Acts(o) /\ op[o].at = "pauseTrip"
  BY ActsWhenAnswered DEF PausedTrip, Returns, MainWaits
<1>2. /\ op[o].kind = "complete" /\ ~Starting(o) /\ op[o].at \notin DecidingAts
      /\ view \in ViewRecord /\ op[o].trip \in Trip
  BY <1>1, AnsweredFacts DEF CompleteAts, DecidingAts
<1>3. CASE Refuses(o)
  BY <1>1, <1>2, <1>3, EndsSilently DEF Refuses
<1>4. CASE /\ Uploads(o)
           /\ Publishes(o, [view EXCEPT !.phase =
                              IF op[o].status = Stopped THEN "inactive" ELSE "paused"])
  <2> DEFINE next == [view EXCEPT !.phase =
                        IF op[o].status = Stopped THEN "inactive" ELSE "paused"]
  <2>1. next \in ViewRecord
    BY <1>2 DEF ViewRecord
  <2>2. Publishes(o, next)
    BY <1>4
  <2> HIDE DEF next
  <2>3. QED
    BY <1>1, <1>2, <1>4, <2>1, <2>2, CompletionUploads
<1>5. QED
  BY <1>3, <1>4 DEF PausedTrip

\* The last positions are uploaded.
LEMMA DrainedStep == ASSUME TrackingIndInv, NEW o \in Op, Drained(o) PROVE TrackingIndInv'
<1>1. Acts(o) /\ op[o].at = "drain"
  BY ActsWhenAnswered DEF Drained, OtherWaits
<1>2. op[o].kind = "complete" /\ ~Starting(o) /\ op[o].trip \in Trip
  BY <1>1, AnsweredFacts DEF CompleteAts
<1>3. QED
  BY <1>1, <1>2, CompletionAsks DEF Drained, Asks

\* A completion without an answer is shown as unresolved.
LEMMA UnresolvedStep ==
    ASSUME TrackingIndInv, NEW o \in Op, Acts(o), op[o].kind = "complete", ~Starting(o),
           Unresolved(o)
    PROVE  TrackingIndInv'
<1> DEFINE next == [view EXCEPT !.unknown = TRUE, !.busy = FALSE]
<1>1. next \in ViewRecord /\ next.unknown
  BY AnsweredFacts DEF ViewRecord
<1>2. Publishes(o, next) /\ Done(o)
  BY DEF Unresolved
<1> HIDE DEF next
<1>3. view' \in ViewRecord /\ Speaks(o)
  <2>1. CASE Mine(o)
    BY <1>1, <1>2, <2>1, PublishesFits DEF Speaks, QuietView
  <2>2. CASE ~Mine(o)
    BY <1>1, <1>2, <2>2, PublishesFits, StaysSilent DEF Live
  <2>3. QED
    BY <2>1, <2>2
<1>4. QED
  BY <1>2, <1>3, DoneStep

\* completeTrip is answered, or asked again.
LEMMA CompletedStep ==
    ASSUME TrackingIndInv, NEW o \in Op, Completed(o) \/ CompleteChecked(o)
    PROVE  TrackingIndInv'
<1>1. Acts(o) /\ op[o].at \in {"complete", "completeCheck"}
  BY ActsWhenAnswered DEF Completed, CompleteChecked, ServerWaits
<1>2. /\ op[o].kind = "complete" /\ ~Starting(o) /\ op[o].trip \in Trip /\ view \in ViewRecord
  BY <1>1, AnsweredFacts DEF CompleteAts
<1>3. CASE Unresolved(o)
  BY <1>1, <1>2, <1>3, UnresolvedStep
<1>4. CASE Stops(o, "settle") /\ UNCHANGED view
  <2>1. Suits(o, "settle", op[o].trip) /\ "settle" \in StopWaits
    BY <1>2 DEF Suits, LeavingAts, CompleteAts, StopWaits
  <2>2. QED
    BY <1>1, <1>2, <1>4, <2>1, StopsStep
<1>5. CASE Asks(o, "completeCheck") /\ UNCHANGED view
  BY <1>1, <1>2, <1>5, CompletionAsks
<1>6. CASE Establishes(o, op[o].trip, [view EXCEPT !.unknown = FALSE])
  <2> DEFINE next == [view EXCEPT !.unknown = FALSE]
  <2>1. next \in ViewRecord /\ next.phase = view.phase
    BY <1>2 DEF ViewRecord
  <2>2. Establishes(o, op[o].trip, next)
    BY <1>6
  <2> HIDE DEF next
  <2>3. Mine(o) /\ ~Live(o) => Leaving
    BY <1>2, CompletionLeaves
  <2>4. QED
    BY <1>1, <1>2, <2>1, <2>2, <2>3, EstablishesStep
<1>7. QED
  BY <1>3, <1>4, <1>5, <1>6 DEF Completed, CompleteChecked

\* Capture is stopped for a trip that is over.
LEMMA CompletionSettledStep ==
    ASSUME TrackingIndInv, NEW o \in Op, CompletionSettled(o) PROVE TrackingIndInv'
<1>1. Acts(o) /\ op[o].at = "settle"
  BY ActsWhenAnswered DEF CompletionSettled, Returns, BridgeWaits, StopWaits
<1>2. op[o].kind # "lost" /\ ~Starting(o)
  BY <1>1, AnsweredFacts
<1> DEFINE next == [phase |-> IF op[o].seen = "proved" THEN "inactive" ELSE "unavailable",
                    trip |-> None, unknown |-> FALSE, busy |-> FALSE]
<1>3. /\ next \in ViewRecord
      /\ next.phase = (IF op[o].seen = "proved" THEN "inactive" ELSE "unavailable")
  BY DEF ViewRecord
<1>4. Publishes(o, next) /\ Done(o)
  BY DEF CompletionSettled
<1> HIDE DEF next
<1>5. view' \in ViewRecord /\ Speaks(o)
  <2>1. CASE op[o].seen = "proved"
    BY <1>1, <1>3, <1>4, <2>1, PublishesFits DEF Speaks, ProvesStop, StopWaits
  <2>2. CASE Mine(o) /\ op[o].seen # "proved"
    BY <1>3, <1>4, <2>2, PublishesFits DEF Speaks, QuietView
  <2>3. CASE ~Mine(o)
    BY <1>2, <1>3, <1>4, <2>3, PublishesFits, StaysSilent DEF Live
  <2>4. QED
    BY <2>1, <2>2, <2>3
<1>6. QED
  BY <1>1, <1>2, <1>4, <1>5, DoneStep

\* A sign-out of this login is behind its own fence.
LEMMA SignOutLeaves ==
    ASSUME TrackingIndInv, NEW o \in Op, Mine(o), op[o].kind = "signOut"
    PROVE  signingOut /\ Leaving
  BY DEF TrackingIndInv, Fenced, Leaving

\* signOut's proof, or its failure.
LEMMA StopProvedStep == ASSUME TrackingIndInv, NEW o \in Op, StopProved(o) PROVE TrackingIndInv'
<1>1. Acts(o) /\ op[o].at = "proveOut"
  BY ActsWhenAnswered DEF StopProved, Returns, BridgeWaits, StopWaits
<1>2. /\ op[o].kind = "signOut" /\ ~Starting(o) /\ op[o].at \notin DecidingAts
      /\ view \in ViewRecord /\ view.trip \in Trip \cup {None}
  BY <1>1, AnsweredFacts DEF LeavingAts, DecidingAts, ViewRecord
<1>3. /\ {authenticated, mounted, signingOut, foreground, foregroundPending, automatic}
            \subseteq BOOLEAN
      /\ native \in SessionRecord /\ mainThread \in Seq(Op) /\ resumers \subseteq Op
  BY DEF TrackingIndInv, TrackingShapes
<1>4. CASE op[o].seen = "proved"
  <2> DEFINE r == At(o, "lastBatch", "nothing")
  <2>1. r \in OpRecord /\ Same(r, o) /\ r.at = "lastBatch" /\ r.trip = op[o].trip
    BY AtFits DEF Places, OtherWaits, Seens
  <2>2. /\ Awaits(o, r) /\ automatic' = (automatic /\ ~Mine(o))
        /\ UNCHANGED <<native, mainThread, resumers, server, authenticated, mounted, signingOut,
                       overlapped, view, foreground, foregroundPending>>
    BY <1>4 DEF StopProved, device, account
  <2> HIDE DEF r
  <2>3. OpFits(r) /\ "lastBatch" \notin StopWaits
    <3>1. Suits(o, "lastBatch", op[o].trip)
      BY <1>2 DEF Suits, LeavingAts, CompleteAts
    <3>2. QED
      BY <1>1, <2>1, <3>1, SuitsFits DEF StopWaits
  <2>4. automatic' \in BOOLEAN /\ (automatic' = automatic \/ signingOut)
    BY <1>2, <1>3, <2>2, SignOutLeaves
  <2>5. view' \in ViewRecord /\ Speaks(o)
    BY <1>2, <2>2, StaysSilent
  <2>6. QED
    BY <1>1, <1>3, <2>1, <2>2, <2>3, <2>4, <2>5, GoesOn
<1>5. CASE op[o].seen # "proved"
  <2> DEFINE owed == foregroundPending \/ (mounted /\ authenticated /\ foreground)
             next == Shows("unavailable", view.trip)
  <2>1. next \in ViewRecord /\ next.phase = "unavailable"
    BY <1>2 DEF Shows, ViewRecord
  <2>2. /\ Ends(o, owed) /\ signingOut' = (signingOut /\ ~Mine(o)) /\ Publishes(o, next)
        /\ UNCHANGED <<device, server, authenticated, mounted, overlapped>>
    BY <1>5 DEF StopProved
  <2> HIDE DEF next
  <2>3. owed \in BOOLEAN
    BY <1>3
  <2>4. view' \in ViewRecord /\ Speaks(o) /\ (Mine(o) => ~QuietView')
    <3>1. CASE Mine(o)
      BY <2>1, <2>2, <3>1, PublishesFits DEF Speaks, QuietView
    <3>2. CASE ~Mine(o)
      BY <1>2, <2>1, <2>2, <3>2, PublishesFits, StaysSilent
    <3>3. QED
      BY <3>1, <3>2
  <2>5. QED
    BY <1>1, <1>2, <2>2, <2>3, <2>4, Finishes
<1>6. QED
  BY <1>4, <1>5

\* The last batch is uploaded, and the login ended.
LEMMA LastBatchStep == ASSUME TrackingIndInv, NEW o \in Op, LastBatch(o) PROVE TrackingIndInv'
<1>1. Acts(o) /\ op[o].at = "lastBatch"
  BY ActsWhenAnswered DEF LastBatch, OtherWaits
<1>2. op[o].kind = "signOut" /\ ~Starting(o) /\ op[o].at \notin DecidingAts /\ view \in ViewRecord
  BY <1>1, AnsweredFacts DEF LeavingAts, DecidingAts
<1>3. /\ {authenticated, automatic} \subseteq BOOLEAN
      /\ native \in SessionRecord /\ mainThread \in Seq(Op) /\ resumers \subseteq Op
  BY DEF TrackingIndInv, TrackingShapes
<1> DEFINE r == At(o, "logout", "nothing")
<1>4. r \in OpRecord /\ Same(r, o) /\ r.at = "logout" /\ r.trip = op[o].trip
  BY AtFits DEF Places, OtherWaits, Seens
<1>5. /\ Awaits(o, r) /\ authenticated' = (authenticated /\ ~Mine(o))
      /\ UNCHANGED <<native, mainThread, resumers, server, mounted, signingOut, overlapped, view,
                     foreground, foregroundPending, automatic>>
  BY DEF LastBatch, device, screen
<1> HIDE DEF r
<1>6. OpFits(r) /\ "logout" \notin StopWaits
  <2>1. Suits(o, "logout", op[o].trip)
    BY <1>2 DEF Suits, LeavingAts, CompleteAts
  <2>2. QED
    BY <1>1, <1>4, <2>1, SuitsFits DEF StopWaits
<1>7. /\ authenticated' \in BOOLEAN
      /\ authenticated' = authenticated \/ (signingOut /\ ~authenticated')
  BY <1>2, <1>3, <1>5, SignOutLeaves
<1>8. view' \in ViewRecord /\ Speaks(o)
  BY <1>2, <1>5, StaysSilent
<1>9. QED
  BY <1>1, <1>3, <1>4, <1>5, <1>6, <1>7, <1>8, GoesOn

\* The logout is over.
LEMMA LoggedOutStep == ASSUME TrackingIndInv, NEW o \in Op, LoggedOut(o) PROVE TrackingIndInv'
<1>1. Acts(o) /\ op[o].at = "logout"
  BY ActsWhenAnswered DEF LoggedOut, OtherWaits
<1>2. op[o].kind = "signOut" /\ ~Starting(o)
  BY <1>1, AnsweredFacts DEF LeavingAts
<1> DEFINE next == [phase |-> "inactive", trip |-> None, unknown |-> FALSE, busy |-> FALSE]
<1>3. next \in ViewRecord
  BY DEF ViewRecord
<1>4. Publishes(o, next) /\ Done(o)
  BY DEF LoggedOut
<1> HIDE DEF next
<1>5. view' \in ViewRecord /\ Speaks(o)
  <2>1. CASE Mine(o)
    BY <1>2, <1>3, <1>4, <2>1, PublishesFits, SignOutLeaves DEF Speaks
  <2>2. CASE ~Mine(o)
    BY <1>2, <1>3, <1>4, <2>2, PublishesFits, StaysSilent DEF Live
  <2>3. QED
    BY <2>1, <2>2
<1>6. QED
  BY <1>1, <1>2, <1>4, <1>5, DoneStep

\* The stop of a lost session is settled.
LEMMA LossSettledStep == ASSUME TrackingIndInv, NEW o \in Op, LossSettled(o) PROVE TrackingIndInv'
<1>1. Acts(o) /\ op[o].at = "lost"
  BY ActsWhenAnswered DEF LossSettled, Returns, BridgeWaits, StopWaits
<1>2. op[o].kind = "lost" /\ ~Starting(o) /\ view \in ViewRecord
  BY <1>1, AnsweredFacts
<1>3. {foregroundPending, automatic} \subseteq BOOLEAN
  BY DEF TrackingIndInv, TrackingShapes
<1> DEFINE next == [view EXCEPT !.phase = IF op[o].seen = "proved" THEN "inactive"
                                          ELSE "unavailable"]
<1>4. /\ next \in ViewRecord
      /\ next.phase = (IF op[o].seen = "proved" THEN "inactive" ELSE "unavailable")
  BY <1>2 DEF ViewRecord
<1>5. /\ Publishes(o, next) /\ op' = [op EXCEPT ![o] = NoOp] /\ bridge' = Behind(bridge, o)
      /\ UNCHANGED <<device, server, authenticated, mounted, overlapped, signingOut,
                     foreground, foregroundPending, automatic>>
  BY DEF LossSettled, account, screen
<1> HIDE DEF next
<1>6. Underway # {o}
  BY <1>2 DEF Underway
<1>7. Ends(o, foregroundPending)
  BY <1>3, <1>5, <1>6 DEF Ends
<1>8. view' \in ViewRecord /\ Speaks(o)
  <2>1. CASE op[o].seen = "proved"
    BY <1>1, <1>4, <1>5, <2>1, PublishesFits DEF Speaks, ProvesStop, StopWaits
  <2>2. CASE Mine(o) /\ op[o].seen # "proved"
    BY <1>4, <1>5, <2>2, PublishesFits DEF Speaks, QuietView
  <2>3. CASE ~Mine(o)
    BY <1>2, <1>4, <1>5, <2>3, PublishesFits, StaysSilent DEF Live
  <2>4. QED
    BY <2>1, <2>2, <2>3
<1>9. QED
  BY <1>1, <1>3, <1>5, <1>7, <1>8, Finishes
-----------------------------------------------------------------------------
(* What the driver asks for. *)

\* The record of a new operation.
LEMMA NewFits ==
    ASSUME NEW k \in Kinds, NEW place \in Places, NEW t \in Trip \cup {None}
    PROVE  /\ New(k, place, t) \in OpRecord /\ New(k, place, t).kind = k
           /\ New(k, place, t).at = place /\ New(k, place, t).trip = t
           /\ New(k, place, t).by = "mine" /\ New(k, place, t).current
<1>1. "mine" \in Whose
  BY DEF Whose
<1>2. QED
  BY <1>1, RecordsFit DEF New, OpRecord

\* What may begin.
LEMMA BegunFits ==
    ASSUME NEW r \in OpRecord, r.by = "mine", r.current,
           r.kind \in {"reconcile", "request", "start", "complete"},
           r.at \in {"restore", "recover", "list", "look", "start", "admission"},
           r.at \in {"start", "recover", "admission"} => r.trip \in Trip,
           r.at = "admission" => r.kind = "complete"
    PROVE  Begun(r)
<1>1. OpFits(r)
  BY DEF OpFits, Whose, LeavingAts, CompleteAts
<1>2. QED
  BY <1>1 DEF Begun, StopWaits

\* The operations that begin with a call to the server or the queue.
LEMMA NewBegun ==
    /\ Begun(New("reconcile", "restore", None))
    /\ Begun(New("reconcile", "list", None)) /\ Begun(New("request", "list", None))
    /\ \A t \in Trip : Begun(New("reconcile", "recover", t)) /\ Begun(New("start", "start", t))
<1>1. "reconcile" \in Kinds /\ "request" \in Kinds /\ "start" \in Kinds
  BY DEF Kinds
<1>2. "restore" \in Places /\ "list" \in Places /\ "recover" \in Places /\ "start" \in Places
  BY DEF Places, ServerWaits, OtherWaits
<1>3. Begun(New("reconcile", "restore", None))
  <2> DEFINE r == New("reconcile", "restore", None)
  <2>1. r \in OpRecord /\ r.kind = "reconcile" /\ r.at = "restore" /\ r.by = "mine" /\ r.current
    BY <1>1, <1>2, NewFits
  <2> HIDE DEF r
  <2>2. Begun(r)
    BY <2>1, BegunFits
  <2>3. QED
    BY <2>2 DEF r
<1>4. Begun(New("reconcile", "list", None)) /\ Begun(New("request", "list", None))
  <2> DEFINE r == New("reconcile", "list", None)
             s == New("request", "list", None)
  <2>1. /\ r \in OpRecord /\ r.kind = "reconcile" /\ r.at = "list" /\ r.by = "mine"
        /\ r.current
        /\ s \in OpRecord /\ s.kind = "request" /\ s.at = "list" /\ s.by = "mine"
        /\ s.current
    BY <1>1, <1>2, NewFits
  <2> HIDE DEF r, s
  <2>2. Begun(r) /\ Begun(s)
    BY <2>1, BegunFits
  <2>3. QED
    BY <2>2 DEF r, s
<1>5. ASSUME NEW t \in Trip
      PROVE  Begun(New("reconcile", "recover", t)) /\ Begun(New("start", "start", t))
  <2> DEFINE r == New("reconcile", "recover", t)
             s == New("start", "start", t)
  <2>1. /\ r \in OpRecord /\ r.kind = "reconcile" /\ r.at = "recover" /\ r.by = "mine"
        /\ r.current /\ r.trip = t
        /\ s \in OpRecord /\ s.kind = "start" /\ s.at = "start" /\ s.by = "mine"
        /\ s.current /\ s.trip = t
    BY <1>1, <1>2, NewFits
  <2> HIDE DEF r, s
  <2>2. Begun(r) /\ Begun(s)
    BY <2>1, BegunFits
  <2>3. QED
    BY <2>2 DEF r, s
<1>6. QED
  BY <1>3, <1>4, <1>5

\* The operations that begin with a status.
LEMMA NewReadBegun ==
    ASSUME TrackingIndInv, NEW t \in Trip
    PROVE  /\ \A r \in Readings(New("request", "look", t)) : Begun(r)
           /\ \A r \in Readings(New("complete", "admission", t)) : Begun(r)
<1>1. /\ "request" \in Kinds /\ "complete" \in Kinds
      /\ "look" \in Places /\ "admission" \in Places /\ t \in Trip \cup {None}
  BY DEF Kinds, Places, BridgeWaits, StatusWaits
<1> DEFINE l == New("request", "look", t)
           c == New("complete", "admission", t)
<1>2. /\ l \in OpRecord /\ l.kind = "request" /\ l.at = "look" /\ l.by = "mine" /\ l.current
      /\ c \in OpRecord /\ c.kind = "complete" /\ c.at = "admission" /\ c.by = "mine"
      /\ c.current /\ c.trip = t
  BY <1>1, NewFits
<1> HIDE DEF l, c
<1>3. ASSUME NEW r \in Readings(l) PROVE Begun(r)
  BY <1>2, ReadingFits, BegunFits
<1>4. ASSUME NEW r \in Readings(c) PROVE Begun(r)
  BY <1>2, ReadingFits, BegunFits
<1>5. QED
  BY <1>3, <1>4 DEF l, c

\* What the screen shows while it begins is said of no capture.
LEMMA ForegroundStep == ASSUME TrackingIndInv, NEW o \in Op, Foreground(o) PROVE TrackingIndInv'
<1>1. /\ mounted /\ foreground' = TRUE /\ UNCHANGED view /\ view \in ViewRecord
      /\ {authenticated, mounted, signingOut, overlapped, foreground, foregroundPending,
          automatic} \subseteq BOOLEAN
  BY DEF Foreground, TrackingIndInv, TrackingShapes
<1>2. CASE authenticated /\ ~signingOut /\ Underway = {}
  <2> DEFINE r == New("reconcile", "restore", None)
  <2>1. Begun(r)
    BY NewBegun
  <2>2. Begins(o, r) /\ automatic' = TRUE /\ foregroundPending' = FALSE
    BY <1>2 DEF Foreground
  <2> HIDE DEF r
  <2>3. QuietView' => QuietView
    BY <1>1 DEF QuietView
  <2>4. QED
    BY <1>1, <1>2, <2>1, <2>2, <2>3, BeginsStep
<1>3. CASE ~(authenticated /\ ~signingOut /\ Underway = {})
  <2>1. /\ foregroundPending' = (authenticated /\ ~signingOut)
        /\ UNCHANGED <<op, bridge, native, mainThread, resumers, server, authenticated, mounted,
                       signingOut, overlapped, automatic, view>>
    BY <1>1, <1>3 DEF Foreground, device, account
  <2>2. TrackingShapes' /\ Queued' /\ Waiting'
    BY <1>1, <2>1 DEF TrackingIndInv, TrackingShapes, Queued, Waiting
  <2>3. \A q \in Op : (Mine(q)' <=> Mine(q)) /\ (Live(q)' <=> Live(q))
    BY <2>1 DEF Mine, Live
  <2>4. Fenced'
    BY <2>1, <2>3 DEF TrackingIndInv, Fenced, Leaving
  <2>5. StopsInOrder' /\ QuietIsDecided'
    BY <2>1, <2>3
       DEF TrackingIndInv, StopsInOrder, ProvesStop, Starting, QuietIsDecided, QuietView, Deciding
  <2>6. DrainOwed'
    <3>1. Underway' = Underway
      BY <2>1, <2>3 DEF Underway
    <3>2. QED
      BY <1>3, <2>1, <3>1 DEF DrainOwed
  <2>7. QED
    BY <2>2, <2>4, <2>5, <2>6 DEF TrackingIndInv
<1>4. QED
  BY <1>2, <1>3

\* An operation that begins and says no more than that it is busy.
LEMMA BusyStep ==
    ASSUME TrackingIndInv, NEW o \in Op, NEW r, Begun(r), Begins(o, r), InFront,
           view' \in ViewRecord, QuietView' => QuietView, UNCHANGED screen
    PROVE  TrackingIndInv'
<1>1. authenticated /\ {foreground, foregroundPending, automatic} \subseteq BOOLEAN
  BY DEF InFront, TrackingIndInv, TrackingShapes
<1>2. UNCHANGED <<foreground, foregroundPending, automatic>>
  BY DEF screen
<1>3. QED
  BY <1>1, <1>2, BeginsStep

\* retryReconcile.
LEMMA RetryStep == ASSUME TrackingIndInv, NEW o \in Op, Retry(o) PROVE TrackingIndInv'
<1>1. /\ InFront /\ view \in ViewRecord /\ view.trip \in Trip \cup {None} /\ UNCHANGED screen
      /\ view' = [view EXCEPT !.busy = TRUE,
                              !.phase = IF view.unknown THEN @ ELSE "reconciling"]
  BY DEF Retry, TrackingIndInv, TrackingShapes, ViewRecord
<1>2. /\ view' \in ViewRecord /\ view'.unknown = view.unknown
      /\ view'.phase = (IF view.unknown THEN view.phase ELSE "reconciling")
  BY <1>1 DEF ViewRecord
<1>3. QuietView' => QuietView
  BY <1>2 DEF QuietView
<1>4. CASE view.unknown
  <2>1. view.trip \in Trip /\ Begins(o, New("reconcile", "recover", view.trip))
    BY <1>1, <1>4 DEF Retry
  <2>2. Begun(New("reconcile", "recover", view.trip))
    BY <2>1, NewBegun
  <2>3. QED
    BY <1>1, <1>2, <1>3, <2>1, <2>2, BusyStep
<1>5. CASE ~view.unknown
  <2>1. Begins(o, New("reconcile", "list", None))
    BY <1>5 DEF Retry
  <2>2. Begun(New("reconcile", "list", None))
    BY NewBegun
  <2>3. QED
    BY <1>1, <1>2, <1>3, <2>1, <2>2, BusyStep
<1>6. QED
  BY <1>4, <1>5

\* requestOrRetryTracking.
LEMMA RequestStep == ASSUME TrackingIndInv, NEW o \in Op, Request(o) PROVE TrackingIndInv'
<1>1. /\ InFront /\ view \in ViewRecord /\ view.trip \in Trip \cup {None} /\ UNCHANGED screen
      /\ view' = [view EXCEPT !.busy = TRUE,
                              !.phase = IF view.trip # None THEN @ ELSE "reconciling"]
  BY DEF Request, TrackingIndInv, TrackingShapes, ViewRecord
<1>2. /\ view' \in ViewRecord /\ view'.unknown = view.unknown
      /\ view'.phase = (IF view.trip # None THEN view.phase ELSE "reconciling")
  BY <1>1 DEF ViewRecord
<1>3. QuietView' => QuietView
  BY <1>2 DEF QuietView
<1>4. CASE view.trip # None
  <2>1. PICK r \in Readings(New("request", "look", view.trip)) : Begins(o, r)
    BY <1>4 DEF Request
  <2>2. Begun(r)
    BY <1>1, <1>4, <2>1, NewReadBegun
  <2>3. QED
    BY <1>1, <1>2, <1>3, <2>1, <2>2, BusyStep
<1>5. CASE view.trip = None
  <2>1. Begins(o, New("request", "list", None))
    BY <1>5 DEF Request
  <2>2. Begun(New("request", "list", None))
    BY NewBegun
  <2>3. QED
    BY <1>1, <1>2, <1>3, <2>1, <2>2, BusyStep
<1>6. QED
  BY <1>4, <1>5

\* startTrip.
LEMMA StartTripStep ==
    ASSUME TrackingIndInv, NEW o \in Op, NEW t \in Trip, StartTrip(o, t) PROVE TrackingIndInv'
<1>1. /\ InFront /\ view \in ViewRecord /\ UNCHANGED screen
      /\ Begins(o, New("start", "start", t)) /\ view' = [view EXCEPT !.busy = TRUE]
  BY DEF StartTrip, TrackingIndInv, TrackingShapes
<1>2. view' \in ViewRecord /\ view'.unknown = view.unknown /\ view'.phase = view.phase
  BY <1>1 DEF ViewRecord
<1>3. Begun(New("start", "start", t))
  BY NewBegun
<1>4. QED
  BY <1>1, <1>2, <1>3, BusyStep DEF QuietView

\* completeTrip.
LEMMA CompleteTripStep ==
    ASSUME TrackingIndInv, NEW o \in Op, NEW t \in Trip, CompleteTrip(o, t) PROVE TrackingIndInv'
<1>1. /\ InFront /\ view \in ViewRecord /\ UNCHANGED screen
      /\ view' = [view EXCEPT !.busy = TRUE, !.trip = t]
  BY DEF CompleteTrip, TrackingIndInv, TrackingShapes
<1>2. view' \in ViewRecord /\ view'.unknown = view.unknown /\ view'.phase = view.phase
  BY <1>1 DEF ViewRecord
<1>3. PICK r \in Readings(New("complete", "admission", t)) : Begins(o, r)
  BY DEF CompleteTrip
<1>4. Begun(r)
  BY <1>3, NewReadBegun
<1>5. QED
  BY <1>1, <1>2, <1>3, <1>4, BusyStep DEF QuietView

\* signOut's fence.
LEMMA SignsOutStep == ASSUME TrackingIndInv, NEW o \in Op, SignsOut(o) PROVE TrackingIndInv'
<1>1. /\ ~signingOut /\ signingOut' = TRUE /\ ~AtDetail /\ view \in ViewRecord
      /\ view' = [view EXCEPT !.busy = TRUE] /\ StopsBehindFence(o, "signOut", "proveOut")
      /\ UNCHANGED <<server, authenticated, mounted, overlapped, foreground, foregroundPending,
                     automatic>>
  BY DEF SignsOut, screen, TrackingIndInv, TrackingShapes
<1>2. view' \in ViewRecord
  BY <1>1 DEF ViewRecord
<1>3. QED
  BY <1>1, <1>2, LoginEndsStep

\* handleAuthenticationLoss.
LEMMA AuthenticationLostStep ==
    ASSUME TrackingIndInv, NEW o \in Op, AuthenticationLost(o) PROVE TrackingIndInv'
<1>1. /\ authenticated /\ authenticated' = FALSE /\ view \in ViewRecord
      /\ UNCHANGED <<server, mounted, signingOut, overlapped, foreground, foregroundPending>>
  BY DEF AuthenticationLost, TrackingIndInv, TrackingShapes
<1>2. CASE mounted /\ ~signingOut
  <2>1. /\ StopsBehindFence(o, "lost", "lost") /\ automatic' = FALSE
        /\ view' = [view EXCEPT !.trip = None, !.unknown = FALSE, !.busy = FALSE]
    BY <1>2 DEF AuthenticationLost
  <2>2. view' \in ViewRecord
    BY <1>1, <2>1 DEF ViewRecord
  <2>3. QED
    BY <1>1, <2>1, <2>2, LoginEndsStep
<1>3. CASE ~(mounted /\ ~signingOut)
  <2>1. ~mounted \/ signingOut
    BY <1>3
  <2>2. UNCHANGED <<op, bridge, device, view, automatic>>
    BY <1>3 DEF AuthenticationLost
  <2>3. QED
    BY <1>1, <2>1, <2>2, LostUnfenced
<1>4. QED
  BY <1>2, <1>3
-----------------------------------------------------------------------------
(* The server, the main thread and the provider answer. *)

\* A call reaches the server.
LEMMA ServerActsStep == ASSUME TrackingIndInv, NEW o \in Op, ServerActs(o) PROVE TrackingIndInv'
<1>1. /\ op \in [Op -> OpRecord] /\ OpFits(op[o]) /\ resumers \subseteq Op
      /\ \A q \in resumers : op[q].at = "resume" /\ op[q].seen = "asked"
      /\ native \in SessionRecord /\ mainThread \in Seq(Op)
      /\ server \in [Trip -> {"assigned", "running", "over"}]
  BY DEF TrackingIndInv, TrackingShapes, Waiting
<1>2. /\ op[o].at \in ServerWaits /\ op[o].seen = "nothing"
      /\ UNCHANGED <<native, mainThread, resumers, bridge, account, view, screen>>
  BY DEF ServerActs, device
<1>3. op[o].at \notin BridgeWaits /\ op[o] # NoOp /\ op[o].at # "resume"
  BY <1>2, RecordsFit DEF ServerWaits, BridgeWaits, StopWaits, StatusWaits
<1>4. op[o].at # "list" => op[o].trip \in Trip
  BY <1>1, <1>2, <1>3 DEF OpFits, ServerWaits, CompleteAts
<1>5. server' \in [Trip -> {"assigned", "running", "over"}]
  BY <1>1 DEF ServerActs
<1>6. PICK seen \in Seens, t \in Trip \cup {op[o].trip} :
         op' = [op EXCEPT ![o] = [op[o] EXCEPT !.seen = seen, !.trip = t]]
  <2> DEFINE told(seen, t) == [op[o] EXCEPT !.seen = seen, !.trip = t]
  <2>1. op[o] \in OpRecord
    BY <1>1
  <2>2. ASSUME NEW seen \in Seens, op' = [op EXCEPT ![o].seen = seen]
        PROVE  op' = [op EXCEPT ![o] = told(seen, op[o].trip)]
    <3>1. [op[o] EXCEPT !.seen = seen] = told(seen, op[o].trip)
      BY <2>1 DEF OpRecord
    <3>2. QED
      BY <2>2, <3>1
  <2>3. CASE op[o].at = "list" /\ Running # {}
    <3>1. PICK t \in Running : op' = [op EXCEPT ![o].seen = "oneTrip", ![o].trip = t]
      BY <2>3 DEF ServerActs
    <3>2. op' = [op EXCEPT ![o] = told("oneTrip", t)] /\ t \in Trip
      BY <1>1, <3>1 DEF Running
    <3>3. QED
      BY <3>2 DEF Seens
  <2>4. CASE op[o].at = "list" /\ Running = {}
    BY <2>2, <2>4 DEF ServerActs, Seens
  <2>5. CASE op[o].at # "list"
    <3> DEFINE starts == op[o].at = "start" /\ server[op[o].trip] = "assigned" /\ Running = {}
               ends == op[o].at = "complete" /\ server[op[o].trip] = "running"
               seen == IF starts \/ ends THEN "done"
                       ELSE IF op[o].at \in {"start", "complete"} THEN "refused"
                       ELSE server[op[o].trip]
    <3>1. seen \in Seens
      <4>1. server[op[o].trip] \in {"assigned", "running", "over"}
        BY <1>1, <1>4, <2>5
      <4>2. QED
        BY <4>1 DEF Seens
    <3>2. op' = [op EXCEPT ![o].seen = seen]
      BY <2>5 DEF ServerActs
    <3> HIDE DEF seen
    <3>3. QED
      BY <2>2, <3>1, <3>2
  <2>6. QED
    BY <2>3, <2>4, <2>5
<1> DEFINE r == [op[o] EXCEPT !.seen = seen, !.trip = t]
<1>7. /\ r \in OpRecord /\ r.kind = op[o].kind /\ r.at = op[o].at /\ r.current = op[o].current
      /\ r.by = op[o].by /\ (r.trip \in Trip \/ r.trip = op[o].trip)
  <2>1. op[o] \in OpRecord /\ t \in Trip \cup {None} /\ seen \in Seens
    BY <1>1, <1>6 DEF OpRecord
  <2>2. r \in OpRecord
    BY <2>1 DEF OpRecord
  <2>3. /\ r.kind = op[o].kind /\ r.at = op[o].at /\ r.current = op[o].current
        /\ r.by = op[o].by /\ r.trip = t
    BY <2>1 DEF OpRecord
  <2>4. t \in Trip \/ t = op[o].trip
    BY <1>6
  <2>5. QED
    BY <2>2, <2>3, <2>4
<1>8. op' = [op EXCEPT ![o] = r]
  BY <1>6
<1> HIDE DEF r
<1>9. op' \in [Op -> OpRecord] /\ op'[o] = r /\ \A q \in Op : q # o => op'[q] = op[q]
  BY <1>1, <1>7, <1>8
<1>10. \A q \in resumers' : op'[q].at = "resume" /\ op'[q].seen = "asked"
  BY <1>1, <1>2, <1>3, <1>9
<1>11. \A q \in Op : /\ op'[q].kind = op[q].kind /\ op'[q].at = op[q].at
                     /\ op'[q].current = op[q].current /\ op'[q].by = op[q].by
                     /\ op'[q] = op[q] \/ (op[q].at \notin BridgeWaits /\ op[q] # NoOp
                                           /\ (op'[q].trip \in Trip \/ op'[q].trip = op[q].trip))
  BY <1>3, <1>7, <1>9
<1>12. QED
  BY <1>1, <1>2, <1>5, <1>9, <1>10, <1>11, AnswersArrive

\* The native module's answers reach those who asked the main thread.
AskedMain(os) == os \subseteq Op /\ \A q \in os : op[q].at \in MainWaits

\* Answers of the main thread decide nothing by themselves.
LEMMA NativeAnswers ==
    ASSUME TrackingIndInv, NEW os, AskedMain(os), NEW status \in SessionRecord,
           op' = Informed(os, status) \/ op' = Rejected(os),
           native' \in SessionRecord, native = Stopped => native' = Stopped,
           mainThread' \in Seq(Op), resumers' \subseteq resumers,
           \A q \in resumers' : q \notin os,
           UNCHANGED <<server, bridge, account, view, screen>>
    PROVE  TrackingIndInv'
<1>1. /\ op \in [Op -> OpRecord] /\ resumers \subseteq Op
      /\ \A q \in resumers : op[q].at = "resume" /\ op[q].seen = "asked"
      /\ server \in [Trip -> {"assigned", "running", "over"}]
  BY DEF TrackingIndInv, TrackingShapes, Waiting
<1>2. \A q \in os : op[q].at \notin BridgeWaits /\ op[q] # NoOp
  BY RecordsFit DEF AskedMain, MainWaits, BridgeWaits, StopWaits, StatusWaits
<1>3. \A q \in Op :
         /\ q \in os => op'[q] \in {Told(op[q], status), [op[q] EXCEPT !.seen = "rejected"]}
         /\ q \notin os => op'[q] = op[q]
  BY DEF Informed, Rejected
<1>4. ASSUME NEW q \in Op
      PROVE  /\ op'[q] \in OpRecord /\ op'[q].kind = op[q].kind /\ op'[q].at = op[q].at
             /\ op'[q].current = op[q].current /\ op'[q].by = op[q].by /\ op'[q].trip = op[q].trip
  <2>1. op[q] \in OpRecord
    BY <1>1
  <2>2. CASE op'[q] = Told(op[q], status)
    BY <2>1, <2>2, ToldFits
  <2>3. CASE op'[q] = [op[q] EXCEPT !.seen = "rejected"]
    BY <2>1, <2>3 DEF OpRecord, Seens
  <2>4. CASE op'[q] = op[q]
    BY <2>1, <2>4
  <2>5. QED
    BY <1>3, <2>2, <2>3, <2>4
<1>5. op' \in [Op -> OpRecord]
  <2>1. op' = [p \in Op |-> op'[p]]
    BY DEF Informed, Rejected
  <2>2. QED
    BY <1>4, <2>1
<1>6. \A q \in resumers' : op'[q].at = "resume" /\ op'[q].seen = "asked"
  BY <1>1, <1>3
<1>7. \A q \in Op : op'[q] = op[q] \/ (op[q].at \notin BridgeWaits /\ op[q] # NoOp
                                       /\ (op'[q].trip \in Trip \/ op'[q].trip = op[q].trip))
  BY <1>2, <1>3, <1>4
<1>8. QED
  BY <1>1, <1>4, <1>5, <1>6, <1>7, AnswersArrive

\* A session may be paused and resumed.
LEMMA PausedFits ==
    ASSUME NEW kept \in SessionRecord
    PROVE  /\ [kept EXCEPT !.paused = TRUE] \in SessionRecord
           /\ [kept EXCEPT !.paused = FALSE] \in SessionRecord
           /\ [Stopped EXCEPT !.paused = FALSE] = Stopped
<1>1. [kept EXCEPT !.paused = TRUE] \in SessionRecord
      /\ [kept EXCEPT !.paused = FALSE] \in SessionRecord
  BY DEF SessionRecord
<1>2. Stopped \in SessionRecord /\ Stopped.paused = FALSE
  BY RecordsFit DEF Stopped
<1>3. [Stopped EXCEPT !.paused = FALSE] = Stopped
  BY <1>2 DEF SessionRecord
<1>4. QED
  BY <1>1, <1>3

\* What the main thread has in front.
LEMMA MainFacts ==
    ASSUME TrackingIndInv, mainThread # <<>>, NEW o, o = Head(mainThread),
           op[o].at \in MainWaits, op[o].seen = "nothing"
    PROVE  /\ o \in Op /\ Tail(mainThread) \in Seq(Op) /\ op[o].by \in Whose /\ o \notin resumers
           /\ native \in SessionRecord /\ resumers \subseteq Op
           /\ \A q \in resumers : op[q].at = "resume"
<1>1. o \in Op /\ Tail(mainThread) \in Seq(Op)
  BY HeadTailProperties DEF TrackingIndInv, TrackingShapes
<1>2. op[o] # NoOp
  BY RecordsFit DEF MainWaits
<1>3. QED
  BY <1>1, <1>2 DEF TrackingIndInv, TrackingShapes, OpFits, Waiting

\* A pause reaches the main thread.
LEMMA PauseArrivesStep == ASSUME TrackingIndInv, PauseArrives PROVE TrackingIndInv'
<1> DEFINE o == Head(mainThread)
           halted == [native EXCEPT !.paused = TRUE]
           owns == native.by = op[o].by /\ native.trip = op[o].trip
<1>1. /\ mainThread # <<>> /\ op[o].at \in {"pauseAny", "pauseTrip"} /\ op[o].seen = "nothing"
      /\ mainThread' = Tail(mainThread)
      /\ IF owns
         THEN /\ native' = halted /\ resumers' = {}
              /\ op' = Informed(resumers \cup {o}, halted)
         ELSE /\ op' = IF native = Stopped THEN Informed({o}, Stopped) ELSE Rejected({o})
              /\ UNCHANGED <<native, resumers>>
      /\ UNCHANGED <<bridge, server, account, view, screen>>
  BY DEF PauseArrives
<1>2. op[o].at \in MainWaits
  BY <1>1 DEF MainWaits
<1>3. /\ o \in Op /\ mainThread' \in Seq(Op) /\ op[o].by \in Whose /\ o \notin resumers
      /\ native \in SessionRecord /\ resumers \subseteq Op
      /\ \A q \in resumers : op[q].at = "resume"
  BY <1>1, <1>2, MainFacts
<1>4. halted \in SessionRecord /\ Stopped \in SessionRecord /\ Stopped.by = "nobody"
  BY <1>3, PausedFits, RecordsFit
<1> HIDE DEF o, halted
<1>5. CASE owns
  <2>1. AskedMain(resumers \cup {o})
    BY <1>2, <1>3 DEF AskedMain, MainWaits
  <2>2. native # Stopped
    BY <1>3, <1>4, <1>5 DEF Whose
  <2>3. QED
    BY <1>1, <1>3, <1>4, <1>5, <2>1, <2>2, NativeAnswers
<1>6. CASE ~owns
  <2>1. AskedMain({o})
    BY <1>2, <1>3 DEF AskedMain
  <2>2. op' = Informed({o}, Stopped) \/ op' = Rejected({o})
    BY <1>1, <1>6
  <2>3. UNCHANGED <<native, resumers>>
    BY <1>1, <1>6
  <2>4. QED
    BY <1>1, <1>3, <1>4, <2>1, <2>2, <2>3, NativeAnswers
<1>7. QED
  BY <1>5, <1>6

\* A resume reaches it.
LEMMA ResumeArrivesStep == ASSUME TrackingIndInv, ResumeArrives PROVE TrackingIndInv'
<1> DEFINE o == Head(mainThread)
           owns == native.by = op[o].by /\ native.trip = op[o].trip
<1>1. /\ mainThread # <<>> /\ op[o].at = "resume" /\ op[o].seen = "nothing"
      /\ mainThread' = Tail(mainThread)
      /\ IF owns /\ native.paused
         THEN resumers' = resumers \cup {o} /\ op' = [op EXCEPT ![o].seen = "asked"]
         ELSE /\ op' = IF native = Stopped \/ owns THEN Informed({o}, native) ELSE Rejected({o})
              /\ UNCHANGED resumers
      /\ UNCHANGED <<native, bridge, server, account, view, screen>>
  BY DEF ResumeArrives
<1>2. op[o].at \in MainWaits
  BY <1>1 DEF MainWaits
<1>3. /\ o \in Op /\ mainThread' \in Seq(Op) /\ op[o].by \in Whose /\ o \notin resumers
      /\ native \in SessionRecord /\ resumers \subseteq Op
  BY <1>1, <1>2, MainFacts
<1> HIDE DEF o
<1>4. CASE owns /\ native.paused
  <2>1. /\ op \in [Op -> OpRecord] /\ resumers' = resumers \cup {o}
        /\ op' = [op EXCEPT ![o] = [op[o] EXCEPT !.seen = "asked"]]
        /\ \A q \in resumers : op[q].at = "resume" /\ op[q].seen = "asked"
        /\ server' \in [Trip -> {"assigned", "running", "over"}]
    BY <1>1, <1>4 DEF TrackingIndInv, TrackingShapes, Waiting
  <2> DEFINE r == [op[o] EXCEPT !.seen = "asked"]
  <2>2. /\ r \in OpRecord /\ r.kind = op[o].kind /\ r.at = op[o].at /\ r.current = op[o].current
        /\ r.by = op[o].by /\ r.trip = op[o].trip /\ r.seen = "asked"
    BY <1>3, <2>1 DEF OpRecord, Seens
  <2> HIDE DEF r
  <2>3. op' \in [Op -> OpRecord] /\ op'[o] = r /\ \A q \in Op : q # o => op'[q] = op[q]
    BY <1>3, <2>1, <2>2 DEF r
  <2>4. op[o].at \notin BridgeWaits /\ op[o] # NoOp
    BY <1>1, RecordsFit DEF BridgeWaits, StopWaits, StatusWaits
  <2>5. \A q \in resumers' : op'[q].at = "resume" /\ op'[q].seen = "asked"
    BY <1>1, <1>3, <2>1, <2>2, <2>3
  <2>6. \A q \in Op : /\ op'[q].kind = op[q].kind /\ op'[q].at = op[q].at
                      /\ op'[q].current = op[q].current /\ op'[q].by = op[q].by
                      /\ op'[q] = op[q] \/ (op[q].at \notin BridgeWaits /\ op[q] # NoOp
                                            /\ (op'[q].trip \in Trip \/ op'[q].trip = op[q].trip))
    BY <2>2, <2>3, <2>4
  <2>7. resumers' \subseteq Op
    BY <1>3, <2>1
  <2>8. QED
    BY <1>1, <1>3, <2>1, <2>3, <2>5, <2>6, <2>7, AnswersArrive
<1>5. CASE ~(owns /\ native.paused)
  <2>1. AskedMain({o})
    BY <1>2, <1>3 DEF AskedMain
  <2>2. op' = Informed({o}, native) \/ op' = Rejected({o})
    BY <1>1, <1>5
  <2>3. UNCHANGED resumers
    BY <1>1, <1>5
  <2>4. QED
    BY <1>1, <1>3, <2>1, <2>2, <2>3, NativeAnswers
<1>6. QED
  BY <1>4, <1>5

\* The provider answers those who wait for it.
LEMMA ProviderConfirmsStep == ASSUME TrackingIndInv, ProviderConfirms PROVE TrackingIndInv'
<1> DEFINE resumed == [native EXCEPT !.paused = FALSE]
<1>1. /\ resumers' = {} /\ UNCHANGED <<mainThread, bridge, server, account, view, screen>>
      /\ \/ native' = resumed /\ op' = Informed(resumers, resumed)
         \/ native' = native /\ op' = Rejected(resumers)
  BY DEF ProviderConfirms
<1>2. native \in SessionRecord /\ mainThread' \in Seq(Op) /\ AskedMain(resumers)
  BY <1>1 DEF TrackingIndInv, TrackingShapes, Waiting, AskedMain, MainWaits
<1>3. resumed \in SessionRecord /\ (native = Stopped => resumed = Stopped)
  BY <1>2, PausedFits
<1> HIDE DEF resumed
<1>4. QED
  BY <1>1, <1>2, <1>3, NativeAnswers

\* It answers one who was given up.
LEMMA ProviderTooLateStep ==
    ASSUME TrackingIndInv, NEW o \in Op, ProviderTooLate(o) PROVE TrackingIndInv'
<1>1. /\ op[o].at = "resume" /\ o \notin resumers
      /\ op' = Informed({o}, Stopped) \/ op' = Rejected({o})
      /\ UNCHANGED <<native, mainThread, resumers, server, bridge, account, view, screen>>
  BY DEF ProviderTooLate, device
<1>2. /\ native' \in SessionRecord /\ mainThread' \in Seq(Op) /\ AskedMain({o})
      /\ Stopped \in SessionRecord
  BY <1>1, RecordsFit DEF TrackingIndInv, TrackingShapes, AskedMain, MainWaits
<1>3. QED
  BY <1>1, <1>2, NativeAnswers

\* Capture ends, or the office moves a trip on.
LEMMA ElsewhereStep ==
    ASSUME TrackingIndInv,
           CaptureEnds \/ \E t \in Trip : Elsewhere(t)
    PROVE  TrackingIndInv'
<1>1. /\ UNCHANGED <<op, mainThread, bridge, account, view, screen>>
      /\ (native' = Stopped /\ resumers' = {}) \/ UNCHANGED <<native, resumers>>
      /\ server' \in [Trip -> {"assigned", "running", "over"}]
  BY DEF CaptureEnds, Elsewhere, device, TrackingIndInv, TrackingShapes
<1>2. /\ op' \in [Op -> OpRecord] /\ native' \in SessionRecord /\ mainThread' \in Seq(Op)
      /\ resumers' \subseteq Op /\ (native = Stopped => native' = Stopped)
      /\ \A q \in resumers' : op'[q].at = "resume" /\ op'[q].seen = "asked"
  BY <1>1, RecordsFit DEF TrackingIndInv, TrackingShapes, Waiting
<1>3. QED
  BY <1>1, <1>2, AnswersArrive
-----------------------------------------------------------------------------
(* The orchestrator's invariant. *)

\* A login begins with it.
LEMMA TrackingBegins == TrackingInit => TrackingIndInv
<1> SUFFICES ASSUME TrackingInit PROVE TrackingIndInv
  OBVIOUS
<1>1. PICK o \in Op : op = [q \in Op |-> IF foreground /\ q = o THEN Restoration ELSE NoOp]
  BY DEF TrackingInit
<1>2. \A q \in Op : op[q] = NoOp \/ op[q] = Restoration
  BY <1>1
<1>3. /\ foreground \in BOOLEAN /\ automatic = foreground /\ foregroundPending = FALSE
      /\ bridge = <<>> /\ mainThread = <<>> /\ native = Stopped /\ resumers = {}
      /\ server = [t \in Trip |-> "assigned"]
      /\ authenticated = TRUE /\ mounted = TRUE
      /\ signingOut = FALSE /\ overlapped = FALSE /\ view = Blank
  BY DEF TrackingInit
<1>4. <<>> \in Seq(Op) /\ Len(bridge) = 0
  BY <1>3, EmptySeq, LenProperties
<1>5. TrackingShapes
  <2>1. op \in [Op -> OpRecord] /\ \A q \in Op : OpFits(op[q])
    BY <1>1, <1>2, RecordsFit
  <2>2. QED
    BY <1>3, <1>4, <2>1, RecordsFit DEF TrackingShapes
<1>6. Queued /\ Waiting
  BY <1>2, <1>3, <1>4, RecordsFit DEF Queued, Waiting, IsIn, NoneTwice
<1>7. Fenced
  BY <1>2, <1>3, RecordsFit DEF Fenced, Leaving
<1>8. StopsInOrder /\ QuietIsDecided /\ DrainOwed
  BY <1>3 DEF StopsInOrder, QuietIsDecided, DrainOwed
<1>9. QED
  BY <1>5, <1>6, <1>7, <1>8 DEF TrackingIndInv

\* Every step of the driver keeps it,
LEMMA AskedStep == ASSUME TrackingIndInv, NEW o \in Op, Asked(o) PROVE TrackingIndInv'
<1>1. CASE Foreground(o) \/ Retry(o) \/ Request(o)
  BY <1>1, ForegroundStep, RetryStep, RequestStep
<1>2. CASE SignsOut(o) \/ AuthenticationLost(o) \/ SignsIn(o)
  BY <1>2, SignsOutStep, AuthenticationLostStep, SignsInStep
<1>3. CASE \E t \in Trip : StartTrip(o, t) \/ CompleteTrip(o, t)
  BY <1>3, StartTripStep, CompleteTripStep
<1>4. QED
  BY <1>1, <1>2, <1>3 DEF Asked

\* every step of an operation does,
LEMMA ContinuesStep == ASSUME TrackingIndInv, NEW o \in Op, Continues(o) PROVE TrackingIndInv'
<1>1. CASE Rechecks(o) \/ ServerActs(o) \/ ProviderTooLate(o)
  BY <1>1, RechecksStep, ServerActsStep, ProviderTooLateStep
<1>2. CASE Looked(o) \/ Replaced(o) \/ LookedAgain(o) \/ Established(o) \/ EndedLate(o)
  BY <1>2, LookedStep, ReplacedStep, LookedAgainStep, EstablishedStep, EndedLateStep
<1>3. CASE Restored(o) \/ RunningListed(o) \/ EndedNone(o) \/ ClosedAny(o) \/ PausedAny(o)
           \/ EndedAny(o)
  BY <1>3, RestoredStep, RunningListedStep, EndedNoneStep, ClosedAnyStep, PausedAnyStep,
     EndedAnyStep
<1>4. CASE Recovered(o) \/ StartAnswered(o) \/ StartChecked(o)
  BY <1>4, RecoveredStep, StartAnsweredStep
<1>5. CASE Admission(o) \/ AdmittedOther(o) \/ PausedTrip(o) \/ Drained(o)
  BY <1>5, AdmissionStep, AdmittedOtherStep, PausedTripStep, DrainedStep
<1>6. CASE Completed(o) \/ CompleteChecked(o) \/ CompletionSettled(o)
  BY <1>6, CompletedStep, CompletionSettledStep
<1>7. CASE StopProved(o) \/ LastBatch(o) \/ LoggedOut(o) \/ LossSettled(o)
  BY <1>7, StopProvedStep, LastBatchStep, LoggedOutStep, LossSettledStep
<1>8. QED
  BY <1>1, <1>2, <1>3, <1>4, <1>5, <1>6, <1>7 DEF Continues

\* and so does standing still.
LEMMA TrackingStays == TrackingIndInv /\ UNCHANGED trackingVars => TrackingIndInv'
<1> SUFFICES ASSUME TrackingIndInv, UNCHANGED trackingVars PROVE TrackingIndInv'
  OBVIOUS
<1>1. UNCHANGED <<op, bridge, mainThread, native, resumers, server, authenticated, mounted,
                  signingOut, overlapped, view, foreground, foregroundPending, automatic>>
  BY DEF trackingVars, device, account, screen
<1>2. \A q \in Op : (Mine(q)' <=> Mine(q)) /\ (Live(q)' <=> Live(q))
  BY <1>1 DEF Mine, Live
<1>3. TrackingShapes' /\ Queued' /\ Waiting'
  BY <1>1 DEF TrackingIndInv, TrackingShapes, Queued, Waiting
<1>4. Fenced'
  BY <1>1, <1>2 DEF TrackingIndInv, Fenced, Leaving
<1>5. StopsInOrder' /\ QuietIsDecided'
  BY <1>1, <1>2
     DEF TrackingIndInv, StopsInOrder, ProvesStop, Starting, QuietIsDecided, QuietView, Deciding
<1>6. Underway' = Underway
  BY <1>1, <1>2 DEF Underway
<1>7. DrainOwed'
  BY <1>1, <1>6 DEF TrackingIndInv, DrainOwed
<1>8. QED
  BY <1>3, <1>4, <1>5, <1>7 DEF TrackingIndInv

\* It implies what the run checks.
LEMMA TrackingImplied == TrackingIndInv => TrackingInv
<1> SUFFICES ASSUME TrackingIndInv PROVE TrackingInv
  OBVIOUS
<1>1. op \in [Op -> OpRecord] /\ \A o \in Op : OpFits(op[o])
  BY DEF TrackingIndInv, TrackingShapes
<1>2. ASSUME NEW o \in Op, op[o] # NoOp
      PROVE  /\ op[o].kind \in {"reconcile", "request", "start", "complete", "signOut", "lost"}
             /\ op[o].at \in BridgeWaits \cup MainWaits \cup ServerWaits \cup OtherWaits
             /\ op[o].by \in Whose /\ op[o].trip \in Trip \cup {None}
  <2>1. op[o] \in OpRecord /\ OpFits(op[o])
    BY <1>1
  <2>2. op[o].kind \in Kinds /\ op[o].kind # "none" /\ op[o].at \in Places /\ op[o].at # "free"
    BY <1>2, <2>1 DEF OpFits, OpRecord
  <2>3. op[o].by \in Whose /\ op[o].trip \in Trip \cup {None}
    BY <1>2, <2>1 DEF OpFits, OpRecord
  <2>4. QED
    BY <2>2, <2>3 DEF Kinds, Places
<1>3. TrackingTypeOK
  BY <1>2 DEF TrackingTypeOK, TrackingIndInv, TrackingShapes, SessionRecord, ViewRecord
<1>4. CaptureEndsWithSession
  BY DEF CaptureEndsWithSession, TrackingIndInv, Fenced, Leaving
<1>5. Idle => \A o \in Op : ~Deciding(o) /\ o \notin Underway
  BY RecordsFit DEF Idle, Deciding, DecidingAts, Starting, Underway
<1>6. InactiveMeansStopped
  BY <1>5 DEF InactiveMeansStopped, TrackingIndInv, QuietIsDecided, QuietView
<1>7. ForegroundDrains
  <2>1. Underway \subseteq Op
    BY DEF Underway
  <2>2. QED
    BY <1>5, <2>1 DEF ForegroundDrains, TrackingIndInv, DrainOwed
<1>8. QED
  BY <1>3, <1>4, <1>6, <1>7 DEF TrackingInv

\* Whatever the driver asks, in whatever order the server and the native module
\* answer: a login that has ended leaves no capture behind, unless something was
\* begun while signing out; a screen that says "inactive" is right; and in front of
\* a signed-in driver the drain runs.
THEOREM TrackingInvariant == TrackingSpec => []TrackingInv
<1>1. TrackingInit => TrackingIndInv
  BY TrackingBegins
<1>2. TrackingIndInv /\ [TrackingNext]_trackingVars => TrackingIndInv'
  <2> SUFFICES ASSUME TrackingIndInv, [TrackingNext]_trackingVars PROVE TrackingIndInv'
    OBVIOUS
  <2>1. CASE \E o \in Op : Asked(o) \/ Continues(o)
    BY <2>1, AskedStep, ContinuesStep
  <2>2. CASE Background \/ Dispose
    BY <2>2, BackgroundStep, DisposeStep
  <2>3. CASE PauseArrives \/ ResumeArrives \/ ProviderConfirms
    BY <2>3, PauseArrivesStep, ResumeArrivesStep, ProviderConfirmsStep
  <2>4. CASE CaptureEnds \/ \E t \in Trip : Elsewhere(t)
    BY <2>4, ElsewhereStep
  <2>5. CASE UNCHANGED trackingVars
    BY <2>5, TrackingStays
  <2>6. QED
    BY <2>1, <2>2, <2>3, <2>4, <2>5 DEF TrackingNext
<1>3. TrackingIndInv => TrackingInv
  BY TrackingImplied
<1>4. QED
  BY <1>1, <1>2, <1>3, PTL DEF TrackingSpec
=============================================================================
