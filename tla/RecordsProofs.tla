---------------------------- MODULE RecordsProofs ---------------------------
(* The records of the office, for every number of requests and rows.        *)
(* Receipts implements ReceiptRules, whatever is uploaded meanwhile; and in *)
(* the work log of the vehicles a claim whose WHERE holds the whole         *)
(* precondition is as good as a lock taken beforehand.  Last, the forms of  *)
(* the office: what a form and a call of its own hold, and that the answer  *)
(* to a call never takes back what is being typed.                          *)
EXTENDS Receipts, Maintenance, RecordForms, FiniteSetTheorems, TLAPS

USE NoneAssumption, OwnerAssumption

\* The program starts with expenses waiting for review and nothing stored.
LEMMA ReceiptsInit == Init => ReceiptsInv
  BY DEF Init, Rules!Init, ReceiptsInv, TypeOK, Rules!TypeOK, Rules!ConfirmedWasHeld, Holds, Idle,
         RequestState

\* A step of somebody else that leaves request q what it relies on.
Keeps(q) ==
    /\ req'[q] = req[q]
    /\ \A e \in Expense : expenseLock[e] = q => expenseLock'[e] = q
    /\ \A d \in Driver : driverLock[d] = q => driverLock'[d] = q /\ link'[d] = link[d]
    /\ \A e \in Expense : held[e] \subseteq held'[e]

\* Such a step leaves what q relies on true.
LEMMA KeepsHolds == ASSUME NEW q \in Request, TypeOK, Holds(q), Keeps(q) PROVE Holds(q)'
<1> DEFINE r == req[q]
<1>1. /\ r.expense \in Expense \cup {None} /\ r.driver \in Driver \cup {None}
      /\ req'[q] = r
  BY DEF TypeOK, RequestState, Keeps
<1>2. QED
  BY <1>1 DEF Holds, Keeps

Typed ==
    /\ driverLock \in [Driver -> Request \cup {None}]
    /\ expenseLock \in [Expense -> Request \cup {None}]
    /\ req \in [Request -> RequestState]

\* Request p takes a step that keeps what everybody relies on.
Safe(p) == Typed' /\ Holds(p)' /\ \A q \in Request \ {p} : Keeps(q)

USE DEF ReceiptsInv, TypeOK, Typed, rows, store, locks, Lockable

\* Ending a transaction takes no lock from another request.
LEMMA ReleaseKeeps ==
    ASSUME ReceiptsInv, NEW p \in Request, Release(p)
    PROVE  /\ driverLock' \in [Driver -> Request \cup {None}]
           /\ expenseLock' \in [Expense -> Request \cup {None}]
           /\ \A q \in Request \ {p} :
                 /\ \A e \in Expense : expenseLock[e] = q => expenseLock'[e] = q
                 /\ \A d \in Driver : driverLock[d] = q => driverLock'[d] = q
  BY DEF Release, Unlock

\* A request that is answered relies on nothing.
LEMMA AnswerKeeps ==
    ASSUME ReceiptsInv, NEW p \in Request, Answer(p), link' = link,
           \A e \in Expense : held[e] \subseteq held'[e]
    PROVE  Safe(p)
<1>1. req' = [req EXCEPT ![p] = Idle] /\ Idle \in RequestState
  BY DEF Answer, RequestState, Idle
<1>2. Holds(p)'
  BY <1>1 DEF Holds, Idle
<1>3. QED
  BY <1>1, <1>2, ReleaseKeeps DEF Answer, Safe, Keeps

\* Nor does a request that is refused, or fails, disturb the others.
LEMMA RefuseKeeps == ASSUME ReceiptsInv, NEW p \in Request, Refuse(p) PROVE Safe(p)
  BY AnswerKeeps DEF Refuse

\* Opening a transaction for a request whose record is well formed.
LEMMA OpenKeeps ==
    ASSUME ReceiptsInv, NEW p \in Request, NEW r \in RequestState, Open(p, r),
           r.expense \in Expense, r.driver = None,
           r.op \in {"intent", "claim"} => r.declared \in Declaration,
           r.op = "claim" => r.declared \in held[r.expense]
    PROVE  Safe(p)
<1> USE DEF RequestState
<1>1. CASE r.user = None
  <2>1. /\ req' = [req EXCEPT ![p] = [r EXCEPT !.at = "lock.expense"]]
        /\ UNCHANGED <<rows, store, uploadable, locks>>
    BY <1>1 DEF Open
  <2>2. [r EXCEPT !.at = "lock.expense"] \in RequestState
    OBVIOUS
  <2>3. Typed' /\ \A q \in Request \ {p} : Keeps(q)
    BY <2>1, <2>2 DEF Keeps
  <2>4. Holds(p)'
    BY <1>1, <2>1 DEF Holds
  <2>5. QED
    BY <2>3, <2>4 DEF Safe
<1>2. CASE r.user # None
  <2>1. PICK d \in Driver :
          /\ link[d] = r.user /\ Lockable(driverLock, p, d)
          /\ driverLock' = [driverLock EXCEPT ![d] = p]
          /\ req' = [req EXCEPT ![p] = [r EXCEPT !.at = "lock.expense", !.driver = d]]
          /\ UNCHANGED <<rows, store, uploadable, expenseLock>>
    BY <1>2 DEF Open
  <2>2. [r EXCEPT !.at = "lock.expense", !.driver = d] \in RequestState
    OBVIOUS
  <2>3. Typed'
    BY <2>1, <2>2
  <2>4. \A q \in Request \ {p} : Keeps(q)
    BY <2>1 DEF Keeps
  <2>5. Holds(p)'
    BY <1>2, <2>1 DEF Holds
  <2>6. QED
    BY <2>3, <2>4, <2>5 DEF Safe
<1>3. QED
  BY <1>1, <1>2

\* The steps of request p.
LEMMA RequestSteps ==
    ASSUME ReceiptsInv, NEW p \in Request, Arrive(p) \/ Continue(p) \/ Fail(p)
    PROVE  Safe(p)
<1> USE DEF RequestState
<1>1. ASSUME NEW e \in Expense, NEW u \in User \cup {None}, NEW d \in Declaration, Intent(p, u, e, d)
      PROVE  Safe(p)
  <2>1. [Idle EXCEPT !.op = "intent", !.expense = e, !.user = u, !.declared = d] \in RequestState
    BY DEF Idle
  <2>2. QED
    BY <1>1, <2>1, OpenKeeps DEF Intent, Idle
<1>2. ASSUME NEW e \in Expense, NEW u \in User \cup {None}, Confirm(p, u, e)
      PROVE  Safe(p)
  <2>1. [Idle EXCEPT !.op = "capture", !.expense = e, !.user = u] \in RequestState
    BY DEF Idle
  <2>2. QED
    BY <1>2, <2>1, OpenKeeps DEF Confirm, Idle
<1>3. ASSUME LockExpense(p) PROVE Safe(p)
  <2>1. CASE Refuse(p)
    BY <2>1, RefuseKeeps
  <2>2. CASE ~Refuse(p)
    <3>1. [req[p] EXCEPT !.at = "locked"] \in RequestState
      OBVIOUS
    <3>2. Typed'
      BY <1>3, <2>2, <3>1 DEF LockExpense
    <3>3. Holds(p)'
      BY <1>3, <2>2 DEF LockExpense, Holds
    <3>4. QED
      BY <1>3, <2>2, <3>2, <3>3 DEF LockExpense, Safe, Keeps
  <2>3. QED
    BY <2>1, <2>2
<1>4. ASSUME IntentWrite(p) PROVE Safe(p)
  <2>1. CASE Refuse(p)
    BY <2>1, RefuseKeeps
  <2>2. CASE ~Refuse(p)
    <3>1. Typed'
      BY <1>4, <2>2, ReleaseKeeps DEF IntentWrite
    <3>2. Holds(p)'
      BY <1>4, <2>2 DEF IntentWrite, Holds
    <3>3. QED
      BY <1>4, <2>2, <3>1, <3>2, ReleaseKeeps DEF IntentWrite, Safe, Keeps
  <2>3. QED
    BY <2>1, <2>2
<1>5. ASSUME IntentSign(p) PROVE Safe(p)
  BY <1>5, AnswerKeeps DEF IntentSign
<1>6. ASSUME ConfirmCapture(p) PROVE Safe(p)
  <2>1. CASE Refuse(p)
    BY <2>1, RefuseKeeps
  <2>2. CASE ~Refuse(p)
    <3>1. req[p].expense \in Expense /\ receipt[req[p].expense].declared \in Declaration
      BY <1>6, <2>2 DEF ConfirmCapture, Holds, Rules!Pending, Rules!TypeOK, Rules!Receipt
    <3>2. Typed'
      BY <1>6, <2>2, <3>1, ReleaseKeeps DEF ConfirmCapture
    <3>3. Holds(p)'
      BY <1>6, <2>2, <3>1 DEF ConfirmCapture, Holds
    <3>4. QED
      BY <1>6, <2>2, <3>2, <3>3, ReleaseKeeps DEF ConfirmCapture, Safe, Keeps
  <2>3. QED
    BY <2>1, <2>2
<1>7. ASSUME ConfirmHead(p) PROVE Safe(p)
  <2>1. CASE Refuse(p)
    BY <2>1, RefuseKeeps
  <2>2. CASE ~Refuse(p)
    <3>1. Typed'
      BY <1>7, <2>2 DEF ConfirmHead
    <3>2. req[p].declared \in Declaration /\ objectOf[req[p].expense] = req[p].declared
      BY <1>7, <2>2 DEF ConfirmHead, Holds
    <3>3. Holds(p)'
      BY <1>7, <2>2, <3>2 DEF ConfirmHead, Holds
    <3>4. QED
      BY <1>7, <2>2, <3>1, <3>3 DEF ConfirmHead, Safe, Keeps
  <2>3. QED
    BY <2>1, <2>2
<1>8. ASSUME ConfirmRelock(p) PROVE Safe(p)
  <2>1. CASE Refuse(p)
    BY <2>1, RefuseKeeps
  <2>2. CASE ~Refuse(p)
    <3>1. [req[p] EXCEPT !.op = "claim"] \in RequestState
      OBVIOUS
    <3>2. QED
      BY <1>8, <2>2, <3>1, OpenKeeps DEF ConfirmRelock, Holds
  <2>3. QED
    BY <2>1, <2>2
<1>9. ASSUME ConfirmClaim(p) PROVE Safe(p)
  BY <1>9, AnswerKeeps, RefuseKeeps DEF ConfirmClaim
<1>10. ASSUME Fail(p) PROVE Safe(p)
  BY <1>10, RefuseKeeps DEF Fail
<1>11. QED
  BY <1>1, <1>2, <1>3, <1>4, <1>5, <1>6, <1>7, <1>8, <1>9, <1>10 DEF Arrive, Continue

\* The steps of other services and of the world outside.
LEMMA OtherSteps == ASSUME ReceiptsInv, Others PROVE Typed' /\ \A q \in Request : Keeps(q)
<1>1. ASSUME NEW e \in Expense, NEW s \in {"APPROVED", "REJECTED"}, Review(e, s)
      PROVE  Typed' /\ \A q \in Request : Keeps(q)
  BY <1>1 DEF Review, Keeps
<1>2. ASSUME NEW d \in Driver, NEW u \in User, LinkUser(d, u)
      PROVE  Typed' /\ \A q \in Request : Keeps(q)
  BY <1>2 DEF LinkUser, Keeps
<1>3. ASSUME NEW d \in Driver, UnlinkUser(d)
      PROVE  Typed' /\ \A q \in Request : Keeps(q)
  BY <1>3 DEF UnlinkUser, Keeps
<1>4. ASSUME NEW a \in uploadable, Expire(a)
      PROVE  Typed' /\ \A q \in Request : Keeps(q)
  BY <1>4 DEF Expire, Keeps
<1>5. ASSUME NEW a \in uploadable, NEW object \in Declaration, Upload(a, object)
      PROVE  Typed' /\ \A q \in Request : Keeps(q)
  BY <1>5 DEF Upload, Keeps, Rules!TypeOK
<1>6. QED
  BY <1>1, <1>2, <1>3, <1>4, <1>5 DEF Others
-----------------------------------------------------------------------------
\* Opening a transaction changes no table, and nothing in the store.
LEMMA OpenQuiet ==
    ASSUME NEW p, NEW r, Open(p, r)
    PROVE  UNCHANGED <<expense, receipt, link, objectOf, held, uploadable>>
  BY DEF Open

\* Nor do the statements that lock, read or give up.
LEMMA QuietSteps ==
    ASSUME NEW p \in Request,
           \/ Arrive(p) \/ LockExpense(p) \/ ConfirmCapture(p)
           \/ ConfirmHead(p) \/ ConfirmRelock(p) \/ Fail(p) \/ Refuse(p)
    PROVE  UNCHANGED <<expense, receipt, link, objectOf, held, uploadable>>
<1> DEFINE Quiet == UNCHANGED <<expense, receipt, link, objectOf, held, uploadable>>
<1>1. Refuse(p) => Quiet
  BY DEF Refuse
<1>2. Arrive(p) => Quiet
  BY OpenQuiet DEF Arrive, Intent, Confirm
<1>3. LockExpense(p) => Quiet
  BY <1>1 DEF LockExpense
<1>4. ConfirmCapture(p) => Quiet
  BY <1>1 DEF ConfirmCapture
<1>5. ConfirmHead(p) => Quiet
  BY <1>1 DEF ConfirmHead
<1>6. ConfirmRelock(p) => Quiet
  BY <1>1, OpenQuiet DEF ConfirmRelock
<1>7. QED
  BY <1>1, <1>2, <1>3, <1>4, <1>5, <1>6 DEF Fail

\* A step leaves the receipts alone, or declares, confirms, reviews or holds as
\* the rules allow.
LEMMA RefineStep == ReceiptsInv /\ [Next]_vars => [Rules!Next]_Rules!vars
<1> SUFFICES ASSUME ReceiptsInv, [Next]_vars PROVE [Rules!Next]_Rules!vars
  OBVIOUS
<1> USE DEF Rules!vars
<1>1. ASSUME NEW p \in Request, IntentWrite(p) PROVE [Rules!Next]_Rules!vars
  <2>1. CASE Refuse(p)
    BY <2>1 DEF Refuse
  <2>2. CASE ~Refuse(p)
    <3>1. req[p].expense \in Expense /\ req[p].declared \in Declaration
      BY <1>1 DEF IntentWrite, Holds
    <3>2. Rules!Declare(req[p].expense, req[p].declared)
      BY <1>1, <2>2, <3>1 DEF IntentWrite, Rules!Declare, Rules!Pending
    <3>3. QED
      BY <3>1, <3>2 DEF Rules!Next
  <2>3. QED
    BY <2>1, <2>2
<1>2. ASSUME NEW p \in Request, ConfirmClaim(p) PROVE [Rules!Next]_Rules!vars
  <2>1. CASE Refuse(p)
    BY <2>1 DEF Refuse
  <2>2. CASE ~Refuse(p)
    <3>1. req[p].expense \in Expense /\ req[p].declared \in held[req[p].expense]
      BY <1>2 DEF ConfirmClaim, Holds
    <3>2. Rules!Confirm(req[p].expense)
      BY <1>2, <2>2, <3>1 DEF ConfirmClaim, Claimable, Rules!Confirm
    <3>3. QED
      BY <3>1, <3>2 DEF Rules!Next
  <2>3. QED
    BY <2>1, <2>2
<1>3. ASSUME NEW p \in Request,
             \/ Arrive(p) \/ LockExpense(p) \/ IntentSign(p) \/ ConfirmCapture(p)
             \/ ConfirmHead(p) \/ ConfirmRelock(p) \/ Fail(p)
      PROVE  UNCHANGED Rules!vars
  <2>1. IntentSign(p) => UNCHANGED Rules!vars
    BY DEF IntentSign
  <2>2. QED
    BY <1>3, <2>1, QuietSteps
<1>4. ASSUME NEW e \in Expense, NEW s \in {"APPROVED", "REJECTED"}, Review(e, s)
      PROVE  [Rules!Next]_Rules!vars
  BY <1>4 DEF Review, Rules!Next, Rules!Review
<1>5. ASSUME NEW a \in uploadable, NEW object \in Declaration, Upload(a, object)
      PROVE  [Rules!Next]_Rules!vars
  <2>1. a.expense \in Expense /\ Rules!Hold(a.expense, object)
    BY <1>5 DEF Upload, Rules!Hold
  <2>2. QED
    BY <2>1 DEF Rules!Next
<1>6. ASSUME \/ \E d \in Driver : UnlinkUser(d) \/ \E u \in User : LinkUser(d, u)
             \/ \E a \in uploadable : Expire(a)
      PROVE  UNCHANGED Rules!vars
  BY <1>6 DEF UnlinkUser, LinkUser, Expire
<1>7. QED
  BY <1>1, <1>2, <1>3, <1>4, <1>5, <1>6 DEF Next, Others, Continue, vars

\* The rules keep receipts well typed, and confirmed ones were held.
LEMMA RulesKeep ==
    ASSUME Rules!TypeOK, Rules!ConfirmedWasHeld, [Rules!Next]_Rules!vars
    PROVE  Rules!TypeOK' /\ Rules!ConfirmedWasHeld'
<1> USE DEF Rules!TypeOK, Rules!ConfirmedWasHeld, Rules!Receipt
<1>1. ASSUME NEW e \in Expense, NEW d \in Declaration, Rules!Declare(e, d)
      PROVE  Rules!TypeOK' /\ Rules!ConfirmedWasHeld'
  BY <1>1 DEF Rules!Declare
<1>2. ASSUME NEW e \in Expense, NEW d \in Declaration, Rules!Hold(e, d)
      PROVE  Rules!TypeOK' /\ Rules!ConfirmedWasHeld'
  BY <1>2 DEF Rules!Hold
<1>3. ASSUME NEW e \in Expense, Rules!Confirm(e)
      PROVE  Rules!TypeOK' /\ Rules!ConfirmedWasHeld'
  <2>1. /\ receipt[e] \in Rules!Receipt /\ receipt[e].declared \in held[e]
        /\ receipt' = [receipt EXCEPT ![e].confirmed = TRUE]
        /\ UNCHANGED <<expense, held>>
    BY <1>3 DEF Rules!Confirm, Rules!Pending
  <2>2. [receipt[e] EXCEPT !.confirmed = TRUE] \in Rules!Receipt
        /\ [receipt[e] EXCEPT !.confirmed = TRUE].declared = receipt[e].declared
    BY <2>1
  <2>3. QED
    BY <2>1, <2>2
<1>4. ASSUME NEW e \in Expense, NEW s \in {"APPROVED", "REJECTED"}, Rules!Review(e, s)
      PROVE  Rules!TypeOK' /\ Rules!ConfirmedWasHeld'
  BY <1>4 DEF Rules!Review
<1>5. CASE UNCHANGED Rules!vars
  BY <1>5 DEF Rules!vars
<1>6. QED
  BY <1>1, <1>2, <1>3, <1>4, <1>5 DEF Rules!Next

\* Links, the store and the authorizations stay well typed, and the store has
\* held what it stores.
LEMMA StoreKeeps ==
    ASSUME ReceiptsInv, [Next]_vars
    PROVE  /\ link' \in [Driver -> User \cup {None}]
           /\ objectOf' \in [Expense -> Declaration \cup {None}]
           /\ uploadable' \subseteq [expense : Expense, declared : Declaration]
           /\ \A e \in Expense : objectOf'[e] # None => objectOf'[e] \in held'[e]
<1> DEFINE Kept == /\ link' \in [Driver -> User \cup {None}]
                   /\ objectOf' \in [Expense -> Declaration \cup {None}]
                   /\ uploadable' \subseteq [expense : Expense, declared : Declaration]
                   /\ \A e \in Expense : objectOf'[e] # None => objectOf'[e] \in held'[e]
<1>1. ASSUME UNCHANGED <<link, objectOf, held, uploadable>> PROVE Kept
  BY <1>1
<1>2. ASSUME NEW p \in Request, IntentSign(p) PROVE Kept
  BY <1>2 DEF IntentSign, Holds
<1>3. ASSUME NEW p \in Request, Arrive(p) \/ Continue(p) \/ Fail(p), ~IntentSign(p)
      PROVE  UNCHANGED <<link, objectOf, held, uploadable>>
  <2>1. ASSUME IntentWrite(p) \/ ConfirmClaim(p)
        PROVE  UNCHANGED <<link, objectOf, held, uploadable>>
    BY <2>1 DEF IntentWrite, ConfirmClaim, Refuse
  <2>2. QED
    BY <1>3, <2>1, QuietSteps DEF Continue
<1>4. ASSUME NEW d \in Driver, NEW u \in User, LinkUser(d, u) PROVE Kept
  BY <1>4 DEF LinkUser
<1>5. ASSUME NEW d \in Driver, UnlinkUser(d) PROVE Kept
  BY <1>5 DEF UnlinkUser
<1>6. ASSUME NEW a \in uploadable, Expire(a) PROVE Kept
  BY <1>6 DEF Expire
<1>7. ASSUME NEW a \in uploadable, NEW object \in Declaration, Upload(a, object) PROVE Kept
  BY <1>7 DEF Upload, Rules!TypeOK
<1>8. ASSUME NEW e \in Expense, NEW s \in {"APPROVED", "REJECTED"}, Review(e, s)
      PROVE  UNCHANGED <<link, objectOf, held, uploadable>>
  BY <1>8 DEF Review
<1>9. Kept
  BY <1>1, <1>2, <1>3, <1>4, <1>5, <1>6, <1>7, <1>8 DEF Next, Others, vars
<1>10. QED
  BY <1>9

\* Every step keeps the inductive invariant.
LEMMA ReceiptsStep == ReceiptsInv /\ [Next]_vars => ReceiptsInv'
<1> SUFFICES ASSUME ReceiptsInv, [Next]_vars PROVE ReceiptsInv'
  OBVIOUS
<1>1. Rules!TypeOK' /\ Rules!ConfirmedWasHeld'
  BY RefineStep, RulesKeep
<1>2. ASSUME NEW p \in Request, Safe(p) PROVE Typed' /\ \A q \in Request : Holds(q)'
  BY <1>2, KeepsHolds DEF Safe
<1>3. ASSUME Others PROVE Typed' /\ \A q \in Request : Holds(q)'
  BY <1>3, OtherSteps, KeepsHolds
<1>4. ASSUME UNCHANGED vars PROVE Typed' /\ \A q \in Request : Holds(q)'
  <2>1. \A q \in Request : Keeps(q)
    BY <1>4 DEF vars, Keeps
  <2>2. QED
    BY <1>4, <2>1, KeepsHolds DEF vars
<1>5. Typed' /\ \A q \in Request : Holds(q)'
  BY <1>2, <1>3, <1>4, RequestSteps DEF Next
<1>6. QED
  BY <1>1, <1>5, StoreKeeps

\* What the store holds was uploaded, a confirmed receipt was verified, and
\* every request can rely on what it read, whatever happens around it.
THEOREM ReceiptsInvariant == Spec => []ReceiptsInv
<1>1. ReceiptsInv /\ [Next]_vars => ReceiptsInv'
  BY ReceiptsStep
<1>2. QED
  BY ReceiptsInit, <1>1, PTL DEF Spec

\* Transactions, uploads and the unlocked HEAD together do to receipts only
\* what the atomic rules allow: nothing changes once confirmed or reviewed.
THEOREM ReceiptsRefineRules == Spec => RefinesReceiptRules
<1>1. Init => Rules!Init
  BY DEF Init
<1>2. ReceiptsInv /\ [Next]_vars => [Rules!Next]_Rules!vars
  BY RefineStep
<1>3. QED
  BY <1>1, <1>2, ReceiptsInvariant, PTL DEF Spec, RefinesReceiptRules, Rules!Spec

\* A confirmed receipt always describes an object the store really held.
THEOREM ConfirmedAlwaysHeld == Spec => []ConfirmedWasHeld
<1>1. ReceiptsInv => ConfirmedWasHeld
  BY DEF ConfirmedWasHeld
<1>2. QED
  BY <1>1, ReceiptsInvariant, PTL

\* A driver's request writes only while its login is linked to the driver whose
\* expense it is.
THEOREM WritersAreLinked == Spec => WriterIsLinked
<1>1. ReceiptsInv /\ [Next]_vars =>
        [\A p \in Request :
            receipt' # receipt /\ (IntentWrite(p) \/ ConfirmClaim(p)) /\ req[p].user # None
            => link[Owner[req[p].expense]] = req[p].user]_vars
  BY DEF IntentWrite, ConfirmClaim, Holds, RequestState
<1>2. QED
  BY <1>1, ReceiptsInvariant, PTL DEF Spec, WriterIsLinked
-----------------------------------------------------------------------------
(* The work log (Maintenance). *)

HIDE DEF ReceiptsInv, TypeOK, Typed, rows, store, locks, Lockable
USE NobodyAssumption

Over == {"COMPLETED", "CANCELLED"}

\* A request that has claimed its record holds it, and the row it will commit
\* is what it asks of the row that is still committed.
Claimed(w) ==
    LET r == worker[w] IN
    r.at = "audit" =>
        /\ r.job \in Job /\ r.day \in Day
        /\ lock[r.job] = w
        /\ IF r.does = "created" THEN job[r.job] = Absent
           ELSE Matches(r.does, job[r.job], r.day)
        /\ r.row = Applies(r.does, job[r.job], r.day)

\* A request on its way to a claim, or to the reason of its refusal, asks about
\* a record that exists; it is refused for good only about one that is over.
Asked(w) ==
    LET r == worker[w] IN
    /\ r.at \in {"claim", "classify"} =>
          r.job \in Job /\ r.day \in Day /\ r.does # "created" /\ job[r.job].status # "absent"
    /\ r.at = "classify" /\ r.does # "completed" => job[r.job].status \in Over
    /\ r.at # "idle" => r.reply = "none"
    /\ r.reply = "conflict" => r.job \in Job
    /\ r.reply = "conflict" /\ r.does # "completed" => job[r.job].status \in Over

WorkshopIndInv ==
    /\ WorkshopTypeOK /\ TrailTellsLife /\ Chronology
    /\ \A w \in Worker : Claimed(w) /\ Asked(w)
    /\ \A j \in Job : job[j].status = "absent" => job[j] = Absent

Requests ==
    [at : {"idle", "claim", "audit", "classify"}, does : Entry, job : Job \cup {Nobody},
     day : {0} \cup Day, row : Row, reply : Response]

\* Nothing is filed yet.
LEMMA WorkshopStarts == WorkshopInit => WorkshopIndInv
<1> SUFFICES ASSUME WorkshopInit PROVE WorkshopIndInv
  OBVIOUS
<1>1. Absent \in Row /\ Waiting \in Requests
  BY DEF Absent, Row, Waiting, Requests, Entry, Response
<1>2. WorkshopTypeOK
  BY <1>1 DEF WorkshopInit, WorkshopTypeOK, Requests
<1>3. TrailTellsLife /\ Chronology
  BY DEF WorkshopInit, TrailTellsLife, Chronology, Absent
<1>4. QED
  BY <1>2, <1>3 DEF WorkshopInit, WorkshopIndInv, Claimed, Asked, Waiting

\* What a request asks leaves a row that tells its life.
LEMMA AppliesLemma ==
    ASSUME NEW does \in Entry, NEW row \in Row, NEW day \in Day,
           IF does = "created" THEN row = Absent ELSE Matches(does, row, day),
           row.status # "COMPLETED" => row.completedAt = 0
    PROVE  LET new == Applies(does, row, day) IN
           /\ new \in Row /\ new.status # "absent"
           /\ new.status = IF does = "completed" THEN "COMPLETED"
                           ELSE IF does = "cancelled" THEN "CANCELLED" ELSE "OPEN"
           /\ IF new.status = "COMPLETED" THEN new.startedAt <= new.completedAt
              ELSE new.completedAt = 0
  BY DEF Entry, Row, Day, Matches, Absent, Applies

\* A step of one request that commits nothing and takes no lock of another.
LEMMA QuietStep ==
    ASSUME WorkshopIndInv, NEW w \in Worker, UNCHANGED <<job, trail>>,
           NEW r \in Requests, worker' = [worker EXCEPT ![w] = r],
           lock' \in [Job -> Worker \cup {Nobody}],
           \A j \in Job : lock[j] # Nobody /\ lock[j] # w => lock'[j] = lock[j],
           Claimed(w)', Asked(w)'
    PROVE  WorkshopIndInv'
<1>1. WorkshopTypeOK'
  BY DEF WorkshopIndInv, WorkshopTypeOK, Requests
<1>2. TrailTellsLife' /\ Chronology'
  BY DEF WorkshopIndInv, TrailTellsLife, Chronology
<1>3. ASSUME NEW v \in Worker, v # w PROVE Claimed(v)' /\ Asked(v)'
  <2>1. worker'[v] = worker[v]
    BY <1>3 DEF WorkshopIndInv, WorkshopTypeOK
  <2>2. Claimed(v)'
    BY <1>3, <2>1 DEF WorkshopIndInv, Claimed
  <2>3. Asked(v)'
    BY <2>1 DEF WorkshopIndInv, Asked
  <2>4. QED
    BY <2>2, <2>3
<1>4. QED
  BY <1>1, <1>2, <1>3 DEF WorkshopIndInv

\* A request is answered, or fails, and gives up what it holds.
LEMMA AnswerStep ==
    ASSUME WorkshopIndInv, NEW w \in Worker, FailJob(w) \/ Classify(w)
    PROVE  WorkshopIndInv'
<1>1. PICK reply \in {"failed", "tooEarly", "conflict"} :
         /\ worker' = [worker EXCEPT ![w].at = "idle", ![w].reply = reply]
         /\ reply = "conflict" => Classify(w)
  BY DEF FailJob, Classify, Says
<1> DEFINE r == [worker[w] EXCEPT !.at = "idle", !.reply = reply]
<1>2. r \in Requests /\ worker' = [worker EXCEPT ![w] = r] /\ worker'[w] = r
  <2>1. worker \in [Worker -> Requests] /\ reply \in Response
    BY DEF WorkshopIndInv, WorkshopTypeOK, Requests, Response
  <2>2. worker[w] \in Requests
    BY <2>1
  <2>3. r \in Requests
    BY <2>1, <2>2 DEF Requests
  <2>4. QED
    BY <1>1, <2>1, <2>3
<1>3. /\ lock' \in [Job -> Worker \cup {Nobody}] /\ UNCHANGED <<job, trail>>
      /\ \A j \in Job : lock[j] # Nobody /\ lock[j] # w => lock'[j] = lock[j]
  BY DEF FailJob, Classify, Unlocked, WorkshopIndInv, WorkshopTypeOK
<1>4. /\ worker'[w].at = "idle" /\ worker'[w].reply = reply
      /\ worker'[w].job = worker[w].job /\ worker'[w].does = worker[w].does
  BY <1>2 DEF WorkshopIndInv, WorkshopTypeOK
<1>5. Claimed(w)'
  BY <1>4 DEF Claimed
<1>6. Asked(w)'
  <2>1. reply = "conflict" => worker[w].at = "classify"
    BY <1>1 DEF Classify
  <2>2. QED
    BY <1>3, <1>4, <2>1 DEF Asked, WorkshopIndInv
<1>7. QED
  BY <1>2, <1>3, <1>5, <1>6, QuietStep

\* A request arrives.
LEMMA ArrivalStep ==
    ASSUME WorkshopIndInv, NEW w \in Worker, NEW j \in Job, NEW d \in Day,
           File(w, j, d) \/ \E does \in Entry : Ask(w, j, does, d)
    PROVE  WorkshopIndInv'
<1>1. CASE File(w, j, d)
  <2> DEFINE new == Applies("created", Absent, d)
             r == [at |-> "audit", does |-> "created", job |-> j, day |-> d,
                   row |-> new, reply |-> "none"]
  <2>1. new \in Row
    BY DEF Applies, Absent, Row
  <2>2. r \in Requests
    BY <2>1 DEF Requests, Entry, Response
  <2>3. /\ worker' = [worker EXCEPT ![w] = r] /\ worker'[w] = r
        /\ lock' \in [Job -> Worker \cup {Nobody}] /\ lock'[j] = w
        /\ \A k \in Job : lock[k] # Nobody => lock'[k] = lock[k]
        /\ job[j] = Absent /\ UNCHANGED <<job, trail>>
    BY <1>1 DEF File, WorkshopIndInv, WorkshopTypeOK
  <2> HIDE DEF new
  <2>4. Claimed(w)'
    BY <2>3 DEF Claimed, new
  <2>5. Asked(w)'
    BY <2>3 DEF Asked
  <2>6. QED
    BY <2>2, <2>3, <2>4, <2>5, QuietStep
<1>2. ASSUME NEW does \in Entry, Ask(w, j, does, d) PROVE WorkshopIndInv'
  <2> DEFINE r == [at |-> "claim", does |-> does, job |-> j, day |-> d,
                   row |-> Absent, reply |-> "none"]
  <2>1. r \in Requests
    BY DEF Requests, Response, Absent, Row
  <2>2. /\ worker' = [worker EXCEPT ![w] = r] /\ worker'[w] = r
        /\ does # "created" /\ job[j].status # "absent" /\ UNCHANGED <<job, trail, lock>>
    BY <1>2 DEF Ask, WorkshopIndInv, WorkshopTypeOK
  <2>3. Claimed(w)' /\ Asked(w)'
    BY <2>2 DEF Claimed, Asked
  <2>4. lock' \in [Job -> Worker \cup {Nobody}]
    BY <2>2 DEF WorkshopIndInv, WorkshopTypeOK
  <2>5. QED
    BY <2>1, <2>2, <2>3, <2>4, QuietStep
<1>3. QED
  BY <1>1, <1>2

\* The UPDATE matches and locks its row, or matches nothing.
LEMMA ClaimStep == ASSUME WorkshopIndInv, NEW w \in Worker, ClaimJob(w) PROVE WorkshopIndInv'
<1> PICK r : r = worker[w]
  OBVIOUS
<1>1. /\ r \in Requests /\ r.at = "claim" /\ r.job \in Job /\ r.day \in Day /\ r.reply = "none"
      /\ r.does \in Entry \ {"created"} /\ job[r.job].status # "absent" /\ job[r.job] \in Row
      /\ UNCHANGED <<job, trail>> /\ lock \in [Job -> Worker \cup {Nobody}]
  BY DEF ClaimJob, WorkshopIndInv, WorkshopTypeOK, Requests, Asked
<1>2. CASE Matches(r.does, job[r.job], r.day)
  <2> DEFINE new == Applies(r.does, job[r.job], r.day)
             s == [r EXCEPT !.at = "audit", !.row = new]
  <2>1. /\ lock[r.job] = Nobody /\ lock' = [lock EXCEPT ![r.job] = w]
        /\ worker' = [worker EXCEPT ![w].at = "audit", ![w].row = new]
    BY <1>2 DEF ClaimJob
  <2>2. new \in Row
    BY <1>1, <1>2, AppliesLemma DEF WorkshopIndInv, Chronology
  <2> HIDE DEF new
  <2>3. s \in Requests /\ worker' = [worker EXCEPT ![w] = s] /\ worker'[w] = s
    BY <1>1, <2>1, <2>2 DEF WorkshopIndInv, WorkshopTypeOK, Requests
  <2>4. Claimed(w)'
    <3>1. /\ worker'[w].job = r.job /\ worker'[w].day = r.day /\ worker'[w].does = r.does
          /\ worker'[w].row = new /\ lock'[r.job] = w /\ job' = job
      BY <1>1, <2>1, <2>3 DEF Requests
    <3>2. QED
      BY <1>1, <1>2, <3>1 DEF Claimed, new
  <2>5. Asked(w)'
    BY <1>1, <2>3 DEF Asked
  <2>6. QED
    BY <1>1, <2>1, <2>3, <2>4, <2>5, QuietStep
<1>3. CASE ~Matches(r.does, job[r.job], r.day)
  <2> DEFINE s == [r EXCEPT !.at = "classify"]
  <2>1. worker' = [worker EXCEPT ![w].at = "classify"] /\ lock' = lock
    BY <1>3 DEF ClaimJob
  <2>2. s \in Requests /\ worker' = [worker EXCEPT ![w] = s] /\ worker'[w] = s
    BY <1>1, <2>1 DEF WorkshopIndInv, WorkshopTypeOK, Requests
  <2>3. r.does # "completed" => job[r.job].status \in Over
    BY <1>1, <1>3 DEF Matches, Over, Row
  <2>4. Claimed(w)' /\ Asked(w)'
    BY <1>1, <2>2, <2>3 DEF Claimed, Asked
  <2>5. QED
    BY <1>1, <2>1, <2>2, <2>4, QuietStep
<1>4. QED
  BY <1>2, <1>3

\* A claim commits, its audit row with it: no other request holds the record,
\* and none is refused about a record that goes on.
LEMMA RecordStep == ASSUME WorkshopIndInv, NEW w \in Worker, RecordJob(w) PROVE WorkshopIndInv'
<1> PICK r, j, old, new :
       r = worker[w] /\ j = r.job /\ old = job[j] /\ new = Applies(r.does, old, r.day)
  OBVIOUS
<1>1. /\ r \in Requests /\ r.at = "audit" /\ j \in Job /\ r.day \in Day /\ r.does \in Entry
      /\ lock[j] = w /\ old \in Row /\ trail[j] \in Seq(Entry)
      /\ IF r.does = "created" THEN old = Absent ELSE Matches(r.does, old, r.day)
      /\ IF old.status = "COMPLETED" THEN old.startedAt <= old.completedAt
         ELSE old.completedAt = 0
  BY DEF RecordJob, WorkshopIndInv, WorkshopTypeOK, Requests, Claimed, Chronology
<1>2. /\ job' = [job EXCEPT ![j] = new] /\ trail' = [trail EXCEPT ![j] = Append(@, r.does)]
      /\ lock' = Unlocked(w)
      /\ worker' = [worker EXCEPT ![w].at = "idle", ![w].reply = "done"]
  BY DEF RecordJob, Says, WorkshopIndInv, Claimed
<1>3. /\ new \in Row /\ new.status # "absent"
      /\ new.status = IF r.does = "completed" THEN "COMPLETED"
                      ELSE IF r.does = "cancelled" THEN "CANCELLED" ELSE "OPEN"
      /\ IF new.status = "COMPLETED" THEN new.startedAt <= new.completedAt
         ELSE new.completedAt = 0
  BY <1>1, AppliesLemma
<1>4. /\ job'[j] = new /\ \A k \in Job : k # j => job'[k] = job[k] /\ trail'[k] = trail[k]
      /\ trail'[j] = Append(trail[j], r.does)
  BY <1>1, <1>2 DEF WorkshopIndInv, WorkshopTypeOK
<1>5. WorkshopTypeOK'
  <2>1. job' \in [Job -> Row] /\ trail' \in [Job -> Seq(Entry)]
    BY <1>1, <1>2, <1>3 DEF WorkshopIndInv, WorkshopTypeOK
  <2>2. lock' \in [Job -> Worker \cup {Nobody}]
    BY <1>2 DEF WorkshopIndInv, WorkshopTypeOK, Unlocked
  <2>3. worker' \in [Worker -> Requests]
    <3>1. worker \in [Worker -> Requests] /\ "done" \in Response
      BY DEF WorkshopIndInv, WorkshopTypeOK, Requests, Response
    <3>2. QED
      BY <1>2, <3>1 DEF Requests
  <2>4. QED
    BY <2>1, <2>2, <2>3 DEF WorkshopTypeOK, Requests
<1>6. Chronology'
  BY <1>3, <1>4 DEF WorkshopIndInv, Chronology
<1>7. ASSUME NEW k \in Job PROVE TrailTellsLife!(k)'
  <2>1. CASE k # j
    BY <1>4, <2>1 DEF WorkshopIndInv, TrailTellsLife
  <2>2. CASE k = j
    <3> PICK t, n : t = trail[j] /\ n = Len(t)
      OBVIOUS
    <3>1. /\ t \in Seq(Entry) /\ n \in Nat /\ n = Len(t)
          /\ old.status = "absent" <=> n = 0
          /\ \A i \in 1..n : t[i] = "created" <=> i = 1
          /\ \A i \in 1..n : t[i] \in DOMAIN Ending => i = n
          /\ n > 0 => old.status = IF t[n] \in DOMAIN Ending THEN Ending[t[n]] ELSE "OPEN"
      BY <1>1 DEF WorkshopIndInv, TrailTellsLife
    <3>2. /\ Len(trail'[j]) = n + 1 /\ trail'[j][n + 1] = r.does
          /\ \A i \in 1..n : trail'[j][i] = t[i]
      BY <1>1, <1>4, <3>1
    <3>3. r.does = "created" <=> n = 0
      BY <1>1, <3>1 DEF Absent, Matches
    <3>4. \A i \in 1..n : t[i] \notin DOMAIN Ending
      BY <1>1, <3>1, <3>3 DEF Matches, Ending
    <3>5. DOMAIN Ending = {"completed", "cancelled"}
          /\ Ending["completed"] = "COMPLETED" /\ Ending["cancelled"] = "CANCELLED"
      BY DEF Ending
    <3>6. n + 1 > 0 /\ 1..(n + 1) = 1..n \cup {n + 1}
      BY <3>1
    <3>7. /\ job'[j].status # "absent"
          /\ \A i \in 1..(n + 1) : trail'[j][i] = "created" <=> i = 1
          /\ \A i \in 1..(n + 1) : trail'[j][i] \in DOMAIN Ending => i = n + 1
          /\ job'[j].status = IF trail'[j][n + 1] \in DOMAIN Ending
                              THEN Ending[trail'[j][n + 1]] ELSE "OPEN"
      <4>1. \A i \in 1..(n + 1) : trail'[j][i] = "created" <=> i = 1
        BY <3>1, <3>2, <3>3, <3>6
      <4>2. \A i \in 1..(n + 1) : trail'[j][i] \in DOMAIN Ending => i = n + 1
        BY <3>2, <3>4, <3>6
      <4>3. job'[j].status = IF r.does \in {"completed", "cancelled"}
                             THEN Ending[r.does] ELSE "OPEN"
        BY <1>3, <1>4, <3>5
      <4>4. QED
        BY <1>3, <1>4, <3>2, <3>5, <4>1, <4>2, <4>3
    <3>8. QED
      BY <2>2, <3>1, <3>2, <3>6, <3>7
  <2>3. QED
    BY <2>1, <2>2
<1>8. ASSUME NEW v \in Worker PROVE Claimed(v)' /\ Asked(v)'
  <2>1. CASE v = w
    <3>1. worker'[v].at = "idle" /\ worker'[v].reply = "done"
      BY <1>2, <2>1 DEF WorkshopIndInv, WorkshopTypeOK
    <3>2. QED
      BY <3>1 DEF Claimed, Asked
  <2>2. CASE v # w
    <3>1. worker'[v] = worker[v]
      BY <1>2, <2>2 DEF WorkshopIndInv, WorkshopTypeOK
    <3>2. Claimed(v)'
      <4>1. worker[v].at = "audit" => worker[v].job # j
        BY <1>1, <2>2 DEF WorkshopIndInv, Claimed
      <4>2. QED
        BY <1>2, <1>4, <2>2, <3>1, <4>1 DEF WorkshopIndInv, Claimed, Unlocked
    <3>3. old.status \notin Over
      BY <1>1 DEF Matches, Absent, Over
    <3>4. Asked(v)'
      BY <1>3, <1>4, <3>1, <3>3 DEF WorkshopIndInv, Asked
    <3>5. QED
      BY <3>2, <3>4
  <2>3. QED
    BY <2>1, <2>2
<1>9. QED
  BY <1>3, <1>4, <1>5, <1>6, <1>7, <1>8 DEF WorkshopIndInv, TrailTellsLife

\* The log of maintenance (maintenance.service.ts): its trail tells the life of a
\* record, completions lie after the start in force, and a conflict is only
\* reported about a record that is over.
THEOREM WorkshopInvariant == WorkshopSpec => []WorkshopInv
<1>1. WorkshopIndInv /\ [WorkshopNext]_workshop => WorkshopIndInv'
  <2> SUFFICES ASSUME WorkshopIndInv, [WorkshopNext]_workshop PROVE WorkshopIndInv'
    OBVIOUS
  <2>1. CASE UNCHANGED workshop
    BY <2>1
       DEF workshop, WorkshopIndInv, WorkshopTypeOK, TrailTellsLife, Chronology, Claimed, Asked
  <2>2. CASE WorkshopNext
    BY <2>2, ArrivalStep, ClaimStep, RecordStep, AnswerStep DEF WorkshopNext
  <2>3. QED
    BY <2>1, <2>2
<1>2. WorkshopIndInv => WorkshopInv
  BY DEF WorkshopIndInv, WorkshopInv, ConflictsAreOver, Asked, Over
<1>3. QED
  BY <1>1, <1>2, WorkshopStarts, PTL DEF WorkshopSpec

-----------------------------------------------------------------------------
(* The forms. *)

CallField == {"what", "of", "body", "typed", "seen", "mounted", "at", "row"}
FormField == {"of", "at", "seen", "live", "text", "typed"}

SmoothName == [spelt : 1..MaxNames, rough : {FALSE}]
\* Only a job that was filed without its form begins in the middle of a minute.
StoredMark ==
    {Nothing} \cup [minute : {1, 2}, second : IF entity = "job" THEN {0, 1} ELSE {0}]
Stocked == [name : SmoothName, mark : StoredMark, live : BOOLEAN]

\* No missing value is taken for a row or a mark.
FormConstants ==
    /\ MaxNames \in Nat \ {0}
    /\ Nothing \notin {1, 2} \cup [minute : {1, 2}, second : {0, 1}]
    /\ \A r \in [name : SmoothName, mark : {Nothing} \cup [minute : {1, 2}, second : {0, 1}],
                 live : BOOLEAN] : r # Nothing

StockHolds == \A i \in Id : records[i] # Nothing => records[i] \in Stocked

\* What a body brings of a field, once it is stored.
Brings(body, f) == IF f = "name" THEN Normalize(body.name) ELSE body[f]

BodyFits(body) ==
    /\ DOMAIN body \subseteq Field
    /\ "name" \in DOMAIN body => body.name \in Name
    /\ "mark" \in DOMAIN body => body.mark \in {Nothing} \cup [minute : {1, 2}, second : {0}]

\* Of a field that was not typed the form of a job sends nothing, another what it was
\* filled with.
SendsWhatWasTyped(c) ==
    \A f \in Field \ c.typed :
        IF entity = "job" THEN f \notin DOMAIN c.body
        ELSE f \in DOMAIN c.body /\ Brings(c.body, f) = c.seen[f]

Exists(id) == id \in Id /\ records[id] # Nothing

\* What a call carries while it is on its way, and what its answer brings.
CallFits(c) ==
    /\ DOMAIN c = CallField
    /\ c.at \in {"sent", "ok", "refused", "stale"}
    /\ c.what = "status" => ~Ends
    /\ c.at = "sent" /\ c.what = "save" =>
         Exists(c.of) /\ BodyFits(c.body) /\ SendsWhatWasTyped(c)
    /\ c.at = "sent" /\ c.what = "create" => BodyFits(c.body)
    /\ c.at = "sent" /\ c.what = "status" => Exists(c.of) /\ c.body.live \in BOOLEAN
    /\ c.at \in {"ok", "stale"} => Exists(c.of)
    /\ c.at = "ok" /\ c.what # "create" => c.row \in Stocked

FormFits ==
    /\ DOMAIN form = FormField
    /\ form.of # 0 => Exists(form.of)
    /\ form.of = 0 => form.at = "ready" /\ entity # "job"
    /\ form.of # 0 /\ form.at = "ready" =>
          form.seen.name \in SmoothName /\ form.seen.mark \in StoredMark

FormTypes ==
    /\ form.of \in Id \cup {0} /\ form.at \in {"loading", "error", "ready"}
    /\ form.text \in Text /\ form.typed \subseteq Field

StockOK == DOMAIN records = Id /\ StockHolds /\ OnePlateEach
FormOK == FormTypes /\ FormFits /\ UntypedAsFilled
MailOK ==
    /\ IsFiniteSet(mail) /\ Cardinality(mail) <= spent.calls
    /\ \A c \in mail : c.what \in {"save", "create", "status"} /\ CallFits(c)

FormsIndInv == StockOK /\ FormOK /\ MailOK /\ spent \in [calls : Nat, others : Nat]

-----------------------------------------------------------------------------
LEMMA FormsHold == ASSUME FormsIndInv PROVE FormsInv
<1>1. \A r \in Stocked : r.name \in Name /\ r.live \in BOOLEAN
  BY DEF Stocked, SmoothName, Name
<1>2. FormsTypeOK
  BY <1>1 DEF FormsIndInv, StockOK, StockHolds, FormOK, FormTypes, MailOK, FormsTypeOK
<1>3. QED
  BY <1>2 DEF FormsInv, FormsIndInv, StockOK, FormOK

\* The spelling the API stores.
LEMMA Spellings ==
    /\ \A n \in Name : Normalize(n) \in SmoothName /\ Normalize(n).spelt = n.spelt
    /\ \A n \in SmoothName : n \in Name /\ Normalize(n) = n
    /\ \A n, o \in SmoothName : n.spelt = o.spelt => n = o
<1>1. ASSUME NEW n \in Name
      PROVE  Normalize(n) \in SmoothName /\ Normalize(n).spelt = n.spelt
  BY DEF Name, SmoothName, Normalize
<1>2. ASSUME NEW n \in SmoothName
      PROVE  n \in Name /\ Normalize(n) = n
  BY DEF Name, SmoothName, Normalize
<1>3. ASSUME NEW n \in SmoothName, NEW o \in SmoothName, n.spelt = o.spelt
      PROVE  n = o
  <2>1. /\ n = [spelt |-> n.spelt, rough |-> n.rough]
        /\ o = [spelt |-> o.spelt, rough |-> o.rough]
    BY DEF SmoothName
  <2>2. n.rough = o.rough
    BY DEF SmoothName
  <2>3. QED
    BY <1>3, <2>1, <2>2
<1>4. QED
  BY <1>1, <1>2, <1>3

LEMMA SmallMarks ==
    /\ [minute : {1, 2}, second : {0}] \subseteq StoredMark
    /\ Nothing \in StoredMark
  BY DEF StoredMark

\* What an update stores.
LEMMA StoredFacts ==
    ASSUME NEW c, BodyFits(c.body), NEW r \in Stocked
    PROVE  /\ Stored(c, r) \in Stocked
           /\ \A f \in Field : Stored(c, r)[f] =
                 IF f \in DOMAIN c.body THEN Brings(c.body, f) ELSE r[f]
<1>1. /\ DOMAIN r = {"name", "mark", "live"} /\ r.name \in SmoothName
      /\ r.mark \in StoredMark /\ r.live \in BOOLEAN
  BY DEF Stocked
<1>2. "live" \notin DOMAIN c.body
  BY DEF BodyFits, Field
<1>3. \A f \in {"name", "mark", "live"} : Stored(c, r)[f] =
          IF f \in DOMAIN c.body THEN Brings(c.body, f) ELSE r[f]
  BY <1>1 DEF Stored, Brings
<1>4. /\ Stored(c, r).name \in SmoothName /\ Stored(c, r).mark \in StoredMark
      /\ Stored(c, r).live \in BOOLEAN
  BY <1>1, <1>2, <1>3, Spellings, SmallMarks DEF BodyFits, Brings
<1>5. Stored(c, r) = [name |-> Stored(c, r).name, mark |-> Stored(c, r).mark,
                      live |-> Stored(c, r).live]
  BY <1>1 DEF Stored
<1>6. QED
  BY <1>3, <1>4, <1>5 DEF Field, Stocked

\* A page that was just read shows what it read.
LEMMA FilledFacts ==
    ASSUME FormConstants, NEW id, NEW r \in Stocked
    PROVE  /\ DOMAIN Filled(id, r) = FormField /\ Filled(id, r).of = id
           /\ Filled(id, r).at = "ready" /\ Filled(id, r).typed = {}
           /\ Filled(id, r).seen.name = r.name /\ Filled(id, r).seen.mark = r.mark
           /\ Filled(id, r).text \in Text
           /\ \A f \in Field : Filled(id, r).text[f] = ToText(Filled(id, r).seen)[f]
<1>1. r.name \in SmoothName /\ r.mark \in StoredMark
  BY DEF Stocked
<1>2. ToText(r) \in Text
  <2>1. r.name \in Name
    BY <1>1, Spellings
  <2>2. r.mark # Nothing => r.mark.minute \in {1, 2}
    BY <1>1 DEF StoredMark
  <2>3. QED
    BY <2>1, <2>2 DEF ToText, Text
<1>3. /\ DOMAIN Filled(id, r) = FormField /\ Filled(id, r).of = id
      /\ Filled(id, r).at = "ready" /\ Filled(id, r).typed = {}
      /\ Filled(id, r).text = ToText(r) /\ Filled(id, r).seen = [f \in Field |-> r[f]]
  BY DEF Filled, FormField
<1>4. Filled(id, r).seen.name = r.name /\ Filled(id, r).seen.mark = r.mark
  BY <1>3 DEF Field
<1>5. QED
  BY <1>2, <1>3, <1>4 DEF ToText

-----------------------------------------------------------------------------
(* What a step keeps of each part. *)

SameTable == entity' = entity /\ \A id : Exists(id) => Exists(id)'

LEMMA SameStock ==
    ASSUME entity' = entity
    PROVE  Stocked' = Stocked /\ StoredMark' = StoredMark /\ (Ends' <=> Ends)
  BY DEF Stocked, StoredMark, Ends, SmoothName

\* A row is written that fits, under a plate of its own.
LEMMA WrittenFits ==
    ASSUME FormConstants, FormsIndInv, NEW id \in Id, NEW r \in Stocked, entity' = entity,
           records' = [records EXCEPT ![id] = r], ~Taken(r.name, id)
    PROVE  StockOK' /\ SameTable /\ records'[id] = r /\ Exists(id)'
<1>1. DOMAIN records = Id /\ StockHolds /\ OnePlateEach
  BY DEF FormsIndInv, StockOK
<1>2. /\ DOMAIN records' = Id /\ records'[id] = r
      /\ \A i \in Id : i # id => records'[i] = records[i]
  BY <1>1
<1>3. r # Nothing
  <2>1. Stocked \subseteq [name : SmoothName, live : BOOLEAN,
                          mark : {Nothing} \cup [minute : {1, 2}, second : {0, 1}]]
    BY DEF Stocked, StoredMark
  <2>2. QED
    BY <2>1 DEF FormConstants
<1>4. StockHolds'
  BY <1>1, <1>2, SameStock DEF StockHolds
<1>5. OnePlateEach'
  <2>1. SUFFICES ASSUME entity = "vehicle", NEW i \in Id, NEW j \in Id, i # j,
                        records'[i] # Nothing, records'[j] # Nothing
                 PROVE  records'[i].name.spelt # records'[j].name.spelt
    BY DEF OnePlateEach
  <2>2. \A k \in Id \ {id} : records[k] # Nothing => records[k].name # r.name
    BY <2>1 DEF Taken
  <2>3. \A s \in Stocked : s.name \in SmoothName
    BY DEF Stocked
  <2>4. \A k \in Id \ {id} : records[k] # Nothing => records[k].name.spelt # r.name.spelt
    BY <1>1, <2>2, <2>3, Spellings DEF StockHolds
  <2>5. CASE i = id \/ j = id
    BY <1>2, <2>1, <2>4, <2>5
  <2>6. CASE i # id /\ j # id
    BY <1>1, <1>2, <2>1, <2>6 DEF OnePlateEach
  <2>7. QED
    BY <2>5, <2>6
<1>6. SameTable /\ Exists(id)'
  BY <1>2, <1>3 DEF SameTable, Exists
<1>7. QED
  BY <1>2, <1>4, <1>5, <1>6 DEF StockOK

LEMMA SameRows ==
    ASSUME FormsIndInv, UNCHANGED <<entity, records>>
    PROVE  StockOK' /\ SameTable
  BY SameStock DEF FormsIndInv, StockOK, StockHolds, OnePlateEach, SameTable, Exists

LEMMA LoadingFits ==
    ASSUME FormConstants, NEW id \in Id, form' = Loading(id), Exists(id)'
    PROVE  FormOK'
<1>1. Blank \in Text
  BY DEF Blank, Text, Name, FormConstants
<1>2. /\ DOMAIN form' = FormField /\ form'.of = id /\ form'.at = "loading"
      /\ form'.text = Blank /\ form'.typed = {}
  BY DEF Loading, FormField
<1>3. id # 0
  BY DEF Id
<1>4. QED
  BY <1>1, <1>2, <1>3 DEF FormOK, FormTypes, FormFits, UntypedAsFilled, Text, Name

LEMMA FilledFits ==
    ASSUME FormConstants, NEW id \in Id, NEW r \in Stocked, form' = Filled(id, r),
           Exists(id)', entity' = entity
    PROVE  FormOK'
<1>1. r.name \in SmoothName /\ r.mark \in StoredMark
  BY DEF Stocked
<1>2. id # 0
  BY DEF Id
<1>3. FormTypes' /\ FormFits'
  BY <1>1, <1>2, FilledFacts, SameStock DEF FormTypes, FormFits
<1>4. UntypedAsFilled'
  BY FilledFacts DEF UntypedAsFilled
<1>5. QED
  BY <1>3, <1>4 DEF FormOK

LEMMA NewFits ==
    ASSUME FormConstants, form' = New, entity' # "job"
    PROVE  FormOK'
<1>1. Blank \in Text
  BY DEF Blank, Text, Name, FormConstants
<1>2. /\ DOMAIN form' = FormField /\ form'.of = 0 /\ form'.at = "ready"
      /\ form'.text = Blank /\ form'.typed = {}
  BY DEF New, Loading, FormField
<1>3. QED
  BY <1>1, <1>2 DEF FormOK, FormTypes, FormFits, UntypedAsFilled, Text, Name

LEMMA SameForm ==
    ASSUME FormsIndInv, SameTable, DOMAIN form' = FormField, form'.of = form.of,
           form'.at = form.at, form'.seen = form.seen, form'.text = form.text,
           form'.typed = form.typed
    PROVE  FormOK'
  BY SameStock
     DEF FormsIndInv, FormOK, FormTypes, FormFits, UntypedAsFilled, SameTable, Text, Name

\* Calls that were in order stay so, whatever else is written.
LEMMA CallKept ==
    ASSUME SameTable, NEW c, CallFits(c)
    PROVE  CallFits(c)'
  BY SameStock DEF SameTable, CallFits, BodyFits, SendsWhatWasTyped, Brings, Normalize, Name

LEMMA AtMostOneMore ==
    ASSUME NEW S, NEW a, IsFiniteSet(S)
    PROVE  /\ IsFiniteSet(S \cup {a}) /\ Cardinality(S \cup {a}) \in Nat
           /\ Cardinality(S \cup {a}) <= Cardinality(S) + 1
<1> DEFINE T == S \cup {a}
<1>1. IsFiniteSet(T) /\ Cardinality(S) \in Nat
  BY FS_AddElement, FS_CardinalityType
<1>2. Cardinality(T) = IF a \in S THEN Cardinality(S) ELSE Cardinality(S) + 1
  BY FS_AddElement
<1> HIDE DEF T
<1>3. Cardinality(T) \in Nat /\ Cardinality(T) <= Cardinality(S) + 1
  BY <1>1, <1>2
<1>4. QED
  BY <1>1, <1>3 DEF T

\* The mail after a call was answered, heard or not.
LEMMA AnswerFits ==
    ASSUME FormsIndInv, SameTable, spent' = spent, NEW c \in mail, NEW a,
           mail' \in {mail \ {c}, (mail \ {c}) \cup {a}},
           a.what \in {"save", "create", "status"}, CallFits(a)'
    PROVE  MailOK' /\ mail \ mail' \subseteq {c}
<1> DEFINE rest == mail \ {c}
<1>1. IsFiniteSet(mail) /\ Cardinality(mail) <= spent.calls /\ spent.calls \in Nat
  BY DEF FormsIndInv, MailOK
<1>2. IsFiniteSet(rest) /\ Cardinality(rest) = Cardinality(mail) - 1
      /\ Cardinality(mail) \in Nat /\ Cardinality(rest) \in Nat
  BY <1>1, FS_RemoveElement, FS_CardinalityType
<1>3. mail' = rest \/ mail' = rest \cup {a}
  OBVIOUS
<1>4. /\ IsFiniteSet(rest \cup {a})
      /\ Cardinality(rest \cup {a}) <= Cardinality(rest) + 1
      /\ Cardinality(rest \cup {a}) \in Nat
  BY <1>2, AtMostOneMore
<1>5. IsFiniteSet(mail') /\ Cardinality(mail') <= spent'.calls
  <2>1. CASE mail' = rest
    BY <1>1, <1>2, <2>1
  <2>2. CASE mail' = rest \cup {a}
    BY <1>1, <1>2, <1>4, <2>2
  <2>3. QED
    BY <1>3, <2>1, <2>2
<1>6. \A d \in mail' : d.what \in {"save", "create", "status"} /\ CallFits(d)'
  BY CallKept DEF FormsIndInv, MailOK
<1>7. QED
  BY <1>3, <1>5, <1>6 DEF MailOK

\* A call whose answer the page has taken notice of.
LEMMA NoticeFits ==
    ASSUME FormsIndInv, SameTable, spent' = spent, NEW c \in mail, mail' = mail \ {c}
    PROVE  MailOK'
<1>1. IsFiniteSet(mail) /\ Cardinality(mail) <= spent.calls /\ spent.calls \in Nat
  BY DEF FormsIndInv, MailOK
<1>2. IsFiniteSet(mail') /\ Cardinality(mail') = Cardinality(mail) - 1
      /\ Cardinality(mail) \in Nat
  BY <1>1, FS_RemoveElement, FS_CardinalityType
<1>3. \A d \in mail' : d.what \in {"save", "create", "status"} /\ CallFits(d)'
  BY CallKept DEF FormsIndInv, MailOK
<1>4. QED
  BY <1>1, <1>2, <1>3 DEF MailOK

LEMMA SameMail ==
    ASSUME FormsIndInv, SameTable, UNCHANGED <<mail, spent>> PROVE MailOK'
<1>1. \A d \in mail' : d.what \in {"save", "create", "status"} /\ CallFits(d)'
  BY CallKept DEF FormsIndInv, MailOK
<1>2. QED
  BY <1>1 DEF FormsIndInv, MailOK

\* The page goes, and with it whoever would hear the answers.
LEMMA LeftFits ==
    ASSUME FormsIndInv, SameTable, spent' = spent, NEW calls \in SUBSET mail, Unmounted(calls)
    PROVE  MailOK'
<1> DEFINE Left(c) == [c EXCEPT !.mounted = FALSE]
           left == {Left(c) : c \in calls}
<1>1. IsFiniteSet(mail) /\ Cardinality(mail) <= spent.calls /\ spent.calls \in Nat
  BY DEF FormsIndInv, MailOK
<1>2. /\ IsFiniteSet(calls) /\ Cardinality(calls) <= Cardinality(mail)
      /\ Cardinality(calls) \in Nat /\ Cardinality(mail) \in Nat
  BY <1>1, FS_Subset, FS_CardinalityType
<1>3. IsFiniteSet(left) /\ Cardinality(left) <= Cardinality(calls)
  <2>1. [x \in calls |-> Left(x)] \in Surjection(calls, left)
    BY DEF Surjection
  <2>2. QED
    BY <1>2, <2>1, FS_Surjection
<1>4. mail' \subseteq left /\ \A d \in mail' : \E c \in calls : d = Left(c)
  BY DEF Unmounted
<1>5. /\ IsFiniteSet(mail') /\ Cardinality(mail') <= Cardinality(left)
      /\ Cardinality(mail') \in Nat /\ Cardinality(left) \in Nat
  BY <1>3, <1>4, FS_Subset, FS_CardinalityType
<1>6. \A d \in mail' : d.what \in {"save", "create", "status"} /\ CallFits(d)'
  <2>1. SUFFICES ASSUME NEW c \in calls
                 PROVE  Left(c).what \in {"save", "create", "status"} /\ CallFits(Left(c))'
    <3>1. ASSUME NEW d \in mail'
          PROVE  d.what \in {"save", "create", "status"} /\ CallFits(d)'
      <4>1. PICK c \in calls : d = Left(c)
        BY <1>4
      <4>2. Left(c).what \in {"save", "create", "status"} /\ CallFits(Left(c))'
        BY <2>1
      <4>3. QED
        BY <4>1, <4>2
    <3>2. QED
      BY <3>1
  <2>2. CallFits(c) /\ c.what \in {"save", "create", "status"}
    BY DEF FormsIndInv, MailOK
  <2>3. /\ DOMAIN Left(c) = CallField /\ Left(c).what = c.what /\ Left(c).of = c.of
        /\ Left(c).at = c.at /\ Left(c).body = c.body /\ Left(c).typed = c.typed
        /\ Left(c).seen = c.seen /\ Left(c).row = c.row
    BY <2>2 DEF CallFits, CallField
  <2>4. CallFits(Left(c))
    BY <2>2, <2>3 DEF CallFits, SendsWhatWasTyped
  <2>5. QED
    BY <2>2, <2>3, <2>4, CallKept
<1>7. QED
  BY <1>1, <1>2, <1>3, <1>5, <1>6 DEF MailOK

\* What an answer is, whatever was asked.
LEMMA AnswerFacts ==
    ASSUME NEW c, DOMAIN c = CallField, NEW at, NEW r
    PROVE  /\ DOMAIN AnswerTo(c, at, r) = CallField /\ AnswerTo(c, at, r).what = c.what
           /\ AnswerTo(c, at, r).of = c.of /\ AnswerTo(c, at, r).at = at
           /\ AnswerTo(c, at, r).row = r
  BY DEF AnswerTo, CallField

LEMMA Answering ==
    ASSUME FormsIndInv, SameTable, spent' = spent, NEW c \in mail,
           NEW at \in {"ok", "refused", "stale"}, NEW r, Answered(c, at, r),
           at \in {"ok", "stale"} => Exists(c.of)',
           at = "ok" => r \in Stocked
    PROVE  MailOK' /\ mail \ mail' \subseteq {c}
<1> DEFINE a == AnswerTo(c, at, r)
<1>1. /\ c.what \in {"save", "create", "status"} /\ CallFits(c)
  BY DEF FormsIndInv, MailOK
<1>2. /\ DOMAIN a = CallField /\ a.what = c.what /\ a.of = c.of /\ a.at = at /\ a.row = r
  BY <1>1, AnswerFacts DEF CallFits
<1>3. CallFits(a)'
  BY <1>1, <1>2, SameStock DEF CallFits, SameTable
<1>4. mail' \in {mail \ {c}, (mail \ {c}) \cup {a}}
  BY DEF Answered
<1> HIDE DEF a
<1>5. QED
  BY <1>1, <1>2, <1>3, <1>4, AnswerFits

LEMMA RowsAlone ==
    ASSUME UNCHANGED records PROVE SavesWhatWasTyped /\ OverIsOver
  BY DEF SavesWhatWasTyped, OverIsOver

LEMMA FormAlone == ASSUME UNCHANGED form PROVE TypedStays
  BY DEF TypedStays

Proceeds == FormsIndInv' /\ FormsStep

LEMMA UpdatesStep ==
    ASSUME FormConstants, FormsIndInv, NEW c \in mail, Updates(c) PROVE Proceeds
<1> DEFINE old == records[c.of]
           r == Stored(c, old)
<1>1. /\ CallFits(c) /\ c.at = "sent" /\ c.what = "save" /\ Editable(old)
      /\ ~Taken(r.name, c.of) /\ Writes(c, c.of, r)
  BY DEF FormsIndInv, MailOK, Updates, Claims
<1>2. c.of \in Id /\ old # Nothing /\ BodyFits(c.body) /\ SendsWhatWasTyped(c)
  BY <1>1 DEF CallFits, Exists
<1>3. old \in Stocked
  BY <1>2 DEF FormsIndInv, StockOK, StockHolds
<1>4. /\ r \in Stocked
      /\ \A f \in Field : r[f] = IF f \in DOMAIN c.body THEN Brings(c.body, f) ELSE old[f]
  BY <1>2, <1>3, StoredFacts
<1> HIDE DEF r
<1>5. records' = [records EXCEPT ![c.of] = r] /\ UNCHANGED <<entity, form, spent>>
  BY <1>1 DEF Writes
<1>6. StockOK' /\ SameTable /\ records'[c.of] = r /\ Exists(c.of)'
  BY <1>1, <1>2, <1>4, <1>5, WrittenFits
<1>7. MailOK' /\ mail \ mail' \subseteq {c}
  <2>1. Answered(c, "ok", r) \/ Answered(c, "refused", Nothing)
    BY <1>1 DEF Writes
  <2>2. CASE Answered(c, "ok", r)
    BY <1>4, <1>5, <1>6, <2>2, Answering
  <2>3. CASE Answered(c, "refused", Nothing)
    BY <1>5, <1>6, <2>3, Answering
  <2>4. QED
    BY <2>1, <2>2, <2>3
<1>8. FormOK'
  BY <1>5, <1>6, SameForm DEF FormsIndInv, FormOK, FormFits
<1>9. \A i \in Id : i # c.of => records'[i] = records[i]
  BY <1>2, <1>5 DEF FormsIndInv, StockOK
<1>10. SavesWhatWasTyped
  <2>1. SUFFICES ASSUME NEW f \in Field, r[f] # old[f], f \notin c.typed
                 PROVE  entity # "job" /\ r[f] = c.seen[f]
    BY <1>6, <1>7, <1>9 DEF SavesWhatWasTyped
  <2>2. f \in DOMAIN c.body /\ r[f] = Brings(c.body, f)
    BY <1>4, <2>1
  <2>3. QED
    BY <1>2, <2>1, <2>2 DEF SendsWhatWasTyped
<1>11. OverIsOver
  BY <1>1, <1>9 DEF OverIsOver
<1>12. QED
  BY <1>5, <1>6, <1>7, <1>8, <1>10, <1>11, FormAlone DEF Proceeds, FormsIndInv, FormsStep

LEMMA CreatesStep ==
    ASSUME FormConstants, FormsIndInv, NEW c \in mail, Creates(c) PROVE Proceeds
<1> DEFINE r == Stored(c, Named(1, Nothing))
<1>1. /\ CallFits(c) /\ c.at = "sent" /\ c.what = "create" /\ BodyFits(c.body)
      /\ UNCHANGED <<entity, form, spent>>
  BY DEF FormsIndInv, MailOK, Creates, CallFits
<1>2. PICK i \in Id :
          /\ records[i] = Nothing /\ ~Taken(r.name, i)
          /\ records' = [records EXCEPT ![i] = r]
          /\ \/ mail' = (mail \ {c}) \cup {[AnswerTo(c, "ok", Nothing) EXCEPT !.of = i]}
             \/ Answered(c, "refused", Nothing)
  BY DEF Creates
<1>3. Named(1, Nothing) \in Stocked
  BY SmallMarks DEF Named, Stocked, SmoothName, FormConstants
<1>4. r \in Stocked
  BY <1>1, <1>3, StoredFacts
<1> HIDE DEF r
<1>5. StockOK' /\ SameTable /\ records'[i] = r /\ Exists(i)'
  BY <1>1, <1>2, <1>4, WrittenFits
<1>6. MailOK' /\ mail \ mail' \subseteq {c}
  <2>1. CASE Answered(c, "refused", Nothing)
    BY <1>1, <1>5, <2>1, Answering
  <2>2. CASE mail' = (mail \ {c}) \cup {[AnswerTo(c, "ok", Nothing) EXCEPT !.of = i]}
    <3> DEFINE b == AnswerTo(c, "ok", Nothing)
               a == [b EXCEPT !.of = i]
    <3>1. DOMAIN b = CallField /\ b.what = "create" /\ b.at = "ok"
      BY <1>1, AnswerFacts DEF CallFits
    <3> HIDE DEF b
    <3>2. DOMAIN a = CallField /\ a.what = "create" /\ a.of = i /\ a.at = "ok"
      BY <3>1 DEF CallField
    <3>3. mail' \in {mail \ {c}, (mail \ {c}) \cup {a}}
      BY <2>2 DEF b
    <3> HIDE DEF a
    <3>4. CallFits(a)'
      BY <1>5, <3>2 DEF CallFits
    <3>5. QED
      BY <1>1, <1>5, <3>2, <3>3, <3>4, AnswerFits
  <2>3. QED
    BY <1>2, <2>1, <2>2
<1>7. FormOK'
  BY <1>1, <1>5, SameForm DEF FormsIndInv, FormOK, FormFits
<1>8. \A k \in Id : records[k] # Nothing => records'[k] = records[k]
  BY <1>2 DEF FormsIndInv, StockOK
<1>9. SavesWhatWasTyped /\ OverIsOver
  BY <1>8 DEF SavesWhatWasTyped, OverIsOver
<1>10. QED
  BY <1>1, <1>5, <1>6, <1>7, <1>9, FormAlone DEF Proceeds, FormsIndInv, FormsStep

LEMMA ChangesStatusStep ==
    ASSUME FormConstants, FormsIndInv, NEW c \in mail, ChangesStatus(c) PROVE Proceeds
<1> DEFINE old == records[c.of]
           r == [old EXCEPT !.live = c.body.live]
<1>1. /\ CallFits(c) /\ c.at = "sent" /\ c.what = "status" /\ Writes(c, c.of, r)
  BY DEF FormsIndInv, MailOK, ChangesStatus
<1>2. c.of \in Id /\ old # Nothing /\ c.body.live \in BOOLEAN /\ ~Ends
  BY <1>1 DEF CallFits, Exists
<1>3. old \in Stocked
  BY <1>2 DEF FormsIndInv, StockOK, StockHolds
<1>4. r \in Stocked /\ r.name = old.name /\ r.mark = old.mark
  BY <1>2, <1>3 DEF Stocked
<1> HIDE DEF r
<1>5. ~Taken(r.name, c.of)
  BY <1>2, <1>4 DEF Taken, FormsIndInv, StockOK, OnePlateEach
<1>6. records' = [records EXCEPT ![c.of] = r] /\ UNCHANGED <<entity, form, spent>>
  BY <1>1 DEF Writes
<1>7. StockOK' /\ SameTable /\ records'[c.of] = r /\ Exists(c.of)'
  BY <1>2, <1>4, <1>5, <1>6, WrittenFits
<1>8. MailOK'
  <2>1. Answered(c, "ok", r) \/ Answered(c, "refused", Nothing)
    BY <1>1 DEF Writes
  <2>2. CASE Answered(c, "ok", r)
    BY <1>4, <1>6, <1>7, <2>2, Answering
  <2>3. CASE Answered(c, "refused", Nothing)
    BY <1>6, <1>7, <2>3, Answering
  <2>4. QED
    BY <2>1, <2>2, <2>3
<1>9. FormOK'
  BY <1>6, <1>7, SameForm DEF FormsIndInv, FormOK, FormFits
<1>10. \A i \in Id : i # c.of => records'[i] = records[i]
  BY <1>2, <1>6 DEF FormsIndInv, StockOK
<1>11. \A i \in Id, f \in Field : records'[i][f] = records[i][f]
  BY <1>4, <1>7, <1>10 DEF Field
<1>12. OverIsOver
  BY <1>2 DEF OverIsOver, Editable
<1>13. QED
  BY <1>6, <1>7, <1>8, <1>9, <1>11, <1>12, FormAlone
     DEF Proceeds, FormsIndInv, FormsStep, SavesWhatWasTyped

LEMMA ElsewhereStep ==
    ASSUME FormConstants, FormsIndInv, NEW i \in Id, Elsewhere(i) PROVE Proceeds
<1>1. UNCHANGED <<entity, form, mail>> /\ spent' = [spent EXCEPT !.others = @ + 1]
  BY DEF Elsewhere
<1>2. PICK r \in Records :
          /\ ~Taken(r.name, i) /\ records' = [records EXCEPT ![i] = r]
          /\ records[i] # Nothing => Editable(records[i])
  BY DEF Elsewhere
<1>3. r \in Stocked
  <2>1. Marks \subseteq StoredMark
    BY DEF Marks, StoredMark, Instant
  <2>2. QED
    BY <2>1 DEF Records, Stocked, SmoothName
<1>4. StockOK' /\ SameTable
  BY <1>1, <1>2, <1>3, WrittenFits
<1>5. spent' \in [calls : Nat, others : Nat] /\ spent'.calls = spent.calls
  BY <1>1 DEF FormsIndInv
<1>6. MailOK'
  <2>1. \A d \in mail' : d.what \in {"save", "create", "status"} /\ CallFits(d)'
    BY <1>1, <1>4, CallKept DEF FormsIndInv, MailOK
  <2>2. QED
    BY <1>1, <1>5, <2>1 DEF FormsIndInv, MailOK
<1>7. FormOK'
  BY <1>1, <1>4, SameForm DEF FormsIndInv, FormOK, FormFits
<1>8. SavesWhatWasTyped /\ OverIsOver
  BY <1>1, <1>2 DEF SavesWhatWasTyped, OverIsOver, FormsIndInv, StockOK
<1>9. QED
  BY <1>1, <1>4, <1>5, <1>6, <1>7, <1>8, FormAlone DEF Proceeds, FormsIndInv, FormsStep

LEMMA RefusesStep ==
    ASSUME FormsIndInv, NEW c \in mail, Refuses(c) PROVE Proceeds
<1>1. UNCHANGED <<entity, records, form, spent>>
  BY DEF Refuses
<1>2. StockOK' /\ SameTable
  BY <1>1, SameRows
<1>3. MailOK'
  <2>1. CASE Answered(c, "refused", Nothing)
    BY <1>1, <1>2, <2>1, Answering
  <2>2. CASE Answered(c, "stale", Nothing) /\ c.what = "save"
    <3>1. Exists(c.of)'
      BY <1>2, <2>2 DEF Refuses, FormsIndInv, MailOK, CallFits, SameTable
    <3>2. QED
      BY <1>1, <1>2, <2>2, <3>1, Answering
  <2>3. QED
    BY <2>1, <2>2 DEF Refuses
<1>4. FormOK'
  BY <1>1, <1>2, SameForm DEF FormsIndInv, FormOK, FormFits
<1>5. QED
  BY <1>1, <1>2, <1>3, <1>4, RowsAlone, FormAlone DEF Proceeds, FormsIndInv, FormsStep

\* A page turns to a record that exists, which it reads.
LEMMA TurnsTo ==
    ASSUME FormConstants, FormsIndInv, UNCHANGED <<entity, records, spent>>, MailOK',
           NEW id, Exists(id), form' = Loading(id)
    PROVE  Proceeds
<1>1. StockOK' /\ SameTable
  BY SameRows
<1>2. id \in Id /\ Exists(id)'
  BY <1>1 DEF Exists, SameTable
<1>3. FormOK' /\ form'.at = "loading"
  BY <1>2, LoadingFits DEF Loading
<1>4. TypedStays
  BY <1>3 DEF TypedStays
<1>5. QED
  BY <1>1, <1>3, <1>4, RowsAlone DEF Proceeds, FormsIndInv, FormsStep

LEMMA VisitStep ==
    ASSUME FormConstants, FormsIndInv,
           \/ \E i \in Id : records[i] # Nothing /\ Visit(Loading(i))
           \/ Visit(New)
    PROVE  Proceeds
<1>1. UNCHANGED <<entity, records, spent>> /\ Unmounted(mail) /\ entity # "job"
  BY DEF Visit
<1>2. StockOK' /\ SameTable
  BY <1>1, SameRows
<1>3. MailOK'
  BY <1>1, <1>2, LeftFits
<1>4. CASE \E i \in Id : records[i] # Nothing /\ Visit(Loading(i))
  BY <1>1, <1>3, <1>4, TurnsTo DEF Visit, Exists
<1>5. CASE Visit(New)
  <2>1. form' = New
    BY <1>5 DEF Visit
  <2>2. FormOK'
    BY <1>1, <2>1, NewFits
  <2>3. form'.of = 0
    BY <2>1 DEF New, Loading
  <2>4. QED
    BY <1>1, <1>2, <1>3, <2>2, <2>3, RowsAlone DEF Proceeds, FormsIndInv, FormsStep, TypedStays
<1>6. QED
  BY <1>4, <1>5

LEMMA LoadsStep ==
    ASSUME FormConstants, FormsIndInv, Loads PROVE Proceeds
<1>1. UNCHANGED <<entity, records, mail, spent>> /\ form.at = "loading"
  BY DEF Loads
<1>2. StockOK' /\ SameTable
  BY <1>1, SameRows
<1>3. MailOK'
  BY <1>1, <1>2, SameMail
<1>4. PICK id \in Id :
          /\ Exists(id) /\ Exists(id)'
          /\ form' = Filled(id, records[id]) \/ form' = Unread(id)
  <2>1. Exists(form.of)
    BY <1>1 DEF FormsIndInv, FormOK, FormFits
  <2>2. QED
    BY <1>2, <2>1 DEF Loads, Exists, SameTable
<1>5. FormOK'
  <2>1. CASE form' = Filled(id, records[id])
    <3>1. records[id] \in Stocked
      BY <1>4 DEF FormsIndInv, StockOK, StockHolds, Exists
    <3>2. QED
      BY <1>1, <1>4, <2>1, <3>1, FilledFits
  <2>2. CASE form' = Unread(id)
    <3>1. Blank \in Text
      BY DEF Blank, Text, Name, FormConstants
    <3>2. /\ DOMAIN form' = FormField /\ form'.of = id /\ form'.at = "error"
          /\ form'.text = Blank /\ form'.typed = {}
      BY <2>2 DEF Unread, Loading, FormField
    <3>3. id # 0
      BY DEF Id
    <3>4. QED
      BY <1>4, <3>1, <3>2, <3>3 DEF FormOK, FormTypes, FormFits, UntypedAsFilled, Text, Name
  <2>3. QED
    BY <1>4, <2>1, <2>2
<1>6. TypedStays
  BY <1>1 DEF TypedStays
<1>7. QED
  BY <1>1, <1>2, <1>3, <1>5, <1>6, RowsAlone DEF Proceeds, FormsIndInv, FormsStep

LEMMA ListReloadsStep ==
    ASSUME FormConstants, FormsIndInv, ListReloads PROVE Proceeds
<1>1. UNCHANGED <<entity, records, spent>> /\ Unmounted(mail) /\ form' = Loading(form.of)
      /\ entity = "job"
  BY DEF ListReloads
<1>2. Exists(form.of)
  BY <1>1 DEF FormsIndInv, FormOK, FormFits
<1>3. MailOK'
  BY <1>1, SameRows, LeftFits
<1>4. QED
  BY <1>1, <1>2, <1>3, TurnsTo

LEMMA TypesStep ==
    ASSUME FormConstants, FormsIndInv, Types PROVE Proceeds
<1>1. UNCHANGED <<entity, records, mail, spent>>
  BY DEF Types
<1>2. StockOK' /\ SameTable /\ MailOK'
  BY <1>1, SameRows, SameMail
<1>3. PICK f \in Field, v \in Typing \cup {Nothing, 1, 2} :
          /\ v \in IF f = "name" THEN Typing
                   ELSE {Nothing, 1} \cup (IF entity = "job" THEN {2} ELSE {})
          /\ form' = [form EXCEPT !.text[f] = v, !.typed = @ \cup {f}]
  BY DEF Types
<1>4. FormTypes /\ FormFits /\ UntypedAsFilled
  BY DEF FormsIndInv, FormOK
<1>5. /\ DOMAIN form' = FormField /\ form'.of = form.of /\ form'.at = form.at
      /\ form'.seen = form.seen /\ form'.typed = form.typed \cup {f}
      /\ form'.text = [form.text EXCEPT ![f] = v]
  BY <1>3, <1>4 DEF FormFits, FormField
<1>6. /\ form.text \in Text /\ DOMAIN form.text = Field
      /\ form.text.name \in Name /\ form.text.mark \in {Nothing, 1, 2}
  BY <1>4 DEF FormTypes, Text, Field
<1>7. form'.text \in Text
  <2>1. CASE f = "name"
    <3>1. v \in Name
      BY <1>3, <2>1 DEF Typing, Name
    <3>2. QED
      BY <1>5, <1>6, <2>1, <3>1 DEF Text
  <2>2. CASE f = "mark"
    BY <1>3, <1>5, <1>6, <2>2 DEF Text
  <2>3. QED
    BY <2>1, <2>2 DEF Field
<1>8. \A g \in Field \ {f} : form'.text[g] = form.text[g]
  BY <1>5, <1>6
<1>9. FormTypes'
  BY <1>4, <1>5, <1>7 DEF FormTypes, Text, Name
<1>10. FormFits'
  BY <1>1, <1>2, <1>4, <1>5, SameStock DEF FormFits, SameTable
<1>11. UntypedAsFilled'
  BY <1>4, <1>5, <1>8 DEF UntypedAsFilled
<1>12. TypedStays
  BY <1>1, <1>5 DEF TypedStays
<1>13. QED
  BY <1>1, <1>2, <1>9, <1>10, <1>11, <1>12, RowsAlone DEF Proceeds, FormsIndInv, FormsStep, FormOK

\* A call is made that fits the form it is made from.
LEMMA CallsFit ==
    ASSUME FormsIndInv, NEW what \in {"save", "create", "status"},
           NEW body, NEW typed, NEW seen,
           Calls(what, body, typed, seen),
           what = "status" => ~Ends /\ Exists(form.of) /\ body.live \in BOOLEAN,
           what = "create" => BodyFits(body),
           what = "save" =>
               /\ Exists(form.of) /\ BodyFits(body)
               /\ \A f \in Field \ typed :
                     IF entity = "job" THEN f \notin DOMAIN body
                     ELSE f \in DOMAIN body /\ Brings(body, f) = seen[f]
    PROVE  Proceeds
<1> DEFINE c == [what |-> what, of |-> form.of, body |-> body, typed |-> typed, seen |-> seen,
                 mounted |-> TRUE, at |-> "sent", row |-> Nothing]
<1>1. /\ UNCHANGED <<entity, records, form>> /\ mail' = mail \cup {c}
      /\ spent' = [spent EXCEPT !.calls = @ + 1]
  BY DEF Calls
<1>2. spent' \in [calls : Nat, others : Nat] /\ spent'.calls = spent.calls + 1
  BY <1>1 DEF FormsIndInv
<1>3. StockOK' /\ SameTable
  BY <1>1, SameRows
<1>4. FormOK'
  BY <1>1, <1>3, SameForm DEF FormsIndInv, FormOK, FormFits
<1>5. /\ DOMAIN c = CallField /\ c.what = what /\ c.of = form.of /\ c.body = body
      /\ c.typed = typed /\ c.seen = seen /\ c.at = "sent"
  BY DEF CallField
<1> HIDE DEF c
<1>6. CallFits(c)
  BY <1>5 DEF CallFits, SendsWhatWasTyped
<1>7. \A d \in mail' : d.what \in {"save", "create", "status"} /\ CallFits(d)'
  BY <1>1, <1>3, <1>5, <1>6, CallKept DEF FormsIndInv, MailOK
<1>8. IsFiniteSet(mail') /\ Cardinality(mail') <= spent'.calls
  <2>1. IsFiniteSet(mail) /\ Cardinality(mail) <= spent.calls /\ spent.calls \in Nat
    BY DEF FormsIndInv, MailOK
  <2>2. /\ IsFiniteSet(mail \cup {c}) /\ Cardinality(mail \cup {c}) \in Nat
        /\ Cardinality(mail \cup {c}) <= Cardinality(mail) + 1 /\ Cardinality(mail) \in Nat
    BY <2>1, AtMostOneMore, FS_CardinalityType
  <2>3. QED
    BY <1>1, <1>2, <2>1, <2>2
<1>9. QED
  BY <1>1, <1>2, <1>3, <1>4, <1>7, <1>8, RowsAlone, FormAlone
     DEF Proceeds, FormsIndInv, FormsStep, MailOK

\* What is sent of a form, and of what in it was not typed.
LEMMA PatchFits ==
    ASSUME FormConstants, FormsIndInv, form.at = "ready"
    PROVE  /\ BodyFits(Patch)
           /\ form.of # 0 => \A f \in Field \ form.typed :
                 IF entity = "job" THEN f \notin DOMAIN Patch
                 ELSE f \in DOMAIN Patch /\ Brings(Patch, f) = form.seen[f]
<1> DEFINE text == form.text
           all == Wire(text)
<1>1. text.name \in Name /\ text.mark \in {Nothing, 1, 2}
  BY DEF FormsIndInv, FormOK, FormTypes, Text
<1>2. /\ DOMAIN all = Field /\ all.name = text.name
      /\ all.mark = IF text.mark = Nothing THEN Nothing ELSE Instant(text.mark)
  BY DEF Wire, Field
<1>3. all.mark \in {Nothing} \cup [minute : {1, 2}, second : {0}]
  BY <1>1, <1>2 DEF Instant
<1> HIDE DEF all
<1>4. \A f \in DOMAIN Patch : f \in Field /\ Patch[f] = all[f]
  BY <1>2 DEF Patch, all
<1>5. BodyFits(Patch)
  BY <1>1, <1>2, <1>3, <1>4 DEF BodyFits
<1>6. ASSUME form.of # 0, NEW f \in Field \ form.typed, entity = "job"
      PROVE  f \notin DOMAIN Patch
  <2>1. ~Differs(f)
    BY <1>6 DEF FormsIndInv, FormOK, UntypedAsFilled, Differs
  <2>2. DOMAIN Patch = {g \in Field : Differs(g)}
    BY <1>6 DEF Patch
  <2>3. QED
    BY <2>1, <2>2
<1>7. ASSUME form.of # 0, NEW f \in Field \ form.typed, entity # "job"
      PROVE  f \in DOMAIN Patch /\ Brings(Patch, f) = form.seen[f]
  <2>1. Patch = all
    BY <1>7 DEF Patch, all
  <2>2. form.seen.name \in SmoothName /\ form.seen.mark \in StoredMark
    BY <1>7 DEF FormsIndInv, FormOK, FormFits
  <2>3. text[f] = ToText(form.seen)[f]
    BY <1>7 DEF FormsIndInv, FormOK, UntypedAsFilled
  <2>4. CASE f = "name"
    <3>1. text.name = form.seen.name
      BY <2>3, <2>4 DEF ToText
    <3>2. QED
      BY <1>2, <2>1, <2>2, <2>4, <3>1, Spellings DEF Brings
  <2>5. CASE f = "mark"
    <3>1. text.mark = IF form.seen.mark = Nothing THEN Nothing ELSE form.seen.mark.minute
      BY <2>3, <2>5 DEF ToText
    <3>2. form.seen.mark # Nothing => form.seen.mark \in [minute : {1, 2}, second : {0}]
      BY <1>7, <2>2 DEF StoredMark
    <3>3. all.mark = form.seen.mark
      <4>1. CASE form.seen.mark = Nothing
        BY <1>2, <3>1, <4>1
      <4>2. CASE form.seen.mark # Nothing
        <5>1. form.seen.mark.minute \in {1, 2} /\ text.mark = form.seen.mark.minute
          BY <3>1, <3>2, <4>2
        <5>2. all.mark = Instant(form.seen.mark.minute)
          BY <1>2, <5>1 DEF FormConstants
        <5>3. QED
          BY <3>2, <4>2, <5>2 DEF Instant
      <4>3. QED
        BY <4>1, <4>2
    <3>4. QED
      BY <1>2, <2>1, <2>5, <3>3 DEF Brings, Field
  <2>6. QED
    BY <2>4, <2>5 DEF Field
<1>8. QED
  BY <1>5, <1>6, <1>7

LEMMA SubmitStep ==
    ASSUME FormConstants, FormsIndInv, Submit PROVE Proceeds
<1>1. form.at = "ready"
  BY DEF Submit, Offered
<1>2. CASE form.of = 0
  <2>1. Calls("create", Patch, {}, Nothing)
    BY <1>2 DEF Submit
  <2>2. QED
    BY <1>1, <2>1, PatchFits, CallsFit
<1>3. CASE form.of # 0
  <2>1. Calls("save", Patch, form.typed, form.seen)
    BY <1>3 DEF Submit
  <2>2. Exists(form.of)
    BY <1>3 DEF FormsIndInv, FormOK, FormFits
  <2>3. QED
    BY <1>1, <1>3, <2>1, <2>2, PatchFits, CallsFit
<1>4. QED
  BY <1>2, <1>3

LEMMA ConfirmStatusStep ==
    ASSUME FormsIndInv, ConfirmStatus PROVE Proceeds
<1>1. /\ Calls("status", [live |-> ~form.live], {}, Nothing) /\ ~Ends /\ form.of # 0
      /\ [live |-> ~form.live].live \in BOOLEAN
  BY DEF ConfirmStatus, HasStatus
<1>2. Exists(form.of)
  BY <1>1 DEF FormsIndInv, FormOK, FormFits
<1>3. QED
  BY <1>1, <1>2, CallsFit

LEMMA SavedStep ==
    ASSUME FormConstants, FormsIndInv, NEW c \in mail, Saved(c) PROVE Proceeds
<1>1. /\ c.at = "ok" /\ c.what = "save" /\ UNCHANGED <<entity, records, spent>>
      /\ CallFits(c)
  BY DEF Saved, FormsIndInv, MailOK
<1>2. Exists(c.of) /\ c.of \in Id /\ c.row \in Stocked
  BY <1>1 DEF CallFits, Exists
<1>3. StockOK' /\ SameTable /\ Exists(c.of)'
  BY <1>1, <1>2, SameRows DEF SameTable
<1>4. CASE entity = "job"
  <2>1. MailOK'
    BY <1>1, <1>3, <1>4, LeftFits DEF Saved
  <2>2. QED
    BY <1>1, <1>2, <1>4, <2>1, TurnsTo DEF Saved
<1>5. CASE entity # "job"
  <2>1. form' = Filled(c.of, c.row) /\ mail' = mail \ {c}
    BY <1>5 DEF Saved, TakenNotice
  <2>2. MailOK' /\ FormOK'
    BY <1>1, <1>2, <1>3, <2>1, NoticeFits, FilledFits
  <2>3. TypedStays
    BY <1>1, <2>1 DEF TypedStays
  <2>4. QED
    BY <1>1, <1>3, <2>2, <2>3, RowsAlone DEF Proceeds, FormsIndInv, FormsStep
<1>6. QED
  BY <1>4, <1>5

LEMMA CreatedStep ==
    ASSUME FormConstants, FormsIndInv, NEW c \in mail, Created(c) PROVE Proceeds
<1>1. /\ c.at = "ok" /\ UNCHANGED <<entity, records, spent>> /\ CallFits(c)
      /\ form' = Loading(c.of) /\ Unmounted(mail \ {c})
  BY DEF Created, FormsIndInv, MailOK
<1>2. MailOK'
  BY <1>1, SameRows, LeftFits
<1>3. QED
  BY <1>1, <1>2, TurnsTo DEF CallFits

LEMMA StatusChangedStep ==
    ASSUME FormsIndInv, NEW c \in mail, StatusChanged(c) PROVE Proceeds
<1>1. UNCHANGED <<entity, records, spent>> /\ mail' = mail \ {c} /\ form' = KeepsForm(c)
  BY DEF StatusChanged, TakenNotice
<1>2. StockOK' /\ SameTable
  BY <1>1, SameRows
<1>3. MailOK'
  BY <1>1, <1>2, NoticeFits
<1>4. /\ DOMAIN form' = FormField /\ form'.of = form.of /\ form'.at = form.at
      /\ form'.seen = form.seen /\ form'.text = form.text /\ form'.typed = form.typed
  BY <1>1 DEF KeepsForm, FormsIndInv, FormOK, FormFits, FormField
<1>5. FormOK' /\ TypedStays
  BY <1>2, <1>4, SameForm DEF TypedStays
<1>6. QED
  BY <1>1, <1>2, <1>3, <1>5, RowsAlone DEF Proceeds, FormsIndInv, FormsStep

LEMMA FailedStep ==
    ASSUME FormsIndInv, NEW c \in mail, Failed(c) PROVE Proceeds
<1>1. UNCHANGED <<entity, records, form, spent>> /\ mail' = mail \ {c}
  BY DEF Failed, TakenNotice
<1>2. StockOK' /\ SameTable
  BY <1>1, SameRows
<1>3. MailOK' /\ FormOK'
  BY <1>1, <1>2, NoticeFits, SameForm DEF FormsIndInv, FormOK, FormFits
<1>4. QED
  BY <1>1, <1>2, <1>3, RowsAlone, FormAlone DEF Proceeds, FormsIndInv, FormsStep

LEMMA StaleStep ==
    ASSUME FormConstants, FormsIndInv, NEW c \in mail, Stale(c) PROVE Proceeds
<1>1. /\ c.at = "stale" /\ UNCHANGED <<entity, records, spent>> /\ CallFits(c)
      /\ form' = Loading(c.of) /\ mail' = mail \ {c}
  BY DEF Stale, TakenNotice, FormsIndInv, MailOK
<1>2. MailOK'
  BY <1>1, SameRows, NoticeFits
<1>3. QED
  BY <1>1, <1>2, TurnsTo DEF CallFits

LEMMA FormsStart == ASSUME FormConstants, FormsInit PROVE FormsIndInv
<1>1. form = Loading(1) /\ mail = {} /\ spent = [calls |-> 0, others |-> 0]
  BY DEF FormsInit
<1>2. PICK r \in Stocked :
          records = [i \in Id |-> IF i = 1 THEN r ELSE Nothing] /\ r # Nothing
  <2>1. DEFINE r == Named(1, IF entity = "job" THEN [minute |-> 1, second |-> 1] ELSE Nothing)
  <2>2. r \in Stocked
    BY DEF Named, Stocked, SmoothName, StoredMark, FormConstants
  <2>3. Stocked \subseteq [name : SmoothName, live : BOOLEAN,
                          mark : {Nothing} \cup [minute : {1, 2}, second : {0, 1}]]
    BY DEF Stocked, StoredMark
  <2>4. r # Nothing
    BY <2>2, <2>3 DEF FormConstants
  <2>5. QED
    BY <2>2, <2>4 DEF FormsInit
<1>3. StockOK /\ Exists(1)
  BY <1>2 DEF StockOK, StockHolds, OnePlateEach, Exists, Id
<1>4. FormOK
  <2>1. Blank \in Text
    BY DEF Blank, Text, Name, FormConstants
  <2>2. /\ DOMAIN form = FormField /\ form.of = 1 /\ form.at = "loading"
        /\ form.text = Blank /\ form.typed = {}
    BY <1>1 DEF Loading, FormField
  <2>3. QED
    BY <1>3, <2>1, <2>2 DEF FormOK, FormTypes, FormFits, UntypedAsFilled, Id
<1>5. MailOK
  BY <1>1, FS_EmptySet DEF MailOK
<1>6. QED
  BY <1>1, <1>3, <1>4, <1>5 DEF FormsIndInv

LEMMA FormsMove ==
    ASSUME FormConstants, FormsIndInv, FormsNext PROVE Proceeds
  BY UpdatesStep, CreatesStep, ChangesStatusStep, ElsewhereStep, RefusesStep, VisitStep,
     LoadsStep, ListReloadsStep, TypesStep, SubmitStep, ConfirmStatusStep, SavedStep,
     CreatedStep,
     StatusChangedStep, FailedStep, StaleStep
     DEF FormsNext

LEMMA FormsRest ==
    ASSUME FormsIndInv, UNCHANGED formVars PROVE Proceeds
<1>1. UNCHANGED <<entity, records, form, mail, spent>>
  BY DEF formVars
<1>2. StockOK' /\ SameTable
  BY <1>1, SameRows
<1>3. MailOK' /\ FormOK'
  BY <1>1, <1>2, SameMail, SameForm DEF FormsIndInv, FormOK, FormFits
<1>4. QED
  BY <1>1, <1>2, <1>3, RowsAlone, FormAlone DEF Proceeds, FormsIndInv, FormsStep

LEMMA FormsInductive ==
    ASSUME FormConstants PROVE FormsSpec => []FormsIndInv
<1>1. FormsInit => FormsIndInv
  BY FormsStart
<1>2. FormsIndInv /\ [FormsNext]_formVars => FormsIndInv'
  BY FormsMove, FormsRest DEF Proceeds
<1>3. QED
  BY <1>1, <1>2, PTL DEF FormsSpec

\* No two vehicles share a plate, and a form holds what it was filled with wherever its
\* admin has not typed, whatever calls are under way.
THEOREM FormsInvariant ==
    ASSUME FormConstants PROVE FormsSpec => []FormsInv
  BY FormsHold, FormsInductive, PTL

\* A save writes what was typed, or puts back what the form was filled with; what is over
\* is not edited; what was typed is replaced only by the answer to its save.
THEOREM FormsTakeNothingBack ==
    ASSUME FormConstants PROVE FormsSpec => FormsKeep
<1>1. FormsIndInv /\ [FormsNext]_formVars => FormsStep
  BY FormsMove, FormsRest DEF Proceeds
<1>2. FormsIndInv /\ [FormsNext]_formVars => [FormsStep]_formVars
  BY <1>1
<1>3. QED
  BY <1>2, FormsInductive, PTL DEF FormsSpec, FormsKeep
=============================================================================
