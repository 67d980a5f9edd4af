------------------------------ MODULE Receipts ------------------------------
(***************************************************************************)
(* ReceiptsService, the object store the phone or browser uploads to, and  *)
(* what races with them: review of the expense and relinking of the        *)
(* driver's login.                                                         *)
(*                                                                         *)
(* Intent and confirmation each run in short transactions that lock        *)
(* DRIVER, then EXPENSE.  Signing and HEAD happen between transactions,    *)
(* with nothing locked, so everything may have changed when they return.   *)
(***************************************************************************)
EXTENDS Naturals, FiniteSets

CONSTANTS
    Expense, Driver, User, Request,
    Owner,         \* the driver of the trip each expense belongs to
    Declaration,   \* content types and byte sizes: [type, size]
    None

ASSUME OwnerAssumption == Owner \in [Expense -> Driver]
ASSUME NoneAssumption ==
    None \notin Expense \cup Driver \cup User \cup Request \cup Declaration
                \cup [declared : Declaration, confirmed : BOOLEAN]

VARIABLES
    expense, receipt, link,       \* committed: status, receipt row, drivers.user_id
    objectOf, held,               \* the store: the object under each key, and its history
    uploadable,                   \* upload authorizations that have not expired
    driverLock, expenseLock,
    req

rows == <<expense, receipt, link>>
store == <<objectOf, held>>
locks == <<driverLock, expenseLock>>
vars == <<rows, store, uploadable, locks, req>>

Rules == INSTANCE ReceiptRules

\* op is what the request does once it has locked the expense.
RequestState ==
    [at : {"idle", "lock.expense", "locked", "intent.sign", "confirm.head", "confirm.relock"},
     op : {"intent", "capture", "claim"},
     expense : Expense \cup {None},
     user : User \cup {None},        \* None: the scope is ADMIN
     driver : Driver \cup {None},
     declared : Declaration \cup {None}]

Idle == [at |-> "idle", op |-> "intent", expense |-> None, user |-> None,
         driver |-> None, declared |-> None]

Init ==
    /\ Rules!Init
    /\ link = [d \in Driver |-> None]
    /\ objectOf = [e \in Expense |-> None]
    /\ uploadable = {}
    /\ driverLock = [d \in Driver |-> None]
    /\ expenseLock = [e \in Expense |-> None]
    /\ req = [p \in Request |-> Idle]
-----------------------------------------------------------------------------
Lockable(lock, p, x) == lock[x] \in {p, None}
Unlock(lock, p) == [x \in DOMAIN lock |-> IF lock[x] = p THEN None ELSE lock[x]]

\* A transaction commits or rolls back.
Release(p) ==
    /\ driverLock' = Unlock(driverLock, p)
    /\ expenseLock' = Unlock(expenseLock, p)

Answer(p) == Release(p) /\ req' = [req EXCEPT ![p] = Idle]
Refuse(p) == Answer(p) /\ UNCHANGED <<rows, store, uploadable>>

\* A statement fails, or signing or HEAD does; the request is answered 5xx.
Fail(p) == req[p].at # "idle" /\ Refuse(p)
-----------------------------------------------------------------------------
(* lockScope: an admin locks the expense; a driver's request first locks   *)
(* the driver row its login is linked to.                                  *)

\* Variant: the driver is read without its lock.
OpenUnlocked(p, r) ==
    \E d \in Driver \cup {None} :
        /\ IF r.user = None THEN d = None ELSE d # None /\ link[d] = r.user
        /\ req' = [req EXCEPT ![p] = [r EXCEPT !.at = "lock.expense", !.driver = d]]
        /\ UNCHANGED <<rows, store, uploadable, locks>>

\* The request r of p opens a transaction.
Open(p, r) ==
    \/ /\ r.user = None
       /\ req' = [req EXCEPT ![p] = [r EXCEPT !.at = "lock.expense"]]
       /\ UNCHANGED <<rows, store, uploadable, locks>>
    \/ \E d \in Driver :
          /\ r.user # None /\ link[d] = r.user /\ Lockable(driverLock, p, d)
          /\ driverLock' = [driverLock EXCEPT ![d] = p]
          /\ req' = [req EXCEPT ![p] = [r EXCEPT !.at = "lock.expense", !.driver = d]]
          /\ UNCHANGED <<rows, store, uploadable, expenseLock>>

\* Another driver's expense is absent, and absent rows lock nothing.
LockExpense(p) ==
    LET r == req[p] IN
    /\ r.at = "lock.expense"
    /\ IF r.driver \notin {None, Owner[r.expense]}
       THEN Refuse(p)
       ELSE /\ Lockable(expenseLock, p, r.expense)
            /\ expenseLock' = [expenseLock EXCEPT ![r.expense] = p]
            /\ req' = [req EXCEPT ![p].at = "locked"]
            /\ UNCHANGED <<rows, store, uploadable, driverLock>>
-----------------------------------------------------------------------------
(* uploadIntent: the row is written and committed, then the authorization  *)
(* is signed.                                                              *)

Intent(p, u, e, d) ==
    /\ req[p].at = "idle"
    /\ Open(p, [Idle EXCEPT !.op = "intent", !.expense = e, !.user = u, !.declared = d])

IntentWrite(p) ==
    LET e == req[p].expense IN
    /\ req[p].at = "locked" /\ req[p].op = "intent"
    /\ IF expense[e] # "SUBMITTED" \/ (receipt[e] # None /\ receipt[e].confirmed)
       THEN Refuse(p)
       ELSE /\ receipt' = [receipt EXCEPT ![e] = [declared |-> req[p].declared,
                                                  confirmed |-> FALSE]]
            /\ Release(p)
            /\ req' = [req EXCEPT ![p].at = "intent.sign", ![p].driver = None]
            /\ UNCHANGED <<expense, link, store, uploadable>>

\* The policy binds the key, the exact type and an upper bound on the size.
IntentSign(p) ==
    /\ req[p].at = "intent.sign"
    /\ uploadable' = uploadable \cup {[expense |-> req[p].expense,
                                       declared |-> req[p].declared]}
    /\ Answer(p)
    /\ UNCHANGED <<rows, store>>
-----------------------------------------------------------------------------
(* confirmUpload: capture, HEAD, claim. *)

Confirm(p, u, e) ==
    /\ req[p].at = "idle"
    /\ Open(p, [Idle EXCEPT !.op = "capture", !.expense = e, !.user = u])

\* Nothing to confirm, already confirmed, or too late: answered at once.
ConfirmCapture(p) ==
    LET e == req[p].expense IN
    /\ req[p].at = "locked" /\ req[p].op = "capture"
    /\ IF ~Rules!Pending(e) \/ expense[e] # "SUBMITTED"
       THEN Refuse(p)
       ELSE /\ Release(p)
            /\ req' = [req EXCEPT ![p].at = "confirm.head", ![p].driver = None,
                                  ![p].declared = receipt[e].declared]
            /\ UNCHANGED <<rows, store, uploadable>>

ConfirmHead(p) ==
    /\ req[p].at = "confirm.head"
    /\ IF objectOf[req[p].expense] # req[p].declared    \* absent, or another size or type
       THEN Refuse(p)
       ELSE /\ req' = [req EXCEPT ![p].at = "confirm.relock"]
            /\ UNCHANGED <<rows, store, uploadable, locks>>

ConfirmRelock(p) ==
    /\ req[p].at = "confirm.relock"
    /\ \/ Open(p, [req[p] EXCEPT !.op = "claim"])
       \/ /\ req[p].user # None /\ \A d \in Driver : link[d] # req[p].user
          /\ Refuse(p)

\* Variant: the expense's status is not looked at again.
ClaimableReviewed(r) ==
    Rules!Pending(r.expense) /\ receipt[r.expense].declared = r.declared

\* The claim repeats the capture's checks and names the declaration that HEAD
\* verified.
Claimable(r) ==
    /\ Rules!Pending(r.expense) /\ expense[r.expense] = "SUBMITTED"
    /\ receipt[r.expense].declared = r.declared

ConfirmClaim(p) ==
    /\ req[p].at = "locked" /\ req[p].op = "claim"
    /\ IF ~Claimable(req[p])
       THEN Refuse(p)
       ELSE /\ receipt' = [receipt EXCEPT ![req[p].expense].confirmed = TRUE]
            /\ Answer(p)
            /\ UNCHANGED <<expense, link, store, uploadable>>
-----------------------------------------------------------------------------
(* Other services, and the world outside. *)

Review(e, decision) ==
    /\ expense[e] = "SUBMITTED" /\ expenseLock[e] = None
    /\ expense' = [expense EXCEPT ![e] = decision]
    /\ UNCHANGED <<receipt, link, store, uploadable, locks, req>>

LinkUser(d, u) ==
    /\ link[d] = None /\ driverLock[d] = None
    /\ \A other \in Driver : link[other] # u
    /\ link' = [link EXCEPT ![d] = u]
    /\ UNCHANGED <<expense, receipt, store, uploadable, locks, req>>

UnlinkUser(d) ==
    /\ link[d] # None /\ driverLock[d] = None
    /\ link' = [link EXCEPT ![d] = None]
    /\ UNCHANGED <<expense, receipt, store, uploadable, locks, req>>

\* Whoever holds an authorization uploads, as often as it likes: the signed
\* type, and at most the signed size.
Upload(a, object) ==
    /\ object.type = a.declared.type /\ object.size <= a.declared.size
    /\ objectOf' = [objectOf EXCEPT ![a.expense] = object]
    /\ held' = [held EXCEPT ![a.expense] = @ \cup {object}]
    /\ UNCHANGED <<rows, uploadable, locks, req>>

Expire(a) ==
    /\ uploadable' = uploadable \ {a}
    /\ UNCHANGED <<rows, store, locks, req>>
-----------------------------------------------------------------------------
Arrive(p) ==
    \E e \in Expense, u \in User \cup {None} :
        Confirm(p, u, e) \/ \E d \in Declaration : Intent(p, u, e, d)

Continue(p) ==
    \/ LockExpense(p)
    \/ IntentWrite(p) \/ IntentSign(p)
    \/ ConfirmCapture(p) \/ ConfirmHead(p) \/ ConfirmRelock(p) \/ ConfirmClaim(p)

Others ==
    \/ \E e \in Expense, decision \in {"APPROVED", "REJECTED"} : Review(e, decision)
    \/ \E d \in Driver : UnlinkUser(d) \/ \E u \in User : LinkUser(d, u)
    \/ \E a \in uploadable : Expire(a) \/ \E object \in Declaration : Upload(a, object)

Next == (\E p \in Request : Arrive(p) \/ Continue(p) \/ Fail(p)) \/ Others

Spec == Init /\ [][Next]_vars
-----------------------------------------------------------------------------
TypeOK ==
    /\ Rules!TypeOK
    /\ link \in [Driver -> User \cup {None}]
    /\ objectOf \in [Expense -> Declaration \cup {None}]
    /\ uploadable \subseteq [expense : Expense, declared : Declaration]
    /\ driverLock \in [Driver -> Request \cup {None}]
    /\ expenseLock \in [Expense -> Request \cup {None}]
    /\ req \in [Request -> RequestState]

\* What request p can rely on between two steps.
Holds(p) ==
    LET r == req[p] IN
    /\ r.at # "idle" => r.expense \in Expense
    /\ r.at = "locked" =>
          /\ expenseLock[r.expense] = p
          /\ r.driver \in {None, Owner[r.expense]}
    /\ r.at \in {"lock.expense", "locked"} =>
          /\ r.driver = None <=> r.user = None
          /\ r.user # None => link[r.driver] = r.user /\ driverLock[r.driver] = p
    /\ r.at \in {"intent.sign", "confirm.head", "confirm.relock"} \/ r.op = "claim"
       => r.declared \in Declaration
    /\ r.at \in {"lock.expense", "locked"} /\ r.op = "intent" => r.declared \in Declaration
    /\ r.at = "confirm.relock" \/ r.op = "claim" => r.declared \in held[r.expense]
    /\ r.at \in {"intent.sign", "confirm.head", "confirm.relock"}
       => r.op # "claim" /\ r.driver = None
    /\ r.at = "idle" => r.op = "intent"

\* Inductive: what is stored was held, a confirmed receipt was verified, and
\* every request can rely on what it holds.
ReceiptsInv ==
    /\ TypeOK
    /\ \A e \in Expense : objectOf[e] # None => objectOf[e] \in held[e]
    /\ Rules!ConfirmedWasHeld
    /\ \A p \in Request : Holds(p)

\* However intents, confirmations, reviews and uploads interleave around the
\* unlocked HEAD, what happens to receipts is what the rules allow: nothing
\* changes once confirmed or reviewed.
RefinesReceiptRules == Rules!Spec

\* A confirmed receipt describes an object the store really held: a reissue
\* during HEAD cannot slip another declaration under the confirmation.
ConfirmedWasHeld == Rules!ConfirmedWasHeld

\* "A write can never commit on behalf of a login whose driver link has just
\* been removed": a driver's request writes only while its login is linked to
\* the driver whose expense it is.
WriterIsLinked ==
    [][\A p \in Request :
          receipt' # receipt /\ (IntentWrite(p) \/ ConfirmClaim(p)) /\ req[p].user # None
          => link[Owner[req[p].expense]] = req[p].user]_vars

\* A confirmed receipt "never receives another upload authorization".
NoAuthorizationOnceConfirmed ==
    [][\A p \in Request :
          IntentSign(p) => Rules!Pending(req[p].expense)]_vars
=============================================================================
