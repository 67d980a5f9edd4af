-------------------------- MODULE RefreshSessions --------------------------
(***************************************************************************)
(* RefreshSessionService and its callers (AuthService, UsersService and    *)
(* DriversService), as PostgreSQL runs them: one READ COMMITTED            *)
(* transaction per request, one step per statement that locks or reads     *)
(* what a later statement relies on; the last step commits.                *)
(*                                                                         *)
(* A revocation of many rows is one UPDATE: it picks its rows from the     *)
(* snapshot taken when it starts, waits for those that are locked, and     *)
(* tests each again once it has it.  A row inserted meanwhile is not among *)
(* them.                                                                   *)
(***************************************************************************)
EXTENDS Naturals, FiniteSets

CONSTANTS
    User, Driver,       \* logins and operational drivers
    Session, Family,    \* ids of rows and families; the rows bound the run
    Request,
    None

ASSUME FamilyStates == {"unborn", "ended"} \cap Session = {}
ASSUME NoneAssumption == None \notin User \cup Driver \cup Session \cup Family \cup Request

VARIABLES
    session,            \* the committed refresh_sessions rows
    lapsed,             \* rows past their own or their family's expiry
    enabled,            \* users.is_active
    driver,             \* the committed drivers rows
    sessionLock, driverLock,
    req

rows == <<session, lapsed, enabled, driver>>
locks == <<sessionLock, driverLock>>
vars == <<rows, locks, req>>

BulkReason == {"LOGOUT_ALL", "DEACTIVATED", "PASSWORD_RESET"}
RevocationReason == BulkReason \cup {"ROTATED", "LOGOUT", "REUSE_DETECTED"}

ASSUME ReasonAssumption == None \notin RevocationReason

SessionRow == [status : {"ABSENT", "ACTIVE"} \cup RevocationReason,
               family : Family \cup {None}, user : User \cup {None}]
DriverRow == [status : {"ACTIVE", "INACTIVE"}, user : User \cup {None}]

\* A request: its next statement, the token or driver it is about, and for a
\* revocation of many rows the reason, its scope and the rows it picked.
RequestState ==
    [at : {"idle", "login.insert", "rotate.user", "rotate.insert", "rotate.classify",
           "revoke.begin", "revoke.finish"},
     session : Session \cup {None}, driver : Driver \cup {None},
     user : User \cup {None}, family : Family \cup {None},
     reason : RevocationReason \cup {None}, picked : SUBSET Session]

Idle == [at |-> "idle", session |-> None, driver |-> None, user |-> None,
         family |-> None, reason |-> None, picked |-> {}]

Init ==
    /\ session = [s \in Session |-> [status |-> "ABSENT", family |-> None, user |-> None]]
    /\ lapsed = {}
    /\ enabled = [u \in User |-> TRUE]
    /\ driver = [d \in Driver |-> [status |-> "ACTIVE", user |-> None]]
    /\ sessionLock = [s \in Session |-> None]
    /\ driverLock = [d \in Driver |-> None]
    /\ req = [p \in Request |-> Idle]
-----------------------------------------------------------------------------
Lockable(lock, p, x) == lock[x] \in {p, None}
Unlock(lock, p) == [x \in DOMAIN lock |-> IF lock[x] = p THEN None ELSE lock[x]]

\* Variant: the session row stays locked when the transaction ends.
AnswerKeepingSession(p) ==
    /\ driverLock' = Unlock(driverLock, p)
    /\ req' = [req EXCEPT ![p] = Idle]
    /\ UNCHANGED sessionLock

Answer(p) ==
    /\ sessionLock' = Unlock(sessionLock, p)
    /\ driverLock' = Unlock(driverLock, p)
    /\ req' = [req EXCEPT ![p] = Idle]

Refuse(p) == Answer(p) /\ UNCHANGED rows

\* A transaction that fails half-way.
Rollback(p) == req[p].at # "idle" /\ Refuse(p)

Fresh(s) == session[s].status = "ABSENT"
NewFamily(f) == \A s \in Session : session[s].family # f
Exhausted == \A s \in Session : ~Fresh(s)    \* bound

Row(status, f, u) == [status |-> status, family |-> f, user |-> u]
-----------------------------------------------------------------------------
(* Login: the user is read, and the password verified, before the          *)
(* transaction that inserts the session.                                   *)

Login(p, u) ==
    /\ req[p].at = "idle" /\ enabled[u]
    /\ req' = [req EXCEPT ![p] = [Idle EXCEPT !.at = "login.insert", !.user = u]]
    /\ UNCHANGED <<rows, locks>>

LoginInsert(p) ==
    /\ req[p].at = "login.insert"
    /\ \/ \E s \in Session, f \in Family :
             /\ Fresh(s) /\ NewFamily(f)
             /\ session' = [session EXCEPT ![s] = Row("ACTIVE", f, req[p].user)]
             /\ UNCHANGED <<lapsed, enabled, driver>>
             /\ Answer(p)
       \/ /\ Exhausted \/ \A f \in Family : ~NewFamily(f)    \* bound
          /\ Refuse(p)
-----------------------------------------------------------------------------
(* Rotation. *)

\* The WHERE clause of the claim: the token refreshes.
Usable(s) == session[s].status = "ACTIVE" /\ s \notin lapsed

\* Variant: the token is read, not claimed.
RefreshUnclaimed(p, s) ==
    /\ req[p].at = "idle" /\ ~Fresh(s)
    /\ req' = [req EXCEPT ![p] =
                 [Idle EXCEPT !.at = IF Usable(s) THEN "rotate.user" ELSE "rotate.classify",
                              !.session = s, !.family = session[s].family,
                              !.user = session[s].user]]
    /\ UNCHANGED <<rows, locks>>

\* The claim: the row is locked and, once the transaction commits, revoked.
Refresh(p, s) ==
    /\ req[p].at = "idle" /\ ~Fresh(s)
    /\ Usable(s) => Lockable(sessionLock, p, s)
    /\ req' = [req EXCEPT ![p] =
                 [Idle EXCEPT !.at = IF Usable(s) THEN "rotate.user" ELSE "rotate.classify",
                              !.session = s, !.family = session[s].family,
                              !.user = session[s].user]]
    /\ sessionLock' = IF Usable(s) THEN [sessionLock EXCEPT ![s] = p] ELSE sessionLock
    /\ UNCHANGED <<rows, driverLock>>

\* An inactive user's family is revoked, and the refresh denied, in the same
\* transaction.
RotateUser(p) ==
    /\ req[p].at = "rotate.user"
    /\ req' = [req EXCEPT ![p].at = IF enabled[req[p].user] THEN "rotate.insert"
                                                             ELSE "revoke.begin",
                          ![p].reason = IF enabled[req[p].user] THEN None
                                                                 ELSE "DEACTIVATED"]
    /\ UNCHANGED <<rows, locks>>

\* Variant: the claimed row is left active.
RotateInsertOnly(p) ==
    /\ req[p].at = "rotate.insert"
    /\ \/ \E s \in Session :
             /\ Fresh(s)
             /\ session' = [session EXCEPT ![s] = Row("ACTIVE", req[p].family, req[p].user)]
             /\ UNCHANGED <<lapsed, enabled, driver>>
             /\ Answer(p)
       \/ Exhausted /\ Refuse(p)

RotateInsert(p) ==
    /\ req[p].at = "rotate.insert"
    /\ \/ \E s \in Session :
             /\ Fresh(s)
             /\ session' = [session EXCEPT
                              ![req[p].session].status = "ROTATED",
                              ![s] = Row("ACTIVE", req[p].family, req[p].user)]
             /\ UNCHANGED <<lapsed, enabled, driver>>
             /\ Answer(p)
       \/ Exhausted /\ Refuse(p)    \* bound

\* Variant: the incident is read, not claimed.
ClassifyUnclaimed(p) ==
    /\ req[p].at = "rotate.classify"
    /\ IF session[req[p].session].status = "ROTATED"
       THEN /\ req' = [req EXCEPT ![p].at = "revoke.begin", ![p].reason = "REUSE_DETECTED"]
            /\ UNCHANGED <<rows, locks>>
       ELSE Refuse(p)

\* The claim matched nothing: only a token that was rotated away is treated
\* as reuse, and only the request that claims the incident revokes the family.
Classify(p) ==
    LET s == req[p].session IN
    /\ req[p].at = "rotate.classify"
    /\ IF session[s].status = "ROTATED"
       THEN /\ Lockable(sessionLock, p, s)
            /\ sessionLock' = [sessionLock EXCEPT ![s] = p]
            /\ req' = [req EXCEPT ![p].at = "revoke.begin", ![p].reason = "REUSE_DETECTED"]
            /\ UNCHANGED <<rows, driverLock>>
       ELSE Refuse(p)
-----------------------------------------------------------------------------
(* Revoking many sessions, of one family or of one user. *)

\* The rows the UPDATE picks: active in its snapshot.
Picked(r) ==
    {s \in Session :
        /\ session[s].status = "ACTIVE" /\ s # r.session
        /\ IF r.family # None THEN session[s].family = r.family
                              ELSE session[s].user = r.user}

RevokeBegin(p) ==
    /\ req[p].at = "revoke.begin"
    /\ req' = [req EXCEPT ![p].at = "revoke.finish", ![p].picked = Picked(req[p])]
    /\ UNCHANGED <<rows, locks>>

\* Variant: a picked row is overwritten whatever became of it.
RevokedUnchecked(r) ==
    [s \in Session |->
        IF s = r.session \/ s \in r.picked
        THEN [session[s] EXCEPT !.status = r.reason]
        ELSE session[s]]

\* The rows once the transaction commits: its own token, and those picked
\* that are still active.
Revoked(r) ==
    [s \in Session |->
        IF s = r.session \/ (s \in r.picked /\ session[s].status = "ACTIVE")
        THEN [session[s] EXCEPT !.status = r.reason]
        ELSE session[s]]

RevokeFinish(p) ==
    LET r == req[p] IN
    /\ r.at = "revoke.finish"
    /\ \A s \in r.picked : Lockable(sessionLock, p, s)
    /\ session' = Revoked(r)
    /\ driver' = IF r.driver = None THEN driver
                                    ELSE [driver EXCEPT ![r.driver].status = "INACTIVE"]
    /\ UNCHANGED <<lapsed, enabled>>
    /\ Answer(p)

\* revokeAllForUser as the first statement of a transaction that touches
\* sessions.
RevokeAllForUser(p, u, reason) ==
    LET r == [Idle EXCEPT !.at = "revoke.finish", !.user = u, !.reason = reason]
    IN  /\ req[p].at = "idle"
        /\ req' = [req EXCEPT ![p] = [r EXCEPT !.picked = Picked(r)]]
        /\ UNCHANGED <<rows, locks>>

LogoutAll(p, u) == RevokeAllForUser(p, u, "LOGOUT_ALL")
ResetPassword(p, u) == RevokeAllForUser(p, u, "PASSWORD_RESET")

\* Deactivating a driver claims its row first; the link the claim returned
\* decides whose sessions go.
Deactivate(p, d) ==
    /\ req[p].at = "idle"
    /\ driver[d].status = "ACTIVE" /\ Lockable(driverLock, p, d)
    /\ IF driver[d].user = None
       THEN /\ driver' = [driver EXCEPT ![d].status = "INACTIVE"]
            /\ UNCHANGED <<session, lapsed, enabled, locks, req>>
       ELSE /\ driverLock' = [driverLock EXCEPT ![d] = p]
            /\ req' = [req EXCEPT ![p] = [Idle EXCEPT !.at = "revoke.begin", !.driver = d,
                                            !.user = driver[d].user, !.reason = "DEACTIVATED"]]
            /\ UNCHANGED <<rows, sessionLock>>
-----------------------------------------------------------------------------
(* Transactions of one claim. *)

Logout(s) ==
    /\ Usable(s) /\ sessionLock[s] = None
    /\ session' = [session EXCEPT ![s].status = "LOGOUT"]
    /\ UNCHANGED <<lapsed, enabled, driver, locks, req>>

Reactivate(d) ==
    /\ driver[d].status = "INACTIVE" /\ driverLock[d] = None
    /\ driver' = [driver EXCEPT ![d].status = "ACTIVE"]
    /\ UNCHANGED <<session, lapsed, enabled, locks, req>>

LinkUser(d, u) ==
    /\ driver[d].status = "ACTIVE" /\ driver[d].user = None /\ driverLock[d] = None
    /\ enabled[u]
    /\ \A other \in Driver : driver[other].user # u
    /\ driver' = [driver EXCEPT ![d].user = u]
    /\ UNCHANGED <<session, lapsed, enabled, locks, req>>

\* Unless a trip is running, which Fleet models; no session is touched.
UnlinkUser(d) ==
    /\ driver[d].user # None /\ driverLock[d] = None
    /\ driver' = [driver EXCEPT ![d].user = None]
    /\ UNCHANGED <<session, lapsed, enabled, locks, req>>

\* Time passes: 30 days without a refresh, or 90 days since the login.
Lapse(s) ==
    /\ ~Fresh(s) /\ s \notin lapsed
    /\ lapsed' = lapsed \cup {s}
    /\ UNCHANGED <<session, enabled, driver, locks, req>>

\* An operator clears users.is_active; no code here writes it.
DisableUser(u) ==
    /\ enabled[u]
    /\ enabled' = [enabled EXCEPT ![u] = FALSE]
    /\ UNCHANGED <<session, lapsed, driver, locks, req>>
-----------------------------------------------------------------------------
Arrive(p) ==
    \/ \E u \in User : Login(p, u) \/ LogoutAll(p, u) \/ ResetPassword(p, u)
    \/ \E s \in Session : Refresh(p, s)
    \/ \E d \in Driver : Deactivate(p, d)

Continue(p) ==
    \/ LoginInsert(p) \/ RotateUser(p) \/ RotateInsert(p) \/ Classify(p)
    \/ RevokeBegin(p) \/ RevokeFinish(p)

Claim ==
    \/ \E s \in Session : Logout(s) \/ Lapse(s)
    \/ \E d \in Driver : Reactivate(d) \/ UnlinkUser(d) \/ \E u \in User : LinkUser(d, u)
    \/ \E u \in User : DisableUser(u)

Next ==
    \/ \E p \in Request : Arrive(p) \/ Continue(p) \/ Rollback(p)
    \/ Claim

Spec == Init /\ [][Next]_vars
-----------------------------------------------------------------------------
TypeOK ==
    /\ session \in [Session -> SessionRow]
    /\ lapsed \subseteq Session
    /\ enabled \in [User -> BOOLEAN]
    /\ driver \in [Driver -> DriverRow]
    /\ sessionLock \in [Session -> Request \cup {None}]
    /\ driverLock \in [Driver -> Request \cup {None}]
    /\ req \in [Request -> RequestState]

Active(f) == {s \in Session : session[s].status = "ACTIVE" /\ session[s].family = f}

\* One token of a family refreshes at a time, however many requests present
\* the same one.
OneActivePerFamily == \A f \in Family : \A s1, s2 \in Active(f) : s1 = s2

\* What request p has claimed or picked so far is still so.
Holds(p) ==
    LET r == req[p] IN
    /\ r.at = "login.insert" => r.user \in User
    /\ r.at \in {"rotate.user", "rotate.insert", "rotate.classify"} \/ r.session # None
       => /\ r.session \in Session /\ ~Fresh(r.session)
          /\ r.family = session[r.session].family /\ r.user = session[r.session].user
          /\ r.driver = None
    /\ r.at \in {"rotate.user", "rotate.insert"}
       => sessionLock[r.session] = p /\ session[r.session].status = "ACTIVE"
    /\ r.at \in {"revoke.begin", "revoke.finish"}
       => /\ r.user \in User /\ r.reason \in BulkReason \cup {"REUSE_DETECTED"}
          /\ r.session = None => r.reason \in BulkReason /\ r.family = None
          /\ r.session # None => sessionLock[r.session] = p
          /\ r.session # None =>
                session[r.session].status = IF r.reason = "REUSE_DETECTED" THEN "ROTATED"
                                                                             ELSE "ACTIVE"
    /\ r.at \notin {"revoke.begin", "revoke.finish"}
       => r.reason = None /\ r.driver = None /\ r.picked = {}
    /\ r.driver # None => driverLock[r.driver] = p /\ driver[r.driver].status = "ACTIVE"
    /\ \A s \in r.picked : ~Fresh(s) /\ s # r.session

RowsFilled ==
    \A s \in Session :
        IF Fresh(s) THEN session[s].family = None
                    ELSE session[s].family \in Family /\ session[s].user \in User

\* Inductive: one active token per family, and every request can rely on what
\* it holds.
SessionsInv == TypeOK /\ RowsFilled /\ OneActivePerFamily /\ \A p \in Request : Holds(p)

\* The family as its holder sees it.
Current(f) ==
    IF NewFamily(f) THEN "unborn"
    ELSE IF Active(f) = {} THEN "ended"
    ELSE CHOOSE s \in Active(f) : TRUE

Families == INSTANCE SessionFamilies
    WITH current <- [f \in Family |-> Current(f)],
         issued <- {s \in Session : ~Fresh(s)},
         Unborn <- "unborn", Ended <- "ended"

\* However rotations, reuse detections, logouts and bulk revocations
\* interleave, a family is a chain of tokens, each exchanged at most once for
\* one never used before, and once it has ended nothing brings it back.
RefinesFamilies == Families!Spec

\* Why a token was revoked is never rewritten, but for the one change reuse
\* detection makes: a rotation that wins against a revocation of many rows
\* still leaves its old token marked as rotated, so presenting it again is
\* still recognised.
RevocationIsFinal ==
    [][\A s \in Session :
          session[s].status \in RevocationReason
          => session'[s].status \in {session[s].status}
                                    \cup (IF session[s].status = "ROTATED"
                                          THEN {"REUSE_DETECTED"} ELSE {})]_vars

\* Reuse is detected once per token, for a token that was rotated away and
\* for no other: a lapsed or intentionally revoked one is merely refused.
OneReusePerToken ==
    \A p, q \in Request :
        /\ req[p].reason = "REUSE_DETECTED"
        => /\ session[req[p].session].status = "ROTATED"
           /\ q # p /\ req[q].reason = "REUSE_DETECTED" => req[q].session # req[p].session

\* "Deactivation revokes the sessions of the userId that the successful claim
\* returned, so a driver can never end up INACTIVE with a linked login whose
\* sessions survived": no family that was alive when the deactivation picked
\* its rows is alive when it commits.
DeactivationLeavesNoSession ==
    [][\A p \in Request :
          RevokeFinish(p) /\ req[p].driver # None
          => \A s \in req[p].picked : \A x \in Session :
                session[x].family = session[s].family => session'[x].status # "ACTIVE"]_vars
=============================================================================
