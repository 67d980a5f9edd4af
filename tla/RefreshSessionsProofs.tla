------------------------ MODULE RefreshSessionsProofs -----------------------
(* RefreshSessions implements SessionFamilies, for every number of requests, *)
(* users, drivers and sessions.                                              *)
EXTENDS RefreshSessions, TLAPS

USE NoneAssumption

USE DEF SessionsInv, TypeOK, SessionRow, DriverRow, RevocationReason, BulkReason,
        rows, locks, Lockable, Fresh

\* The program starts without sessions.
LEMMA SessionsInit == Init => SessionsInv
  BY DEF Init, RowsFilled, OneActivePerFamily, Active, Holds, Idle, RequestState

\* A step of somebody else that leaves request q what it relies on.
Keeps(q) ==
    /\ req'[q] = req[q]
    /\ \A s \in Session : sessionLock[s] = q /\ ~Fresh(s)
                          => sessionLock'[s] = q /\ session'[s] = session[s]
    /\ \A d \in Driver : driverLock[d] = q => driverLock'[d] = q /\ driver'[d] = driver[d]
    /\ \A s \in Session : ~Fresh(s) => /\ session'[s].status # "ABSENT"
                                       /\ session'[s].family = session[s].family
                                       /\ session'[s].user = session[s].user

\* Such a step leaves what q relies on true.
LEMMA KeepsHolds == ASSUME NEW q \in Request, TypeOK, Holds(q), Keeps(q) PROVE Holds(q)'
<1> DEFINE r == req[q]
<1>1. /\ r.session \in Session \cup {None} /\ r.driver \in Driver \cup {None}
      /\ r.picked \subseteq Session /\ req'[q] = r
  BY DEF RequestState, Keeps
<1>2. r.session # None => /\ r.session \in Session /\ session'[r.session].status # "ABSENT"
                          /\ session'[r.session].family = session[r.session].family
                          /\ session'[r.session].user = session[r.session].user
  BY <1>1 DEF Holds, Keeps
<1>3. \/ r.at \in {"rotate.user", "rotate.insert"}
      \/ r.at \in {"revoke.begin", "revoke.finish"} /\ r.session # None
      => sessionLock'[r.session] = q /\ session'[r.session] = session[r.session]
  BY <1>1 DEF Holds, Keeps
<1>4. r.driver # None => driverLock'[r.driver] = q /\ driver'[r.driver] = driver[r.driver]
  BY <1>1 DEF Holds, Keeps
<1>5. \A s \in r.picked : session'[s].status # "ABSENT"
  BY <1>1 DEF Holds, Keeps
<1>6. QED
  BY <1>1, <1>2, <1>3, <1>4, <1>5 DEF Holds

Typed ==
    /\ sessionLock \in [Session -> Request \cup {None}]
    /\ driverLock \in [Driver -> Request \cup {None}]
    /\ req \in [Request -> RequestState]

\* Request p takes a step that keeps what everybody relies on.
Safe(p) == Typed' /\ Holds(p)' /\ \A q \in Request \ {p} : Keeps(q)

\* Rows are inserted and revoked, and never otherwise rewritten.
RowsKeep ==
    \A s \in Session : ~Fresh(s) => /\ session'[s].status # "ABSENT"
                                    /\ session'[s].family = session[s].family
                                    /\ session'[s].user = session[s].user

\* A request that is answered relies on nothing, and takes no lock from others.
LEMMA AnswerKeeps ==
    ASSUME SessionsInv, NEW p \in Request, Answer(p), RowsKeep,
           \A s \in Session : sessionLock[s] \notin {p, None} /\ ~Fresh(s) => session'[s] = session[s],
           \A d \in Driver : driverLock[d] \notin {p, None} => driver'[d] = driver[d]
    PROVE  Safe(p)
<1>1. req' = [req EXCEPT ![p] = Idle] /\ Idle \in RequestState
  BY DEF Answer, RequestState, Idle
<1>2. Holds(p)'
  BY <1>1 DEF Holds, Idle
<1>3. Typed'
  BY <1>1 DEF Typed, Answer, Unlock
<1>4. \A q \in Request \ {p} : Keeps(q)
  BY <1>1 DEF Keeps, Answer, Unlock, RowsKeep
<1>5. QED
  BY <1>2, <1>3, <1>4 DEF Safe

\* Nor does a request that is refused, or rolls back, disturb the others.
LEMMA RefuseKeeps == ASSUME SessionsInv, NEW p \in Request, Refuse(p) PROVE Safe(p)
  BY AnswerKeeps DEF Refuse, RowsKeep

\* What a statement leaves in a request's state is of its type.
LEMMA StatesTyped ==
    ASSUME NEW r \in RequestState
    PROVE  /\ [r EXCEPT !.at = "rotate.insert", !.reason = None] \in RequestState
           /\ \A reason \in RevocationReason :
                 [r EXCEPT !.at = "revoke.begin", !.reason = reason] \in RequestState
           /\ \A S \in SUBSET Session :
                 [r EXCEPT !.at = "revoke.finish", !.picked = S] \in RequestState
<1>1. [r EXCEPT !.at = "rotate.insert", !.reason = None] \in RequestState
  BY DEF RequestState
<1>2. ASSUME NEW reason \in RevocationReason
      PROVE  [r EXCEPT !.at = "revoke.begin", !.reason = reason] \in RequestState
  BY DEF RequestState
<1>3. ASSUME NEW S \in SUBSET Session
      PROVE  [r EXCEPT !.at = "revoke.finish", !.picked = S] \in RequestState
  BY DEF RequestState
<1>4. QED
  BY <1>1, <1>2, <1>3

\* A row stays one when its status becomes a reason of revocation.
LEMMA RowTyped ==
    ASSUME NEW row \in SessionRow, NEW reason \in RevocationReason
    PROVE  [row EXCEPT !.status = reason] \in SessionRow
  OBVIOUS

\* The next state of a request that keeps no lock but its own.
LEMMA StepKeeps ==
    ASSUME SessionsInv, NEW p \in Request, NEW r \in RequestState,
           req' = [req EXCEPT ![p] = r], UNCHANGED rows,
           \/ UNCHANGED sessionLock
           \/ \E s \in Session : /\ Lockable(sessionLock, p, s)
                                 /\ sessionLock' = [sessionLock EXCEPT ![s] = p],
           \/ UNCHANGED driverLock
           \/ \E d \in Driver : /\ Lockable(driverLock, p, d)
                                /\ driverLock' = [driverLock EXCEPT ![d] = p]
    PROVE  Typed' /\ req'[p] = r /\ \A q \in Request \ {p} : Keeps(q)
<1>1. req' \in [Request -> RequestState] /\ req'[p] = r
  OBVIOUS
<1>2. sessionLock' \in [Session -> Request \cup {None}]
  OBVIOUS
<1>3. driverLock' \in [Driver -> Request \cup {None}]
  OBVIOUS
<1>4. \A q \in Request \ {p} : Keeps(q)
  BY DEF Keeps
<1>5. QED
  BY <1>1, <1>2, <1>3, <1>4 DEF Typed

\* The statements that only lock or read.
LEMMA WaitingSteps ==
    ASSUME SessionsInv, NEW p \in Request,
           Arrive(p) \/ RotateUser(p) \/ Classify(p) \/ RevokeBegin(p)
    PROVE  Safe(p)
<1> USE DEF RequestState
<1>1. ASSUME NEW u \in User, Login(p, u) PROVE Safe(p)
  <2>1. [Idle EXCEPT !.at = "login.insert", !.user = u] \in RequestState
    BY DEF Idle
  <2>2. Typed' /\ \A q \in Request \ {p} : Keeps(q)
    BY <1>1, <2>1, StepKeeps DEF Login
  <2>3. Holds(p)'
    BY <1>1 DEF Login, Idle, Holds
  <2>4. QED
    BY <2>2, <2>3 DEF Safe
<1>2. ASSUME NEW u \in User, NEW reason \in BulkReason, RevokeAllForUser(p, u, reason) PROVE Safe(p)
  <2> DEFINE r == [Idle EXCEPT !.at = "revoke.finish", !.user = u, !.reason = reason]
             r2 == [r EXCEPT !.picked = Picked(r)]
  <2>1. r2 \in RequestState
    BY DEF Idle, Picked
  <2>2. Typed' /\ \A q \in Request \ {p} : Keeps(q)
    BY <1>2, <2>1, StepKeeps DEF RevokeAllForUser
  <2>3. Holds(p)'
    BY <1>2 DEF RevokeAllForUser, Idle, Holds, Picked
  <2>4. QED
    BY <2>2, <2>3 DEF Safe
<1>3. ASSUME NEW s \in Session, Refresh(p, s) PROVE Safe(p)
  <2> DEFINE r == [Idle EXCEPT !.at = IF Usable(s) THEN "rotate.user" ELSE "rotate.classify",
                               !.session = s, !.family = session[s].family,
                               !.user = session[s].user]
  <2>1. r \in RequestState
    BY DEF Idle
  <2>2. Typed' /\ \A q \in Request \ {p} : Keeps(q)
    BY <1>3, <2>1, StepKeeps DEF Refresh
  <2>3. Holds(p)'
    BY <1>3 DEF Refresh, Idle, Holds, Usable
  <2>4. QED
    BY <2>2, <2>3 DEF Safe
<1>4. ASSUME NEW d \in Driver, Deactivate(p, d) PROVE Safe(p)
  <2>1. CASE driver[d].user = None
    <3>1. \A q \in Request \ {p} : Keeps(q)
      BY <1>4, <2>1 DEF Deactivate, Keeps
    <3>2. req[p].at = "idle" /\ UNCHANGED <<session, locks, req>>
      BY <1>4, <2>1 DEF Deactivate
    <3>3. Holds(p)'
      BY <3>2 DEF Holds
    <3>4. QED
      BY <3>1, <3>2, <3>3 DEF Safe, Typed
  <2>2. CASE driver[d].user # None
    <3> DEFINE r == [Idle EXCEPT !.at = "revoke.begin", !.driver = d,
                                 !.user = driver[d].user, !.reason = "DEACTIVATED"]
    <3>1. r \in RequestState
      BY <2>2 DEF Idle
    <3>2. /\ req[p].at = "idle" /\ driver[d].status = "ACTIVE" /\ Lockable(driverLock, p, d)
          /\ driverLock' = [driverLock EXCEPT ![d] = p]
          /\ req' = [req EXCEPT ![p] = r] /\ UNCHANGED rows /\ UNCHANGED sessionLock
      BY <1>4, <2>2 DEF Deactivate
    <3>3. Typed' /\ req'[p] = r /\ \A q \in Request \ {p} : Keeps(q)
      BY <3>1, <3>2, StepKeeps
    <3>4. Holds(p)'
      BY <2>2, <3>2, <3>3 DEF Idle, Holds
    <3>5. QED
      BY <3>3, <3>4 DEF Safe
  <2>3. QED
    BY <2>1, <2>2
<1> HIDE DEF RequestState
<1>5. ASSUME RotateUser(p) PROVE Safe(p)
  <2> DEFINE Next1(at, reason) == [req[p] EXCEPT !.at = at, !.reason = reason]
  <2>1. Next1("rotate.insert", None) \in RequestState
        /\ Next1("revoke.begin", "DEACTIVATED") \in RequestState
    BY StatesTyped
  <2>2. PICK r \in {Next1("rotate.insert", None), Next1("revoke.begin", "DEACTIVATED")} :
            req' = [req EXCEPT ![p] = r]
    BY <1>5 DEF RotateUser
  <2>3. req[p].at = "rotate.user" /\ UNCHANGED <<rows, locks>>
    BY <1>5 DEF RotateUser
  <2> HIDE DEF Next1
  <2>4. Typed' /\ req'[p] = r /\ \A q \in Request \ {p} : Keeps(q)
    BY <2>1, <2>2, <2>3, StepKeeps
  <2>5. /\ req[p].session \in Session /\ req[p].picked = {} /\ req[p].driver = None
        /\ req[p].family = session[req[p].session].family
        /\ req[p].user = session[req[p].session].user /\ req[p].user \in User
        /\ sessionLock[req[p].session] = p /\ session[req[p].session].status = "ACTIVE"
    BY <2>3 DEF Holds, RowsFilled
  <2>6. CASE r = Next1("rotate.insert", None)
    <3>1. /\ r.at = "rotate.insert" /\ r.reason = None /\ r.session = req[p].session
          /\ r.picked = {} /\ r.driver = None /\ r.family = req[p].family /\ r.user = req[p].user
      BY <2>5, <2>6 DEF Next1
    <3>2. QED
      BY <2>3, <2>4, <2>5, <3>1 DEF Holds, Safe
  <2>7. CASE r = Next1("revoke.begin", "DEACTIVATED")
    <3>1. /\ r.at = "revoke.begin" /\ r.reason = "DEACTIVATED" /\ r.session = req[p].session
          /\ r.picked = {} /\ r.driver = None /\ r.family = req[p].family /\ r.user = req[p].user
      BY <2>5, <2>7 DEF Next1
    <3>2. QED
      BY <2>3, <2>4, <2>5, <3>1 DEF Holds, Safe
  <2>8. QED
    BY <2>2, <2>6, <2>7
<1>6. ASSUME Classify(p) PROVE Safe(p)
  <2>1. CASE Refuse(p)
    BY <2>1, RefuseKeeps
  <2>2. CASE ~Refuse(p)
    <3> DEFINE r == [req[p] EXCEPT !.at = "revoke.begin", !.reason = "REUSE_DETECTED"]
    <3>1. r \in RequestState
      BY StatesTyped
    <3>2. req[p].session \in Session
      BY <1>6 DEF Classify, Holds
    <3>3. req' = [req EXCEPT ![p] = r]
      BY <1>6, <2>2 DEF Classify
    <3>4. Typed' /\ \A q \in Request \ {p} : Keeps(q)
      BY <1>6, <2>2, <3>1, <3>2, <3>3, StepKeeps DEF Classify
    <3>5. Holds(p)'
      BY <1>6, <2>2, <3>2, <3>3 DEF Classify, Holds, RowsFilled
    <3>6. QED
      BY <3>4, <3>5 DEF Safe
  <2>3. QED
    BY <2>1, <2>2
<1>7. ASSUME RevokeBegin(p) PROVE Safe(p)
  <2> DEFINE r == [req[p] EXCEPT !.at = "revoke.finish", !.picked = Picked(req[p])]
  <2>1. r \in RequestState
    <3>1. Picked(req[p]) \in SUBSET Session
      BY DEF Picked
    <3>2. QED
      BY <3>1, StatesTyped
  <2>2. req[p].at = "revoke.begin" /\ req' = [req EXCEPT ![p] = r] /\ UNCHANGED <<rows, locks>>
    BY <1>7 DEF RevokeBegin
  <2>3. Typed' /\ req'[p] = r /\ \A q \in Request \ {p} : Keeps(q)
    BY <2>1, <2>2, StepKeeps
  <2>4. \A s \in Picked(req[p]) : s \in Session /\ session[s].status = "ACTIVE" /\ s # req[p].session
    BY DEF Picked
  <2>5. Holds(p)'
    BY <2>2, <2>3, <2>4 DEF Holds
  <2>6. QED
    BY <2>3, <2>5 DEF Safe
<1>8. QED
  BY <1>1, <1>2, <1>3, <1>4, <1>5, <1>6, <1>7 DEF Arrive, LogoutAll, ResetPassword

\* Rows are only revoked.
Revokes ==
    /\ session' \in [Session -> SessionRow]
    /\ \A s \in Session :
          \/ session'[s] = session[s]
          \/ /\ session[s].status = "ACTIVE" /\ session'[s].status \in RevocationReason
             /\ session'[s].family = session[s].family /\ session'[s].user = session[s].user
          \/ /\ session[s].status = "ROTATED" /\ session'[s].status = "REUSE_DETECTED"
             /\ session'[s].family = session[s].family /\ session'[s].user = session[s].user

\* What holds of the rows themselves.
Filled == session' \in [Session -> SessionRow] /\ RowsFilled' /\ OneActivePerFamily'

\* Revoking leaves no second active token, and no row without its family.
LEMMA RevokesFilled == ASSUME SessionsInv, Revokes PROVE Filled /\ RowsKeep
<1>1. RowsKeep
  BY DEF Revokes, RowsKeep
<1>2. RowsFilled'
  BY DEF Revokes, RowsFilled
<1>3. OneActivePerFamily'
  BY DEF Revokes, OneActivePerFamily, Active
<1>4. QED
  BY <1>1, <1>2, <1>3 DEF Filled, Revokes

\* A session that is inserted is the only active one of its family.
LEMMA LoginInsertStep ==
    ASSUME SessionsInv, NEW p \in Request, LoginInsert(p)
    PROVE  Safe(p) /\ Filled
<1>1. CASE Refuse(p)
  BY <1>1, RefuseKeeps DEF Refuse, Filled, RowsFilled, OneActivePerFamily, Active
<1>2. CASE ~Refuse(p)
  <2>1. PICK s \in Session, f \in Family :
           /\ Fresh(s) /\ NewFamily(f)
           /\ session' = [session EXCEPT ![s] = Row("ACTIVE", f, req[p].user)]
           /\ UNCHANGED <<lapsed, enabled, driver>>
           /\ Answer(p)
    BY <1>2 DEF LoginInsert
  <2>2. req[p].user \in User
    BY DEF Holds, LoginInsert
  <2>3. RowsKeep /\ \A x \in Session : ~Fresh(x) => session'[x] = session[x]
    BY <2>1 DEF RowsKeep
  <2>4. Safe(p)
    BY <2>1, <2>3, AnswerKeeps
  <2>5. session' \in [Session -> SessionRow] /\ RowsFilled'
    BY <2>1, <2>2 DEF Row, RowsFilled
  <2>6. OneActivePerFamily'
    BY <2>1 DEF Row, NewFamily, OneActivePerFamily, Active
  <2>7. QED
    BY <2>4, <2>5, <2>6 DEF Filled
<1>3. QED
  BY <1>1, <1>2

\* A rotation replaces the token it has claimed.
LEMMA RotateInsertStep ==
    ASSUME SessionsInv, NEW p \in Request, RotateInsert(p)
    PROVE  Safe(p) /\ Filled
<1>1. CASE Refuse(p)
  BY <1>1, RefuseKeeps DEF Refuse, Filled, RowsFilled, OneActivePerFamily, Active
<1>2. CASE ~Refuse(p)
  <2> DEFINE old == req[p].session
  <2>1. PICK s \in Session :
           /\ Fresh(s)
           /\ session' = [session EXCEPT ![old].status = "ROTATED",
                                        ![s] = Row("ACTIVE", req[p].family, req[p].user)]
           /\ UNCHANGED <<lapsed, enabled, driver>>
           /\ Answer(p)
    BY <1>2 DEF RotateInsert
  <2>2. /\ old \in Session /\ ~Fresh(old) /\ sessionLock[old] = p
        /\ session[old].status = "ACTIVE"
        /\ req[p].family = session[old].family /\ req[p].user = session[old].user
    BY DEF Holds, RotateInsert
  <2>3. /\ session'[old].status = "ROTATED"
        /\ session'[old].family = session[old].family /\ session'[old].user = session[old].user
        /\ session'[s] = [status |-> "ACTIVE", family |-> session[old].family,
                          user |-> session[old].user]
        /\ \A x \in Session \ {old, s} : session'[x] = session[x]
        /\ old # s
    BY <2>1, <2>2 DEF Row
  <2>4. session[old].family \in Family /\ session[old].user \in User
    BY <2>2 DEF RowsFilled
  <2>5. session' \in [Session -> SessionRow]
    BY <2>1, <2>2, <2>4 DEF Row
  <2> HIDE DEF old
  <2>6. RowsKeep /\ \A x \in Session : ~Fresh(x) /\ x # old => session'[x] = session[x]
    BY <2>1, <2>2, <2>3 DEF RowsKeep
  <2>7. Safe(p)
    BY <2>1, <2>2, <2>6, AnswerKeeps
  <2>8. RowsFilled'
    BY <2>2, <2>3, <2>4 DEF RowsFilled
  <2>9. OneActivePerFamily'
    BY <2>1, <2>2, <2>3 DEF OneActivePerFamily, Active
  <2>10. QED
    BY <2>7, <2>5, <2>8, <2>9 DEF Filled
<1>3. QED
  BY <1>1, <1>2

\* A revocation of many rows changes those nobody else has locked.
LEMMA RevokeFinishStep ==
    ASSUME SessionsInv, NEW p \in Request, RevokeFinish(p)
    PROVE  Safe(p) /\ Filled /\ Revokes /\ driver' \in [Driver -> DriverRow]
<1> DEFINE r == req[p]
<1>1. /\ r.at = "revoke.finish" /\ Answer(p) /\ session' = Revoked(r)
      /\ \A s \in r.picked : Lockable(sessionLock, p, s)
      /\ driver' = IF r.driver = None THEN driver
                                       ELSE [driver EXCEPT ![r.driver].status = "INACTIVE"]
  BY DEF RevokeFinish
<1>2. /\ r.reason \in BulkReason \cup {"REUSE_DETECTED"}
      /\ r.session # None => /\ sessionLock[r.session] = p
                            /\ session[r.session].status = IF r.reason = "REUSE_DETECTED"
                                                           THEN "ROTATED" ELSE "ACTIVE"
      /\ r.driver # None => driverLock[r.driver] = p
  BY <1>1 DEF Holds
<1>3. r \in RequestState /\ r.picked \subseteq Session /\ r.session \in Session \cup {None}
      /\ r.driver \in Driver \cup {None} /\ r.reason \in RevocationReason
  BY <1>2 DEF RequestState
<1>4. \A s \in Session :
         session'[s] = IF s = r.session \/ (s \in r.picked /\ session[s].status = "ACTIVE")
                       THEN [session[s] EXCEPT !.status = r.reason]
                       ELSE session[s]
  BY <1>1 DEF Revoked
<1>5. session' \in [Session -> SessionRow]
  <2>1. \A s \in Session : session'[s] \in SessionRow
    <3>1. ASSUME NEW s \in Session PROVE session'[s] \in SessionRow
      <4>1. session'[s] \in {[session[s] EXCEPT !.status = r.reason], session[s]}
        BY <1>4
      <4>2. session[s] \in SessionRow
        OBVIOUS
      <4>3. [session[s] EXCEPT !.status = r.reason] \in SessionRow
        BY <1>3, <4>2, RowTyped
      <4>4. QED
        BY <4>1, <4>2, <4>3
    <3>2. QED
      BY <3>1
  <2>2. QED
    BY <1>1, <2>1 DEF Revoked
<1>6. Revokes
  <2>1. ASSUME NEW s \in Session, session'[s] # session[s]
        PROVE  \/ /\ session[s].status = "ACTIVE" /\ session'[s].status \in RevocationReason
                  /\ session'[s].family = session[s].family /\ session'[s].user = session[s].user
               \/ /\ session[s].status = "ROTATED" /\ session'[s].status = "REUSE_DETECTED"
                  /\ session'[s].family = session[s].family /\ session'[s].user = session[s].user
    <3>1. session'[s] = [session[s] EXCEPT !.status = r.reason] /\ session[s] \in SessionRow
      BY <1>4, <2>1
    <3>2. /\ session'[s].status = r.reason
          /\ session'[s].family = session[s].family /\ session'[s].user = session[s].user
      BY <3>1
    <3>3. \/ session[s].status = "ACTIVE"
          \/ session[s].status = "ROTATED" /\ r.reason = "REUSE_DETECTED"
      BY <1>2, <1>3, <1>4, <2>1
    <3>4. QED
      BY <1>3, <3>2, <3>3
  <2>2. QED
    BY <1>5, <2>1 DEF Revokes
<1>7. Filled /\ RowsKeep
  BY <1>6, RevokesFilled
<1>8. \A s \in Session : sessionLock[s] \notin {p, None} /\ ~Fresh(s) => session'[s] = session[s]
  <2>1. \A s \in r.picked : sessionLock[s] \in {p, None}
    BY <1>1 DEF Lockable
  <2>2. ASSUME NEW s \in Session, sessionLock[s] \notin {p, None}
        PROVE  session'[s] = session[s]
    <3>1. s # r.session
      BY <1>2, <2>2
    <3>2. s \notin r.picked
      BY <2>1, <2>2
    <3>3. QED
      BY <1>4, <3>1, <3>2
  <2>3. QED
    BY <2>2
<1>9. \A d \in Driver : driverLock[d] \notin {p, None} => driver'[d] = driver[d]
  <2>1. CASE r.driver = None
    BY <1>1, <2>1
  <2>2. CASE r.driver # None
    <3>1. driver' = [driver EXCEPT ![r.driver].status = "INACTIVE"] /\ driverLock[r.driver] = p
      BY <1>1, <1>2, <2>2
    <3>2. QED
      BY <3>1
  <2>3. QED
    BY <2>1, <2>2
<1>10. Safe(p)
  BY <1>1, <1>7, <1>8, <1>9, AnswerKeeps
<1>11. driver' \in [Driver -> DriverRow]
  <2>1. driver' \in {driver, [driver EXCEPT ![r.driver].status = "INACTIVE"]}
    BY <1>1
  <2>2. [driver EXCEPT ![r.driver].status = "INACTIVE"] \in [Driver -> DriverRow]
    <3>1. driver \in [Driver -> DriverRow]
      OBVIOUS
    <3>2. \A d : [driver EXCEPT ![d].status = "INACTIVE"] \in [Driver -> DriverRow]
      <4> HIDE DEF SessionsInv
      <4>1. QED
        BY <3>1
    <3>3. QED
      BY <3>2
  <2>3. QED
    BY <2>1, <2>2
<1>12. QED
  BY <1>6, <1>7, <1>10, <1>11

\* A transaction of one claim takes nothing from the requests under way.
LEMMA ClaimStep ==
    ASSUME SessionsInv, Claim
    PROVE  /\ \A q \in Request : Keeps(q)
           /\ Filled /\ UNCHANGED <<locks, req>>
           /\ Revokes
           /\ lapsed' \subseteq Session /\ enabled' \in [User -> BOOLEAN]
           /\ driver' \in [Driver -> DriverRow]
<1> DEFINE Others == lapsed' \subseteq Session /\ enabled' \in [User -> BOOLEAN]
                     /\ driver' \in [Driver -> DriverRow] /\ UNCHANGED <<locks, req>>
<1>1. ASSUME NEW s \in Session, Logout(s) PROVE (\A q \in Request : Keeps(q)) /\ Revokes /\ Others
  BY <1>1 DEF Logout, Usable, Keeps, Revokes
<1>2. ASSUME NEW s \in Session, Lapse(s) PROVE (\A q \in Request : Keeps(q)) /\ Revokes /\ Others
  BY <1>2 DEF Lapse, Keeps, Revokes
<1>3. ASSUME NEW d \in Driver, Reactivate(d) PROVE (\A q \in Request : Keeps(q)) /\ Revokes /\ Others
  BY <1>3 DEF Reactivate, Keeps, Revokes
<1>4. ASSUME NEW d \in Driver, UnlinkUser(d) PROVE (\A q \in Request : Keeps(q)) /\ Revokes /\ Others
  BY <1>4 DEF UnlinkUser, Keeps, Revokes
<1>5. ASSUME NEW d \in Driver, NEW u \in User, LinkUser(d, u)
      PROVE  (\A q \in Request : Keeps(q)) /\ Revokes /\ Others
  BY <1>5 DEF LinkUser, Keeps, Revokes
<1>6. ASSUME NEW u \in User, DisableUser(u) PROVE (\A q \in Request : Keeps(q)) /\ Revokes /\ Others
  BY <1>6 DEF DisableUser, Keeps, Revokes
<1>7. (\A q \in Request : Keeps(q)) /\ Revokes /\ Others
  BY <1>1, <1>2, <1>3, <1>4, <1>5, <1>6 DEF Claim
<1>8. QED
  BY <1>7, RevokesFilled

\* However requests interleave, a family has one active token, and every
\* request can rely on the rows it has locked or picked.
THEOREM SessionsInvariant == Spec => []SessionsInv
<1>1. ASSUME SessionsInv, NEW p \in Request, LoginInsert(p) \/ RotateInsert(p) \/ RevokeFinish(p)
      PROVE  Safe(p) /\ Filled /\ lapsed' \subseteq Session /\ enabled' \in [User -> BOOLEAN]
             /\ driver' \in [Driver -> DriverRow]
  <2>1. Safe(p) /\ Filled
    BY <1>1, LoginInsertStep, RotateInsertStep, RevokeFinishStep
  <2>2. UNCHANGED <<lapsed, enabled>> /\ driver' \in [Driver -> DriverRow]
    BY <1>1, RevokeFinishStep DEF LoginInsert, RotateInsert, RevokeFinish, Refuse
  <2>3. QED
    BY <1>1, <2>1, <2>2
<1>2. ASSUME SessionsInv, NEW p \in Request, Arrive(p) \/ RotateUser(p) \/ Classify(p) \/ RevokeBegin(p)
      PROVE  Safe(p) /\ Filled /\ lapsed' \subseteq Session /\ enabled' \in [User -> BOOLEAN]
             /\ driver' \in [Driver -> DriverRow]
  <2>1. Safe(p)
    BY <1>2, WaitingSteps
  <2>2. /\ UNCHANGED <<session, lapsed, enabled>>
        /\ UNCHANGED driver
           \/ \E d \in Driver : driver' = [driver EXCEPT ![d].status = "INACTIVE"]
    <3>1. ASSUME Arrive(p) PROVE \/ UNCHANGED rows
                                \/ \E d \in Driver : Deactivate(p, d)
      BY <3>1 DEF Arrive, Login, LogoutAll, ResetPassword, RevokeAllForUser, Refresh
    <3>2. ASSUME RotateUser(p) \/ Classify(p) \/ RevokeBegin(p) PROVE UNCHANGED rows
      BY <3>2 DEF RotateUser, Classify, Refuse, RevokeBegin
    <3>3. ASSUME NEW d \in Driver, Deactivate(p, d)
          PROVE  /\ UNCHANGED <<session, lapsed, enabled>>
                 /\ UNCHANGED driver \/ driver' = [driver EXCEPT ![d].status = "INACTIVE"]
      BY <3>3 DEF Deactivate
    <3>4. QED
      BY <1>2, <3>1, <3>2, <3>3
  <2>3. driver' \in [Driver -> DriverRow]
    <3>1. ASSUME NEW d \in Driver PROVE [driver EXCEPT ![d].status = "INACTIVE"] \in [Driver -> DriverRow]
      BY <1>2
    <3>2. QED
      BY <1>2, <2>2, <3>1
  <2>4. QED
    BY <2>1, <2>2, <2>3, <1>2 DEF Filled, RowsFilled, OneActivePerFamily, Active
<1>3. ASSUME SessionsInv, NEW p \in Request, Rollback(p)
      PROVE  Safe(p) /\ Filled /\ lapsed' \subseteq Session /\ enabled' \in [User -> BOOLEAN]
             /\ driver' \in [Driver -> DriverRow]
  BY <1>3, RefuseKeeps DEF Rollback, Refuse, Filled, RowsFilled, OneActivePerFamily, Active
<1>4. ASSUME SessionsInv, [Next]_vars PROVE SessionsInv'
  <2>1. CASE UNCHANGED vars
    BY <1>4, <2>1 DEF vars, RowsFilled, OneActivePerFamily, Active, Holds
  <2>2. CASE Claim
    <3>1. Typed' /\ \A q \in Request : Holds(q)'
      BY <1>4, <2>2, ClaimStep, KeepsHolds DEF Typed
    <3>2. QED
      BY <1>4, <2>2, <3>1, ClaimStep DEF Typed, Filled
  <2>3. ASSUME NEW p \in Request, Arrive(p) \/ Continue(p) \/ Rollback(p) PROVE SessionsInv'
    <3>1. Safe(p) /\ Filled /\ lapsed' \subseteq Session /\ enabled' \in [User -> BOOLEAN]
          /\ driver' \in [Driver -> DriverRow]
      BY <1>1, <1>2, <1>3, <1>4, <2>3 DEF Continue
    <3>2. \A q \in Request : Holds(q)'
      BY <1>4, <3>1, KeepsHolds DEF Safe
    <3>3. QED
      BY <3>1, <3>2 DEF Safe, Typed, Filled
  <2>4. QED
    BY <1>4, <2>1, <2>2, <2>3 DEF Next
<1>5. QED
  BY SessionsInit, <1>4, PTL DEF Spec

\* Every step of a request or a claim is of one of three kinds for the rows.
LEMMA KindsOfSteps ==
    ASSUME SessionsInv, [Next]_vars
    PROVE  \/ UNCHANGED session
           \/ Revokes
           \/ \E p \in Request : LoginInsert(p) \/ RotateInsert(p)
<1>1. CASE UNCHANGED vars
  BY <1>1 DEF vars
<1>2. CASE Claim
  BY <1>2, ClaimStep
<1>3. ASSUME NEW p \in Request, Arrive(p) PROVE UNCHANGED session
  BY <1>3 DEF Arrive, Login, LogoutAll, ResetPassword, RevokeAllForUser, Refresh, Deactivate
<1>4. ASSUME NEW p \in Request, RotateUser(p) \/ Classify(p) \/ RevokeBegin(p) \/ Rollback(p)
      PROVE  UNCHANGED session
  BY <1>4 DEF RotateUser, Classify, Refuse, RevokeBegin, Rollback
<1>5. ASSUME NEW p \in Request, RevokeFinish(p) PROVE Revokes
  BY <1>5, RevokeFinishStep
<1>6. QED
  BY <1>1, <1>2, <1>3, <1>4, <1>5 DEF Next, Continue

\* However many requests present the same token, at most one token of its
\* family refreshes.
THEOREM AlwaysOneActive == Spec => []OneActivePerFamily
<1>1. SessionsInv => OneActivePerFamily
  OBVIOUS
<1>2. QED
  BY SessionsInvariant, <1>1, PTL

\* Reuse is detected once per token, and only for a token rotated away: the
\* request that detects it has locked the token's row.
THEOREM ReuseDetectedOnce == Spec => []OneReusePerToken
<1>1. SessionsInv => OneReusePerToken
  <2>1. ASSUME SessionsInv, NEW p \in Request, req[p].reason = "REUSE_DETECTED"
        PROVE  /\ req[p].session \in Session
               /\ sessionLock[req[p].session] = p
               /\ session[req[p].session].status = "ROTATED"
    <3>1. req[p].at \in {"revoke.begin", "revoke.finish"} /\ req[p].session # None
      BY <2>1, ReasonAssumption DEF Holds
    <3>2. req[p].session \in Session
      <4>1. req[p].session \in Session \cup {None}
        BY <2>1 DEF RequestState
      <4>2. QED
        BY <3>1, <4>1
    <3>3. sessionLock[req[p].session] = p /\ session[req[p].session].status = "ROTATED"
      <4>1. Holds(p)
        BY <2>1
      <4>2. QED
        BY <2>1, <3>1, <4>1 DEF Holds
    <3>4. QED
      BY <3>2, <3>3
  <2>2. QED
    BY <2>1 DEF OneReusePerToken
<1>2. QED
  BY SessionsInvariant, <1>1, PTL

\* Once revoked, a token keeps its reason, or is found to have been reused.
THEOREM RevocationStays == Spec => RevocationIsFinal
<1> DEFINE Final ==
      \A s \in Session :
          session[s].status \in RevocationReason
          => session'[s].status \in {session[s].status}
                                    \cup (IF session[s].status = "ROTATED"
                                          THEN {"REUSE_DETECTED"} ELSE {})
<1>1. ASSUME SessionsInv, [Next]_vars PROVE Final
  <2>1. CASE UNCHANGED session
    BY <2>1
  <2>2. CASE Revokes
    BY <2>2 DEF Revokes
  <2>3. ASSUME NEW p \in Request, LoginInsert(p) PROVE Final
    BY <1>1, <2>3 DEF LoginInsert, Refuse
  <2>4. ASSUME NEW p \in Request, RotateInsert(p) PROVE Final
    <3>1. req[p].session \in Session /\ session[req[p].session].status = "ACTIVE"
      BY <1>1, <2>4 DEF RotateInsert, Holds
    <3>2. CASE Refuse(p)
      BY <3>2 DEF Refuse
    <3>3. CASE ~Refuse(p)
      <4>1. PICK x \in Session :
               /\ Fresh(x)
               /\ session' = [session EXCEPT ![req[p].session].status = "ROTATED",
                                            ![x] = Row("ACTIVE", req[p].family, req[p].user)]
        BY <2>4, <3>3 DEF RotateInsert
      <4>2. \A s \in Session : s \notin {req[p].session, x} => session'[s] = session[s]
        BY <1>1, <4>1
      <4>3. QED
        BY <1>1, <3>1, <4>1, <4>2
    <3>4. QED
      BY <3>2, <3>3
  <2>5. QED
    BY <1>1, <2>1, <2>2, <2>3, <2>4, KindsOfSteps
<1>2. QED
  BY SessionsInvariant, <1>1, PTL DEF Spec, RevocationIsFinal

\* The one member of a set is the one CHOOSE finds.
LEMMA OnlyOne == ASSUME NEW A, \A x, y \in A : x = y, NEW s \in A PROVE (CHOOSE x \in A : TRUE) = s
  OBVIOUS

\* A set of at most one member has no other subset but the empty one.
LEMMA OnlySubset ==
    ASSUME NEW A, NEW B, B \subseteq A, \A x, y \in A : x = y, A = {} \/ B # {}
    PROVE  B = A
  OBVIOUS

Held == [f \in Family |-> Current(f)]
Issued == {s \in Session : ~Fresh(s)}

\* What a family's state is, row by row.
Mapped ==
    \A f \in Family :
        /\ NewFamily(f) => Held[f] = "unborn"
        /\ ~NewFamily(f) /\ Active(f) = {} => Held[f] = "ended"
        /\ \A s \in Active(f) : Held[f] = s

\* With one active row per family, the state of a family is the one its rows say.
LEMMA MappedHolds == RowsFilled /\ OneActivePerFamily => Mapped
<1>1. ASSUME OneActivePerFamily, NEW f \in Family, NEW s \in Active(f)
      PROVE  ~NewFamily(f) /\ (CHOOSE x \in Active(f) : TRUE) = s
  <2>1. \A x, y \in Active(f) : x = y
    BY <1>1 DEF OneActivePerFamily
  <2>2. QED
    BY <1>1, <2>1, OnlyOne DEF Active, NewFamily
<1>2. QED
  BY <1>1 DEF Mapped, Held, Current

\* A family whose rows do not change keeps its state.
LEMMA SameFamily ==
    ASSUME Mapped, Mapped', NEW f \in Family,
           NewFamily(f)' <=> NewFamily(f), Active(f)' = Active(f)
    PROVE  Held'[f] = Held[f]
  BY DEF Mapped

\* The row of a rotation or a login becomes its family's current token.
LEMMA InsertRefines ==
    ASSUME SessionsInv, RowsFilled', OneActivePerFamily', Mapped, Mapped',
           NEW p \in Request, LoginInsert(p) \/ RotateInsert(p)
    PROVE  [Families!Next]_(Families!vars)
<1>1. CASE Refuse(p)
  BY <1>1 DEF Refuse, Families!vars, Held, Current, NewFamily, Active
<1>2. CASE LoginInsert(p) /\ ~Refuse(p)
  <2>1. PICK s \in Session, f \in Family :
           /\ Fresh(s) /\ NewFamily(f)
           /\ session' = [session EXCEPT ![s] = Row("ACTIVE", f, req[p].user)]
    BY <1>2 DEF LoginInsert
  <2>2. session'[s].status = "ACTIVE" /\ session'[s].family = f /\ s \in Active(f)'
    BY <2>1 DEF Row, Active
  <2>3. Held'[f] = s /\ Held[f] = "unborn"
    BY <2>1, <2>2 DEF Mapped
  <2>4. ASSUME NEW g \in Family \ {f} PROVE Held'[g] = Held[g]
    <3>1. (NewFamily(g)' <=> NewFamily(g)) /\ Active(g)' = Active(g)
      BY <2>1, <2>4, <2>2 DEF NewFamily, Active, RowsFilled
    <3>2. QED
      BY <3>1, SameFamily
  <2>5. Issued' = Issued \cup {s} /\ s \notin Issued
    <3>1. ASSUME NEW x \in Session
          PROVE  session'[x].status # "ABSENT" <=> session[x].status # "ABSENT" \/ x = s
      BY <2>1, <2>2
    <3>2. QED
      BY <2>1, <3>1 DEF Issued
  <2>6. Families!Open(f, s)
    <3>1. Held' = [Held EXCEPT ![f] = s]
      BY <2>3, <2>4 DEF Held
    <3>2. QED
      BY <2>3, <2>5, <3>1 DEF Families!Open, Held, Issued
  <2>7. QED
    BY <2>6 DEF Families!Next
<1>3. CASE RotateInsert(p) /\ ~Refuse(p)
  <2> DEFINE old == req[p].session
             f == session[old].family
  <2>1. PICK s \in Session :
           /\ Fresh(s)
           /\ session' = [session EXCEPT ![old].status = "ROTATED",
                                        ![s] = Row("ACTIVE", req[p].family, req[p].user)]
    BY <1>3 DEF RotateInsert
  <2>2. /\ old \in Session /\ session[old].status = "ACTIVE" /\ f \in Family
        /\ req[p].family = f
    BY <1>3 DEF Holds, RotateInsert, RowsFilled
  <2>3. /\ session'[old].status = "ROTATED" /\ session'[old].family = f
        /\ session'[s].status = "ACTIVE" /\ session'[s].family = f
        /\ \A x \in Session \ {old, s} : session'[x] = session[x]
        /\ old # s
    BY <2>1, <2>2 DEF Row
  <2>4. Held'[f] = s /\ Held[f] = old
    BY <2>2, <2>3 DEF Mapped, Active
  <2>5. ASSUME NEW g \in Family \ {f} PROVE Held'[g] = Held[g]
    <3>1. session[s].family = None /\ g # None /\ g # f
      BY <2>1, <2>5 DEF RowsFilled
    <3>2. ASSUME NEW x \in Session
          PROVE  /\ session'[x].family = g <=> session[x].family = g
                 /\ session'[x].family = g => session'[x].status = session[x].status
      BY <2>2, <2>3, <3>1
    <3>3. (NewFamily(g)' <=> NewFamily(g)) /\ Active(g)' = Active(g)
      BY <3>2 DEF NewFamily, Active
    <3>4. QED
      BY <3>3, SameFamily
  <2>6. Issued' = Issued \cup {s} /\ s \notin Issued
    <3>1. ASSUME NEW x \in Session
          PROVE  session'[x].status # "ABSENT" <=> session[x].status # "ABSENT" \/ x = s
      BY <2>1, <2>2, <2>3
    <3>2. QED
      BY <2>1, <3>1 DEF Issued
  <2>7. Families!Refresh(f, s)
    <3>1. Held' = [Held EXCEPT ![f] = s]
      BY <2>4, <2>5 DEF Held
    <3>2. QED
      BY <2>2, <2>4, <2>6, <3>1 DEF Families!Refresh, Held, Issued
  <2>8. QED
    BY <2>2, <2>7 DEF Families!Next
<1>4. QED
  BY <1>1, <1>2, <1>3

\* A revocation ends the families whose active row it takes.
LEMMA RevokeRefines ==
    ASSUME SessionsInv, RowsFilled', OneActivePerFamily', Mapped, Mapped', Revokes
    PROVE  [Families!Next]_(Families!vars)
<1> DEFINE Ends(f) == Active(f) # {} /\ Active(f)' = {}
           F == {f \in Family : Ends(f)}
<1>1. Issued' = Issued
  BY DEF Revokes, Issued
<1>2. ASSUME NEW f \in Family PROVE /\ Active(f)' \subseteq Active(f)
                                    /\ NewFamily(f)' <=> NewFamily(f)
                                    /\ NewFamily(f) => Active(f) = {}
  BY DEF Revokes, Active, NewFamily
<1>3. ASSUME NEW f \in F PROVE Held[f] \in Session /\ Held'[f] = "ended"
  BY <1>2 DEF Mapped, Active
<1>4. ASSUME NEW f \in Family \ F PROVE Held'[f] = Held[f]
  <2>1. Active(f)' = Active(f)
    <3>1. \A x, y \in Active(f) : x = y
      BY DEF OneActivePerFamily
    <3>2. Active(f) = {} \/ Active(f)' # {}
      <4> HIDE DEF Ends
      <4>1. ~Ends(f)
        BY <1>4
      <4>2. QED
        BY <4>1 DEF Ends
    <3>3. Active(f)' \subseteq Active(f)
      BY <1>2
    <3>4. QED
      BY <3>1, <3>2, <3>3, OnlySubset, Zenon
  <2>2. QED
    BY <1>2, <2>1, SameFamily
<1>5. CASE F = {}
  BY <1>1, <1>4, <1>5 DEF Families!vars, Held, Issued
<1>6. CASE F # {}
  <2>1. Families!End(F)
    BY <1>1, <1>3, <1>4 DEF Families!End, Held, Issued
  <2>2. QED
    BY <1>6, <2>1 DEF Families!Next
<1>7. QED
  BY <1>5, <1>6

\* The transactions on refresh_sessions implement families of tokens, for any
\* number of requests: one current token, exchanged for fresh ones, ended for
\* good.
THEOREM SessionsRefineFamilies == Spec => RefinesFamilies
<1>1. Init => Families!Init
  BY DEF Init, Families!Init, Current, NewFamily
<1>2. SessionsInv => Mapped
  BY MappedHolds
<1>3. SessionsInv /\ SessionsInv' /\ Mapped /\ Mapped' /\ [Next]_vars => [Families!Next]_(Families!vars)
  <2>1. SUFFICES ASSUME SessionsInv, SessionsInv', Mapped, Mapped', [Next]_vars
                 PROVE  [Families!Next]_(Families!vars)
    OBVIOUS
  <2>2. RowsFilled' /\ OneActivePerFamily'
    BY <2>1
  <2>3. CASE UNCHANGED session
    BY <2>3 DEF Families!vars, Current, NewFamily, Active
  <2>4. QED
    BY <2>1, <2>2, <2>3, KindsOfSteps, InsertRefines, RevokeRefines
<1>4. QED
  BY SessionsInvariant, <1>1, <1>2, <1>3, PTL DEF Spec, RefinesFamilies, Families!Spec
=============================================================================
