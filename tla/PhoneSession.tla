----------------------------- MODULE PhoneSession ----------------------------
(***************************************************************************)
(* The driver app's session manager: one JavaScript thread, one action per *)
(* stretch between two awaits.  A task is a call of the manager or a       *)
(* rotation that calls share.  Every use of the key store goes through one *)
(* queue.  `fresh' is the comparison of the generation a task captured     *)
(* with the present one: a logout or a committed login makes every other   *)
(* task stale.  The server is SessionEndpoints.                            *)
(***************************************************************************)
EXTENDS SessionEndpoints, Sequences

CONSTANTS Call, Rotation, None

ASSUME PhoneAssumption ==
    /\ Call \cap Rotation = {} /\ Rotation # {} /\ None \notin Call \cup Rotation \cup Family
    /\ None \notin Token

VARIABLES
    app,         \* the published state, the access token, who is signed in
    store,       \* the refresh token in the key store
    task,        \* calls and rotations in progress
    mutations,   \* tasks waiting for the key store, the first one using it
    writing      \* the first one is past its check and writes

phone == <<app, store, task, mutations, writing>>
vars == <<endpoints, phone>>

Task == Call \cup Rotation
Free == [op |-> "none", at |-> "none", fresh |-> TRUE, token |-> None, lead |-> None,
         then |-> "none", answer |-> "none"]
Launched == [status |-> "bootstrapping", user |-> None, access |-> None, opened |-> FALSE]

TypeOK ==
    /\ EndpointsTypeOK
    /\ app \in [status : {"bootstrapping", "unauthenticated", "bootstrap_error", "authenticated"},
                user : Family \cup {None}, access : Family \cup {None}, opened : BOOLEAN]
    /\ store \in Token \cup {None}
    /\ task \in [Task ->
         [op : {"none", "bootstrap", "login", "refresh", "logout", "logoutAll", "again", "rotation"},
          at : {"none", "rotating", "resume", "me", "ask", "pair", "refused", "read", "commit",
                "all", "empty", "revoke", "clear"},
          fresh : BOOLEAN, token : Token \cup {None}, lead : Rotation \cup {None},
          then : {"none", "clear"},
          answer : {"none", "rotated", "missing", "invalid", "unavailable", "superseded"}]]
    /\ mutations \in Seq(Task) /\ writing \in BOOLEAN

Init ==
    /\ EndpointsInit
    /\ app = Launched /\ store = None
    /\ task = [t \in Task |-> Free]
    /\ mutations = <<>> /\ writing = FALSE

Idle(t) == task[t] = Free
At(t, op, at) == task[t].op = op /\ task[t].at = at

---------------------------------------------------------------------------
(* The steps tasks are made of. *)

\* A new generation: every task but t captured an older one.
NewGeneration(t) ==
    [u \in Task |-> IF u = t \/ Idle(u) THEN task[u] ELSE [task[u] EXCEPT !.fresh = FALSE]]

Forgotten == [app EXCEPT !.status = "unauthenticated", !.user = None, !.access = None]

Using(t, at) == mutations # <<>> /\ Head(mutations) = t /\ task[t].at = at

\* t's next step uses the key store.
Enqueued(tasks, t, at) == [tasks EXCEPT ![t].at = at]

\* A rotation that is done answers whoever waits for it.
Settled(tasks, r, answer, token) ==
    [t \in Task |->
        IF t = r THEN Free
        ELSE IF tasks[t].lead = r
             THEN [tasks[t] EXCEPT !.at = "resume", !.lead = None, !.answer = answer,
                                   !.token = token]
             ELSE tasks[t]]

Ends(t, tasks) ==
    IF t \in Rotation THEN Settled(tasks, t, tasks[t].answer, None)
    ELSE [tasks EXCEPT ![t] = Free]

RotationFor(c, rec, r) ==
    /\ task' = [task EXCEPT ![c] = [rec EXCEPT !.at = "rotating", !.lead = r],
                            ![r] = [Free EXCEPT !.op = "rotation", !.at = "read"]]
    /\ mutations' = Append(mutations, r)

\* Variant: every caller starts a rotation of its own.
JoinRotationAlone(c, rec) == \E r \in Rotation : Idle(r) /\ RotationFor(c, rec, r)

\* rotate: the rotation in flight serves every caller.
JoinRotation(c, rec) ==
    IF \E r \in Rotation : ~Idle(r)
    THEN LET r == CHOOSE q \in Rotation : ~Idle(q) IN
         /\ task' = [task EXCEPT ![c] = [rec EXCEPT !.at = "rotating", !.lead = r]]
         /\ UNCHANGED mutations
    ELSE RotationFor(c, rec, CHOOSE q \in Rotation : TRUE)

\* revokeQuietly: the request may be lost.
Revoke(t) ==
    /\ task[t].at = "revoke"
    /\ RevokeToken(task[t].token) \/ UNCHANGED endpoints
    /\ IF task[t].then = "clear"
       THEN /\ task' = Enqueued(task, t, "clear")
            /\ mutations' = Append(mutations, t)
       ELSE /\ task' = Ends(t, task)
            /\ UNCHANGED mutations
    /\ UNCHANGED <<app, store, writing>>

\* clearStoreIfGeneration, and how a refused bootstrap ends.  The key store may fail.
Clear(t) ==
    /\ Using(t, "clear")
    /\ store' \in IF task[t].fresh THEN {None, store} ELSE {store}
    /\ app' = IF task[t].op = "bootstrap" /\ task[t].fresh
              THEN [app EXCEPT !.status = "unauthenticated", !.user = None] ELSE app
    /\ task' = Ends(t, task)
    /\ mutations' = Tail(mutations)
    /\ UNCHANGED <<endpoints, writing>>

---------------------------------------------------------------------------
(* runRotation *)

\* Settled with what it was, when the store is unreadable its content is cleared.
ReadStored(r) ==
    /\ Using(r, "read")
    /\ \/ /\ store = None
          /\ task' = Settled(task, r, "missing", None)
          /\ mutations' = Tail(mutations)
       \/ /\ store # None
          /\ task' = [task EXCEPT ![r].at = "ask", ![r].token = store]
          /\ mutations' = Tail(mutations)
       \/ /\ task' = [task EXCEPT ![r].at = "clear", ![r].answer = "invalid"]
          /\ mutations' = Append(Tail(mutations), r)
    /\ UNCHANGED <<endpoints, app, store, writing>>

ServeRotation(r) ==
    /\ At(r, "rotation", "ask")
    /\ \/ /\ Exchange(task[r].token)
          /\ task' = [task EXCEPT ![r].at = "pair", ![r].token = Successor(@)]
       \/ /\ Replay(task[r].token) \/ Refuse(task[r].token)
          /\ task' = [task EXCEPT ![r].at = "refused"]
    /\ UNCHANGED <<late, app, store, mutations, writing>>

RotationAnswered(r) ==
    /\ \/ /\ At(r, "rotation", "pair")
          /\ task' = Enqueued(task, r, "commit")
       \/ /\ At(r, "rotation", "refused")
          /\ task' = [task EXCEPT ![r].at = "clear", ![r].answer = "invalid"]
    /\ mutations' = Append(mutations, r)
    /\ UNCHANGED <<endpoints, app, store, writing>>

Asked(R) == {task[r].token : r \in {q \in R : task[q].at = "ask"}}

\* Any other answer, or none, says nothing about the token.
RotationUnanswered(r) ==
    /\ task[r].op = "rotation" /\ task[r].at \in {"ask", "pair", "refused"}
    /\ task' = Settled(task, r, "unavailable", None)
    /\ GiveUp(Asked({r}))
    /\ UNCHANGED <<app, store, mutations, writing>>

---------------------------------------------------------------------------
(* The writes: the check, the write, and what follows it. *)

\* Variant: the generation is compared before the queue is entered only.
BeginWriteUnchecked(t) ==
    /\ Using(t, "commit") /\ ~writing
    /\ writing' = TRUE
    /\ UNCHANGED <<endpoints, app, store, task, mutations>>

BeginWrite(t) ==
    /\ Using(t, "commit") /\ ~writing
    /\ IF task[t].fresh
       THEN writing' = TRUE /\ UNCHANGED <<task, mutations>>
       ELSE /\ task' = [task EXCEPT ![t].at = "revoke", ![t].answer = "superseded"]
            /\ mutations' = Tail(mutations)
            /\ UNCHANGED writing
    /\ UNCHANGED <<endpoints, app, store>>

\* Variant: the cleanup is awaited inside the critical section it waits for.
WriteFailsInside(t) ==
    /\ Using(t, "commit") /\ writing
    /\ task' = [task EXCEPT ![t].at = "clear", ![t].answer = "invalid"]
    /\ mutations' = Append(mutations, t)
    /\ UNCHANGED <<endpoints, app, store, writing>>

WriteFails(t) ==
    /\ Using(t, "commit") /\ writing
    /\ task' = [task EXCEPT ![t].at = "revoke", ![t].then = "clear", ![t].answer = "invalid"]
    /\ writing' = FALSE /\ mutations' = Tail(mutations)
    /\ UNCHANGED <<endpoints, app, store>>

LoginWritten(c) ==
    LET f == FamilyOf(task[c].token) IN
    /\ Using(c, "commit") /\ writing /\ task[c].op = "login"
    /\ store' = task[c].token
    /\ app' = [status |-> "authenticated", user |-> f, access |-> f, opened |-> TRUE]
    /\ task' = [NewGeneration(c) EXCEPT ![c] = Free]
    /\ writing' = FALSE /\ mutations' = Tail(mutations)
    /\ UNCHANGED endpoints

RotationWritten(r) ==
    /\ Using(r, "commit") /\ writing /\ task[r].op = "rotation"
    /\ store' = task[r].token
    /\ task' = IF task[r].fresh
               THEN Settled(task, r, "rotated", task[r].token)
               ELSE [task EXCEPT ![r].at = "revoke", ![r].answer = "superseded"]
    /\ writing' = FALSE /\ mutations' = Tail(mutations)
    /\ UNCHANGED <<endpoints, app>>

---------------------------------------------------------------------------
(* bootstrap: at a start, a retry, or when the screen is built again. *)

Bootstrap(c) ==
    /\ Idle(c) /\ \A d \in Call : task[d].op # "bootstrap"
    /\ app' = [app EXCEPT !.status = "bootstrapping", !.user = None]
    /\ JoinRotation(c, [Free EXCEPT !.op = "bootstrap"])
    /\ UNCHANGED <<endpoints, store, writing>>

BootstrapResumes(c) ==
    LET answer == task[c].answer IN
    /\ At(c, "bootstrap", "resume")
    /\ IF answer = "rotated"
       THEN /\ task' = [task EXCEPT ![c].at = IF task[c].fresh THEN "me" ELSE "revoke"]
            /\ UNCHANGED app
       ELSE /\ task' = [task EXCEPT ![c] = Free]
            /\ app' = CASE ~task[c].fresh -> app
                        [] task[c].fresh /\ answer = "unavailable" ->
                               [app EXCEPT !.status = "bootstrap_error"]
                        [] OTHER -> [app EXCEPT !.status = "unauthenticated"]
    /\ UNCHANGED <<endpoints, store, mutations, writing>>

\* /auth/me names a driver.
Identified(c) ==
    LET f == FamilyOf(task[c].token) IN
    /\ At(c, "bootstrap", "me")
    /\ app' = IF task[c].fresh
              THEN [status |-> "authenticated", user |-> f, access |-> f, opened |-> TRUE]
              ELSE app
    /\ task' = [task EXCEPT ![c] = Free]
    /\ UNCHANGED <<endpoints, store, mutations, writing>>

\* It refuses the bearer, names somebody else than a driver, or does not answer.
NotIdentified(c) ==
    /\ At(c, "bootstrap", "me")
    /\ \/ /\ task' = [task EXCEPT ![c] = Free]
          /\ app' = IF task[c].fresh THEN [app EXCEPT !.status = "bootstrap_error"] ELSE app
       \/ /\ task[c].fresh
          /\ task' = [task EXCEPT ![c].at = "revoke", ![c].then = "clear"]
          /\ UNCHANGED app
    /\ UNCHANGED <<endpoints, store, mutations, writing>>

---------------------------------------------------------------------------
(* login, from the login screen *)

Login(c) ==
    /\ Idle(c) /\ app.status = "unauthenticated"
    /\ task' = [task EXCEPT ![c] = [Free EXCEPT !.op = "login", !.at = "ask"]]
    /\ UNCHANGED <<endpoints, app, store, mutations, writing>>

ServeLogin(c, f) ==
    /\ At(c, "login", "ask")
    /\ OpenFamily(f)
    /\ task' = [task EXCEPT ![c].at = "pair", ![c].token = <<f, 1>>]
    /\ UNCHANGED <<app, store, mutations, writing>>

\* An account of another role is signed out again.
LoginAnswered(c) ==
    /\ At(c, "login", "pair")
    /\ \/ /\ task' = Enqueued(task, c, "commit")
          /\ mutations' = Append(mutations, c)
       \/ /\ task' = [task EXCEPT ![c].at = "revoke"]
          /\ UNCHANGED mutations
    /\ UNCHANGED <<endpoints, app, store, writing>>

LoginUnanswered(c) ==
    /\ task[c].op = "login" /\ task[c].at \in {"ask", "pair"}
    /\ task' = [task EXCEPT ![c] = Free]
    /\ UNCHANGED <<endpoints, app, store, mutations, writing>>

---------------------------------------------------------------------------
(* refresh: a request of the session, perhaps an earlier one, was answered 401. *)

Refresh(c) ==
    /\ Idle(c) /\ app.opened
    /\ JoinRotation(c, [Free EXCEPT !.op = "refresh"])
    /\ UNCHANGED <<endpoints, app, store, writing>>

\* What refresh does with its rotation, for its caller c.
AfterRotation(c) ==
    CASE ~task[c].fresh -> app
      [] task[c].fresh /\ task[c].answer = "rotated" ->
             [app EXCEPT !.access = FamilyOf(task[c].token)]
      [] task[c].fresh /\ task[c].answer \in {"missing", "invalid"} -> Forgotten
      [] OTHER -> app

RefreshResumes(c) ==
    /\ At(c, "refresh", "resume")
    /\ app' = AfterRotation(c)
    /\ task' = IF task[c].answer = "rotated" /\ ~task[c].fresh
               THEN [task EXCEPT ![c].at = "revoke"]
               ELSE [task EXCEPT ![c] = Free]
    /\ UNCHANGED <<endpoints, store, mutations, writing>>

---------------------------------------------------------------------------
(* logout and logoutAll *)

\* The local session ends at once; the store is emptied when its turn comes.
EndsLocally(c, at) ==
    /\ app' = Forgotten
    /\ task' = [NewGeneration(c) EXCEPT ![c] = [Free EXCEPT !.op = "logout", !.at = at]]
    /\ mutations' = Append(mutations, c)

Logout(c) ==
    /\ Idle(c) /\ app.opened
    /\ EndsLocally(c, "empty")
    /\ UNCHANGED <<endpoints, store, writing>>

EmptyStore(c) ==
    /\ Using(c, "empty")
    /\ \E token \in {store, None} :                  \* None: the read failed
         task' = IF token = None THEN [task EXCEPT ![c] = Free]
                 ELSE [task EXCEPT ![c].at = "revoke", ![c].token = token]
    /\ store' \in IF task[c].fresh THEN {None, store} ELSE {store}
    /\ mutations' = Tail(mutations)
    /\ UNCHANGED <<endpoints, app, writing>>

LogoutAll(c) ==
    /\ Idle(c) /\ app.access # None
    /\ task' = [task EXCEPT ![c] = [Free EXCEPT !.op = "logoutAll", !.at = "all"]]
    /\ UNCHANGED <<endpoints, app, store, mutations, writing>>

\* Not revoked: at least this phone's session ends, unless somebody ended it.
FallsBack(c) ==
    IF task[c].fresh THEN EndsLocally(c, "empty")
    ELSE task' = [task EXCEPT ![c] = Free] /\ UNCHANGED <<app, mutations>>

AllRevoked(c) ==
    /\ task[c].at = "all"
    /\ EndFamilies({f \in Family : Alive(f)})
    /\ \/ IF task[c].fresh THEN EndsLocally(c, "clear")
          ELSE task' = [task EXCEPT ![c] = Free] /\ UNCHANGED <<app, mutations>>
       \/ FallsBack(c)                               \* the answer is lost
    /\ UNCHANGED <<store, writing>>

\* A refused bearer is renewed once.
AllRefused(c) ==
    /\ task[c].at = "all"
    /\ IF task[c].op = "logoutAll" /\ task[c].fresh
       THEN JoinRotation(c, [Free EXCEPT !.op = "again"]) /\ UNCHANGED app
       ELSE FallsBack(c)
    /\ UNCHANGED <<endpoints, store, writing>>

AllUnanswered(c) ==
    /\ task[c].at = "all"
    /\ FallsBack(c)
    /\ UNCHANGED <<endpoints, store, writing>>

LogoutAllResumes(c) ==
    /\ At(c, "again", "resume")
    /\ CASE task[c].answer = "rotated" ->
              /\ app' = AfterRotation(c)
              /\ task' = [task EXCEPT ![c].at = IF task[c].fresh THEN "all" ELSE "revoke"]
              /\ UNCHANGED mutations
         [] OTHER -> FallsBack(c)
    /\ UNCHANGED <<endpoints, store, writing>>

---------------------------------------------------------------------------
(* The process dies: memory is gone, a write in progress may have happened. *)

Crash ==
    /\ app # Launched \/ \E t \in Task : ~Idle(t)
    /\ app' = Launched
    /\ task' = [t \in Task |-> Free]
    /\ store' \in {store} \cup IF writing THEN {task[Head(mutations)].token} ELSE {}
    /\ mutations' = <<>> /\ writing' = FALSE
    /\ GiveUp(Asked(Rotation))

\* A family ends at the server: deactivation, another device, its age.
EndedElsewhere(f) == Alive(f) /\ EndFamilies({f}) /\ UNCHANGED phone

ArrivesLate(t) == LateArrival(t) /\ UNCHANGED phone

KeyStore(t) ==
    \/ Clear(t) \/ ReadStored(t) \/ EmptyStore(t)
    \/ BeginWrite(t) \/ WriteFails(t) \/ LoginWritten(t) \/ RotationWritten(t)

Answers(t) ==
    \/ ServeRotation(t) \/ RotationAnswered(t) \/ RotationUnanswered(t)
    \/ LoginAnswered(t) \/ LoginUnanswered(t) \/ \E f \in Family : ServeLogin(t, f)
    \/ Identified(t) \/ NotIdentified(t)
    \/ AllRevoked(t) \/ AllRefused(t) \/ AllUnanswered(t)
    \/ Revoke(t)

Resumes(t) == BootstrapResumes(t) \/ RefreshResumes(t) \/ LogoutAllResumes(t)

Continue(t) == KeyStore(t) \/ Answers(t) \/ Resumes(t)

Next ==
    \/ \E c \in Call : Bootstrap(c) \/ Login(c) \/ Refresh(c) \/ Logout(c) \/ LogoutAll(c)
    \/ \E t \in Task : Continue(t)
    \/ Crash
    \/ \E f \in Family : EndedElsewhere(f)
    \/ \E t \in late : ArrivesLate(t)

Spec == Init /\ [][Next]_vars

---------------------------------------------------------------------------
(* Properties *)

KeyStoreSteps == {"read", "commit", "clear", "empty"}

\* Every task that waits for the key store is in the queue, once, and every
\* entry of the queue is such a task: nothing waits for itself, and a failed
\* operation leaves nothing behind that blocks the next.
MutationsServed ==
    /\ \A i, j \in DOMAIN mutations : mutations[i] = mutations[j] => i = j
    /\ \A t \in Task :
          task[t].at \in KeyStoreSteps <=> \E i \in DOMAIN mutations : mutations[i] = t
    /\ writing => mutations # <<>> /\ task[Head(mutations)].at = "commit"

\* Who waits for a rotation waits for the one in progress.
OneRotation ==
    /\ \A c \in Call : task[c].at = "rotating" =>
          task[c].lead \in Rotation /\ ~Idle(task[c].lead)
    /\ \A t \in Task : task[t].at # "rotating" => task[t].lead = None
    /\ \A q, r \in Rotation : Idle(q) \/ Idle(r) \/ q = r

\* The key store, the access token and the published user are never of two
\* different logins.
OneIdentity ==
    LET kept == {FamilyOf(t) : t \in {store} \ {None}} IN
    Cardinality(kept \cup ({app.user, app.access} \ {None})) <= 1

PhoneInv == TypeOK /\ MutationsServed /\ OneRotation /\ OneIdentity

\* Single flight is enough: when the server takes a token somebody waits on for
\* a replay, the token it revokes is neither stored nor on its way into the
\* store.  Only a request that arrives after it was given up can do more.
ReplayNeedsALoss ==
    [][\A r \in Rotation, f \in Family :
          ServeRotation(r) /\ f \in replayed' \ replayed =>
              /\ store # current[f]
              /\ \A q \in Rotation :
                    task[q].at \in {"pair", "commit"} => task[q].token # current[f]]_vars

\* A rotation overtaken by a logout during its write does store its token, but
\* only ahead of the operation that overtook it, which removes it: no answer,
\* however late, puts a session back that was ended.
NoResurrection ==
    [][\A r \in Rotation :
          RotationWritten(r) /\ ~task[r].fresh =>
              \E i \in DOMAIN mutations' :
                  task[mutations'[i]].fresh /\ task[mutations'[i]].at \in {"empty", "clear"}]_vars
=============================================================================
