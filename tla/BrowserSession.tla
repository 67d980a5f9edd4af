---------------------------- MODULE BrowserSession ---------------------------
(***************************************************************************)
(* The admin's browser: cookies shared by its tabs, requests to the back   *)
(* end for it, which reads the cookies a request carried and sets cookies  *)
(* with its answer, and the refresh that tabs coordinate with a Web Lock.  *)
(* The server is SessionEndpoints.                                         *)
(***************************************************************************)
EXTENDS SessionEndpoints

CONSTANTS Tab, Request, TabOf, None

VARIABLES
    jar,       \* mansar_at (the family it is good for) and mansar_rt
    request,   \* authenticatedFetch, the login form and logout, in progress
    attempt,   \* inFlightRefresh of each tab
    holder     \* the tab that holds mansar-auth-refresh

browser == <<jar, request, attempt, holder>>
vars == <<endpoints, browser>>

NoRequest == [kind |-> "none", at |-> "none", sent |-> None]
NoAttempt == [at |-> "none", sent |-> None]
NoCookies == [access |-> None, refresh |-> None]
CookiesOf(t) == [access |-> FamilyOf(t), refresh |-> t]

TypeOK ==
    /\ EndpointsTypeOK
    /\ jar \in [access : Family \cup {None}, refresh : Token \cup {None}]
    /\ request \in [Request ->
         [kind : {"none", "page", "logoutAll", "login", "logout"},
          at : {"none", "sent", "refreshing", "resent", "answer"},
          sent : Family \cup Token \cup {None}]]
    /\ attempt \in [Tab ->
         [at : {"none", "lock", "probe", "post", "pair", "refused"},
          sent : Family \cup Token \cup {None}]]
    /\ holder \in Tab \cup {None}

Init ==
    /\ EndpointsInit
    /\ jar = NoCookies /\ holder = None
    /\ request = [q \in Request |-> NoRequest]
    /\ attempt = [t \in Tab |-> NoAttempt]

---------------------------------------------------------------------------
(* authenticatedFetch *)

Fetch(q, kind) ==
    /\ request[q] = NoRequest
    /\ request' = [request EXCEPT ![q] = [kind |-> kind, at |-> "sent", sent |-> jar.access]]
    /\ UNCHANGED <<endpoints, jar, attempt, holder>>

\* The first 401 waits for the refresh of its tab, and starts it.
Unauthorized(q) ==
    /\ request[q].kind \in {"page", "logoutAll"} /\ request[q].at = "sent"
    /\ request' = [request EXCEPT ![q].at = "refreshing"]
    /\ attempt' = IF attempt[TabOf[q]] # NoAttempt THEN attempt
                  ELSE [attempt EXCEPT ![TabOf[q]].at = "lock"]
    /\ UNCHANGED <<endpoints, jar, holder>>

\* An answer that is final: whatever but a first 401, or no answer.  A bearer
\* that was accepted has ended every session when the request was logout-all.
Final(q) ==
    LET accepted == request[q].sent # None /\ request[q].kind = "logoutAll" IN
    /\ request[q].kind \in {"page", "logoutAll"} /\ request[q].at \in {"sent", "resent"}
    /\ request' = [request EXCEPT ![q] = NoRequest]
    /\ \/ /\ accepted
          /\ EndFamilies({f \in Family : Alive(f)})
          /\ jar' \in {NoCookies, jar}
       \/ UNCHANGED <<endpoints, jar>>
    /\ UNCHANGED <<attempt, holder>>

---------------------------------------------------------------------------
(* refreshSession *)

\* The lock is free again and whoever waited retries once or gives up.
Settle(t, refreshed) ==
    /\ attempt' = [attempt EXCEPT ![t] = NoAttempt]
    /\ holder' = IF holder = t THEN None ELSE holder
    /\ request' = [q \in Request |->
         IF TabOf[q] = t /\ request[q].at = "refreshing"
         THEN IF refreshed
              THEN [request[q] EXCEPT !.at = "resent", !.sent = jar'.access]
              ELSE NoRequest
         ELSE request[q]]

\* Variant: a browser without the lock manager.
EnterUnlocked(t) ==
    /\ attempt[t].at = "lock"
    /\ attempt' = [attempt EXCEPT ![t] = [at |-> "probe", sent |-> jar.access]]
    /\ UNCHANGED <<endpoints, jar, request, holder>>

Enter(t) ==
    /\ attempt[t].at = "lock" /\ holder = None
    /\ holder' = t
    /\ attempt' = [attempt EXCEPT ![t] = [at |-> "probe", sent |-> jar.access]]
    /\ UNCHANGED <<endpoints, jar, request>>

\* Another tab has refreshed meanwhile.
ProbeHealthy(t) ==
    /\ attempt[t].at = "probe" /\ attempt[t].sent # None
    /\ UNCHANGED <<endpoints, jar>>
    /\ Settle(t, TRUE)

\* /api/auth/me refused the bearer and clears its cookie, or answered otherwise.
ProbeUnhealthy(t) ==
    /\ attempt[t].at = "probe"
    /\ jar' \in {jar} \cup
         IF attempt[t].sent # None THEN {[jar EXCEPT !.access = None]} ELSE {}
    /\ attempt' = [attempt EXCEPT ![t] = [at |-> "post", sent |-> jar.refresh]]
    /\ UNCHANGED <<endpoints, request, holder>>

ServeRefresh(t) ==
    LET token == attempt[t].sent IN
    /\ attempt[t].at = "post" /\ token # None
    /\ \/ /\ Exchange(token)
          /\ attempt' = [attempt EXCEPT ![t] = [at |-> "pair", sent |-> Successor(token)]]
       \/ /\ Replay(token) \/ Refuse(token)
          /\ attempt' = [attempt EXCEPT ![t].at = "refused"]
    /\ UNCHANGED <<late, jar, request, holder>>

\* Both cookies are replaced, or both removed.
RefreshAnswered(t) ==
    /\ attempt[t].at \in {"pair", "refused"}
    /\ jar' = IF attempt[t].at = "pair" THEN CookiesOf(attempt[t].sent) ELSE NoCookies
    /\ Settle(t, attempt[t].at = "pair")
    /\ UNCHANGED endpoints

Posted(t) ==
    IF attempt[t].at = "post" /\ attempt[t].sent # None THEN {attempt[t].sent} ELSE {}

\* No cookie to refresh with, the API out of reach, or a request that failed:
\* the cookies stay.
RefreshFails(t) ==
    /\ attempt[t].at \in {"probe", "post", "pair", "refused"}
    /\ UNCHANGED jar
    /\ GiveUp(Posted(t))
    /\ Settle(t, FALSE)

---------------------------------------------------------------------------
(* The login form and the sign-out button *)

Login(q) ==
    /\ request[q] = NoRequest
    /\ request' = [request EXCEPT ![q] = [kind |-> "login", at |-> "sent", sent |-> None]]
    /\ UNCHANGED <<endpoints, jar, attempt, holder>>

ServeLogin(q, f) ==
    /\ request[q].kind = "login" /\ request[q].at = "sent"
    /\ OpenFamily(f)
    /\ request' = [request EXCEPT ![q].at = "answer", ![q].sent = <<f, 1>>]
    /\ UNCHANGED <<jar, attempt, holder>>

\* A driver's account is signed out again and gets no cookies.
LoginAnswered(q) ==
    /\ request[q].kind = "login"
    /\ request' = [request EXCEPT ![q] = NoRequest]
    /\ \/ /\ request[q].at = "answer"
          /\ \/ jar' = CookiesOf(request[q].sent) /\ UNCHANGED endpoints
             \/ RevokeToken(request[q].sent) /\ UNCHANGED jar
       \/ UNCHANGED <<endpoints, jar>>
    /\ UNCHANGED <<attempt, holder>>

Logout(q) ==
    /\ request[q] = NoRequest
    /\ request' = [request EXCEPT ![q] =
                     [kind |-> "logout", at |-> "sent", sent |-> jar.refresh]]
    /\ UNCHANGED <<endpoints, jar, attempt, holder>>

ServeLogout(q) ==
    /\ request[q].kind = "logout" /\ request[q].at = "sent"
    /\ \/ request[q].sent # None /\ RevokeToken(request[q].sent)
       \/ UNCHANGED endpoints
    /\ request' = [request EXCEPT ![q].at = "answer"]
    /\ UNCHANGED <<jar, attempt, holder>>

\* The cookies go whatever the API said; an answer that is lost removes nothing.
LogoutAnswered(q) ==
    /\ request[q].kind = "logout" /\ request[q].at = "answer"
    /\ jar' \in {NoCookies, jar}
    /\ request' = [request EXCEPT ![q] = NoRequest]
    /\ UNCHANGED <<endpoints, attempt, holder>>

---------------------------------------------------------------------------
(* mansar_at reaches its age. *)
AccessExpires ==
    /\ jar.access # None
    /\ jar' = [jar EXCEPT !.access = None]
    /\ UNCHANGED <<endpoints, request, attempt, holder>>

\* A closed tab drops its requests, and the lock.
CloseTab(t) ==
    /\ attempt[t] # NoAttempt \/ \E q \in Request : TabOf[q] = t /\ request[q] # NoRequest
    /\ request' = [q \in Request |-> IF TabOf[q] = t THEN NoRequest ELSE request[q]]
    /\ attempt' = [attempt EXCEPT ![t] = NoAttempt]
    /\ holder' = IF holder = t THEN None ELSE holder
    /\ GiveUp(Posted(t))
    /\ UNCHANGED jar

EndedElsewhere(f) == Alive(f) /\ EndFamilies({f}) /\ UNCHANGED browser

ArrivesLate(t) == LateArrival(t) /\ UNCHANGED browser

Answers(q) ==
    \/ Unauthorized(q) \/ Final(q)
    \/ \E f \in Family : ServeLogin(q, f)
    \/ LoginAnswered(q) \/ ServeLogout(q) \/ LogoutAnswered(q)

\* Variant: the probe is an authenticatedFetch, whose 401 waits for the attempt
\* it is part of.
ProbeWaitsForItself(t) ==
    \/ ProbeHealthy(t) \/ ServeRefresh(t) \/ RefreshAnswered(t)
    \/ attempt[t].at # "probe" /\ RefreshFails(t)

Proceeds(t) ==
    \/ ProbeHealthy(t) \/ ProbeUnhealthy(t) \/ ServeRefresh(t)
    \/ RefreshAnswered(t) \/ RefreshFails(t)

Next ==
    \/ \E q \in Request :
          \/ \E kind \in {"page", "logoutAll"} : Fetch(q, kind)
          \/ Login(q) \/ Logout(q) \/ Answers(q)
    \/ \E t \in Tab : Enter(t) \/ Proceeds(t) \/ CloseTab(t)
    \/ AccessExpires
    \/ \E f \in Family : EndedElsewhere(f)
    \/ \E t \in late : ArrivesLate(t)

Spec == Init /\ [][Next]_vars

\* Requests are answered or fail, and the lock manager serves its queue in turn.
BrowserFairness ==
    /\ \A q \in Request : WF_vars(Answers(q))
    /\ \A t \in Tab : WF_vars(Proceeds(t)) /\ SF_vars(Enter(t))

FairSpec == Spec /\ BrowserFairness

---------------------------------------------------------------------------
(* Properties *)

\* Tabs never send the same refresh token twice: when the API takes the token a
\* tab waits on for a replay, the token it revokes is not in the cookies nor in
\* an answer that some tab still waits for.
TabsNeverReplay ==
    [][\A t \in Tab, f \in Family :
          ServeRefresh(t) /\ f \in replayed' \ replayed =>
              /\ jar.refresh # current[f]
              /\ \A u \in Tab : attempt[u].at = "pair" => attempt[u].sent # current[f]]_vars

\* Every request of the page is answered, at the latest after one refresh and
\* one retry, whatever the other tabs do.
EveryFetchSettles ==
    \A q \in Request : request[q].kind \in {"page", "logoutAll"} ~> request[q] = NoRequest
=============================================================================
