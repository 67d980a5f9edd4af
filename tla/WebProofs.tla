------------------------------ MODULE WebProofs ------------------------------
(***************************************************************************)
(* The admin's browser: its tabs, which share their cookies, the page of a *)
(* trip and the positions it lists.  For every number of tabs, requests,   *)
(* logins and tokens, for every number of drivers, changes and reads under *)
(* way, and for every set of positions and every size of a page.           *)
(***************************************************************************)
EXTENDS BrowserSession, TripPage, TripRoute, FiniteSetTheorems, WellFoundedInduction, TLAPS

USE EndpointAssumption, TokenAssumption

-----------------------------------------------------------------------------
(* The tabs. *)

\* Every token and every family can be told from nothing.
BrowserConstants == None \notin Token \cup Tab

\* What an attempt or a login carries at each place.
Carried ==
    /\ \A t \in Tab :
          /\ attempt[t].at = "post" => attempt[t].sent \in Token \cup {None}
          /\ attempt[t].at = "pair" => attempt[t].sent \in Token
    /\ \A q \in Request :
          /\ request[q].kind = "login" /\ request[q].at = "answer" => request[q].sent \in Token
          /\ request[q].kind = "logout" => request[q].sent \in Token \cup {None}
          /\ request[q].at = "refreshing" => request[q].kind \in {"page", "logoutAll"}

\* Beyond the queue for it, an attempt has the lock.
UnderLock ==
    \A t \in Tab : attempt[t].at \in {"probe", "post", "pair", "refused"} => holder = t

Holding(t) == attempt[t].at \in {"post", "pair"} /\ attempt[t].sent # None
Answering(q) == request[q].kind = "login" /\ request[q].at = "answer"

\* A family is known by its tokens, and a token is of a family that was opened.
Chains ==
    /\ \A f \in Family : Alive(f) => FamilyOf(current[f]) = f
    /\ jar.refresh # None => current[FamilyOf(jar.refresh)] # Unborn
    /\ \A t \in Tab : Holding(t) => current[FamilyOf(attempt[t].sent)] # Unborn
    /\ \A q \in Request : Answering(q) => current[FamilyOf(request[q].sent)] # Unborn

\* What is posted is what the cookies hold, if they are of the same login ...
PostedIsHeld ==
    \A t \in Tab :
        attempt[t].at = "post" /\ attempt[t].sent # None /\ jar.refresh # None
            /\ FamilyOf(attempt[t].sent) = FamilyOf(jar.refresh)
        => attempt[t].sent = jar.refresh

\* ... and a login that is not in the cookies yet is nobody else's.
LoginApart ==
    \A q \in Request : Answering(q) =>
        LET f == FamilyOf(request[q].sent) IN
        /\ jar.refresh # None => FamilyOf(jar.refresh) # f
        /\ \A t \in Tab : Holding(t) => FamilyOf(attempt[t].sent) # f
        /\ \A r \in Request \ {q} : Answering(r) => FamilyOf(request[r].sent) # f

BrowserIndInv == TypeOK /\ Carried /\ UnderLock /\ Chains /\ PostedIsHeld /\ LoginApart

-----------------------------------------------------------------------------
(* What the server does. *)

ServerMoves ==
    /\ EndpointsTypeOK'
    /\ \A f \in Family :
          /\ Alive(f)' => FamilyOf(current'[f]) = f
          /\ current[f] # Unborn => current'[f] # Unborn

\* Tokens belong to families, and so do their successors.
LEMMA TokenFacts ==
    /\ \A k \in Token : FamilyOf(k) \in Family /\ k # Unborn /\ k # Ended
    /\ \A k \in Token : Successor(k) \in Token => FamilyOf(Successor(k)) = FamilyOf(k)
    /\ \A f \in Family : <<f, 1>> \in Token /\ FamilyOf(<<f, 1>>) = f
  BY DEF Token, FamilyOf, Successor

\* A request that changes nothing on the server.
LEMMA ServedSame ==
    ASSUME BrowserIndInv, UNCHANGED <<current, issued, replayed>>, late' \subseteq Token
    PROVE  ServerMoves
  BY DEF BrowserIndInv, TypeOK, Chains, ServerMoves, EndpointsTypeOK, Families!TypeOK, Alive

\* Families end.
LEMMA ServedEnds ==
    ASSUME BrowserIndInv, NEW F \in SUBSET Family, Families!End(F), replayed' \subseteq Family,
           late' \subseteq Token
    PROVE  ServerMoves
<1>1. \A f \in Family : current'[f] = IF f \in F THEN Ended ELSE current[f]
  BY DEF Families!End
<1>2. Families!TypeOK'
  BY DEF Families!End, Families!TypeOK, EndpointsTypeOK, BrowserIndInv, TypeOK
<1>3. QED
  BY <1>1, <1>2, TokenFacts DEF ServerMoves, EndpointsTypeOK, Chains, Alive, BrowserIndInv

\* One family is opened, or goes on to its next token.
LEMMA ServedOne ==
    ASSUME BrowserIndInv, NEW k \in Token,
           Families!Open(FamilyOf(k), k) \/ Families!Refresh(FamilyOf(k), k),
           replayed' = replayed, late' \subseteq Token
    PROVE  ServerMoves /\ current'[FamilyOf(k)] = k
<1>1. /\ current' = [current EXCEPT ![FamilyOf(k)] = k] /\ issued' = issued \cup {k}
      /\ FamilyOf(k) \in Family /\ k # Unborn
  BY TokenFacts DEF Families!Open, Families!Refresh
<1>2. EndpointsTypeOK'
  BY <1>1 DEF EndpointsTypeOK, Families!TypeOK, BrowserIndInv, TypeOK
<1>3. current \in [Family -> Token \cup {Unborn, Ended}]
  BY DEF EndpointsTypeOK, Families!TypeOK, BrowserIndInv, TypeOK
<1>4. \A f \in Family : current'[f] = IF f = FamilyOf(k) THEN k ELSE current[f]
  BY <1>1, <1>3
<1>5. QED
  BY <1>1, <1>2, <1>4 DEF ServerMoves, Chains, Alive, BrowserIndInv

\* POST /auth/refresh.
LEMMA ServedRefresh ==
    ASSUME BrowserIndInv, NEW k \in Token, Exchange(k) \/ Replay(k) \/ Refuse(k),
           late' \subseteq Token
    PROVE  ServerMoves
<1>1. CASE Exchange(k)
  <2>1. /\ Successor(k) \in Token /\ FamilyOf(Successor(k)) = FamilyOf(k)
        /\ Families!Refresh(FamilyOf(k), Successor(k)) /\ replayed' = replayed
    BY <1>1, TokenFacts DEF Exchange
  <2>2. QED
    BY <2>1, ServedOne
<1>2. CASE Replay(k)
  <2>1. /\ {FamilyOf(k)} \in SUBSET Family /\ Families!End({FamilyOf(k)})
        /\ replayed' \subseteq Family
    BY <1>2, TokenFacts DEF Replay, EndpointsTypeOK, BrowserIndInv, TypeOK
  <2>2. QED
    BY <2>1, ServedEnds
<1>3. CASE Refuse(k)
  BY <1>3, ServedSame DEF Refuse
<1>4. QED
  BY <1>1, <1>2, <1>3

\* A request that is not sent or not served.
LEMMA ServedNot ==
    ASSUME BrowserIndInv, UNCHANGED endpoints
    PROVE  ServerMoves
  BY ServedSame DEF endpoints, BrowserIndInv, TypeOK, EndpointsTypeOK

\* A request given up may be served later.
LEMMA ServedGiveUp ==
    ASSUME BrowserIndInv, NEW T \in SUBSET Token, GiveUp(T)
    PROVE  ServerMoves
<1>1. late' \subseteq Token
  BY DEF GiveUp, BrowserIndInv, TypeOK, EndpointsTypeOK
<1>2. QED
  BY <1>1, ServedSame DEF GiveUp

\* POST /auth/logout, for one token.
LEMMA ServedRevoke ==
    ASSUME BrowserIndInv, NEW k \in Token, RevokeToken(k)
    PROVE  ServerMoves
<1>1. late \subseteq Token /\ replayed \subseteq Family /\ {FamilyOf(k)} \in SUBSET Family
  BY TokenFacts DEF EndpointsTypeOK, BrowserIndInv, TypeOK
<1>2. CASE UNCHANGED endpoints
  BY <1>2, ServedNot
<1>3. CASE Families!End({FamilyOf(k)}) /\ UNCHANGED <<replayed, late>>
  BY <1>1, <1>3, ServedEnds
<1>4. QED
  BY <1>2, <1>3 DEF RevokeToken

\* The same for several.
LEMMA ServedMany ==
    ASSUME BrowserIndInv, NEW F \in SUBSET Family, EndFamilies(F)
    PROVE  ServerMoves
  BY ServedEnds DEF EndFamilies, BrowserIndInv, TypeOK, EndpointsTypeOK

-----------------------------------------------------------------------------
(* What the browser does. *)

RequestRecord ==
    [kind : {"none", "page", "logoutAll", "login", "logout"},
     at : {"none", "sent", "refreshing", "resent", "answer"},
     sent : Family \cup Token \cup {None}]

AttemptRecord ==
    [at : {"none", "lock", "probe", "post", "pair", "refused"},
     sent : Family \cup Token \cup {None}]

CookieRecord == [access : Family \cup {None}, refresh : Token \cup {None}]

BrowserTypes ==
    /\ jar' \in CookieRecord /\ request' \in [Request -> RequestRecord]
    /\ attempt' \in [Tab -> AttemptRecord] /\ holder' \in Tab \cup {None}

\* What TypeOK says of the browser, part by part.
LEMMA Types ==
    ASSUME BrowserIndInv
    PROVE  /\ jar \in CookieRecord /\ request \in [Request -> RequestRecord]
           /\ attempt \in [Tab -> AttemptRecord] /\ holder \in Tab \cup {None}
           /\ EndpointsTypeOK
  BY DEF BrowserIndInv, TypeOK, CookieRecord, RequestRecord, AttemptRecord

\* Most steps bring no token from elsewhere: what is held was held, or is what the
\* cookies hold.
LEMMA QuietStep ==
    ASSUME BrowserIndInv, ServerMoves, BrowserTypes, Carried', UnderLock', BrowserConstants,
           jar'.refresh \in {jar.refresh, None},
           \A t \in Tab : Holding(t)' =>
               \/ attempt'[t] = attempt[t]
               \/ attempt'[t].sent = jar.refresh
               \/ attempt[t].at = "post" /\ attempt'[t].at = "pair" /\ attempt[t].sent # None
                    /\ FamilyOf(attempt'[t].sent) = FamilyOf(attempt[t].sent),
           \A q \in Request : Answering(q)' => request'[q] = request[q]
    PROVE  BrowserIndInv'
<1>1. TypeOK'
  BY DEF ServerMoves, BrowserTypes, TypeOK, CookieRecord, RequestRecord, AttemptRecord
<1>2. Chains'
  <2>1. \A f \in Family : current[f] # Unborn => current'[f] # Unborn
    BY DEF ServerMoves
  <2>2. /\ jar.refresh # None => jar.refresh \in Token /\ current[FamilyOf(jar.refresh)] # Unborn
        /\ \A t \in Tab : Holding(t) =>
              attempt[t].sent \in Token /\ current[FamilyOf(attempt[t].sent)] # Unborn
        /\ \A q \in Request : Answering(q) =>
              request[q].sent \in Token /\ current[FamilyOf(request[q].sent)] # Unborn
    BY Types DEF Chains, BrowserIndInv, Carried, Holding, Answering, CookieRecord
  <2>3. \A f \in Family : Alive(f)' => FamilyOf(current'[f]) = f
    BY DEF ServerMoves
  <2>4. jar'.refresh # None => current'[FamilyOf(jar'.refresh)] # Unborn
    BY <2>1, <2>2, TokenFacts
  <2>5. \A t \in Tab : Holding(t)' => current'[FamilyOf(attempt'[t].sent)] # Unborn
    <3> SUFFICES ASSUME NEW t \in Tab, Holding(t)'
                 PROVE  current'[FamilyOf(attempt'[t].sent)] # Unborn
      OBVIOUS
    <3>1. CASE attempt'[t] = attempt[t]
      BY <2>1, <2>2, <3>1, TokenFacts DEF Holding
    <3>2. CASE attempt'[t].sent = jar.refresh
      BY <2>1, <2>2, <3>2, TokenFacts DEF Holding
    <3>3. CASE /\ attempt[t].at = "post" /\ attempt'[t].at = "pair" /\ attempt[t].sent # None
               /\ FamilyOf(attempt'[t].sent) = FamilyOf(attempt[t].sent)
      BY <2>1, <2>2, <3>3, TokenFacts DEF Holding
    <3>4. QED
      BY <3>1, <3>2, <3>3
  <2>6. \A q \in Request : Answering(q)' => current'[FamilyOf(request'[q].sent)] # Unborn
    BY <2>1, <2>2, TokenFacts DEF Answering
  <2>7. QED
    BY <2>3, <2>4, <2>5, <2>6 DEF Chains
<1>3. PostedIsHeld'
  BY DEF PostedIsHeld, Holding, BrowserIndInv
<1>4. LoginApart'
  BY DEF LoginApart, Holding, Answering, BrowserIndInv
<1>5. QED
  BY <1>1, <1>2, <1>3, <1>4 DEF BrowserIndInv

USE DEF NoRequest, NoAttempt, NoCookies

\* What the steps of a request have in common: one request moves, no attempt does
\* but, at most, into the queue for the lock.
LEMMA RequestMoves ==
    ASSUME BrowserIndInv, BrowserConstants, ServerMoves, NEW q \in Request, NEW rec,
           request' = [request EXCEPT ![q] = rec],
           rec \in RequestRecord,
           ~(rec.kind = "login" /\ rec.at = "answer"),
           rec.kind = "logout" => rec.sent \in Token \cup {None},
           rec.at = "refreshing" => rec.kind \in {"page", "logoutAll"},
           jar' \in CookieRecord,
           jar'.refresh \in {jar.refresh, None},
           UNCHANGED holder,
           \/ UNCHANGED attempt
           \/ \E t \in Tab : attempt[t] = NoAttempt /\ attempt' = [attempt EXCEPT ![t].at = "lock"]
    PROVE  BrowserIndInv'
<1>1. BrowserTypes
  <2>1. request' \in [Request -> RequestRecord]
    BY Types
  <2>2. attempt' \in [Tab -> AttemptRecord]
    BY Types DEF AttemptRecord
  <2>3. QED
    BY <2>1, <2>2, Types DEF BrowserTypes
<1>2. /\ request'[q] = rec
      /\ \A r \in Request \ {q} : request'[r] = request[r]
  BY Types
<1>3. \A t \in Tab : attempt'[t] = attempt[t] \/ attempt'[t].at = "lock"
  BY Types DEF AttemptRecord
<1>4. Carried' /\ UnderLock'
  BY <1>2, <1>3 DEF Carried, UnderLock, BrowserIndInv
<1>5. QED
  BY <1>1, <1>2, <1>3, <1>4, QuietStep DEF Holding, Answering

\* An attempt moves on, and nothing else but, perhaps, the cookies and the lock.
LEMMA AttemptMoves ==
    ASSUME BrowserIndInv, BrowserConstants, ServerMoves, NEW t \in Tab, NEW rec,
           attempt' = [attempt EXCEPT ![t] = rec],
           rec.at \in {"probe", "post", "pair", "refused"},
           rec \in AttemptRecord,
           rec.at = "post" => rec.sent = jar.refresh,
           rec.at = "pair" =>
               /\ attempt[t].at = "post" /\ attempt[t].sent # None
               /\ rec.sent \in Token /\ FamilyOf(rec.sent) = FamilyOf(attempt[t].sent),
           jar' \in CookieRecord,
           jar'.refresh \in {jar.refresh, None},
           holder' = t, holder \in {t, None},
           UNCHANGED request
    PROVE  BrowserIndInv'
<1>1. BrowserTypes
  BY Types DEF BrowserTypes
<1>2. /\ attempt'[t] = rec
      /\ \A u \in Tab \ {t} : attempt'[u] = attempt[u]
  BY DEF BrowserIndInv, TypeOK
<1>3. Carried'
  BY <1>2 DEF Carried, BrowserIndInv, TypeOK
<1>4. UnderLock'
  <2>1. \A u \in Tab \ {t} : attempt[u].at \notin {"probe", "post", "pair", "refused"}
    BY DEF UnderLock, BrowserIndInv, BrowserConstants
  <2>2. QED
    BY <1>2, <2>1 DEF UnderLock
<1>5. QED
  BY <1>1, <1>2, <1>3, <1>4, QuietStep DEF Holding, Answering

\* An attempt ends and with it the wait of its tab's requests.
LEMMA Settles ==
    ASSUME BrowserIndInv, BrowserConstants, ServerMoves, NEW t \in Tab,
           NEW refreshed \in BOOLEAN, Settle(t, refreshed),
           jar' \in CookieRecord
    PROVE  /\ BrowserTypes /\ Carried' /\ UnderLock'
           /\ attempt'[t] = NoAttempt /\ \A u \in Tab \ {t} : attempt'[u] = attempt[u]
           /\ \A q \in Request : Answering(q)' => request'[q] = request[q]
<1> USE Types
<1>1. /\ attempt'[t] = NoAttempt
      /\ \A u \in Tab \ {t} : attempt'[u] = attempt[u]
      /\ attempt' \in [Tab -> AttemptRecord]
  BY DEF Settle, AttemptRecord
<1>2. \A q \in Request :
        \/ request'[q] = request[q]
        \/ request'[q] = NoRequest
        \/ /\ request[q].at = "refreshing"
           /\ request'[q] = [request[q] EXCEPT !.at = "resent", !.sent = jar'.access]
  BY DEF Settle
<1>3. \A q \in Request : request'[q] \in RequestRecord
  <2>1. \A q \in Request : request[q] \in RequestRecord /\ NoRequest \in RequestRecord
    BY DEF RequestRecord
  <2>2. \A q \in Request :
          [request[q] EXCEPT !.at = "resent", !.sent = jar'.access] \in RequestRecord
    BY <2>1 DEF RequestRecord, CookieRecord
  <2>3. QED
    BY <1>2, <2>1, <2>2
<1>4. holder' = (IF holder = t THEN None ELSE holder)
  BY DEF Settle
<1>5. Carried'
  <2>1. \A q \in Request : request[q].kind = request'[q].kind \/ request'[q] = NoRequest
    BY <1>2 DEF RequestRecord
  <2>2. \A q \in Request :
          \/ request'[q] = request[q] \/ request'[q] = NoRequest
          \/ request'[q].at = "resent" /\ request'[q].kind \in {"page", "logoutAll"}
    BY <1>2, <2>1 DEF RequestRecord, Carried, BrowserIndInv
  <2>3. QED
    BY <1>1, <2>2 DEF Carried, BrowserIndInv
<1>6. UnderLock'
  BY <1>1, <1>4 DEF UnderLock, BrowserIndInv
<1>7. BrowserTypes
  <2>1. request' = [q \in Request |-> request'[q]]
    BY DEF Settle
  <2>2. QED
    BY <1>1, <1>3, <1>4, <2>1 DEF BrowserTypes
<1>8. \A q \in Request : Answering(q)' => request'[q] = request[q]
  <2>1. \A q \in Request :
          [request[q] EXCEPT !.at = "resent", !.sent = jar'.access].at = "resent"
    BY DEF RequestRecord
  <2>2. ASSUME NEW q \in Request, Answering(q)' PROVE request'[q] = request[q]
    <3>1. request'[q].at = "answer"
      BY <2>2 DEF Answering
    <3>2. NoRequest.at = "none"
      OBVIOUS
    <3>3. QED
      BY <1>2, <2>1, <3>1, <3>2
  <2>3. QED
    BY <2>2
<1>9. QED
  BY <1>1, <1>5, <1>6, <1>7, <1>8

\* Whoever waited for a refresh goes on; no token moves.
LEMMA SettlesQuietly ==
    ASSUME BrowserIndInv, BrowserConstants, ServerMoves, NEW t \in Tab,
           NEW refreshed \in BOOLEAN, Settle(t, refreshed),
           jar' \in CookieRecord,
           jar'.refresh \in {jar.refresh, None}
    PROVE  BrowserIndInv'
  BY Settles, QuietStep DEF Holding

-----------------------------------------------------------------------------
(* authenticatedFetch *)

\* A page asks for something.
LEMMA FetchStep ==
    ASSUME BrowserIndInv, BrowserConstants, NEW q \in Request,
           NEW kind \in {"page", "logoutAll"}, Fetch(q, kind)
    PROVE  BrowserIndInv'
<1>1. ServerMoves
  BY ServedNot DEF Fetch
<1>2. QED
  BY <1>1, RequestMoves, Types DEF Fetch, RequestRecord, AttemptRecord, CookieRecord

\* The first 401 waits for the refresh of its tab.
LEMMA UnauthorizedStep ==
    ASSUME BrowserIndInv, BrowserConstants, NEW q \in Request, TabOf[q] \in Tab, Unauthorized(q)
    PROVE  BrowserIndInv'
<1>1. ServerMoves
  BY ServedNot DEF Unauthorized
<1> DEFINE rec == [request[q] EXCEPT !.at = "refreshing"]
<1>2. /\ request' = [request EXCEPT ![q] = rec]
      /\ rec \in RequestRecord
      /\ rec.at = "refreshing" /\ rec.kind \in {"page", "logoutAll"}
  BY Types DEF Unauthorized, RequestRecord, CookieRecord
<1>3. \/ UNCHANGED attempt
      \/ \E t \in Tab : attempt[t] = NoAttempt /\ attempt' = [attempt EXCEPT ![t].at = "lock"]
  BY DEF Unauthorized
<1>4. jar' \in CookieRecord /\ jar'.refresh = jar.refresh /\ UNCHANGED holder
  BY Types DEF Unauthorized
<1>5. QED
  BY <1>1, <1>2, <1>3, <1>4, RequestMoves

\* A final answer.
LEMMA FinalStep ==
    ASSUME BrowserIndInv, BrowserConstants, NEW q \in Request, Final(q)
    PROVE  BrowserIndInv'
<1>1. ServerMoves
  BY ServedNot, ServedMany DEF Final
<1>2. jar' \in CookieRecord /\ jar'.refresh \in {jar.refresh, None}
  BY Types DEF Final, CookieRecord
<1>3. request' = [request EXCEPT ![q] = NoRequest] /\ NoRequest \in RequestRecord
  BY DEF Final, RequestRecord
<1>4. QED
  BY <1>1, <1>2, <1>3, RequestMoves DEF Final

-----------------------------------------------------------------------------
(* refreshSession *)

\* A tab gets the lock.
LEMMA EnterStep ==
    ASSUME BrowserIndInv, BrowserConstants, NEW t \in Tab, Enter(t)
    PROVE  BrowserIndInv'
<1>1. ServerMoves
  BY ServedNot DEF Enter
<1>2. QED
  BY <1>1, AttemptMoves, Types DEF Enter, RequestRecord, AttemptRecord, CookieRecord

\* Under the lock it finds that the session is healthy again.
LEMMA ProbeHealthyStep ==
    ASSUME BrowserIndInv, BrowserConstants, NEW t \in Tab, ProbeHealthy(t)
    PROVE  BrowserIndInv'
<1>1. ServerMoves
  BY ServedNot DEF ProbeHealthy
<1>2. QED
  BY <1>1, SettlesQuietly, Types DEF ProbeHealthy, RequestRecord, AttemptRecord, CookieRecord

\* Under the lock it reads the token it will send.
LEMMA ProbeUnhealthyStep ==
    ASSUME BrowserIndInv, BrowserConstants, NEW t \in Tab, ProbeUnhealthy(t)
    PROVE  BrowserIndInv'
<1>1. ServerMoves
  BY ServedNot DEF ProbeUnhealthy
<1>2. holder = t
  BY DEF ProbeUnhealthy, BrowserIndInv, UnderLock
<1>3. jar' \in CookieRecord /\ jar'.refresh = jar.refresh
  BY Types DEF ProbeUnhealthy, RequestRecord, CookieRecord
<1>4. QED
  BY <1>1, <1>2, <1>3, AttemptMoves, Types
     DEF ProbeUnhealthy, RequestRecord, AttemptRecord, CookieRecord

\* The API serves the refresh.
LEMMA ServeRefreshStep ==
    ASSUME BrowserIndInv, BrowserConstants, NEW t \in Tab, ServeRefresh(t)
    PROVE  BrowserIndInv'
<1> DEFINE token == attempt[t].sent
<1>1. token \in Token /\ holder = t
  BY DEF ServeRefresh, BrowserIndInv, Carried, UnderLock
<1>2. ServerMoves
  BY <1>1, ServedRefresh DEF ServeRefresh, BrowserIndInv, TypeOK, EndpointsTypeOK
<1>3. CASE Exchange(token) /\ attempt' = [attempt EXCEPT ![t] = [at |-> "pair", sent |-> Successor(token)]]
  <2>1. Successor(token) \in Token /\ FamilyOf(Successor(token)) = FamilyOf(token)
    BY <1>1, <1>3, TokenFacts DEF Exchange
  <2>2. QED
    BY <1>1, <1>2, <1>3, <2>1, AttemptMoves, Types
       DEF ServeRefresh, RequestRecord, AttemptRecord, CookieRecord
<1>4. CASE attempt' = [attempt EXCEPT ![t].at = "refused"]
  <2>1. attempt' = [attempt EXCEPT ![t] = [at |-> "refused", sent |-> token]]
    <3>1. attempt[t] \in AttemptRecord
      BY Types
    <3>2. [attempt[t] EXCEPT !.at = "refused"] = [at |-> "refused", sent |-> token]
      BY <3>1 DEF AttemptRecord
    <3>3. QED
      BY <1>4, <3>2
  <2>2. QED
    BY <1>1, <1>2, <2>1, AttemptMoves, Types
       DEF ServeRefresh, RequestRecord, AttemptRecord, CookieRecord
<1>5. QED
  BY <1>3, <1>4 DEF ServeRefresh

\* There is nothing to refresh with, or the request failed.
LEMMA RefreshFailsStep ==
    ASSUME BrowserIndInv, BrowserConstants, NEW t \in Tab, RefreshFails(t)
    PROVE  BrowserIndInv'
<1>1. Posted(t) \subseteq Token
  BY DEF Posted, BrowserIndInv, Carried
<1>2. ServerMoves
  BY <1>1, ServedGiveUp DEF RefreshFails
<1>3. QED
  BY <1>2, SettlesQuietly, Types DEF RefreshFails, RequestRecord, AttemptRecord, CookieRecord

\* The lock keeps the other tabs out while the cookies become those of the pair.
LEMMA RefreshAnsweredStep ==
    ASSUME BrowserIndInv, BrowserConstants, NEW t \in Tab, RefreshAnswered(t)
    PROVE  BrowserIndInv'
<1>1. ServerMoves
  BY ServedNot DEF RefreshAnswered
<1>2. CASE attempt[t].at = "refused"
  <2>1. jar' = NoCookies /\ Settle(t, FALSE) /\ NoCookies \in CookieRecord
    BY <1>2 DEF RefreshAnswered, CookieRecord
  <2>2. QED
    BY <1>1, <2>1, SettlesQuietly
<1>3. CASE attempt[t].at = "pair"
  <2> DEFINE token == attempt[t].sent
  <2>1. token \in Token /\ token # None /\ Holding(t)
    BY <1>3 DEF Carried, BrowserIndInv, BrowserConstants, Holding
  <2>2. jar' = CookiesOf(token) /\ jar' \in CookieRecord /\ Settle(t, TRUE)
    BY <1>3, <2>1, TokenFacts DEF RefreshAnswered, CookiesOf, CookieRecord
  <2>3. jar'.refresh = token
    BY <2>2 DEF CookiesOf
  <2>4. /\ BrowserTypes /\ Carried' /\ UnderLock'
        /\ attempt'[t] = NoAttempt /\ \A u \in Tab \ {t} : attempt'[u] = attempt[u]
        /\ \A q \in Request : Answering(q)' => request'[q] = request[q]
    BY <1>1, <2>2, Settles
  <2>5. \A u \in Tab : ~Holding(u)'
    <3>1. \A u \in Tab \ {t} : ~Holding(u)
      BY <1>3 DEF UnderLock, Holding, BrowserIndInv
    <3>2. QED
      BY <2>4, <3>1 DEF Holding
  <2>6. TypeOK'
    BY <1>1, <2>4
       DEF ServerMoves, BrowserTypes, TypeOK, CookieRecord, RequestRecord, AttemptRecord
  <2>7. Chains'
    <3>1. current[FamilyOf(token)] # Unborn /\ FamilyOf(token) \in Family
      BY <2>1, TokenFacts DEF Chains, BrowserIndInv
    <3>2. \A q \in Request : Answering(q)' =>
            /\ Answering(q) /\ FamilyOf(request[q].sent) \in Family
            /\ current[FamilyOf(request[q].sent)] # Unborn
      BY <2>4, TokenFacts DEF Answering, Chains, Carried, BrowserIndInv
    <3>3. QED
      BY <1>1, <2>3, <2>4, <2>5, <3>1, <3>2 DEF Chains, ServerMoves
  <2>8. PostedIsHeld'
    BY <2>5 DEF PostedIsHeld, Holding
  <2>9. LoginApart'
    BY <2>1, <2>3, <2>4, <2>5 DEF LoginApart, Answering, BrowserIndInv
  <2>10. QED
    BY <2>4, <2>6, <2>7, <2>8, <2>9 DEF BrowserIndInv
<1>4. QED
  BY <1>2, <1>3 DEF RefreshAnswered

-----------------------------------------------------------------------------
(* The login form, the sign-out button, and what happens by itself. *)

\* The login form is sent.
LEMMA LoginStep ==
    ASSUME BrowserIndInv, BrowserConstants, NEW q \in Request, Login(q) \/ Logout(q)
    PROVE  BrowserIndInv'
<1>1. ServerMoves
  BY ServedNot DEF Login, Logout
<1>2. CASE Login(q)
  BY <1>1, <1>2, RequestMoves, Types DEF Login, RequestRecord, CookieRecord
<1>3. CASE Logout(q)
  BY <1>1, <1>3, RequestMoves, Types DEF Logout, RequestRecord, CookieRecord
<1>4. QED
  BY <1>2, <1>3

\* The API opens a family of its own for it.
LEMMA ServeLoginStep ==
    ASSUME BrowserIndInv, BrowserConstants, NEW q \in Request, NEW f \in Family, ServeLogin(q, f)
    PROVE  BrowserIndInv'
<1> DEFINE token == <<f, 1>>
           rec == [request[q] EXCEPT !.at = "answer", !.sent = token]
<1>1. token \in Token /\ FamilyOf(token) = f
  BY TokenFacts
<1>2. current[f] = Unborn
  BY DEF ServeLogin, OpenFamily, Families!Open
<1>3. ServerMoves
  BY <1>1, ServedOne DEF ServeLogin, OpenFamily, BrowserIndInv, TypeOK, EndpointsTypeOK
<1>4. current'[f] # Unborn
  BY <1>1, ServedOne, TokenFacts
     DEF ServeLogin, OpenFamily, BrowserIndInv, TypeOK, EndpointsTypeOK
<1>5. /\ request[q] \in RequestRecord /\ request[q].kind = "login" /\ request[q].at = "sent"
      /\ request' = [request EXCEPT ![q] = rec] /\ rec \in RequestRecord
      /\ UNCHANGED <<jar, attempt, holder>>
  BY <1>1, Types DEF ServeLogin, RequestRecord
<1>6. /\ request'[q] = rec /\ rec.kind = "login" /\ rec.at = "answer" /\ rec.sent = token
      /\ \A r \in Request \ {q} : request'[r] = request[r]
  BY <1>5, Types DEF RequestRecord
<1> HIDE DEF rec, token
<1>7. TypeOK'
  <2>1. BrowserTypes
    BY <1>5, Types DEF BrowserTypes
  <2>2. QED
    BY <1>3, <2>1
       DEF ServerMoves, BrowserTypes, TypeOK, CookieRecord, RequestRecord, AttemptRecord
<1>8. Carried' /\ UnderLock' /\ PostedIsHeld'
  BY <1>1, <1>5, <1>6 DEF Carried, UnderLock, PostedIsHeld, BrowserIndInv
<1>9. \A t \in Tab : Holding(t)' <=> Holding(t)
  BY <1>5 DEF Holding
<1>10. Chains'
  <2>1. jar.refresh # None => FamilyOf(jar.refresh) \in Family
    BY Types, TokenFacts DEF CookieRecord
  <2>2. \A t \in Tab : Holding(t) => FamilyOf(attempt[t].sent) \in Family
    BY TokenFacts DEF Holding, Carried, BrowserIndInv
  <2>3. \A r \in Request : Answering(r) => FamilyOf(request[r].sent) \in Family
    BY TokenFacts DEF Answering, Carried, BrowserIndInv
  <2>4. \A r \in Request \ {q} : Answering(r)' <=> Answering(r)
    BY <1>6 DEF Answering
  <2>5. QED
    BY <1>1, <1>3, <1>4, <1>5, <1>6, <1>9, <2>1, <2>2, <2>3, <2>4
       DEF Chains, ServerMoves, BrowserIndInv
<1>11. LoginApart'
  <2>1. \A r \in Request \ {q} : Answering(r)' <=> Answering(r)
    BY <1>6 DEF Answering
  <2>2. \A r \in Request : Answering(r) => FamilyOf(request[r].sent) # f
    BY <1>2 DEF Chains, BrowserIndInv
  <2>3. \A t \in Tab : Holding(t) => FamilyOf(attempt[t].sent) # f
    BY <1>2 DEF Chains, BrowserIndInv
  <2>4. jar.refresh # None => FamilyOf(jar.refresh) # f
    BY <1>2 DEF Chains, BrowserIndInv
  <2>5. QED
    BY <1>1, <1>5, <1>6, <1>9, <2>1, <2>2, <2>3, <2>4 DEF LoginApart, BrowserIndInv
<1>12. QED
  BY <1>7, <1>8, <1>10, <1>11 DEF BrowserIndInv

\* Its cookies arrive.
LEMMA LoginAnsweredStep ==
    ASSUME BrowserIndInv, BrowserConstants, NEW q \in Request, LoginAnswered(q)
    PROVE  BrowserIndInv'
<1> DEFINE token == request[q].sent
<1>1. request' = [request EXCEPT ![q] = NoRequest] /\ NoRequest \in RequestRecord
      /\ UNCHANGED <<attempt, holder>>
  BY DEF LoginAnswered, RequestRecord
<1>2. CASE UNCHANGED <<endpoints, jar>>
  BY <1>1, <1>2, ServedNot, RequestMoves, Types
<1>3. CASE Answering(q) /\ RevokeToken(token) /\ UNCHANGED jar
  <2>1. ServerMoves
    BY <1>3, ServedRevoke DEF Answering, Carried, BrowserIndInv
  <2>2. QED
    BY <1>1, <1>3, <2>1, RequestMoves, Types
<1>4. CASE Answering(q) /\ jar' = CookiesOf(token) /\ UNCHANGED endpoints
  <2>1. token \in Token /\ FamilyOf(token) \in Family
    BY <1>4, TokenFacts DEF Answering, Carried, BrowserIndInv
  <2>2. ServerMoves
    BY <1>4, ServedNot
  <2>3. jar' \in CookieRecord /\ jar'.refresh = token
    BY <1>4, <2>1 DEF CookiesOf, CookieRecord
  <2>4. ~Answering(q)' /\ \A r \in Request \ {q} : request'[r] = request[r]
    BY <1>1, Types DEF Answering
  <2>5. TypeOK'
    <3>1. BrowserTypes
      BY <1>1, <2>3, Types DEF BrowserTypes
    <3>2. QED
      BY <2>2, <3>1
         DEF ServerMoves, BrowserTypes, TypeOK, CookieRecord, RequestRecord, AttemptRecord
  <2>6. Carried' /\ UnderLock'
    <3>1. request'[q] = NoRequest
      BY <1>1, Types
    <3>2. QED
      BY <1>1, <2>4, <3>1 DEF Carried, UnderLock, BrowserIndInv
  <2>7. /\ \A t \in Tab : Holding(t)' =>
              Holding(t) /\ attempt'[t] = attempt[t] /\ FamilyOf(attempt[t].sent) # FamilyOf(token)
        /\ \A r \in Request : Answering(r)' =>
              /\ Answering(r) /\ request'[r] = request[r]
              /\ FamilyOf(request[r].sent) # FamilyOf(token)
    BY <1>1, <1>4, <2>4 DEF Holding, Answering, LoginApart, BrowserIndInv
  <2>8. Chains'
    <3>1. current' = current
      BY <1>4 DEF endpoints
    <3>2. \A f \in Family : Alive(f)' => FamilyOf(current'[f]) = f
      BY <2>2 DEF ServerMoves
    <3>3. QED
      BY <1>4, <2>3, <2>7, <3>1, <3>2 DEF Chains, BrowserIndInv
  <2>9. PostedIsHeld'
    BY <2>3, <2>7 DEF PostedIsHeld, Holding
  <2>10. LoginApart'
    BY <2>3, <2>7 DEF LoginApart, BrowserIndInv
  <2>11. QED
    BY <2>5, <2>6, <2>8, <2>9, <2>10 DEF BrowserIndInv
<1>5. QED
  BY <1>2, <1>3, <1>4 DEF LoginAnswered, Answering

\* The API serves a sign-out.
LEMMA ServeLogoutStep ==
    ASSUME BrowserIndInv, BrowserConstants, NEW q \in Request, ServeLogout(q)
    PROVE  BrowserIndInv'
<1> DEFINE rec == [request[q] EXCEPT !.at = "answer"]
<1>1. request[q].sent \in Token \cup {None}
  BY DEF ServeLogout, Carried, BrowserIndInv
<1>2. ServerMoves
  BY <1>1, ServedNot, ServedRevoke DEF ServeLogout
<1>3. request[q] \in RequestRecord
  BY Types
<1>4. rec \in RequestRecord /\ rec.kind = "logout" /\ rec.at = "answer" /\ rec.sent = request[q].sent
  BY <1>3 DEF ServeLogout, RequestRecord
<1>5. QED
  BY <1>1, <1>2, <1>4, RequestMoves, Types DEF ServeLogout

\* The cookies go.
LEMMA LogoutAnsweredStep ==
    ASSUME BrowserIndInv, BrowserConstants, NEW q \in Request, LogoutAnswered(q)
    PROVE  BrowserIndInv'
<1>1. ServerMoves
  BY ServedNot DEF LogoutAnswered
<1>2. jar' \in CookieRecord /\ jar'.refresh \in {jar.refresh, None}
  BY Types DEF LogoutAnswered, CookieRecord
<1>3. QED
  BY <1>1, <1>2, RequestMoves DEF LogoutAnswered, RequestRecord

\* The access cookie reaches its age.
LEMMA AccessExpiresStep ==
    ASSUME BrowserIndInv, BrowserConstants, AccessExpires
    PROVE  BrowserIndInv'
<1>1. ServerMoves
  BY ServedNot DEF AccessExpires
<1>2. jar' \in CookieRecord /\ jar'.refresh = jar.refresh
  BY Types DEF AccessExpires, CookieRecord
<1>3. BrowserTypes /\ Carried' /\ UnderLock'
  BY <1>2, Types DEF AccessExpires, BrowserTypes, Carried, UnderLock, BrowserIndInv
<1>4. QED
  BY <1>1, <1>2, <1>3, QuietStep DEF AccessExpires, Holding, Answering

\* A tab is closed, and its lock is free.
LEMMA CloseTabStep ==
    ASSUME BrowserIndInv, BrowserConstants, NEW t \in Tab, CloseTab(t)
    PROVE  BrowserIndInv'
<1>1. Posted(t) \subseteq Token
  BY DEF Posted, BrowserIndInv, Carried
<1>2. ServerMoves
  BY <1>1, ServedGiveUp DEF CloseTab
<1>3. /\ attempt'[t] = NoAttempt /\ \A u \in Tab \ {t} : attempt'[u] = attempt[u]
      /\ attempt' \in [Tab -> AttemptRecord]
  BY Types DEF CloseTab, AttemptRecord
<1>4. \A q \in Request : request'[q] \in {request[q], NoRequest}
  BY DEF CloseTab
<1>5. request' \in [Request -> RequestRecord]
  BY Types DEF CloseTab, RequestRecord
<1>6. jar' = jar /\ holder' = (IF holder = t THEN None ELSE holder)
  BY DEF CloseTab
<1>7. BrowserTypes
  BY <1>3, <1>5, <1>6, Types DEF BrowserTypes
<1>8. Carried' /\ UnderLock'
  BY <1>3, <1>4, <1>6 DEF Carried, UnderLock, BrowserIndInv
<1>9. QED
  BY <1>2, <1>3, <1>4, <1>6, <1>7, <1>8, QuietStep DEF Holding, Answering, BrowserTypes

\* Families end elsewhere, and late requests arrive.
LEMMA EndedElsewhereStep ==
    ASSUME BrowserIndInv, BrowserConstants, UNCHANGED browser, ServerMoves
    PROVE  BrowserIndInv'
<1>1. BrowserTypes /\ Carried' /\ UnderLock'
  BY Types DEF browser, BrowserTypes, Carried, UnderLock, BrowserIndInv
<1>2. QED
  BY <1>1, QuietStep DEF browser, Holding, Answering

\* The inductive invariant holds from the start and every step keeps it.
LEMMA BrowserInduction ==
    ASSUME BrowserConstants, TabOf \in [Request -> Tab]
    PROVE  (Init => BrowserIndInv) /\ (BrowserIndInv /\ [Next]_vars => BrowserIndInv')
<1>1. ASSUME Init PROVE BrowserIndInv
  BY <1>1, TokenFacts
     DEF Init, EndpointsInit, Families!Init, EndpointsTypeOK, Families!TypeOK, TypeOK,
         BrowserIndInv, Carried, UnderLock, Chains, PostedIsHeld, LoginApart, Alive, Holding,
         Answering
<1>2. ASSUME BrowserIndInv, Next PROVE BrowserIndInv'
  <2>1. ASSUME NEW q \in Request, \E kind \in {"page", "logoutAll"} : Fetch(q, kind)
        PROVE BrowserIndInv'
    BY <1>2, <2>1, FetchStep
  <2>2. ASSUME NEW q \in Request, Login(q) \/ Logout(q) PROVE BrowserIndInv'
    BY <1>2, <2>2, LoginStep
  <2>3. ASSUME NEW q \in Request, Answers(q) PROVE BrowserIndInv'
    BY <1>2, <2>3, UnauthorizedStep, FinalStep, ServeLoginStep, LoginAnsweredStep,
       ServeLogoutStep, LogoutAnsweredStep
       DEF Answers
  <2>4. ASSUME NEW t \in Tab, Enter(t) PROVE BrowserIndInv'
    BY <1>2, <2>4, EnterStep
  <2>5. ASSUME NEW t \in Tab, Proceeds(t) PROVE BrowserIndInv'
    BY <1>2, <2>5, ProbeHealthyStep, ProbeUnhealthyStep, ServeRefreshStep, RefreshAnsweredStep,
       RefreshFailsStep
       DEF Proceeds
  <2>6. ASSUME NEW t \in Tab, CloseTab(t) PROVE BrowserIndInv'
    BY <1>2, <2>6, CloseTabStep
  <2>7. ASSUME NEW f \in Family, EndedElsewhere(f) PROVE BrowserIndInv'
    BY <1>2, <2>7, ServedMany, EndedElsewhereStep DEF EndedElsewhere
  <2>8. ASSUME NEW k \in late, ArrivesLate(k) PROVE BrowserIndInv'
    <3>1. k \in Token /\ late' \subseteq Token
      BY <1>2, <2>8, Types DEF ArrivesLate, LateArrival, EndpointsTypeOK
    <3>2. QED
      BY <1>2, <2>8, <3>1, ServedRefresh, EndedElsewhereStep DEF ArrivesLate, LateArrival
  <2>9. QED
    BY <1>2, <2>1, <2>2, <2>3, <2>4, <2>5, <2>6, <2>7, <2>8, AccessExpiresStep DEF Next
<1>3. ASSUME BrowserIndInv, UNCHANGED vars PROVE BrowserIndInv'
  BY <1>3, ServedNot, EndedElsewhereStep DEF vars, browser
<1>4. QED
  BY <1>1, <1>2, <1>3

\* Of every token the API takes for a replay from a tab, the family's current one is
\* neither in the cookies nor in an answer on its way to a tab: tabs never replay
\* each other's tokens.
THEOREM TabsKeepTheirTokens ==
    ASSUME BrowserConstants, TabOf \in [Request -> Tab]
    PROVE  Spec => TabsNeverReplay
<1>1. Init => BrowserIndInv
  BY BrowserInduction
<1>2. BrowserIndInv /\ [Next]_vars => BrowserIndInv'
  BY BrowserInduction
<1>3. BrowserIndInv =>
        \A t \in Tab, f \in Family :
          ServeRefresh(t) /\ f \in replayed' \ replayed =>
              /\ jar.refresh # current[f]
              /\ \A u \in Tab : attempt[u].at = "pair" => attempt[u].sent # current[f]
  <2> SUFFICES ASSUME BrowserIndInv, NEW t \in Tab, NEW f \in Family, ServeRefresh(t),
                      f \in replayed' \ replayed
               PROVE  /\ jar.refresh # current[f]
                      /\ \A u \in Tab : attempt[u].at = "pair" => attempt[u].sent # current[f]
    OBVIOUS
  <2> DEFINE token == attempt[t].sent
  <2>1. /\ attempt[t].at = "post" /\ token # None /\ f = FamilyOf(token)
        /\ Alive(f) /\ current[f] # token
    BY DEF ServeRefresh, Exchange, Replay, Refuse
  <2>2. current[f] \in Token /\ current[f] # None /\ FamilyOf(current[f]) = f
    BY <2>1 DEF Alive, Chains, BrowserIndInv, BrowserConstants
  <2>3. jar.refresh # current[f]
    BY <2>1, <2>2 DEF PostedIsHeld, BrowserIndInv
  <2>4. \A u \in Tab : attempt[u].at # "pair"
    BY <2>1 DEF UnderLock, BrowserIndInv
  <2>5. QED
    BY <2>3, <2>4
<1>4. QED
  BY <1>1, <1>2, <1>3, PTL DEF Spec, TabsNeverReplay

-----------------------------------------------------------------------------
(* The page of a trip. *)

PageConstants == "list" \notin Driver \cup {NoDriver}

TripState == {"DRAFT", "ASSIGNED", "IN_PROGRESS", "COMPLETED", "VERIFIED", "CLOSED", "CANCELLED"}
TripRecord == [status : TripState, driver : Driver \cup {NoDriver}]
Change == [section : Section, what : {"update", "assign", "cancel", "verify", "close"},
           driver : Driver \cup {NoDriver}, at : {"sent", "ok", "refused"},
           row : TripRecord, orphan : BOOLEAN]
Reading == [of : {"list"} \cup Driver, live : BOOLEAN]

TripPageTypes ==
    /\ row \in TripRecord
    /\ page \in [kind : {"loading", "missing", "error", "ready"}, row : TripRecord]
    /\ load \in [at : {"sent", "ok", "missing", "error", "done"}, row : TripRecord]
    /\ sent \in SUBSET Change
    /\ asked \in {"none", "cancel", "verify", "close"}
    /\ chosen \in Driver \cup {NoDriver} /\ candidates \in SUBSET Driver
    /\ currentDriver \in [driver : Driver \cup {NoDriver}, active : BOOLEAN, missed : BOOLEAN]
    /\ reads \in SUBSET Reading

\* Before the page has been read there is nothing on it to press.
FirstRead ==
    /\ load.at # "done" => page.kind = "loading"
    /\ page.kind # "ready" => sent = {} /\ asked = "none"

\* What an answer says follows from what was asked for.
Becomes(what) ==
    IF what \in {"update", "assign"} THEN Planned
    ELSE IF what = "cancel" THEN {"CANCELLED"}
    ELSE IF what = "verify" THEN {"VERIFIED"} ELSE {"CLOSED"}

Answered ==
    \A s \in sent :
        /\ s.section = "lifecycle" <=> s.what \notin {"update", "assign"}
        /\ s.at = "ok" => s.row.status \in Becomes(s.what)

\* One change of the lifecycle at a time, and it is the one that was asked about.
OneQuestion ==
    /\ \A s \in sent : s.section = "lifecycle" => asked = s.what /\ ~s.orphan
    /\ \A s, u \in sent : s.section = "lifecycle" /\ u.section = "lifecycle" => s = u

\* As long as text or assignment may be answered, the trip on the page was planned
\* all along, or is cancelled: only a cancellation can have been asked about.
OnlyCancellable ==
    (\E s \in sent : s.section # "lifecycle") =>
        page.row.status \in Planned \cup {"CANCELLED"} /\ asked \in {"none", "cancel"}

\* The read of a driver that counts is of the driver on the page, and until one
\* failed that driver has been read or is being read.
DriverFollowed ==
    /\ \A r \in reads : r.live /\ r.of # "list" => Plannable(page) /\ r.of = page.row.driver
    /\ Plannable(page) /\ page.row.driver # NoDriver /\ ~currentDriver.missed =>
          \/ currentDriver.driver = page.row.driver
          \/ \E r \in reads : r.live /\ r.of # "list"

TripPageIndInv ==
    /\ TripPageTypes /\ FirstRead /\ Answered /\ OneQuestion /\ OnlyCancellable
    /\ DriverFollowed /\ ConfirmsWhatWasAsked

-----------------------------------------------------------------------------
SectionTypes ==
    /\ chosen' \in Driver \cup {NoDriver} /\ candidates' \in SUBSET Driver
    /\ currentDriver' \in [driver : Driver \cup {NoDriver}, active : BOOLEAN, missed : BOOLEAN]
    /\ reads' \in SUBSET Reading

\* A read that is withdrawn is a read that does not count.
LEMMA ReadingFacts ==
    ASSUME TripPageIndInv
    PROVE  \A r \in reads : r \in Reading /\ [r EXCEPT !.live = FALSE] \in Reading
                           /\ ~[r EXCEPT !.live = FALSE].live
<1>1. \A r \in Reading : [r EXCEPT !.live = FALSE] \in Reading /\ ~[r EXCEPT !.live = FALSE].live
  BY DEF Reading
<1>2. reads \in SUBSET Reading
  BY DEF TripPageIndInv, TripPageTypes
<1>3. QED
  BY <1>1, <1>2

\* Whatever the page turns to, its sections read the driver it turns to.
LEMMA SectionsLemma ==
    ASSUME PageConstants, TripPageIndInv, NEW pick \in Driver \cup {NoDriver},
           page' \in [kind : {"loading", "missing", "error", "ready"}, row : TripRecord],
           SectionsFollow(page', pick)
    PROVE  SectionTypes /\ DriverFollowed'
<1> DEFINE d == page'.row.driver
<1>1. /\ d \in Driver \cup {NoDriver} /\ Unread.driver = NoDriver /\ ~Unread.missed
      /\ Unread \in [driver : Driver \cup {NoDriver}, active : BOOLEAN, missed : BOOLEAN]
  BY DEF TripRecord, Unread
<1>2. /\ \A which : Withdrawn(which) \in SUBSET Reading
      /\ Read("list") \in Reading /\ ReadsOf(d) \in SUBSET Reading
      /\ \A which : \A r \in Withdrawn(which) : r.live => r \in reads /\ r.of \notin which
  <2>1. \A r \in reads : r \in Reading /\ [r EXCEPT !.live = FALSE] \in Reading
                        /\ ~[r EXCEPT !.live = FALSE].live
    BY ReadingFacts
  <2>2. Read("list") \in Reading /\ \A x \in Driver : Read(x) \in Reading
    BY DEF Read, Reading
  <2>3. QED
    BY <1>1, <2>1, <2>2 DEF Withdrawn, ReadsOf
<1>3. /\ \A r \in ReadsOf(d) : r.live /\ r.of = d /\ r.of # "list"
      /\ d # NoDriver => ReadsOf(d) = {Read(d)}
      /\ Read(d).live /\ Read(d).of = d /\ Read("list").of = "list"
  BY <1>1 DEF ReadsOf, Read, PageConstants
<1>4. CASE Plannable(page') /\ ~Plannable(page) /\ Mounts(d)
  <2>1. /\ chosen' = d /\ candidates' = {} /\ currentDriver' = Unread
        /\ reads' = Withdrawn(Driver \cup {"list"}) \cup {Read("list")} \cup ReadsOf(d)
    BY <1>4 DEF Mounts
  <2>2. SectionTypes
    BY <1>1, <1>2, <2>1 DEF SectionTypes
  <2>3. \A r \in reads' : r.live /\ r.of # "list" => r \in ReadsOf(d)
    BY <1>2, <1>3, <2>1 DEF TripPageIndInv, TripPageTypes, Reading
  <2>4. d # NoDriver => Read(d) \in reads'
    BY <1>3, <2>1
  <2>5. QED
    BY <1>3, <1>4, <2>2, <2>3, <2>4, <1>1 DEF DriverFollowed, PageConstants
<1>5. CASE ~Plannable(page') /\ Plannable(page) /\ Unmounts
  <2>1. /\ chosen' = NoDriver /\ candidates' = {} /\ currentDriver' = Unread
        /\ reads' = Withdrawn(Driver \cup {"list"})
    BY <1>5 DEF Unmounts
  <2>2. SectionTypes
    BY <1>1, <1>2, <2>1 DEF SectionTypes
  <2>3. \A r \in reads' : ~r.live
    BY <1>2, <2>1 DEF TripPageIndInv, TripPageTypes, Reading
  <2>4. QED
    BY <1>5, <2>2, <2>3 DEF DriverFollowed
<1>6. CASE Plannable(page') /\ Plannable(page) /\ chosen' = pick /\ d # page.row.driver /\ Follow(d)
  <2>1. /\ reads' = Withdrawn(Driver) \cup ReadsOf(d) /\ candidates' = candidates
        /\ currentDriver' = IF d = NoDriver THEN Unread ELSE [currentDriver EXCEPT !.missed = FALSE]
    BY <1>6 DEF Follow
  <2>2. SectionTypes
    BY <1>1, <1>2, <1>6, <2>1 DEF SectionTypes, TripPageIndInv, TripPageTypes
  <2>3. \A r \in reads' : r.live /\ r.of # "list" => r \in ReadsOf(d)
    BY <1>2, <1>3, <2>1 DEF TripPageIndInv, TripPageTypes, Reading
  <2>4. d # NoDriver => Read(d) \in reads'
    BY <1>3, <2>1
  <2>5. QED
    BY <1>1, <1>3, <1>6, <2>2, <2>3, <2>4 DEF DriverFollowed, PageConstants
<1>7. CASE /\ Plannable(page') /\ Plannable(page) /\ chosen' = pick /\ d = page.row.driver
           /\ UNCHANGED <<candidates, currentDriver, reads>>
  BY <1>7 DEF TripPageIndInv, TripPageTypes, SectionTypes, DriverFollowed
<1>8. CASE /\ ~Plannable(page') /\ ~Plannable(page)
           /\ UNCHANGED <<chosen, candidates, currentDriver, reads>>
  BY <1>8 DEF TripPageIndInv, TripPageTypes, SectionTypes, DriverFollowed
<1>9. QED
  BY <1>4, <1>5, <1>6, <1>7, <1>8 DEF SectionsFollow

\* Steps of the API and of requests: what is shown stays.
LEMMA ElsewhereStep ==
    ASSUME TripPageIndInv, Elsewhere PROVE TripPageIndInv'
  BY DEF TripPageIndInv, Elsewhere, Rows, TripPageTypes, TripRecord, TripState, FirstRead,
         Answered, OneQuestion, OnlyCancellable, DriverFollowed, ConfirmsWhatWasAsked, Plannable,
         Offered

\* The API answers the first read of the page.
LEMMA LoadReadStep ==
    ASSUME TripPageIndInv, LoadRead PROVE TripPageIndInv'
  BY DEF TripPageIndInv, LoadRead, TripPageTypes, FirstRead, Answered, OneQuestion,
         OnlyCancellable, DriverFollowed, ConfirmsWhatWasAsked, Plannable, Offered

\* A change is answered: what it says follows from what was asked for.
LEMMA ChangeMoves ==
    ASSUME TripPageIndInv, NEW s \in sent, s.at = "sent", NEW u \in Change,
           u.section = s.section, u.what = s.what, u.orphan = s.orphan,
           u.at = "ok" => u.row.status \in Becomes(s.what),
           sent' = (sent \ {s}) \cup {u}, row' \in TripRecord,
           UNCHANGED <<page, load, asked, chosen, candidates, currentDriver, reads>>
    PROVE  TripPageIndInv'
<1>1. TripPageTypes'
  BY DEF TripPageIndInv, TripPageTypes
<1>2. \A x \in sent' : x = u \/ x \in sent \ {s}
  OBVIOUS
<1>3. FirstRead' /\ DriverFollowed' /\ ConfirmsWhatWasAsked'
  BY DEF TripPageIndInv, FirstRead, DriverFollowed, ConfirmsWhatWasAsked, Plannable, Offered
<1>4. Answered' /\ OnlyCancellable'
  BY <1>2 DEF TripPageIndInv, Answered, OnlyCancellable
<1>5. OneQuestion'
  BY <1>2 DEF TripPageIndInv, OneQuestion
<1>6. QED
  BY <1>1, <1>3, <1>4, <1>5 DEF TripPageIndInv

\* The API makes the change.
LEMMA HandledStep ==
    ASSUME TripPageIndInv, NEW s \in sent, Handled(s) PROVE TripPageIndInv'
<1> DEFINE u == [s EXCEPT !.at = "ok", !.driver = NoDriver, !.row = Result(s)]
<1>1. s \in Change /\ row \in TripRecord
  BY DEF TripPageIndInv, TripPageTypes
<1>2. Result(s) \in TripRecord /\ Result(s).status \in Becomes(s.what)
  BY <1>1 DEF Handled, Allowed, Result, Becomes, Change, TripRecord, TripState, Planned
<1>3. u \in Change /\ u.section = s.section /\ u.what = s.what /\ u.orphan = s.orphan /\ u.row = Result(s)
  BY <1>1, <1>2 DEF Change
<1>4. QED
  BY <1>1, <1>2, <1>3, ChangeMoves DEF Handled

\* The API refuses it.
LEMMA RefusedStep ==
    ASSUME TripPageIndInv, NEW s \in sent, Refused(s) PROVE TripPageIndInv'
<1> DEFINE u == [s EXCEPT !.at = "refused"]
<1>1. s \in Change /\ row \in TripRecord
  BY DEF TripPageIndInv, TripPageTypes
<1>2. u \in Change /\ u.section = s.section /\ u.what = s.what /\ u.orphan = s.orphan /\ u.at = "refused"
  BY <1>1 DEF Change
<1>3. QED
  BY <1>1, <1>2, ChangeMoves DEF Refused

\* The page has been read and is shown.
LEMMA LoadsStep ==
    ASSUME PageConstants, TripPageIndInv, Loads PROVE TripPageIndInv'
<1>1. /\ page' = [kind |-> IF load.at = "ok" THEN "ready" ELSE load.at, row |-> load.row]
      /\ load' = [at |-> "done", row |-> Nothing] /\ page.kind = "loading"
      /\ SectionsFollow(page', chosen) /\ UNCHANGED <<row, sent, asked>>
      /\ load.at \in {"ok", "missing", "error"}
  BY DEF Loads, TripPageIndInv, FirstRead
<1>2. sent = {} /\ asked = "none"
  BY <1>1 DEF TripPageIndInv, FirstRead
<1>3. page' \in [kind : {"loading", "missing", "error", "ready"}, row : TripRecord]
  BY <1>1 DEF TripPageIndInv, TripPageTypes
<1>4. SectionTypes /\ DriverFollowed'
  BY <1>1, <1>3, SectionsLemma DEF TripPageIndInv, TripPageTypes
<1>5. TripPageTypes'
  <2>1. Nothing \in TripRecord
    BY DEF Nothing, TripRecord, TripState
  <2>2. QED
    BY <1>1, <1>3, <1>4, <2>1 DEF TripPageIndInv, TripPageTypes, SectionTypes
<1>6. /\ FirstRead' /\ Answered' /\ OneQuestion' /\ OnlyCancellable' /\ ConfirmsWhatWasAsked'
  BY <1>1, <1>2 DEF FirstRead, Answered, OneQuestion, OnlyCancellable, ConfirmsWhatWasAsked
<1>7. QED
  BY <1>4, <1>5, <1>6 DEF TripPageIndInv

\* An answer may come when the trip on the page has moved on: what it turns the page
\* to, and what it leaves of the question, fit each other.
LEMMA AnswerTakenStep ==
    ASSUME PageConstants, TripPageIndInv, NEW s \in sent, AnswerTaken(s) PROVE TripPageIndInv'
<1> DEFINE pick == IF s.section = "assignment" /\ ~s.orphan THEN s.row.driver ELSE chosen
<1>1. /\ s \in Change /\ s.at = "ok" /\ s.row \in TripRecord /\ sent \in SUBSET Change
      /\ page \in [kind : {"loading", "missing", "error", "ready"}, row : TripRecord]
      /\ page.kind = "ready"
  BY DEF AnswerTaken, TripPageIndInv, TripPageTypes, FirstRead, Change
<1>2. /\ page' = [page EXCEPT !.row = s.row] /\ ClosesQuestion(s) /\ SectionsFollow(page', pick)
      /\ sent' = Orphans(page', sent \ {s}) /\ UNCHANGED <<row, load>>
  BY DEF AnswerTaken
<1>3. /\ page' \in [kind : {"loading", "missing", "error", "ready"}, row : TripRecord]
      /\ page'.kind = "ready" /\ page'.row = s.row
  BY <1>1, <1>2
<1>4. pick \in Driver \cup {NoDriver}
  BY <1>1 DEF TripPageIndInv, TripPageTypes, TripRecord
<1>5. SectionTypes /\ DriverFollowed'
  BY <1>2, <1>3, <1>4, SectionsLemma
<1>6. \A u \in sent' : u \in Change /\ \E x \in sent \ {s} :
         /\ u.section = x.section /\ u.what = x.what /\ u.at = x.at /\ u.row = x.row
         /\ x.section = "lifecycle" => u = x
  <2>1. \A x \in sent : /\ x \in Change /\ [x EXCEPT !.orphan = TRUE] \in Change
                         /\ [x EXCEPT !.orphan = TRUE].section = x.section
                         /\ [x EXCEPT !.orphan = TRUE].what = x.what
                         /\ [x EXCEPT !.orphan = TRUE].at = x.at
                         /\ [x EXCEPT !.orphan = TRUE].row = x.row
    BY <1>1 DEF Change
  <2>2. QED
    BY <1>2, <2>1 DEF Orphans
<1>7. TripPageTypes'
  <2>1. sent' \in SUBSET Change
    BY <1>6
  <2>2. asked' \in {"none", asked}
    BY <1>2 DEF ClosesQuestion
  <2>3. QED
    BY <1>2, <1>3, <1>5, <2>1, <2>2 DEF TripPageIndInv, TripPageTypes, SectionTypes
<1>8. FirstRead'
  BY <1>1, <1>2, <1>3 DEF TripPageIndInv, FirstRead
<1>9. Answered'
  BY <1>6 DEF TripPageIndInv, Answered
<1>10. CASE s.section = "lifecycle"
  <2>1. asked' = "none" /\ \A u \in sent' : u.section # "lifecycle"
    BY <1>2, <1>6, <1>10 DEF ClosesQuestion, TripPageIndInv, OneQuestion
  <2>2. OneQuestion' /\ ConfirmsWhatWasAsked'
    BY <2>1 DEF OneQuestion, ConfirmsWhatWasAsked
  <2>3. OnlyCancellable'
    <3>1. SUFFICES ASSUME NEW x \in sent \ {s}, x.section # "lifecycle"
                   PROVE  page'.row.status = "CANCELLED"
      BY <1>6, <2>1 DEF OnlyCancellable
    <3>2. asked = s.what /\ s.what # "none" /\ asked \in {"none", "cancel"}
      <4>1. asked = s.what
        BY <1>10 DEF TripPageIndInv, OneQuestion
      <4>2. s.what # "none"
        BY <1>1 DEF Change
      <4>3. asked \in {"none", "cancel"}
        BY <3>1 DEF TripPageIndInv, OnlyCancellable
      <4>4. QED
        BY <4>1, <4>2, <4>3
    <3>3. QED
      BY <1>1, <1>3, <3>2 DEF TripPageIndInv, Answered, Becomes
  <2>4. QED
    BY <1>5, <1>7, <1>8, <1>9, <2>2, <2>3 DEF TripPageIndInv
<1>11. CASE s.section # "lifecycle"
  <2>1. asked' = asked /\ asked \in {"none", "cancel"} /\ page'.row.status \in Planned
    BY <1>1, <1>2, <1>3, <1>11
       DEF ClosesQuestion, TripPageIndInv, OnlyCancellable, Answered, Becomes
  <2>2. OneQuestion'
    BY <1>6, <2>1 DEF TripPageIndInv, OneQuestion
  <2>3. OnlyCancellable' /\ ConfirmsWhatWasAsked'
    BY <1>3, <2>1 DEF OnlyCancellable, ConfirmsWhatWasAsked, Offered, ActionFor, Planned
  <2>4. QED
    BY <1>5, <1>7, <1>8, <1>9, <2>2, <2>3 DEF TripPageIndInv
<1>12. QED
  BY <1>10, <1>11

\* A refusal closes the question and changes nothing on the page.
LEMMA RefusalTakenStep ==
    ASSUME TripPageIndInv, NEW s \in sent, RefusalTaken(s) PROVE TripPageIndInv'
<1>1. /\ sent' = sent \ {s} /\ UNCHANGED <<row, page, load, chosen, candidates, currentDriver, reads>>
      /\ asked' = IF s.section = "lifecycle" THEN "none" ELSE asked
  BY DEF RefusalTaken, ClosesQuestion
<1>2. TripPageTypes' /\ FirstRead' /\ DriverFollowed'
  BY <1>1 DEF TripPageIndInv, TripPageTypes, FirstRead, DriverFollowed, Plannable
<1>3. Answered' /\ OneQuestion'
  BY <1>1 DEF TripPageIndInv, Answered, OneQuestion
<1>4. OnlyCancellable' /\ ConfirmsWhatWasAsked'
  BY <1>1 DEF TripPageIndInv, OnlyCancellable, ConfirmsWhatWasAsked, Offered
<1>5. QED
  BY <1>2, <1>3, <1>4 DEF TripPageIndInv

-----------------------------------------------------------------------------
(* The admin. *)

\* A section sends its change.
LEMMA SendsStep ==
    ASSUME TripPageIndInv, NEW part \in Section,
           NEW what \in {"update", "assign", "cancel", "verify", "close"},
           NEW d \in Driver \cup {NoDriver}, Sends(part, what, d),
           part = "lifecycle" <=> what \notin {"update", "assign"},
           part # "lifecycle" => Plannable(page),
           part = "lifecycle" => page.kind = "ready" /\ asked = what
    PROVE  TripPageIndInv'
<1> DEFINE u == [section |-> part, what |-> what, driver |-> d, at |-> "sent",
                 row |-> Nothing, orphan |-> FALSE]
<1>1. u \in Change
  BY DEF Change, Nothing, TripRecord, TripState
<1>2. /\ sent' = sent \cup {u}
      /\ UNCHANGED <<row, page, load, asked, chosen, candidates, currentDriver, reads>>
  BY DEF Sends
<1>3. page.kind = "ready"
  BY DEF Plannable
<1>4. TripPageTypes' /\ FirstRead' /\ DriverFollowed' /\ ConfirmsWhatWasAsked'
  BY <1>1, <1>2, <1>3
     DEF TripPageIndInv, TripPageTypes, FirstRead, DriverFollowed, Plannable,
         ConfirmsWhatWasAsked, Offered
<1>5. Answered'
  BY <1>2 DEF TripPageIndInv, Answered
<1>6. OneQuestion'
  <2>1. part = "lifecycle" => \A s \in sent : s.section # "lifecycle"
    BY DEF Sends, Busy, TripPageIndInv, OneQuestion
  <2>2. u.section = part /\ u.what = what /\ ~u.orphan
    OBVIOUS
  <2>3. part = "lifecycle" => asked' = u.what
    BY <1>2, <2>2
  <2>4. QED
    <3> HIDE DEF u
    <3> QED
      BY <1>2, <2>1, <2>2, <2>3 DEF TripPageIndInv, OneQuestion
<1>7. OnlyCancellable'
  BY <1>2
     DEF TripPageIndInv, OnlyCancellable, Plannable, ConfirmsWhatWasAsked, Offered, ActionFor,
         Planned, TripPageTypes
<1>8. QED
  BY <1>4, <1>5, <1>6, <1>7 DEF TripPageIndInv

\* Save, Assign and the confirmation of a question.
LEMMA PressStep ==
    ASSUME TripPageIndInv, SaveText \/ Assign \/ Apply PROVE TripPageIndInv'
<1>1. CASE SaveText
  BY <1>1, SendsStep DEF SaveText, Section
<1>2. CASE Assign
  BY <1>2, SendsStep DEF Assign, Section, TripPageIndInv, TripPageTypes
<1>3. CASE Apply
  <2>1. Offered = asked /\ page.kind = "ready" /\ Offered \in {"cancel", "verify", "close"}
    BY <1>3 DEF Apply, TripPageIndInv, ConfirmsWhatWasAsked, Offered, ActionFor
  <2>2. QED
    BY <1>3, <2>1, SendsStep DEF Apply, Section
<1>4. QED
  BY <1>1, <1>2, <1>3

\* A question is asked, or answered with no.
LEMMA QuestionStep ==
    ASSUME TripPageIndInv, AskFirst \/ KeepTrip PROVE TripPageIndInv'
<1>1. /\ UNCHANGED <<row, page, load, sent, chosen, candidates, currentDriver, reads>>
      /\ asked' \in {"none", Offered} /\ page.kind = "ready"
      /\ \A s \in sent : s.section # "lifecycle"
  BY DEF AskFirst, KeepTrip, Busy, Offered, TripPageIndInv, OneQuestion
<1>2. TripPageTypes' /\ FirstRead' /\ DriverFollowed' /\ Answered' /\ OneQuestion'
  BY <1>1
     DEF TripPageIndInv, TripPageTypes, FirstRead, DriverFollowed, Plannable, Answered,
         OneQuestion, Offered, ActionFor
<1>3. OnlyCancellable' /\ ConfirmsWhatWasAsked'
  BY <1>1 DEF TripPageIndInv, OnlyCancellable, ConfirmsWhatWasAsked, Offered, ActionFor, Planned
<1>4. QED
  BY <1>2, <1>3 DEF TripPageIndInv

\* What changes the assignment's own state only.
LEMMA AsideStep ==
    ASSUME TripPageIndInv, SectionTypes, DriverFollowed', UNCHANGED <<row, page, load, sent, asked>>
    PROVE  TripPageIndInv'
  BY DEF TripPageIndInv, SectionTypes, TripPageTypes, FirstRead, Answered, OneQuestion,
         OnlyCancellable, ConfirmsWhatWasAsked, Offered, Plannable

\* A driver is selected.
LEMMA ChooseStep ==
    ASSUME TripPageIndInv, NEW d \in Driver \cup {NoDriver}, Choose(d) PROVE TripPageIndInv'
  BY AsideStep DEF Choose, TripPageIndInv, SectionTypes, TripPageTypes, DriverFollowed, Plannable

\* The list is searched again.
LEMMA SearchAgainStep ==
    ASSUME PageConstants, TripPageIndInv, SearchAgain PROVE TripPageIndInv'
<1>1. \A r \in reads' : /\ r \in Reading
                        /\ r.live /\ r.of # "list" => r \in reads
  <2>1. \A r \in reads : r \in Reading /\ [r EXCEPT !.live = FALSE] \in Reading
                         /\ ~[r EXCEPT !.live = FALSE].live
    BY ReadingFacts
  <2>2. Read("list") \in Reading /\ Read("list").of = "list"
    BY DEF Read, Reading
  <2>3. QED
    BY <2>1, <2>2 DEF SearchAgain, Withdrawn
<1>2. \A r \in reads : r.of # "list" => r \in reads'
  BY DEF SearchAgain, Withdrawn
<1>3. QED
  BY <1>1, <1>2, AsideStep
     DEF SearchAgain, TripPageIndInv, SectionTypes, TripPageTypes, DriverFollowed, Plannable

\* A list or a driver has been read, or could not be.
LEMMA ArrivesStep ==
    ASSUME PageConstants, TripPageIndInv, NEW r \in reads,
           ListArrives(r) \/ DriverArrives(r) \/ ReadFails(r)
    PROVE  TripPageIndInv'
<1>1. r \in Reading /\ reads' = reads \ {r} /\ UNCHANGED <<row, page, load, sent, asked, chosen>>
  BY DEF ListArrives, DriverArrives, ReadFails, TripPageIndInv, TripPageTypes
<1>2. CASE ListArrives(r)
  BY <1>1, <1>2, AsideStep
     DEF ListArrives, TripPageIndInv, SectionTypes, TripPageTypes, DriverFollowed, Plannable
<1>3. CASE DriverArrives(r)
  <2>1. r.of \in Driver
    BY <1>1, <1>3 DEF DriverArrives, Reading
  <2>2. SectionTypes
    BY <1>1, <1>3, <2>1 DEF DriverArrives, TripPageIndInv, SectionTypes, TripPageTypes
  <2>3. CASE r.live
    <3>1. currentDriver'.driver = page.row.driver
      BY <1>3, <2>3 DEF DriverArrives, InForce, TripPageIndInv, DriverFollowed
    <3>2. QED
      BY <1>1, <2>2, <3>1, AsideStep DEF TripPageIndInv, DriverFollowed, Plannable
  <2>4. CASE ~r.live
    BY <1>1, <1>3, <2>2, <2>4, AsideStep
       DEF DriverArrives, InForce, TripPageIndInv, DriverFollowed, Plannable
  <2>5. QED
    BY <2>3, <2>4
<1>4. CASE ReadFails(r)
  <2>1. SectionTypes
    BY <1>1, <1>4 DEF ReadFails, TripPageIndInv, SectionTypes, TripPageTypes, Reading
  <2>2. /\ currentDriver'.driver = currentDriver.driver
        /\ currentDriver'.missed = (currentDriver.missed \/ (r.live /\ r.of # "list"))
    BY <1>4 DEF ReadFails, TripPageIndInv, TripPageTypes
  <2>3. QED
    BY <1>1, <2>1, <2>2, AsideStep DEF TripPageIndInv, DriverFollowed, Plannable
<1>5. QED
  BY <1>2, <1>3, <1>4

\* The inductive invariant holds from the start, every step keeps it, and it is enough.
LEMMA TripPageInduction ==
    ASSUME PageConstants
    PROVE  /\ PageInit => TripPageIndInv
           /\ TripPageIndInv /\ [PageNext]_pageVars => TripPageIndInv'
           /\ TripPageIndInv => TripPageInv
<1>1. ASSUME PageInit PROVE TripPageIndInv
  BY <1>1
     DEF PageInit, Nothing, Unread, TripPageIndInv, TripPageTypes, TripRecord, TripState,
         FirstRead, Answered, OneQuestion, OnlyCancellable, DriverFollowed, ConfirmsWhatWasAsked,
         Plannable
<1>2. ASSUME TripPageIndInv, PageNext PROVE TripPageIndInv'
  BY <1>2, ElsewhereStep, LoadReadStep, LoadsStep, ChooseStep, HandledStep, RefusedStep,
     AnswerTakenStep, RefusalTakenStep, ArrivesStep, PressStep, SearchAgainStep, QuestionStep
     DEF PageNext
<1>3. ASSUME TripPageIndInv, UNCHANGED pageVars PROVE TripPageIndInv'
  BY <1>3
     DEF pageVars, TripPageIndInv, TripPageTypes, FirstRead, Answered, OneQuestion,
         OnlyCancellable, DriverFollowed, ConfirmsWhatWasAsked, Plannable, Offered
<1>4. ASSUME TripPageIndInv PROVE TripPageInv
  <2>1. PageTypeOK
    BY <1>4 DEF TripPageIndInv, TripPageTypes, PageTypeOK, TripRecord, Change, Reading, Section
  <2>2. AssignedIsOffered
    BY <1>4 DEF TripPageIndInv, DriverFollowed, AssignedIsOffered, Options
  <2>3. QED
    BY <1>4, <2>1, <2>2 DEF TripPageInv, TripPageIndInv
<1>5. QED
  BY <1>1, <1>2, <1>3, <1>4

\* An admin confirms the step that was asked about, however the trip moved on while
\* the question was open, and the choice of drivers offers the one assigned.
THEOREM TripPageInvariant == PageConstants => (PageSpec => []TripPageInv)
<1> SUFFICES ASSUME PageConstants PROVE PageSpec => []TripPageInv
  OBVIOUS
<1>1. /\ PageInit => TripPageIndInv
      /\ TripPageIndInv /\ [PageNext]_pageVars => TripPageIndInv'
      /\ TripPageIndInv => TripPageInv
  BY TripPageInduction
<1>2. QED
  BY <1>1, PTL DEF PageSpec

-----------------------------------------------------------------------------
(* The route. *)

\* Positions are numbered, a page has some of them, and a component has time to be
\* mounted twice.
RouteConstants ==
    /\ Sample \subseteq Int /\ PageSize \in Nat \ {0} /\ MaxRun \in Nat \ {0, 1}

AskRecord ==
    [run : Nat \ {0}, step : {"history", "latest", "more"}, page : Nat \ {0}, keep : BOOLEAN,
     at : {"asked", "read", "answered"}, items : SUBSET Sample, total : Nat,
     read : SUBSET Sample, counted : SUBSET Sample]
SectionRecord ==
    [kind : {"loading", "empty", "ready", "error"}, items : SUBSET Sample, lines : Nat,
     total : Nat, latest : Sample \cup {Missing}, nextPage : Nat \ {0}, exhausted : BOOLEAN]

RouteShapes ==
    /\ recorded \subseteq Sample /\ IsFiniteSet(recorded)
    /\ asking \subseteq AskRecord /\ section \in SectionRecord
    /\ basis \in [read : SUBSET Sample, counted : SUBSET Sample]
    /\ busy \in BOOLEAN /\ mounted \in BOOLEAN /\ run \in 1..MaxRun

\* A request that holds the controls, one whose page has been read, and one whose rows
\* have been counted.
HoldsControls(a) == a.keep \/ a.step = "more"
HasRead(a) == a.at \in {"read", "answered"} \/ a.step = "latest"
HasCounted(a) == a.at = "answered" \/ a.step = "latest"

\* What a request brings: a page of what was stored then, counted later.
PageFits(a) ==
    /\ a.run <= run
    /\ a.step # "more" => a.page = 1
    /\ HasRead(a) => a.read \subseteq recorded /\ a.items = Window(a.read, a.page)
    /\ HasCounted(a) =>
         /\ a.read \subseteq a.counted /\ a.counted \subseteq recorded
         /\ a.total = Cardinality(a.counted)

\* A page that is added continues the list on screen, whatever was inserted meanwhile:
\* a row read for the first page has been shown, or still lies ahead.
Continues(a) ==
    /\ section.kind = "ready" /\ a.page = section.nextPage
    /\ HasRead(a) => /\ basis.read \subseteq a.read
                     /\ \A s \in basis.read :
                          Place(a.read, s) <= (a.page - 1) * PageSize => s \in section.items
    /\ HasCounted(a) => section.items \cup basis.read \subseteq a.counted

\* One request is in force; controls are held for it and given back by it.
Awaited ==
    mounted =>
        /\ \A a, b \in asking : a.run = run /\ b.run = run => a = b
        /\ \A a \in asking : HoldsControls(a) => a.run = run /\ busy
        /\ busy => \E a \in asking : HoldsControls(a)
        /\ \A a \in asking : a.run = run /\ ~HoldsControls(a) => section.kind = "loading"
        /\ \A a \in asking : a.step = "more" => Continues(a)

ListFits ==
    section.kind = "ready" =>
        /\ section.items \cup basis.read \subseteq basis.counted
        /\ basis.counted \subseteq recorded
        /\ section.lines = Cardinality(section.items)
        /\ section.total = Cardinality(basis.counted)
        /\ \A s \in basis.read :
              Place(recorded, s) <= (section.nextPage - 1) * PageSize => s \in section.items
        /\ section.exhausted => basis.read \subseteq section.items

RouteIndInv ==
    RouteShapes /\ (\A a \in asking : PageFits(a)) /\ Awaited /\ ListFits

-----------------------------------------------------------------------------
(* Places in a route. *)

LEMMA PlaceGrows ==
    ASSUME NEW rows, NEW more, IsFiniteSet(more), rows \subseteq more, NEW s
    PROVE  /\ Place(rows, s) \in Nat /\ Place(more, s) \in Nat
           /\ Place(rows, s) <= Place(more, s)
<1> DEFINE A == {r \in rows : r <= s}
           B == {r \in more : r <= s}
<1>1. A \subseteq B /\ B \subseteq more
  OBVIOUS
<1>2. IsFiniteSet(B)
  BY <1>1, FS_Subset
<1>3. Cardinality(A) \in Nat /\ Cardinality(B) \in Nat /\ Cardinality(A) <= Cardinality(B)
  <2> HIDE DEF A, B
  <2>1. QED
    BY <1>1, <1>2, FS_Subset, FS_CardinalityType
<1>4. QED
  BY <1>3 DEF Place

\* Every row of a route has a place in it.
LEMMA PlaceInRoute ==
    ASSUME NEW rows, IsFiniteSet(rows), NEW s \in rows, s \in Int
    PROVE  /\ Place(rows, s) \in Nat /\ Cardinality(rows) \in Nat
           /\ 1 <= Place(rows, s) /\ Place(rows, s) <= Cardinality(rows)
<1> DEFINE A == {r \in rows : r <= s}
<1>1. A \subseteq rows /\ s \in A
  OBVIOUS
<1>2. /\ IsFiniteSet(A) /\ Cardinality(A) \in Nat /\ Cardinality(rows) \in Nat
      /\ Cardinality(A) <= Cardinality(rows) /\ Cardinality(A) # 0
  <2> HIDE DEF A
  <2>1. IsFiniteSet(A) /\ Cardinality(A) <= Cardinality(rows)
    BY <1>1, FS_Subset
  <2>2. Cardinality(A) \in Nat /\ Cardinality(rows) \in Nat
    BY <2>1, FS_CardinalityType
  <2>3. Cardinality(A) # 0
    BY <1>1, <2>1, FS_EmptySet
  <2>4. QED
    BY <2>1, <2>2, <2>3
<1>3. QED
  BY <1>2 DEF Place

LEMMA AsManyAreAll ==
    ASSUME NEW rows, IsFiniteSet(rows), NEW some, some \subseteq rows,
           Cardinality(some) >= Cardinality(rows)
    PROVE  some = rows
  BY FS_Subset, FS_CardinalityType

\* A page and what lies before it are what lies before the next page.
LEMMA PageAfterPage ==
    ASSUME NEW n \in Nat \ {0}, NEW size \in Nat \ {0}, NEW place \in Nat
    PROVE  /\ (n - 1) * size \in Nat /\ n * size \in Nat
           /\ place >= 1 /\ place <= n * size =>
                place <= (n - 1) * size \/ place \in (n - 1) * size + 1..n * size
           /\ (n + 1 - 1) * size = n * size /\ n * size > (n - 1) * size
           /\ (2 - 1) * size = size /\ (1 - 1) * size = 0 /\ 1 * size = size
<1>1. n - 1 \in Nat
  OBVIOUS
<1>2. \A m \in Nat : m * size \in Nat
  OBVIOUS
<1>3. n * size = (n - 1) * size + size
  OBVIOUS
<1>4. (n - 1) * size \in Nat /\ n * size \in Nat
  BY <1>1, <1>2
<1>5. (n + 1 - 1) * size = n * size /\ (2 - 1) * size = size /\ (1 - 1) * size = 0
      /\ 1 * size = size
  OBVIOUS
<1>6. QED
  BY <1>3, <1>4, <1>5

LEMMA LeastOf ==
    ASSUME NEW S, S \subseteq Nat, S # {}
    PROVE  \E x \in S : \A y \in S : x <= y
<1>1. PICK x \in S : \A y \in S : ~ (<<y, x>> \in OpToRel(<, Nat))
  BY NatLessThanWellFounded, WFMin
<1>2. \A y \in S : x <= y
  <2>1. TAKE y \in S
  <2>2. ~ (y < x)
    BY <1>1 DEF OpToRel
  <2>3. QED
    BY <2>2
<1>3. QED
  BY <1>2

\* Of two rows the later one has the later place.
LEMMA PlacesDiffer ==
    ASSUME NEW rows, rows \subseteq Int, IsFiniteSet(rows), NEW r \in rows, NEW s \in rows,
           r < s
    PROVE  Place(rows, r) < Place(rows, s)
<1> DEFINE A == {x \in rows : x <= r}
           B == {x \in rows : x <= s}
<1>1. A \subseteq B /\ B \subseteq rows /\ s \in B /\ s \notin A
  <2>1. r \in Int /\ s \in Int /\ \A x \in rows : x \in Int
    OBVIOUS
  <2>2. s <= s /\ ~(s <= r) /\ \A x \in rows : x <= r => x <= s
    BY <2>1
  <2>3. QED
    BY <2>2
<1>2. Cardinality(A) \in Nat /\ Cardinality(B) \in Nat /\ Cardinality(A) < Cardinality(B)
  <2> HIDE DEF A, B
  <2>1. IsFiniteSet(B) /\ IsFiniteSet(A)
    BY <1>1, FS_Subset
  <2>2. Cardinality(A) <= Cardinality(B) /\ Cardinality(A) # Cardinality(B)
    BY <1>1, <2>1, FS_Subset
  <2>3. QED
    BY <2>1, <2>2, FS_CardinalityType
<1>3. QED
  BY <1>2 DEF Place

\* Places have no gap: behind an empty page there is nothing.
LEMMA EmptyPage ==
    ASSUME NEW rows, rows \subseteq Int, IsFiniteSet(rows), NEW n \in Nat, NEW m \in Nat,
           m > n, \A s \in rows : Place(rows, s) \notin n + 1..m
    PROVE  \A s \in rows : Place(rows, s) <= n
<1> SUFFICES ASSUME \E s \in rows : ~(Place(rows, s) <= n)
             PROVE  FALSE
  OBVIOUS
<1>1. \A s \in rows : Place(rows, s) \in Nat /\ Place(rows, s) <= Cardinality(rows)
                      /\ Place(rows, s) >= 1 /\ Cardinality(rows) \in Nat
  BY PlaceInRoute
\* The first row behind the page, and what lies before it.
<1>2. PICK s \in rows : Place(rows, s) > n
                        /\ \A r \in rows : Place(rows, r) > n => Place(rows, s) <= Place(rows, r)
  <2> DEFINE S == {Place(rows, s) : s \in {r \in rows : Place(rows, r) > n}}
  <2>1. S \subseteq Nat /\ S # {}
    BY <1>1
  <2>2. PICK x \in S : \A y \in S : x <= y
    BY <2>1, LeastOf
  <2>3. QED
    BY <2>2
<1> DEFINE D == {r \in rows : r < s}
<1>3. IsFiniteSet(D) /\ Cardinality(D) \in Nat /\ Place(rows, s) = Cardinality(D) + 1
  <2>1. {r \in rows : r <= s} = D \cup {s} /\ s \notin D /\ D \subseteq rows
    <3>1. \A r \in rows : r \in Int
      OBVIOUS
    <3>2. ~(s < s) /\ \A r \in rows : r <= s <=> r < s \/ r = s
      BY <3>1
    <3>3. QED
      BY ONLY <3>2
  <2>2. IsFiniteSet(D) /\ Cardinality(D \cup {s}) = Cardinality(D) + 1
    <3> HIDE DEF D
    <3>1. QED
      BY <2>1, FS_Subset, FS_AddElement
  <2>3. Cardinality(D) \in Nat
    BY <2>2, FS_CardinalityType
  <2>4. QED
    BY <2>1, <2>2, <2>3 DEF Place
<1>4. CASE D = {}
  <2>1. Cardinality(D) = 0
    BY <1>4, FS_EmptySet
  <2>2. QED
    BY <1>1, <1>2, <1>3, <2>1
<1>5. CASE D # {}
  <2>1. PICK r \in D : \A x \in D : Place(rows, x) <= Place(rows, r)
    <3> DEFINE S == {Cardinality(rows) - Place(rows, x) : x \in D}
    <3>1. S \subseteq Nat /\ S # {}
      <4>1. \A x \in D : Cardinality(rows) - Place(rows, x) \in Nat
        BY <1>1
      <4>2. QED
        BY <1>5, <4>1
    <3>2. PICK y \in S : \A z \in S : y <= z
      BY <3>1, LeastOf
    <3>3. PICK r \in D : y = Cardinality(rows) - Place(rows, r)
      BY ONLY <3>2
    <3>4. \A x \in D : Cardinality(rows) - Place(rows, r) <= Cardinality(rows) - Place(rows, x)
      BY <3>2, <3>3
    <3>5. QED
      BY <1>1, <3>3, <3>4
  <2>2. \A x \in D : x <= r
    <3>1. SUFFICES ASSUME NEW x \in D, ~(x <= r) PROVE FALSE
      OBVIOUS
    <3>2. r < x /\ x \in rows /\ r \in rows
      BY <3>1
    <3>3. Place(rows, r) < Place(rows, x)
      BY <3>2, PlacesDiffer
    <3>4. QED
      BY <1>1, <2>1, <3>2, <3>3
  <2>3. {x \in rows : x <= r} = D
    <3>1. r \in Int /\ s \in Int /\ r < s /\ \A x \in rows : x \in Int
      OBVIOUS
    <3>2. \A x \in rows : x <= r => x < s
      BY <3>1
    <3>3. QED
      BY <2>2, <3>2
  <2>4. Place(rows, r) = Cardinality(D) /\ r \in rows /\ r < s
    BY <2>3 DEF Place
  <2>5. Place(rows, r) < Place(rows, s)
    BY <2>4, PlacesDiffer
  <2>6. Place(rows, r) <= n
    BY <1>1, <1>2, <2>4, <2>5
  <2>7. QED
    BY <1>1, <1>2, <1>3, <2>4, <2>6
<1>6. QED
  BY <1>4, <1>5

-----------------------------------------------------------------------------
LEMMA RouteHolds ==
    ASSUME RouteConstants, RouteIndInv PROVE RouteInv
<1>1. RouteTypeOK
  BY DEF RouteIndInv, RouteShapes, PageFits, RouteTypeOK, AskRecord, SectionRecord, RouteConstants
<1>2. section.kind = "ready" => IsFiniteSet(basis.counted)
  BY FS_Subset DEF RouteIndInv, RouteShapes, ListFits
<1>3. section.kind = "ready" /\ section.lines >= section.total =>
         section.items = basis.counted
  BY <1>2, AsManyAreAll DEF RouteIndInv, ListFits
<1>4. AllMeansAll
  BY <1>3 DEF AllMeansAll, RouteIndInv, ListFits
<1>5. section.lines \in Nat /\ section.total \in Nat
  BY DEF RouteIndInv, RouteShapes, SectionRecord
<1>6. NothingStranded
  BY <1>3, <1>5 DEF NothingStranded, MoreOffered, RouteIndInv, ListFits
<1>7. BusyIsReleased
  BY DEF BusyIsReleased, RouteIndInv, Awaited, HoldsControls
<1>8. QED
  BY <1>1, <1>4, <1>6, <1>7 DEF RouteInv

LEMMA AskedFits ==
    ASSUME NEW n \in Nat \ {0}, NEW refreshing \in BOOLEAN
    PROVE  /\ Asked(n, refreshing) \in AskRecord
           /\ Asked(n, refreshing).run = n /\ Asked(n, refreshing).keep = refreshing
           /\ Asked(n, refreshing).step = "history" /\ Asked(n, refreshing).at = "asked"
           /\ Asked(n, refreshing).page = 1
  BY DEF Asked, AskRecord

LEMMA BlankFits ==
    ASSUME RouteConstants, NEW kind \in {"loading", "empty", "error"}
    PROVE  Blank(kind) \in SectionRecord /\ Blank(kind).kind = kind
  BY DEF Blank, SectionRecord

LEMMA RouteStarts == ASSUME RouteConstants, RouteInit PROVE RouteIndInv
<1>1. /\ recorded = {} /\ busy = FALSE /\ mounted = TRUE /\ run \in 1..MaxRun
      /\ asking = {Asked(n, FALSE) : n \in 1..run} /\ run \in Nat
  BY DEF RouteInit, RouteConstants
<1>2. section \in SectionRecord /\ section.kind = "loading"
  BY DEF RouteInit, Blank, SectionRecord
<1>3. \A a \in asking : /\ a \in AskRecord /\ a.run \in 1..run /\ a = Asked(a.run, FALSE)
                        /\ a.keep = FALSE /\ a.step = "history" /\ a.at = "asked"
                        /\ a.page = 1
  <2>1. \A n \in 1..run : n \in Nat \ {0}
    BY <1>1
  <2>2. SUFFICES ASSUME NEW n \in 1..run, NEW a, a = Asked(n, FALSE)
                 PROVE  /\ a \in AskRecord /\ a.run \in 1..run /\ a = Asked(a.run, FALSE)
                        /\ a.keep = FALSE /\ a.step = "history" /\ a.at = "asked"
                        /\ a.page = 1
    BY <1>1
  <2>3. QED
    BY <2>1, <2>2, AskedFits
<1>4. RouteShapes
  BY <1>1, <1>2, <1>3, FS_EmptySet DEF RouteShapes, RouteInit
<1>5. \A a \in asking : PageFits(a)
  <2>1. \A a \in asking : ~HasRead(a) /\ ~HasCounted(a)
    BY <1>3 DEF HasRead, HasCounted
  <2>2. \A a \in asking : a.run \in 1..run /\ a.page = 1
    BY <1>3
  <2>3. run \in Nat
    BY <1>1
  <2>4. \A a \in asking : a.run <= run
    BY <2>2, <2>3
  <2>5. QED
    BY <2>1, <2>2, <2>4 DEF PageFits
<1>6. Awaited
  <2>1. \A a \in asking : ~HoldsControls(a) /\ a.step # "more"
    BY <1>3 DEF HoldsControls
  <2>2. \A a, b \in asking : a.run = b.run => a = b
    BY <1>3
  <2>3. QED
    BY <1>1, <1>2, <2>1, <2>2 DEF Awaited
<1>7. QED
  BY <1>2, <1>4, <1>5, <1>6 DEF RouteIndInv, ListFits

-----------------------------------------------------------------------------
(* What a step does to the requests. *)

\* A request goes on, in the run it was asked in.
LEMMA MovesStep ==
    ASSUME RouteIndInv, NEW a \in asking, NEW b \in AskRecord, Moves(a, b),
           UNCHANGED <<recorded, section, busy, mounted, run, basis>>,
           b.run = a.run, b.keep = a.keep, b.step = "more" <=> a.step = "more",
           PageFits(b), mounted /\ b.step = "more" => Continues(b)
    PROVE  RouteIndInv'
<1>1. /\ \A c \in asking' : c = b \/ (c \in asking /\ c # a)
      /\ HoldsControls(b) <=> HoldsControls(a)
      /\ b \in asking' /\ \A c \in asking : c # a => c \in asking'
  BY DEF Moves, HoldsControls
<1>2. RouteShapes'
  BY <1>1 DEF RouteIndInv, RouteShapes
<1>3. \A c \in asking' : PageFits(c)'
  BY <1>1 DEF RouteIndInv, PageFits
<1>4. Awaited'
  <2>1. \A c, d \in asking' : mounted /\ c.run = run /\ d.run = run => c = d
    BY <1>1 DEF RouteIndInv, Awaited
  <2>2. \A c \in asking' : mounted /\ HoldsControls(c) => c.run = run /\ busy
    BY <1>1 DEF RouteIndInv, Awaited
  <2>3. mounted /\ busy => \E c \in asking' : HoldsControls(c)
    BY <1>1 DEF RouteIndInv, Awaited
  <2>4. \A c \in asking' :
           mounted /\ c.run = run /\ ~HoldsControls(c) => section.kind = "loading"
    BY <1>1 DEF RouteIndInv, Awaited
  <2>5. \A c \in asking' : mounted /\ c.step = "more" => Continues(c)
    BY <1>1 DEF RouteIndInv, Awaited
  <2>6. \A c \in asking' : Continues(c) => Continues(c)'
    BY DEF Continues
  <2>7. QED
    BY <2>1, <2>2, <2>3, <2>4, <2>5, <2>6 DEF Awaited
<1>5. QED
  BY <1>2, <1>3, <1>4 DEF RouteIndInv, ListFits

\* A request ends: the one in force, or one that changes nothing.
LEMMA DoneStep ==
    ASSUME RouteIndInv, NEW a \in asking, Done(a), section' \in SectionRecord,
           basis' \in [read : SUBSET Sample, counted : SUBSET Sample], ListFits',
           Applies(a) \/ (~Applies(a) /\ UNCHANGED <<section, basis>>)
    PROVE  RouteIndInv'
<1>1. /\ asking' = asking \ {a} /\ UNCHANGED <<recorded, mounted, run>>
      /\ busy' = (busy /\ ~(mounted /\ HoldsControls(a)))
  BY DEF Done, Release, HoldsControls
<1>2. RouteShapes'
  BY <1>1 DEF RouteIndInv, RouteShapes
<1>3. \A c \in asking' : PageFits(c)'
  BY <1>1 DEF RouteIndInv, PageFits
<1>4. Awaited'
  <2>1. CASE Applies(a)
    <3>1. mounted /\ a.run = run
      BY <2>1 DEF Applies
    <3>2. \A c \in asking' : c.run # run /\ ~HoldsControls(c)
      BY <1>1, <3>1 DEF RouteIndInv, Awaited
    <3>3. ~busy'
      BY <1>1, <3>1, <3>2 DEF RouteIndInv, Awaited
    <3>4. \A c \in asking' : c.step # "more"
      BY <3>2 DEF HoldsControls
    <3>5. QED
      BY <1>1, <3>2, <3>3, <3>4 DEF Awaited
  <2>2. CASE ~mounted
    BY <1>1, <2>2 DEF Awaited
  <2>3. CASE mounted /\ ~Applies(a)
    <3>1. a.run # run /\ ~HoldsControls(a) /\ busy' = busy
      BY <1>1, <2>3 DEF Applies, RouteIndInv, Awaited, RouteShapes
    <3>2. \A c \in asking' : c \in asking /\ (Continues(c) => Continues(c)')
      BY <1>1, <2>3 DEF Continues
    <3>3. \A c \in asking : HoldsControls(c) => c \in asking'
      BY <1>1, <3>1
    <3>4. section' = section
      BY <2>3
    <3>5. QED
      BY <1>1, <3>1, <3>2, <3>3, <3>4 DEF RouteIndInv, Awaited
  <2>4. QED
    BY <2>1, <2>2, <2>3
<1>5. QED
  BY <1>2, <1>3, <1>4 DEF RouteIndInv

\* Nothing is in force while the controls are free and the list is there.
LEMMA FreeControls ==
    ASSUME RouteIndInv, mounted, ~busy, section.kind # "loading"
    PROVE  \A a \in asking : a.run # run /\ ~HoldsControls(a) /\ a.step # "more"
  BY DEF RouteIndInv, Awaited, HoldsControls

-----------------------------------------------------------------------------
LEMMA IngestsStep ==
    ASSUME RouteConstants, RouteIndInv, NEW s \in Sample, Ingests(s) PROVE RouteIndInv'
<1>1. /\ recorded' = recorded \cup {s}
      /\ UNCHANGED <<section, busy, mounted, run, asking, basis>>
  BY DEF Ingests
<1>2. IsFiniteSet(recorded') /\ recorded \subseteq recorded'
  BY <1>1, FS_AddElement DEF RouteIndInv, RouteShapes
<1>3. RouteShapes'
  BY <1>1, <1>2 DEF RouteIndInv, RouteShapes
<1>4. \A a \in asking : PageFits(a) => PageFits(a)'
  BY <1>1, <1>2 DEF PageFits
<1>5. Awaited'
  BY <1>1 DEF RouteIndInv, Awaited, Continues
<1>6. ListFits'
  <2>1. \A r : /\ Place(recorded, r) \in Nat /\ Place(recorded', r) \in Nat
               /\ Place(recorded, r) <= Place(recorded', r)
    BY <1>2, PlaceGrows
  <2>2. (section.nextPage - 1) * PageSize \in Int
    BY DEF RouteIndInv, RouteShapes, SectionRecord, RouteConstants
  <2>3. \A r : Place(recorded', r) <= (section.nextPage - 1) * PageSize =>
               Place(recorded, r) <= (section.nextPage - 1) * PageSize
    BY <2>1, <2>2
  <2>4. QED
    BY <1>1, <1>2, <2>3 DEF RouteIndInv, ListFits
<1>7. QED
  BY <1>1, <1>3, <1>4, <1>5, <1>6 DEF RouteIndInv

LEMMA ReadsPageStep ==
    ASSUME RouteConstants, RouteIndInv, NEW a \in asking, ReadsPage(a) PROVE RouteIndInv'
<1> DEFINE b == [a EXCEPT !.at = "read", !.items = Window(recorded, a.page), !.read = recorded]
<1>1. a \in AskRecord /\ Window(recorded, a.page) \subseteq recorded /\ recorded \subseteq Sample
  BY DEF RouteIndInv, RouteShapes, Window
<1>2. /\ b \in AskRecord /\ b.run = a.run /\ b.keep = a.keep /\ b.step = a.step
      /\ b.page = a.page /\ b.at = "read" /\ b.items = Window(recorded, a.page) /\ b.read = recorded
  BY <1>1 DEF AskRecord
<1>3. Moves(a, b) /\ UNCHANGED <<recorded, section, busy, mounted, run, basis>>
      /\ a.step # "latest"
  BY DEF ReadsPage
<1> HIDE DEF b
<1>4. PageFits(b)
  BY <1>2, <1>3 DEF RouteIndInv, PageFits, HasCounted
<1>5. mounted /\ b.step = "more" => Continues(b)
  BY <1>2, <1>3 DEF RouteIndInv, Awaited, Continues, HasCounted, ListFits
<1>6. QED
  BY <1>2, <1>3, <1>4, <1>5, MovesStep

LEMMA CountsRowsStep ==
    ASSUME RouteConstants, RouteIndInv, NEW a \in asking, CountsRows(a) PROVE RouteIndInv'
<1> DEFINE b == [a EXCEPT !.at = "answered", !.total = Cardinality(recorded),
                          !.counted = recorded]
<1>1. a \in AskRecord /\ recorded \subseteq Sample /\ Cardinality(recorded) \in Nat
  BY FS_CardinalityType DEF RouteIndInv, RouteShapes
<1>2. /\ b \in AskRecord /\ b.run = a.run /\ b.keep = a.keep /\ b.step = a.step
      /\ b.page = a.page /\ b.at = "answered" /\ b.items = a.items /\ b.read = a.read
      /\ b.counted = recorded /\ b.total = Cardinality(recorded)
  BY <1>1 DEF AskRecord
<1>3. Moves(a, b) /\ UNCHANGED <<recorded, section, busy, mounted, run, basis>>
      /\ a.at = "read"
  BY DEF CountsRows
<1> HIDE DEF b
<1>4. PageFits(b)
  BY <1>2, <1>3 DEF RouteIndInv, PageFits, HasRead
<1>5. mounted /\ b.step = "more" => Continues(b)
  BY <1>2, <1>3 DEF RouteIndInv, Awaited, Continues, HasRead, ListFits
<1>6. QED
  BY <1>2, <1>3, <1>4, <1>5, MovesStep

LEMMA HistoryFoundStep ==
    ASSUME RouteIndInv, NEW a \in asking, HistoryFound(a) PROVE RouteIndInv'
<1> DEFINE b == [a EXCEPT !.step = "latest", !.at = "asked"]
<1>1. a \in AskRecord
  BY DEF RouteIndInv, RouteShapes
<1>2. /\ b \in AskRecord /\ b.run = a.run /\ b.keep = a.keep /\ b.step = "latest"
      /\ b.page = a.page /\ b.items = a.items /\ b.read = a.read
      /\ b.counted = a.counted /\ b.total = a.total
  BY <1>1 DEF AskRecord
<1>3. Moves(a, b) /\ UNCHANGED <<recorded, section, busy, mounted, run, basis>>
      /\ a.at = "answered" /\ a.step = "history"
  BY DEF HistoryFound
<1> HIDE DEF b
<1>4. PageFits(b)
  BY <1>2, <1>3 DEF RouteIndInv, PageFits, HasRead, HasCounted
<1>5. QED
  BY <1>2, <1>3, <1>4, MovesStep

LEMMA SupersededStep ==
    ASSUME RouteIndInv, NEW a \in asking, Superseded(a) PROVE RouteIndInv'
<1>1. Done(a) /\ UNCHANGED <<section, basis>> /\ ~Applies(a) /\ recorded' = recorded
  BY DEF Superseded, Done
<1>2. ListFits'
  BY <1>1 DEF RouteIndInv, ListFits
<1>3. section' \in SectionRecord /\ basis' \in [read : SUBSET Sample, counted : SUBSET Sample]
  BY <1>1 DEF RouteIndInv, RouteShapes
<1>4. QED
  BY <1>1, <1>2, <1>3, DoneStep

LEMMA FailsStep ==
    ASSUME RouteConstants, RouteIndInv, NEW a \in asking, Fails(a) \/ HistoryEmpty(a)
    PROVE  RouteIndInv'
<1>1. Done(a) /\ UNCHANGED <<recorded, basis>> /\ Applies(a)
  BY DEF Fails, HistoryEmpty, Done
<1>2. \/ section' = section
      \/ section' = Blank("error")
      \/ section' = Blank("empty")
  BY DEF Fails, HistoryEmpty
<1>3. section' = section \/ (section' \in SectionRecord /\ section'.kind # "ready")
  BY <1>2, BlankFits
<1>4. section' \in SectionRecord /\ basis' \in [read : SUBSET Sample, counted : SUBSET Sample]
  BY <1>1, <1>3 DEF RouteIndInv, RouteShapes
<1>5. ListFits'
  BY <1>1, <1>3 DEF RouteIndInv, ListFits
<1>6. QED
  BY <1>1, <1>4, <1>5, DoneStep

\* The first page is on screen.
LEMMA LatestArrivesStep ==
    ASSUME RouteConstants, RouteIndInv, NEW a \in asking, LatestArrives(a) PROVE RouteIndInv'
<1>1. PICK newest \in recorded :
        section' = [kind |-> "ready", items |-> a.items, lines |-> Cardinality(a.items),
                    total |-> a.total, latest |-> newest, nextPage |-> 2,
                    exhausted |-> FALSE]
  BY DEF LatestArrives
<1>2. /\ basis' = [read |-> a.read, counted |-> a.counted] /\ Done(a) /\ Applies(a)
      /\ a.step = "latest" /\ recorded' = recorded
  BY DEF LatestArrives, Done
<1>3. /\ a \in AskRecord /\ a.page = 1 /\ a.read \subseteq recorded
      /\ a.items = Window(a.read, a.page) /\ a.items \subseteq a.read
      /\ a.read \subseteq a.counted /\ a.counted \subseteq recorded
      /\ a.total = Cardinality(a.counted)
      /\ recorded \subseteq Sample /\ IsFiniteSet(recorded)
  BY <1>2 DEF RouteIndInv, RouteShapes, PageFits, HasRead, HasCounted, Window
<1>4. IsFiniteSet(a.read) /\ IsFiniteSet(a.items) /\ Cardinality(a.items) \in Nat
  BY <1>3, FS_Subset, FS_CardinalityType
<1>5. /\ section' \in SectionRecord
      /\ basis' \in [read : SUBSET Sample, counted : SUBSET Sample]
  BY <1>1, <1>2, <1>3, <1>4 DEF AskRecord, SectionRecord
<1>6. \A s \in a.read : Place(recorded, s) <= (2 - 1) * PageSize => s \in a.items
  <2>1. TAKE s \in a.read
  <2>2. /\ Place(a.read, s) \in Nat /\ Place(recorded, s) \in Nat
        /\ Place(a.read, s) <= Place(recorded, s)
    BY <1>3, PlaceGrows
  <2>3. 1 <= Place(a.read, s)
    BY <1>3, <1>4, PlaceInRoute DEF RouteConstants
  <2>4. PageSize \in Nat /\ (2 - 1) * PageSize = PageSize
        /\ (a.page - 1) * PageSize = 0 /\ a.page * PageSize = PageSize
    BY <1>3, PageAfterPage DEF RouteConstants
  <2>5. Place(recorded, s) <= PageSize =>
           Place(a.read, s) \in (a.page - 1) * PageSize + 1..a.page * PageSize
    BY <2>2, <2>3, <2>4
  <2>6. QED
    BY <1>3, <2>4, <2>5 DEF Window
<1>7. ListFits'
  BY <1>1, <1>2, <1>3, <1>6 DEF ListFits
<1>8. QED
  BY <1>2, <1>5, <1>7, DoneStep

\* A page is added to those on screen.
LEMMA MoreArrivesStep ==
    ASSUME RouteConstants, RouteIndInv, NEW a \in asking, MoreArrives(a) PROVE RouteIndInv'
<1>1. /\ section' = [section EXCEPT !.items = @ \cup Fresh(a.items),
                                    !.lines = @ + Cardinality(Fresh(a.items)),
                                    !.total = a.total, !.nextPage = @ + 1,
                                    !.exhausted = Exhausts(a)]
      /\ basis' = [basis EXCEPT !.counted = a.counted]
      /\ Done(a) /\ Applies(a) /\ mounted /\ recorded' = recorded
      /\ a.step = "more" /\ HasRead(a) /\ HasCounted(a)
  BY DEF MoreArrives, Done, Applies, HasRead, HasCounted
<1>2. /\ a \in AskRecord /\ a.read \subseteq recorded
      /\ a.items = Window(a.read, a.page) /\ a.items \subseteq a.read
      /\ a.read \subseteq a.counted /\ a.counted \subseteq recorded
      /\ a.total = Cardinality(a.counted)
      /\ recorded \subseteq Sample /\ IsFiniteSet(recorded)
      /\ section \in SectionRecord
      /\ basis \in [read : SUBSET Sample, counted : SUBSET Sample]
  BY <1>1 DEF RouteIndInv, RouteShapes, PageFits, Window
<1>3. /\ section.kind = "ready" /\ a.page = section.nextPage /\ basis.read \subseteq a.read
      /\ \A s \in basis.read :
            Place(a.read, s) <= (a.page - 1) * PageSize => s \in section.items
      /\ section.items \cup basis.read \subseteq a.counted
      /\ section.lines = Cardinality(section.items)
  BY <1>1 DEF RouteIndInv, Awaited, Continues, ListFits
<1>4. /\ section'.kind = "ready" /\ section'.items = section.items \cup a.items
      /\ section'.lines = section.lines + Cardinality(a.items \ section.items)
      /\ section'.total = a.total /\ section'.nextPage = a.page + 1
      /\ section'.exhausted = Exhausts(a) /\ section'.latest = section.latest
      /\ DOMAIN section' = DOMAIN section
      /\ basis'.read = basis.read /\ basis'.counted = a.counted
  BY <1>1, <1>2, <1>3 DEF SectionRecord, Fresh
<1>5. /\ IsFiniteSet(a.read) /\ IsFiniteSet(a.counted) /\ IsFiniteSet(a.items)
      /\ IsFiniteSet(section.items)
  BY <1>2, <1>3, FS_Subset
<1>6. /\ section'.lines = Cardinality(section'.items) /\ section'.lines \in Nat
  <2> DEFINE new == a.items \ section.items
  <2>1. /\ IsFiniteSet(new) /\ section.items \cap new = {}
        /\ section'.items = section.items \cup new
        /\ section'.lines = section.lines + Cardinality(new)
    BY <1>4, <1>5, FS_Subset
  <2> HIDE DEF new
  <2>2. /\ IsFiniteSet(section.items \cup new)
        /\ Cardinality(section.items \cup new) =
              Cardinality(section.items) + Cardinality(new)
              - Cardinality(section.items \cap new)
    BY <1>5, <2>1, FS_Union
  <2>3. /\ Cardinality(section.items) \in Nat /\ Cardinality(new) \in Nat
        /\ Cardinality(section.items \cap new) = 0
    BY <1>5, <2>1, FS_CardinalityType, FS_EmptySet
  <2>4. QED
    BY <1>3, <2>1, <2>2, <2>3
<1>7. /\ section' \in SectionRecord
      /\ basis' \in [read : SUBSET Sample, counted : SUBSET Sample]
  <2>1. a.page \in Nat \ {0} /\ a.total \in Nat /\ a.items \subseteq Sample
        /\ a.counted \subseteq Sample /\ Exhausts(a) \in BOOLEAN
    BY <1>2 DEF AskRecord, Exhausts
  <2>2. basis' \in [read : SUBSET Sample, counted : SUBSET Sample]
    BY <1>1, <1>2, <2>1
  <2>3. section' \in SectionRecord
    <3>1. Cardinality(Fresh(a.items)) \in Nat /\ Fresh(a.items) \subseteq Sample
      BY <1>5, <2>1, FS_Subset, FS_CardinalityType DEF Fresh
    <3>2. section' = [kind |-> "ready", items |-> section.items \cup a.items,
                      lines |-> section'.lines, total |-> a.total,
                      latest |-> section.latest, nextPage |-> a.page + 1,
                      exhausted |-> Exhausts(a)]
      BY <1>1, <1>2, <1>3 DEF SectionRecord, Fresh
    <3>3. QED
      BY <1>2, <1>6, <2>1, <3>2 DEF SectionRecord
  <2>4. QED
    BY <2>2, <2>3
\* What lies before the end of this page has been shown, or is on it.
<1>8. /\ a.page \in Nat \ {0} /\ PageSize \in Nat \ {0}
      /\ (a.page - 1) * PageSize \in Nat /\ a.page * PageSize \in Nat
      /\ (section'.nextPage - 1) * PageSize = a.page * PageSize
  BY <1>2, <1>4, PageAfterPage DEF AskRecord, RouteConstants
<1>9. ASSUME NEW s \in basis.read, Place(a.read, s) <= a.page * PageSize
      PROVE  s \in section'.items
  <2>1. Place(a.read, s) \in Nat /\ 1 <= Place(a.read, s)
    BY <1>2, <1>3, <1>5, PlaceInRoute DEF RouteConstants
  <2>2. \/ Place(a.read, s) <= (a.page - 1) * PageSize
        \/ Place(a.read, s) \in (a.page - 1) * PageSize + 1..a.page * PageSize
    BY <1>8, <1>9, <2>1
  <2>3. QED
    BY <1>2, <1>3, <1>4, <2>2 DEF Window
<1>10. \A s \in basis.read :
          Place(recorded, s) <= a.page * PageSize => s \in section'.items
  <2>1. \A s : /\ Place(a.read, s) \in Nat /\ Place(recorded, s) \in Nat
               /\ Place(a.read, s) <= Place(recorded, s)
    BY <1>2, PlaceGrows
  <2>2. QED
    BY <1>8, <1>9, <2>1
<1>11. section'.exhausted => basis.read \subseteq section'.items
  <2>1. \A s \in basis.read : /\ Place(a.read, s) \in Nat /\ 1 <= Place(a.read, s)
                              /\ Place(a.read, s) <= Cardinality(a.read)
    BY <1>2, <1>3, <1>5, PlaceInRoute DEF RouteConstants
  <2>2. /\ Cardinality(a.read) \in Nat /\ Cardinality(a.counted) \in Nat
        /\ Cardinality(a.read) <= Cardinality(a.counted)
    BY <1>2, <1>5, FS_Subset, FS_CardinalityType
  <2>3. CASE a.page * PageSize >= a.total
    BY <1>2, <1>8, <1>9, <2>1, <2>2, <2>3
  \* The page is empty: no row has a place on it, so none has one behind it.
  <2>4. CASE a.items = {}
    <3>1. \A s \in a.read :
             Place(a.read, s) \notin (a.page - 1) * PageSize + 1..a.page * PageSize
      BY <1>2, <2>4 DEF Window
    <3>2. a.page * PageSize > (a.page - 1) * PageSize
      BY <1>8, PageAfterPage
    <3>3. a.read \subseteq Int
      BY <1>2 DEF RouteConstants
    <3>4. \A s \in a.read : Place(a.read, s) <= (a.page - 1) * PageSize
      BY <1>5, <1>8, <3>1, <3>2, <3>3, EmptyPage
    <3>5. QED
      BY <1>3, <1>4, <3>4
  <2>5. QED
    BY <1>4, <2>3, <2>4 DEF Exhausts
<1>12. ListFits'
  BY <1>1, <1>2, <1>3, <1>4, <1>6, <1>8, <1>10, <1>11 DEF ListFits
<1>13. QED
  BY <1>1, <1>7, <1>12, DoneStep

-----------------------------------------------------------------------------
LEMMA RefreshStep ==
    ASSUME RouteConstants, RouteIndInv, Refresh PROVE RouteIndInv'
<1> PICK b : b = Asked(run + 1, TRUE)
  OBVIOUS
<1>1. /\ mounted /\ ~busy /\ section.kind # "loading" /\ run < MaxRun
      /\ run' = run + 1 /\ busy' = TRUE /\ asking' = asking \cup {b}
      /\ UNCHANGED <<recorded, section, mounted, basis>>
  BY DEF Refresh
<1>2. run \in Nat \ {0} /\ run + 1 \in 1..MaxRun /\ run + 1 \in Nat \ {0}
  BY <1>1 DEF RouteIndInv, RouteShapes, RouteConstants
<1>3. /\ b \in AskRecord /\ b.run = run + 1 /\ b.keep = TRUE /\ b.step = "history"
      /\ b.at = "asked" /\ b.page = 1
  BY <1>2, AskedFits
<1>4. \A a \in asking : a.run # run' /\ ~HoldsControls(a) /\ a.step # "more"
  <2>1. \A a \in asking : a.run \in Nat /\ a.run <= run
    BY DEF RouteIndInv, RouteShapes, PageFits, AskRecord
  <2>2. QED
    BY <1>1, <1>2, <2>1, FreeControls
<1>5. RouteShapes'
  BY <1>1, <1>2, <1>3 DEF RouteIndInv, RouteShapes
<1>6. \A a \in asking' : PageFits(a)'
  <2>1. \A a \in asking : a.run \in Nat /\ PageFits(a)
    BY DEF RouteIndInv, RouteShapes, AskRecord
  <2>2. \A a \in asking : PageFits(a)'
    BY <1>1, <1>2, <2>1 DEF PageFits
  <2>3. PageFits(b)'
    <3>1. ~HasRead(b) /\ ~HasCounted(b)
      BY <1>3 DEF HasRead, HasCounted
    <3>2. b.run = run' /\ run' \in Nat
      BY <1>1, <1>2, <1>3
    <3>3. b.run <= run'
      BY ONLY <3>2
    <3>4. QED
      BY <1>3, <3>1, <3>3 DEF PageFits
  <2>4. QED
    BY <1>1, <2>2, <2>3
<1>7. Awaited'
  BY <1>1, <1>3, <1>4 DEF Awaited, HoldsControls
<1>8. QED
  BY <1>1, <1>5, <1>6, <1>7 DEF RouteIndInv, ListFits

LEMMA LoadMoreStep ==
    ASSUME RouteConstants, RouteIndInv, LoadMore PROVE RouteIndInv'
<1> PICK b : b = [Asked(run, FALSE) EXCEPT !.step = "more", !.page = section.nextPage]
  OBVIOUS
<1>1. /\ mounted /\ ~busy /\ section.kind = "ready" /\ busy' = TRUE
      /\ asking' = asking \cup {b}
      /\ UNCHANGED <<recorded, section, mounted, run, basis>>
  BY DEF LoadMore, MoreOffered
<1>2. run \in Nat \ {0} /\ section.nextPage \in Nat \ {0}
  BY DEF RouteIndInv, RouteShapes, RouteConstants, SectionRecord
<1>3. /\ b \in AskRecord /\ b.run = run /\ b.step = "more" /\ b.at = "asked"
      /\ b.page = section.nextPage
  BY <1>2 DEF Asked, AskRecord
<1>4. \A a \in asking : a.run # run /\ ~HoldsControls(a) /\ a.step # "more"
  BY <1>1, FreeControls
<1>5. RouteShapes'
  BY <1>1, <1>3 DEF RouteIndInv, RouteShapes
<1>6. \A a \in asking' : PageFits(a)'
  <2>1. \A a \in asking : PageFits(a)'
    BY <1>1 DEF RouteIndInv, PageFits
  <2>2. PageFits(b)'
    <3>1. ~HasRead(b) /\ ~HasCounted(b)
      BY <1>3 DEF HasRead, HasCounted
    <3>2. b.run = run' /\ run' \in Nat
      BY <1>1, <1>2, <1>3
    <3>3. b.run <= run'
      BY ONLY <3>2
    <3>4. QED
      BY <1>3, <3>1, <3>3 DEF PageFits
  <2>3. QED
    BY <1>1, <2>1, <2>2
<1>7. Awaited'
  <2>1. Continues(b)'
    BY <1>1, <1>3 DEF Continues, HasRead, HasCounted
  <2>2. QED
    BY <1>1, <1>3, <1>4, <2>1 DEF Awaited, HoldsControls
<1>8. QED
  BY <1>1, <1>5, <1>6, <1>7 DEF RouteIndInv, ListFits

LEMMA LeaveStep == ASSUME RouteIndInv, Leave PROVE RouteIndInv'
<1>1. mounted' = FALSE /\ UNCHANGED <<recorded, section, busy, run, asking, basis>>
  BY DEF Leave
<1>2. QED
  BY <1>1 DEF RouteIndInv, RouteShapes, PageFits, Awaited, ListFits

LEMMA RouteMove ==
    ASSUME RouteConstants, RouteIndInv, RouteNext PROVE RouteIndInv'
<1>1. CASE \E s \in Sample : Ingests(s)
  BY <1>1, IngestsStep
<1>2. CASE \E a \in asking :
             \/ ReadsPage(a) \/ CountsRows(a)
             \/ Superseded(a) \/ Fails(a) \/ HistoryEmpty(a) \/ HistoryFound(a)
             \/ LatestArrives(a) \/ MoreArrives(a)
  BY <1>2, ReadsPageStep, CountsRowsStep, SupersededStep, FailsStep, HistoryFoundStep,
     LatestArrivesStep, MoreArrivesStep
<1>3. CASE Refresh \/ LoadMore \/ Leave
  BY <1>3, RefreshStep, LoadMoreStep, LeaveStep
<1>4. QED
  BY <1>1, <1>2, <1>3 DEF RouteNext

LEMMA RouteRest ==
    ASSUME RouteIndInv, UNCHANGED routeVars PROVE RouteIndInv'
<1>1. UNCHANGED <<recorded, section, busy, mounted, run, asking, basis>>
  BY DEF routeVars
<1>2. RouteShapes' /\ \A a \in asking' : PageFits(a)'
  BY <1>1 DEF RouteIndInv, RouteShapes, PageFits
<1>3. Awaited' /\ ListFits'
  BY <1>1 DEF RouteIndInv, Awaited, Continues, ListFits
<1>4. QED
  BY <1>2, <1>3 DEF RouteIndInv

\* Whatever arrives between two pages, "showing all" is said of exactly the rows that
\* were counted, and "Load more" is withdrawn only when every row stored at the first
\* page is on screen.
THEOREM RouteInvariant == ASSUME RouteConstants PROVE RouteSpec => []RouteInv
<1>1. RouteInit => RouteIndInv
  BY RouteStarts
<1>2. RouteIndInv /\ [RouteNext]_routeVars => RouteIndInv'
  BY RouteMove, RouteRest
<1>3. RouteIndInv => RouteInv
  BY RouteHolds
<1>4. QED
  BY <1>1, <1>2, <1>3, PTL DEF RouteSpec
=============================================================================
