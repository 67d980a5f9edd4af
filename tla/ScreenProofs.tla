---------------------------- MODULE ScreenProofs ----------------------------
(* Three screens, for every number of rows, searches, requests and images: a  *)
(* list that has settled is the list asked for, however the answers came in,  *)
(* and the driver's screen and the admin's page of an expense are neither     *)
(* ahead of the API nor behind what their own attempts have done.  And what   *)
(* passes over the wire between such a screen and the API is understood.      *)
EXTENDS ListScreen, ExpenseView, ExpensePage, WireContract, TLAPS

\* A page turn or a reload leaves every request of before behind the one in
\* force: until the effect has run the list is older than what is asked for, and
\* afterwards every request still adopted is the one in force.  Rows do not go
\* away, so a request that has counted since a filing has counted what was filed.
Behind == list.n < want.n /\ \A a \in asks : a.n < want.n

InStep ==
    /\ \A a \in asks : a.live =>
          /\ a.n = want.n /\ a.filter = want.filter
          /\ a.at = "answered" /\ want.filter = "all" => owed \subseteq a.counted
    /\ (\E a \in asks : a.live) \/ (list.kind # "loading" /\ list.n = want.n)
    /\ list.kind = "ready" /\ list.n = want.n /\ want.filter = "all" => owed \subseteq list.counted

ListIndInv ==
    /\ ListTypeOK
    /\ owed \subseteq Present
    /\ filing.at = "ok" => filing.row \in Present
    /\ turning => Behind
    /\ ~turning => InStep

LEMMA ListStart == ASSUME MaxAsked \in Nat \ {0}, ListInit PROVE ListIndInv
<1>1. /\ want = [filter |-> "all", page |-> 1, n |-> 1] /\ 1 \in 1..MaxAsked
      /\ asks = {PageRequest(want)} /\ list = Blank(0)
  BY DEF ListInit
<1>2. /\ want \in [filter : Filter, page : Nat \ {0}, n : 1..MaxAsked] /\ want.n = 1
      /\ list.kind = "loading" /\ list.n = 0 /\ list.items = {} /\ list.counted = {}
  BY <1>1 DEF Filter, Blank
<1>3. PageRequest(want) =
        [n |-> 1, filter |-> "all", page |-> 1, live |-> TRUE, at |-> "asked",
         items |-> {}, counted |-> {}]
  BY <1>1 DEF PageRequest
<1>4. asks \subseteq [n : 1..want.n, filter : Filter, page : Nat \ {0}, live : BOOLEAN,
                      at : {"asked", "read", "answered"},
                      items : SUBSET Listed, counted : SUBSET Listed]
  <2>1. 1 \in 1..want.n /\ 1 \in Nat \ {0} /\ "all" \in Filter /\ {} \in SUBSET Listed
    BY <1>2 DEF Filter
  <2>2. [n |-> 1, filter |-> "all", page |-> 1, live |-> TRUE, at |-> "asked",
         items |-> {}, counted |-> {}] \in
            [n : 1..want.n, filter : Filter, page : Nat \ {0}, live : BOOLEAN,
             at : {"asked", "read", "answered"},
             items : SUBSET Listed, counted : SUBSET Listed]
    BY <2>1
  <2>3. asks = {[n |-> 1, filter |-> "all", page |-> 1, live |-> TRUE, at |-> "asked",
                 items |-> {}, counted |-> {}]}
    BY <1>1, <1>3
  <2>4. QED
    BY <2>2, <2>3
<1>5. ListTypeOK
  <2>1. list.n \in 0..want.n
    BY <1>2
  <2>2. NotFiling \in [at : {"idle", "sent", "ok", "failed"}, row : Listed \cup {0}]
        /\ NotFiling \in [at : {"idle", "sent", "ok", "stale", "failed"}, row : Listed \cup {0}]
    BY DEF NotFiling
  <2>3. QED
    BY <1>2, <1>4, <2>1, <2>2 DEF ListInit, ListTypeOK
<1>6. InStep
  BY <1>1, <1>2, <1>3 DEF InStep
<1>7. QED
  BY <1>5, <1>6 DEF ListInit, ListIndInv, NotFiling

\* What is there stays there.
LEMMA RowsStay ==
    ASSUME ListTypeOK, [ListNext]_listVars PROVE Present \subseteq Present' /\ Present \subseteq Listed
<1> USE DEF ListTypeOK, Present
<1>1. CASE rowsOf' = rowsOf
  BY <1>1
<1>2. ASSUME NEW r \in Listed, OthersWork(r) \/ Files(r) PROVE Present \subseteq Present'
  BY <1>2 DEF OthersWork, Files
<1>3. CASE Finishes
  BY <1>3 DEF Finishes
<1>4. CASE \/ \E r \in Listed : SendAction(r)
           \/ \E a \in asks : ReadsPage(a) \/ CountsRows(a) \/ Arrives(a) \/ ReadFails(a)
           \/ RequestLost \/ Renders \/ Submit \/ Retry \/ Previous \/ NextPage
           \/ SendFiling \/ Created \/ FilingFailed \/ Changed \/ ActionFailed
           \/ UNCHANGED listVars
  BY <1>1, <1>4 DEF SendAction, ReadsPage, CountsRows, Arrives, ReadFails, RequestLost, Renders,
     Submit, Retry, Previous, NextPage, Turns, SendFiling, Created, FilingFailed, Changed,
     ActionFailed, listVars
<1>5. QED
  BY <1>2, <1>3, <1>4 DEF ListNext

\* A button asks at once.
LEMMA TurnStep ==
    ASSUME MaxAsked \in Nat \ {0}, ListIndInv, NEW f \in Filter, NEW k \in Nat \ {0}, Turns(f, k),
           Present' = Present
    PROVE  ListIndInv'
<1> DEFINE Request == [n : 1..want'.n, filter : Filter, page : Nat \ {0}, live : BOOLEAN,
                       at : {"asked", "read", "answered"},
                       items : SUBSET Listed, counted : SUBSET Listed]
<1>1. /\ want.n \in Nat /\ want.n + 1 \in 1..MaxAsked /\ list.n \in 0..want.n
      /\ \A a \in asks : a \in Request /\ a.n <= want.n
  <2>1. want.n \in 1..MaxAsked /\ want.n < MaxAsked /\ MaxAsked \in Nat /\ list.n \in 0..want.n
    BY DEF ListIndInv, ListTypeOK, Turns
  <2>2. want.n \in Nat /\ want.n + 1 \in 1..MaxAsked /\ want'.n = want.n + 1
    BY <2>1 DEF Turns
  <2>3. \A a \in asks : a \in Request /\ a.n <= want.n
    BY <2>2 DEF ListIndInv, ListTypeOK
  <2>4. QED
    BY <2>1, <2>2, <2>3
<1>2. /\ want' = [filter |-> f, page |-> k, n |-> want.n + 1]
      /\ want'.filter = f /\ want'.n = want.n + 1
      /\ list' = Blank(list.n) /\ turning' = FALSE
      /\ asks' = Withdrawn \cup {PageRequest(want')}
      /\ UNCHANGED <<rowsOf, filing, acting, owed>>
  BY DEF Turns
<1>3. want' \in [filter : Filter, page : Nat \ {0}, n : 1..MaxAsked]
  BY <1>1, <1>2
<1>4. /\ PageRequest(want') \in Request /\ PageRequest(want').live
      /\ PageRequest(want').at = "asked"
      /\ PageRequest(want').n = want'.n /\ PageRequest(want').filter = want'.filter
  BY <1>1, <1>2 DEF PageRequest
<1>5. \A a \in Withdrawn : a \in Request /\ ~a.live
  BY <1>1 DEF Withdrawn
<1>6. list'.kind = "loading" /\ list'.n = list.n /\ list'.items = {} /\ list'.counted = {}
  BY <1>2 DEF Blank
<1>7. list'.n \in 0..want'.n /\ asks' \subseteq Request
  BY <1>1, <1>2, <1>4, <1>5, <1>6
<1>8. ListTypeOK'
  BY <1>2, <1>3, <1>6, <1>7 DEF ListIndInv, ListTypeOK
<1>9. InStep'
  BY <1>2, <1>4, <1>5, <1>6 DEF InStep
<1>10. QED
  BY <1>2, <1>8, <1>9 DEF ListIndInv

\* A reload leaves what is asked for ahead of everything.
LEMMA ReloadStep ==
    ASSUME MaxAsked \in Nat \ {0}, ListIndInv, NEW k \in Nat \ {0}, Reloads(k), Present' = Present,
           filing' \in [at : {"idle", "sent", "ok", "failed"}, row : Listed \cup {0}],
           acting' \in [at : {"idle", "sent", "ok", "stale", "failed"}, row : Listed \cup {0}],
           rowsOf' = rowsOf, owed' \subseteq Present,
           filing'.at = "ok" => filing' = filing
    PROVE  ListIndInv'
<1>1. /\ want.n \in Nat /\ want.n + 1 \in 1..MaxAsked /\ list.n \in 0..want.n
      /\ \A a \in asks : a.n \in 1..want.n
      /\ want \in [filter : Filter, page : Nat \ {0}, n : 1..MaxAsked]
  <2>1. want.n \in 1..MaxAsked /\ want.n < MaxAsked /\ MaxAsked \in Nat /\ list.n \in 0..want.n
    BY DEF ListIndInv, ListTypeOK, Reloads
  <2>2. want.n \in Nat /\ want.n + 1 \in 1..MaxAsked
    BY <2>1
  <2>3. QED
    BY <2>1, <2>2 DEF ListIndInv, ListTypeOK
<1>2. /\ want' = [want EXCEPT !.page = k, !.n = @ + 1]
      /\ list' = Blank(list.n) /\ turning' = TRUE /\ asks' = asks
  BY DEF Reloads
<1>3. want' \in [filter : Filter, page : Nat \ {0}, n : 1..MaxAsked] /\ want'.n = want.n + 1
  BY <1>1, <1>2
<1>4. list'.kind = "loading" /\ list'.n = list.n /\ list'.items = {} /\ list'.counted = {}
  BY <1>2 DEF Blank
<1>5. Behind' /\ list'.n \in 0..want'.n /\ 1..want.n \subseteq 1..want'.n
  BY <1>1, <1>2, <1>3, <1>4 DEF Behind
<1>6. asks' \subseteq [n : 1..want'.n, filter : Filter, page : Nat \ {0}, live : BOOLEAN,
                      at : {"asked", "read", "answered"},
                      items : SUBSET Listed, counted : SUBSET Listed]
  BY <1>2, <1>5 DEF ListIndInv, ListTypeOK
<1>7. owed' \subseteq Listed
  BY DEF Present
<1>8. ListTypeOK'
  BY <1>2, <1>3, <1>4, <1>5, <1>6, <1>7 DEF ListIndInv, ListTypeOK
<1>9. QED
  BY <1>2, <1>5, <1>8 DEF ListIndInv

\* A request that goes on keeps its number, its filter and its standing, and one
\* that has counted has counted every row there was.
LEMMA AnswerStep ==
    ASSUME ListIndInv, NEW a \in asks, ReadsPage(a) \/ CountsRows(a), Present' = Present
    PROVE  ListIndInv'
<1> DEFINE Request == [n : 1..want.n, filter : Filter, page : Nat \ {0}, live : BOOLEAN,
                       at : {"asked", "read", "answered"},
                       items : SUBSET Listed, counted : SUBSET Listed]
<1>1. a \in Request /\ asks \subseteq Request
  BY DEF ListIndInv, ListTypeOK
<1>2. PICK b \in Request :
        /\ asks' = (asks \ {a}) \cup {b}
        /\ b.n = a.n /\ b.filter = a.filter /\ b.live = a.live
        /\ b.at = "answered" /\ b.filter = "all" => Present \subseteq b.counted
  <2>1. CASE ReadsPage(a)
    <3>1. Window(a.filter, a.page) \subseteq Listed
      BY DEF Window, Matching, Present
    <3>2. [a EXCEPT !.at = "read", !.items = Window(a.filter, a.page)] \in Request
      BY <1>1, <3>1
    <3>3. QED
      BY <1>1, <2>1, <3>2 DEF ReadsPage, Advances
  <2>2. CASE CountsRows(a)
    <3>1. Matching(a.filter) \subseteq Listed /\ (a.filter = "all" => Matching(a.filter) = Present)
      BY DEF Matching, Present
    <3>2. [a EXCEPT !.at = "answered", !.counted = Matching(a.filter)] \in Request
      BY <1>1, <3>1
    <3>3. QED
      BY <1>1, <2>2, <3>1, <3>2 DEF CountsRows, Advances
  <2>3. QED
    BY <2>1, <2>2
<1>3. UNCHANGED <<rowsOf, list, want, turning, filing, acting, owed>>
  BY DEF ReadsPage, CountsRows
<1>4. asks' \subseteq Request
  BY <1>1, <1>2
<1>5. ListTypeOK'
  BY <1>3, <1>4 DEF ListIndInv, ListTypeOK
<1>6. CASE turning
  BY <1>2, <1>3, <1>5, <1>6 DEF ListIndInv, Behind
<1>7. CASE ~turning
  <2>1. InStep /\ owed \subseteq Present
    BY <1>7 DEF ListIndInv
  <2>2. ASSUME NEW c \in asks', c.live
        PROVE  /\ c.n = want.n /\ c.filter = want.filter
               /\ c.at = "answered" /\ want.filter = "all" => owed \subseteq c.counted
    BY <1>2, <2>1, <2>2 DEF InStep
  <2>3. (\E c \in asks : c.live) => \E c \in asks' : c.live
    BY <1>2
  <2>4. InStep'
    BY <1>3, <2>1, <2>2, <2>3 DEF InStep
  <2>5. QED
    BY <1>3, <1>5, <1>7, <2>4 DEF ListIndInv
<1>8. QED
  BY <1>6, <1>7

\* An answer is taken from the request in force alone.
LEMMA ArriveStep ==
    ASSUME ListIndInv, NEW a \in asks, Arrives(a) \/ ReadFails(a), Present' = Present
    PROVE  ListIndInv'
<1>1. /\ a \in [n : 1..want.n, filter : Filter, page : Nat \ {0}, live : BOOLEAN,
               at : {"asked", "read", "answered"},
               items : SUBSET Listed, counted : SUBSET Listed]
      /\ want.n \in Nat
  BY DEF ListIndInv, ListTypeOK
<1>2. asks' = asks \ {a} /\ UNCHANGED <<rowsOf, want, turning, filing, acting, owed>>
  BY DEF Arrives, ReadFails
<1>3. CASE ~a.live
  <2>1. list' = list
    BY <1>3 DEF Arrives, ReadFails, InForce
  <2>2. ListTypeOK'
    BY <1>2, <2>1 DEF ListIndInv, ListTypeOK
  <2>3. CASE turning
    BY <1>2, <2>1, <2>2, <2>3 DEF ListIndInv, Behind
  <2>4. CASE ~turning
    <3>1. (\E c \in asks : c.live) => \E c \in asks' : c.live
      BY <1>2, <1>3
    <3>2. InStep'
      BY <1>2, <2>1, <2>4, <3>1 DEF ListIndInv, InStep
    <3>3. QED
      BY <1>2, <2>2, <2>4, <3>2 DEF ListIndInv
  <2>5. QED
    BY <2>3, <2>4
<1>4. CASE a.live
  <2>1. /\ list'.kind \in {"ready", "error"} /\ list'.n = a.n
        /\ list'.items \subseteq Listed /\ list'.counted \subseteq Listed
        /\ list'.kind = "ready" => list'.counted = a.counted /\ a.at = "answered"
    <3>1. CASE Arrives(a)
      <4>1. list' = [kind |-> "ready", items |-> a.items, total |-> Cardinality(a.counted),
                     counted |-> a.counted, n |-> a.n]
        BY <1>4, <3>1 DEF Arrives, InForce
      <4>2. QED
        BY <1>1, <3>1, <4>1 DEF Arrives
    <3>2. CASE ReadFails(a)
      <4>1. list' = [Blank(a.n) EXCEPT !.kind = "error"]
        BY <1>4, <3>2 DEF ReadFails, InForce
      <4>2. QED
        BY <4>1 DEF Blank
    <3>3. QED
      BY <3>1, <3>2
  <2>2. ListTypeOK'
    BY <1>1, <1>2, <2>1 DEF ListIndInv, ListTypeOK
  <2>3. CASE turning
    BY <1>2, <2>1, <2>2, <2>3 DEF ListIndInv, Behind
  <2>4. CASE ~turning
    <3>1. InStep'
      BY <1>2, <1>4, <2>1, <2>4 DEF ListIndInv, InStep
    <3>2. QED
      BY <1>2, <2>2, <2>4, <3>1 DEF ListIndInv
  <2>5. QED
    BY <2>3, <2>4
<1>5. QED
  BY <1>1, <1>3, <1>4

\* The effect runs: what was asked is withdrawn, what is wanted is asked for.
LEMMA RenderStep == ASSUME ListIndInv, Renders, Present' = Present PROVE ListIndInv'
<1> DEFINE Request == [n : 1..want.n, filter : Filter, page : Nat \ {0}, live : BOOLEAN,
                       at : {"asked", "read", "answered"},
                       items : SUBSET Listed, counted : SUBSET Listed]
<1>1. /\ want \in [filter : Filter, page : Nat \ {0}, n : 1..MaxAsked] /\ want.n \in 1..want.n
      /\ asks \subseteq Request /\ list.n < want.n /\ list.n \in Nat
  BY DEF ListIndInv, ListTypeOK, Renders, Behind
<1>2. /\ asks' = Withdrawn \cup {PageRequest(want)} /\ turning' = FALSE
      /\ UNCHANGED <<rowsOf, list, want, filing, acting, owed>>
  BY DEF Renders
<1>3. /\ PageRequest(want) \in Request /\ PageRequest(want).live
      /\ PageRequest(want).at = "asked"
      /\ PageRequest(want).n = want.n /\ PageRequest(want).filter = want.filter
  BY <1>1 DEF PageRequest
<1>4. \A a \in Withdrawn : a \in Request /\ ~a.live
  BY <1>1 DEF Withdrawn
<1>5. ListTypeOK'
  BY <1>2, <1>3, <1>4 DEF ListIndInv, ListTypeOK
<1>6. InStep'
  BY <1>1, <1>2, <1>3, <1>4 DEF InStep
<1>7. QED
  BY <1>2, <1>5, <1>6 DEF ListIndInv

\* Steps that leave the list and its requests alone.
LEMMA AsideStep ==
    ASSUME ListIndInv, UNCHANGED <<list, want, turning, asks, owed>>,
           Present \subseteq Present',
           rowsOf' \in [Listed -> {"absent", "open", "done"}],
           filing' \in [at : {"idle", "sent", "ok", "failed"}, row : Listed \cup {0}],
           acting' \in [at : {"idle", "sent", "ok", "stale", "failed"}, row : Listed \cup {0}],
           filing'.at = "ok" => filing' = filing \/ filing'.row \in Present'
    PROVE  ListIndInv'
<1>1. ListTypeOK'
  BY DEF ListIndInv, ListTypeOK
<1>2. (turning => Behind') /\ (~turning => InStep')
  BY DEF ListIndInv, Behind, InStep
<1>3. QED
  BY <1>1, <1>2 DEF ListIndInv

LEMMA ListStep ==
    ASSUME MaxAsked \in Nat \ {0}, ListIndInv, [ListNext]_listVars
    PROVE  ListIndInv'
<1> USE DEF NotFiling
<1>0. /\ Present \subseteq Present' /\ Present \subseteq Listed
      /\ rowsOf \in [Listed -> {"absent", "open", "done"}]
      /\ filing \in [at : {"idle", "sent", "ok", "failed"}, row : Listed \cup {0}]
      /\ acting \in [at : {"idle", "sent", "ok", "stale", "failed"}, row : Listed \cup {0}]
      /\ want \in [filter : Filter, page : Nat \ {0}, n : 1..MaxAsked]
  BY RowsStay DEF ListIndInv, ListTypeOK
<1>1. ASSUME NEW r \in Listed, OthersWork(r) PROVE ListIndInv'
  <2>1. rowsOf' \in [Listed -> {"absent", "open", "done"}]
    BY <1>0, <1>1 DEF OthersWork
  <2>2. QED
    BY <1>0, <1>1, <2>1, AsideStep DEF OthersWork
<1>2. ASSUME NEW r \in Listed, Files(r) PROVE ListIndInv'
  <2>1. rowsOf' \in [Listed -> {"absent", "open", "done"}] /\ r \in Present'
    BY <1>0, <1>2 DEF Files, Present
  <2>2. filing' = [at |-> "ok", row |-> r]
    BY <1>2 DEF Files
  <2>3. QED
    BY <1>0, <1>2, <2>1, <2>2, AsideStep DEF Files
<1>3. ASSUME NEW r \in Listed, SendAction(r) PROVE ListIndInv'
  BY <1>0, <1>3, AsideStep DEF SendAction
<1>4. CASE Finishes
  <2>1. rowsOf' \in [Listed -> {"absent", "open", "done"}]
    BY <1>0, <1>4 DEF Finishes
  <2>2. acting' \in [at : {"idle", "sent", "ok", "stale", "failed"}, row : Listed \cup {0}]
    BY <1>0, <1>4 DEF Finishes
  <2>3. QED
    BY <1>0, <1>4, <2>1, <2>2, AsideStep DEF Finishes
<1>5. CASE RequestLost
  <2>1. /\ filing' \in [at : {"idle", "sent", "ok", "failed"}, row : Listed \cup {0}]
        /\ acting' \in [at : {"idle", "sent", "ok", "stale", "failed"}, row : Listed \cup {0}]
        /\ filing'.at = "ok" => filing' = filing
    BY <1>0, <1>5 DEF RequestLost
  <2>2. QED
    BY <1>0, <1>5, <2>1, AsideStep DEF RequestLost
<1>6. CASE SendFiling \/ FilingFailed \/ ActionFailed
  <2>1. /\ filing' \in [at : {"idle", "sent", "ok", "failed"}, row : Listed \cup {0}]
        /\ acting' \in [at : {"idle", "sent", "ok", "stale", "failed"}, row : Listed \cup {0}]
        /\ filing'.at = "ok" => filing' = filing
    BY <1>0, <1>6 DEF SendFiling, FilingFailed, ActionFailed
  <2>2. QED
    BY <1>0, <1>6, <2>1, AsideStep DEF SendFiling, FilingFailed, ActionFailed
<1>7. ASSUME NEW a \in asks, ReadsPage(a) \/ CountsRows(a) PROVE ListIndInv'
  BY <1>7, AnswerStep DEF ReadsPage, CountsRows, Present
<1>8. ASSUME NEW a \in asks, Arrives(a) \/ ReadFails(a) PROVE ListIndInv'
  BY <1>8, ArriveStep DEF Arrives, ReadFails, Present
<1>9. CASE Renders
  BY <1>9, RenderStep DEF Renders, Present
<1>10. ASSUME NEW f \in Filter, NEW k \in Nat \ {0}, Turns(f, k) PROVE ListIndInv'
  BY <1>10, TurnStep DEF Turns, Present
<1>11. CASE Submit \/ Retry \/ Previous \/ NextPage
  <2>1. /\ want.filter \in Filter /\ want.page \in Nat \ {0} /\ 1 \in Nat \ {0}
        /\ want.page > 1 => want.page - 1 \in Nat \ {0}
        /\ want.page + 1 \in Nat \ {0}
    BY <1>0
  <2>2. QED
    BY <1>10, <1>11, <2>1 DEF Submit, Retry, Previous, NextPage
<1>12. CASE Created
  <2>1. /\ filing' = NotFiling /\ owed' = owed \cup {filing.row} /\ filing.at = "ok"
        /\ Reloads(1) /\ UNCHANGED <<rowsOf, acting>>
    BY <1>12 DEF Created
  <2>2. owed' \subseteq Present
    BY <2>1 DEF ListIndInv
  <2>3. Present' = Present
    BY <2>1 DEF Present
  <2>4. QED
    BY <1>0, <2>1, <2>2, <2>3, ReloadStep
<1>13. CASE Changed
  <2>1. /\ acting' = NotFiling /\ Reloads(want.page) /\ UNCHANGED <<rowsOf, filing, owed>>
    BY <1>13 DEF Changed
  <2>2. owed' \subseteq Present /\ Present' = Present /\ want.page \in Nat \ {0}
    BY <1>0, <2>1 DEF ListIndInv, Present
  <2>3. QED
    BY <1>0, <2>1, <2>2, ReloadStep
<1>14. CASE UNCHANGED listVars
  BY <1>0, <1>14, AsideStep DEF listVars
<1>15. QED
  BY <1>1, <1>2, <1>3, <1>4, <1>5, <1>6, <1>7, <1>8, <1>9, <1>11, <1>12, <1>13, <1>14 DEF ListNext

\* The lists of the office and of the phone (the effect that reads, of trips-index
\* and its like): a list at rest is the answer to what is asked for, and what the
\* screen has said was filed is among the rows it counts.
THEOREM ListSettles ==
    ASSUME MaxAsked \in Nat \ {0} PROVE ListSpec => []ListInv
<1>1. ListInit => ListIndInv
  BY ListStart
<1>2. ListIndInv /\ [ListNext]_listVars => ListIndInv'
  BY ListStep
<1>3. ListIndInv => ListInv
  <2>1. ASSUME ListIndInv, Settled PROVE InStep /\ list.kind # "loading" /\ list.n = want.n
    BY <2>1 DEF ListIndInv, InStep, Settled
  <2>2. QED
    BY <2>1 DEF ListIndInv, InStep, ListInv, SettledIsCurrent, FiledIsCounted
<1>4. QED
  BY <1>1, <1>2, <1>3, PTL DEF ListSpec
-----------------------------------------------------------------------------
(* The API, as the two screens of an expense see it. *)

\* It only ever moves on: a receipt is not withdrawn, a confirmation and a decision
\* are not undone.
Onwards(e) ==
    /\ receipt[e] # None => receipt'[e] # None
    /\ receipt[e] # None /\ receipt[e].confirmed => receipt'[e].confirmed
    /\ expense[e] # "SUBMITTED" => expense'[e] = expense[e]

\* What an operation that was allowed has done.
LEMMA Outcomes ==
    ASSUME None \notin Receipt, TypeOK, NEW e \in Expense
    PROVE  /\ \A d \in Declaration : Declare(e, d) => receipt'[e] \in Receipt
           /\ Confirm(e) => receipt'[e] \in Receipt /\ receipt'[e].confirmed
           /\ \A decision : Review(e, decision) => expense'[e] = decision
<1>1. ASSUME NEW d \in Declaration, Declare(e, d) PROVE receipt'[e] \in Receipt
  <2>1. receipt'[e] = [declared |-> d, confirmed |-> FALSE]
    BY <1>1 DEF TypeOK, Declare
  <2>2. QED
    BY <2>1 DEF Receipt
<1>2. ASSUME Confirm(e) PROVE receipt'[e] \in Receipt /\ receipt'[e].confirmed
  <2>1. receipt[e] \in Receipt
    BY <1>2 DEF Confirm, Pending, TypeOK
  <2>2. receipt'[e] = [receipt[e] EXCEPT !.confirmed = TRUE]
    BY <1>2 DEF Confirm, TypeOK
  <2>3. QED
    BY <2>1, <2>2 DEF Receipt
<1>3. ASSUME NEW decision, Review(e, decision) PROVE expense'[e] = decision
  BY <1>3 DEF Review, TypeOK
<1>4. QED
  BY <1>1, <1>2, <1>3

LEMMA ApiMovesOn ==
    ASSUME None \notin Receipt, TypeOK, [Next]_vars, NEW e \in Expense
    PROVE  TypeOK' /\ Onwards(e)
<1>1. CASE UNCHANGED vars
  BY <1>1 DEF vars, TypeOK, Onwards
<1>2. ASSUME NEW f \in Expense, NEW d \in Declaration, Declare(f, d)
      PROVE  TypeOK' /\ Onwards(e)
  <2>1. [declared |-> d, confirmed |-> FALSE] \in Receipt
    BY DEF Receipt
  <2>2. TypeOK'
    BY <1>2, <2>1 DEF TypeOK, Declare
  <2>3. expense' = expense
    BY <1>2 DEF Declare
  <2>4. CASE e = f
    BY <1>2, <2>1, <2>2, <2>3, <2>4 DEF TypeOK, Declare, Pending, Onwards
  <2>5. CASE e # f
    BY <1>2, <2>2, <2>3, <2>5 DEF TypeOK, Declare, Onwards
  <2>6. QED
    BY <2>4, <2>5
<1>3. ASSUME NEW f \in Expense, Confirm(f) PROVE TypeOK' /\ Onwards(e)
  <2>1. receipt[f] \in Receipt
    BY <1>3 DEF Confirm, Pending, TypeOK
  <2>2. [receipt[f] EXCEPT !.confirmed = TRUE] \in Receipt
    BY <2>1 DEF Receipt
  <2>3. receipt' = [receipt EXCEPT ![f] = [receipt[f] EXCEPT !.confirmed = TRUE]]
        /\ expense' = expense
    BY <1>3 DEF Confirm
  <2>4. TypeOK'
    BY <1>3, <2>2, <2>3 DEF TypeOK, Confirm
  <2>5. CASE e = f
    BY <1>3, <2>3, <2>4, <2>5, Outcomes DEF Onwards
  <2>6. CASE e # f
    BY <2>3, <2>4, <2>6 DEF TypeOK, Onwards
  <2>7. QED
    BY <2>5, <2>6
<1>4. ASSUME NEW f \in Expense, NEW d \in {"APPROVED", "REJECTED"}, Review(f, d)
      PROVE  TypeOK' /\ Onwards(e)
  BY <1>4 DEF TypeOK, Review, Onwards
<1>5. ASSUME NEW f \in Expense, NEW d \in Declaration, Hold(f, d) PROVE TypeOK' /\ Onwards(e)
  BY <1>5 DEF TypeOK, Hold, Onwards
<1>6. QED
  BY <1>1, <1>2, <1>3, <1>4, <1>5 DEF Next
-----------------------------------------------------------------------------
(* The driver's screen of an expense. *)

\* What is taken for granted of the constants: the screen is of some expense,
\* and what stands for nobody and nothing is neither a screen nor a receipt.
ViewConstants ==
    /\ Opened \in Expense /\ MaxPresses \in Nat
    /\ None \notin Screen /\ None \notin Receipt

ReadsTypeOK ==
    /\ reading \in [Read -> {"idle", "sent", "error", "missing"} \cup Stage \cup Status]
    /\ \A r \in {"receipt", "again"} : reading[r] \in {"idle", "sent", "error"} \cup Stage
    /\ \A r \in {"expense", "quiet"} : reading[r] \in {"idle", "sent", "error", "missing"} \cup Status
    /\ reached \in Stage /\ viewing \subseteq 0..MaxPresses
    /\ viewer \in [kind : {"closed", "loading", "open", "error"}, press : 0..MaxPresses]

\* Stage x says no more of the receipt than the API does.
Granted(stage) ==
    /\ stage = "confirmed" => Actual = "confirmed"
    /\ stage = "pending" => Actual # "none"
Final(status) == status \in {"APPROVED", "REJECTED"} => status = expense[Opened]

\* A stage that was read after the attempts of this screen reached theirs.
Current(stage) ==
    /\ reached # "none" /\ stage = "none" => expense[Opened] # "SUBMITTED"
    /\ reached = "confirmed" => stage \notin {"none", "pending"}

\* Nothing on the screen, or on its way to it, is ahead of the API ...
AheadOfNothing ==
    /\ Granted(screen.receipt) /\ Final(screen.expense) /\ Granted(reached)
    /\ \A r \in {"receipt", "again"} : Granted(reading[r])
    /\ \A r \in {"expense", "quiet"} : Final(reading[r])
    /\ \A s \in Screen :
          task[s].at = "confirm" /\ task[s].reply = "ok" => Actual = "confirmed"

\* ... an attempt is begun only on a screen that has been read, so that no read of
\* before can come in and hide what the attempt does, and is asking the API
\* exactly when it has an answer or waits for one ...
Exclusive ==
    /\ \A r \in {"receipt", "expense"} : reading[r] # "idle" => screen[r] = "loading"
    /\ task["here"].at # "idle" =>
          mounted /\ screen.receipt # "loading" /\ screen.expense \notin {"loading", "error"}
    /\ reading["again"] # "idle" => task["here"].at = "rereading"
    /\ \A s \in Screen :
          /\ task[s].reply # "none" => task[s].at \in {"intent", "upload", "confirm"}
          /\ task[s].at \in {"intent", "upload"} => task[s].file \in Declaration

\* ... and whenever no attempt is at the API, the screen knows what was reached.
UpToDate ==
    /\ \A r \in {"receipt", "again"} : Current(reading[r])
    /\ task["here"].at \in {"idle", "picking", "refreshing"} => Current(screen.receipt)

ViewIndInv ==
    /\ ViewTypeOK /\ ReadsTypeOK
    /\ AheadOfNothing /\ Exclusive /\ UpToDate
    /\ OnePromise /\ ViewedAsAsked

\* The API only ever moves on: no receipt goes back a stage, no decision is undone.
MovesOn ==
    /\ Actual = "confirmed" => Actual' = "confirmed"
    /\ Actual # "none" => Actual' # "none"
    /\ expense[Opened] # "SUBMITTED" => expense'[Opened] = expense[Opened]

LEMMA ApiStep ==
    ASSUME ViewConstants, TypeOK, [Next]_vars PROVE TypeOK' /\ MovesOn
BY ApiMovesOn DEF ViewConstants, Onwards, MovesOn, Actual

\* Whatever a step of the screen does at the API is a step of the API.
LEMMA ViewIsApi ==
    ASSUME ViewConstants, ViewIndInv, [ViewNext]_<<vars, viewVars>> PROVE [Next]_vars
<1>1. ASSUME NEW s \in Screen, Declared(s) \/ Uploaded(s) PROVE Next
  <2>1. task[s].file \in Declaration /\ Opened \in Expense
    BY <1>1 DEF ViewIndInv, Exclusive, Declared, Uploaded, ViewConstants
  <2>2. QED
    BY <1>1, <2>1 DEF Declared, Uploaded, Next
<1>2. ASSUME NEW s \in Screen, Confirmed(s) PROVE [Next]_vars
  BY <1>2 DEF Confirmed, Next, ViewConstants
<1>3. CASE Elsewhere
  BY <1>3 DEF Elsewhere
<1>4. CASE \/ OpenScreen \/ LeaveScreen \/ AppDies
           \/ \E r \in Read : Answers(r)
           \/ ReadArrives \/ Reload
           \/ Attach \/ Picked \/ NotPicked \/ ConfirmPending
           \/ \E s \in Screen : Refused(s) \/ GoesOn(s) \/ Settles(s) \/ Fails(s)
           \/ Reread \/ Refreshed \/ View \/ ViewAnswered \/ ImageFails \/ CloseViewer
           \/ UNCHANGED <<vars, viewVars>>
  BY <1>4 DEF OpenScreen, LeaveScreen, AppDies, Answers, ReadArrives, Reload, Attach, Picked,
     NotPicked, ConfirmPending, Refused, GoesOn, Settles, Fails, Reread, Refreshed, View,
     ViewAnswered, ImageFails, CloseViewer
<1>5. QED
  BY <1>1, <1>2, <1>3, <1>4 DEF ViewNext

USE DEF Screen

LEMMA ViewStart == ASSUME ViewConstants, ViewInit PROVE ViewIndInv
<1>1. TypeOK /\ Actual = "none"
  BY DEF ViewInit, Init, TypeOK, Actual, ViewConstants
<1>2. 0 \in 0..MaxPresses
  BY DEF ViewConstants
<1>3. ViewTypeOK
  BY <1>1, <1>2 DEF ViewInit, ViewTypeOK, Loading, Resting
<1>4. ReadsTypeOK
  BY <1>2 DEF ViewInit, ReadsTypeOK, Quiet, Closed, Read, Stage
<1>5. AheadOfNothing /\ UpToDate
  BY <1>1 DEF ViewInit, AheadOfNothing, UpToDate, Granted, Final, Current, Quiet, Read,
     Loading, Resting
<1>6. Exclusive
  BY DEF ViewInit, Exclusive, Loading, Resting, Quiet, Read
<1>7. OnePromise /\ ViewedAsAsked
  BY DEF ViewInit, OnePromise, ViewedAsAsked, Resting, Closed, ViewConstants
<1>8. QED
  BY <1>3, <1>4, <1>5, <1>6, <1>7 DEF ViewIndInv

Task == [at : {"idle", "picking", "intent", "upload", "confirm", "rereading", "refreshing"},
         file : Declaration \cup {None},
         reply : {"none", "waiting", "ok", "failed"}]

\* The types, part by part.
LEMMA TaskTypes ==
    ASSUME ViewConstants, ViewIndInv, [ViewNext]_<<vars, viewVars>>
    PROVE  task' \in [Screen -> Task] /\ picker' \in Screen \cup {None} /\ mounted' \in BOOLEAN
<1> USE DEF Task
<1>0. task \in [Screen -> Task] /\ picker \in Screen \cup {None} /\ mounted \in BOOLEAN
  BY DEF ViewIndInv, ViewTypeOK
<1>1. Resting \in Task
  BY DEF Resting
<1>2. CASE OpenScreen \/ LeaveScreen \/ AppDies
  BY <1>0, <1>1, <1>2 DEF OpenScreen, LeaveScreen, AppDies
<1>3. CASE Attach \/ Picked \/ NotPicked \/ ConfirmPending
  BY <1>0, <1>3 DEF Attach, TakesPicker, Picked, NotPicked, ConfirmPending, Becomes
<1>4. ASSUME NEW s \in Screen,
             Declared(s) \/ Uploaded(s) \/ Confirmed(s) \/ Refused(s) \/ GoesOn(s)
             \/ Settles(s) \/ Fails(s)
      PROVE  task' \in [Screen -> Task] /\ picker' = picker /\ mounted' = mounted
  <2>1. task[s] \in Task
    BY <1>0
  <2>2. CASE Declared(s) \/ Uploaded(s) \/ Confirmed(s) \/ Refused(s) \/ GoesOn(s)
    BY <1>0, <2>1, <2>2 DEF Declared, Uploaded, Confirmed, Refused, GoesOn, Becomes, Replies
  <2>3. CASE Settles(s) \/ Fails(s)
    BY <1>0, <1>1, <2>3 DEF Settles, Fails, Becomes
  <2>4. QED
    BY <1>4, <2>2, <2>3
<1>5. CASE Reread \/ Refreshed
  BY <1>0, <1>1, <1>5 DEF Reread, Refreshed, Becomes
<1>6. CASE \/ \E r \in Read : Answers(r)
           \/ ReadArrives \/ Reload \/ View \/ ViewAnswered \/ ImageFails \/ CloseViewer
           \/ Elsewhere \/ UNCHANGED <<vars, viewVars>>
  BY <1>0, <1>6 DEF Answers, ReadArrives, Reload, View, ViewAnswered, ImageFails, CloseViewer,
     Elsewhere, viewVars
<1>7. QED
  BY <1>0, <1>2, <1>3, <1>4, <1>5, <1>6 DEF ViewNext

ScreenRecord == [expense : Status \cup {"loading", "missing", "error"},
                 receipt : Stage \cup {"loading", "error"}]

LEMMA ScreenTypes ==
    ASSUME ViewConstants, ViewIndInv, [ViewNext]_<<vars, viewVars>>
    PROVE  screen' \in ScreenRecord /\ reached' \in Stage
<1> USE DEF ScreenRecord, Stage, Status
<1>0. screen \in ScreenRecord /\ reached \in Stage
  BY DEF ViewIndInv, ViewTypeOK, ReadsTypeOK
<1>1. Loading \in ScreenRecord
  BY DEF Loading
<1>2. CASE OpenScreen \/ LeaveScreen \/ AppDies \/ Reload
  BY <1>0, <1>1, <1>2 DEF OpenScreen, LeaveScreen, AppDies, Reload
<1>3. CASE ReadArrives
  <2>1. PICK r \in {"receipt", "expense"} :
            /\ reading[r] \notin {"idle", "sent"} /\ screen' = [screen EXCEPT ![r] = reading[r]]
            /\ reached' = reached
    BY <1>3 DEF ReadArrives
  <2>2. CASE r = "receipt"
    <3>1. reading["receipt"] \in Stage \cup {"error"}
      BY <2>1, <2>2 DEF ViewIndInv, ReadsTypeOK
    <3>2. screen' = [screen EXCEPT !.receipt = reading["receipt"]]
      BY <2>1, <2>2
    <3>3. QED
      BY <1>0, <2>1, <3>1, <3>2
  <2>3. CASE r = "expense"
    <3>1. reading["expense"] \in Status \cup {"error", "missing"}
      BY <2>1, <2>3 DEF ViewIndInv, ReadsTypeOK
    <3>2. screen' = [screen EXCEPT !.expense = reading["expense"]]
      BY <2>1, <2>3
    <3>3. QED
      BY <1>0, <2>1, <3>1, <3>2
  <2>4. QED
    BY <2>1, <2>2, <2>3
<1>4. CASE Reread
  <2>1. reading["again"] \in Stage \cup {"error"}
    BY <1>4 DEF Reread, ViewIndInv, ReadsTypeOK
  <2>2. QED
    BY <1>0, <1>4, <2>1 DEF Reread
<1>5. CASE Refreshed
  BY <1>0, <1>5 DEF Refreshed
<1>6. ASSUME NEW s \in Screen,
             Declared(s) \/ Uploaded(s) \/ Confirmed(s) \/ Refused(s) \/ GoesOn(s)
             \/ Settles(s) \/ Fails(s)
      PROVE  screen' \in ScreenRecord /\ reached' \in Stage
  BY <1>0, <1>6 DEF Declared, Uploaded, Confirmed, Refused, GoesOn, Settles, Fails, Reaches
<1>7. CASE \/ \E r \in Read : Answers(r)
           \/ Attach \/ Picked \/ NotPicked \/ ConfirmPending
           \/ View \/ ViewAnswered \/ ImageFails \/ CloseViewer
           \/ Elsewhere \/ UNCHANGED <<vars, viewVars>>
  BY <1>0, <1>7 DEF Answers, Attach, Picked, NotPicked, ConfirmPending, View, ViewAnswered,
     ImageFails, CloseViewer, Elsewhere, viewVars
<1>8. QED
  BY <1>2, <1>3, <1>4, <1>5, <1>6, <1>7 DEF ViewNext

\* What a request for the expense or the receipt may have come to.
ReadingTypes ==
    /\ reading \in [Read -> {"idle", "sent", "error", "missing"} \cup Stage \cup Status]
    /\ \A r \in {"receipt", "again"} : reading[r] \in {"idle", "sent", "error"} \cup Stage
    /\ \A r \in {"expense", "quiet"} : reading[r] \in {"idle", "sent", "error", "missing"} \cup Status

LEMMA ReadingStep ==
    ASSUME ViewConstants, ViewIndInv, [ViewNext]_<<vars, viewVars>> PROVE ReadingTypes'
<1> USE DEF ReadingTypes, Read
<1>0. ReadingTypes
  BY DEF ViewIndInv, ReadsTypeOK
<1>1. ASSUME NEW r \in Read, Answers(r) PROVE ReadingTypes'
  <2>1. Told \in Stage /\ expense[Opened] \in Status
    BY DEF Told, Actual, Stage, Status, ViewIndInv, ViewTypeOK, TypeOK, ViewConstants
  <2>2. PICK answer \in {"error", "missing"} \cup Stage \cup Status :
            /\ reading' = [reading EXCEPT ![r] = answer]
            /\ r \in {"receipt", "again"} => answer \in {"error"} \cup Stage
            /\ r \in {"expense", "quiet"} => answer \in {"error", "missing"} \cup Status
    BY <1>1, <2>1 DEF Answers
  <2>3. QED
    BY <1>0, <2>2
<1>2. CASE OpenScreen \/ LeaveScreen \/ AppDies \/ Reload
  BY <1>0, <1>2 DEF OpenScreen, LeaveScreen, AppDies, Reload, Quiet
<1>3. CASE ReadArrives \/ Reread \/ Refreshed
  BY <1>0, <1>3 DEF ReadArrives, Reread, Refreshed
<1>4. ASSUME NEW s \in Screen,
             Declared(s) \/ Uploaded(s) \/ Confirmed(s) \/ Refused(s) \/ GoesOn(s)
             \/ Settles(s) \/ Fails(s)
      PROVE  ReadingTypes'
  BY <1>0, <1>4 DEF Declared, Uploaded, Confirmed, Refused, GoesOn, Settles, Fails
<1>5. CASE \/ Attach \/ Picked \/ NotPicked \/ ConfirmPending
           \/ View \/ ViewAnswered \/ ImageFails \/ CloseViewer
           \/ Elsewhere \/ UNCHANGED <<vars, viewVars>>
  BY <1>0, <1>5 DEF Attach, Picked, NotPicked, ConfirmPending, View, ViewAnswered,
     ImageFails, CloseViewer, Elsewhere, viewVars
<1>6. QED
  BY <1>1, <1>2, <1>3, <1>4, <1>5 DEF ViewNext

\* The viewer answers to the last press.
LEMMA ViewerStep ==
    ASSUME ViewConstants, ViewIndInv, [ViewNext]_<<vars, viewVars>>
    PROVE  /\ presses' \in 0..MaxPresses /\ viewing' \subseteq 0..MaxPresses
           /\ viewer' \in [kind : {"closed", "loading", "open", "error"}, press : 0..MaxPresses]
           /\ ViewedAsAsked'
<1>0. /\ presses \in 0..MaxPresses /\ viewing \subseteq 0..MaxPresses /\ MaxPresses \in Nat
      /\ viewer \in [kind : {"closed", "loading", "open", "error"}, press : 0..MaxPresses]
      /\ ViewedAsAsked
  BY DEF ViewIndInv, ViewTypeOK, ReadsTypeOK, ViewConstants
<1>1. Closed \in [kind : {"closed", "loading", "open", "error"}, press : 0..MaxPresses]
      /\ Closed.kind = "closed"
  BY <1>0 DEF Closed
<1>2. CASE UNCHANGED <<mounted, viewer, presses, viewing>>
  BY <1>0, <1>2 DEF ViewedAsAsked
<1>3. CASE LeaveScreen \/ AppDies
  BY <1>0, <1>1, <1>3 DEF LeaveScreen, AppDies, ViewedAsAsked
<1>4. CASE OpenScreen
  BY <1>0, <1>4 DEF OpenScreen, ViewedAsAsked
<1>5. CASE View
  <2>1. presses' = presses + 1 /\ presses' \in 0..MaxPresses
    BY <1>0, <1>5 DEF View
  <2>2. QED
    BY <1>0, <1>5, <2>1 DEF View, ViewedAsAsked
<1>6. CASE ViewAnswered
  BY <1>0, <1>6 DEF ViewAnswered, Adopted, ViewedAsAsked
<1>7. CASE ImageFails
  BY <1>0, <1>7 DEF ImageFails, ViewedAsAsked
<1>8. CASE CloseViewer
  BY <1>0, <1>1, <1>8 DEF CloseViewer, ViewedAsAsked
<1>9. CASE \/ \E r \in Read : Answers(r)
           \/ ReadArrives \/ Reload \/ Attach \/ Picked \/ NotPicked \/ ConfirmPending
           \/ \E s \in Screen :
                 Declared(s) \/ Uploaded(s) \/ Confirmed(s) \/ Refused(s) \/ GoesOn(s)
                 \/ Settles(s) \/ Fails(s)
           \/ Reread \/ Refreshed \/ Elsewhere \/ UNCHANGED <<vars, viewVars>>
  BY <1>2, <1>9 DEF Answers, ReadArrives, Reload, Attach, Picked, NotPicked, ConfirmPending,
     Declared, Uploaded, Confirmed, Refused, GoesOn, Settles, Fails, Reread, Refreshed,
     Elsewhere, viewVars
<1>10. QED
  BY <1>3, <1>4, <1>5, <1>6, <1>7, <1>8, <1>9 DEF ViewNext

\* Nothing is said ahead of the API.
LEMMA AheadStep ==
    ASSUME ViewConstants, ViewIndInv, [ViewNext]_<<vars, viewVars>> PROVE AheadOfNothing'
<1> DEFINE Says(x) == /\ x = "confirmed" => Actual' = "confirmed"
                      /\ x = "pending" => Actual' # "none"
           Judges(x) == x \in {"APPROVED", "REJECTED"} => x = expense'[Opened]
<1>0. /\ AheadOfNothing /\ ReadingTypes /\ MovesOn /\ TypeOK
      /\ task \in [Screen -> Task] /\ task' \in [Screen -> Task]
      /\ screen \in ScreenRecord /\ reached \in Stage
  BY ViewIsApi, ApiStep, TaskTypes
     DEF ViewIndInv, ViewTypeOK, ReadsTypeOK, ReadingTypes, Task, ScreenRecord
<1>1. \A x : (Granted(x) => Says(x)) /\ (Final(x) => Judges(x))
  BY <1>0 DEF Granted, Final, MovesOn
<1>2. SUFFICES /\ Says(screen'.receipt) /\ Judges(screen'.expense) /\ Says(reached')
               /\ \A r \in {"receipt", "again"} : Says(reading'[r])
               /\ \A r \in {"expense", "quiet"} : Judges(reading'[r])
               /\ \A s \in Screen :
                     task'[s].at = "confirm" /\ task'[s].reply = "ok" => Actual' = "confirmed"
  BY DEF AheadOfNothing, Granted, Final
<1>3. /\ Says(screen.receipt) /\ Judges(screen.expense) /\ Says(reached)
      /\ \A r \in {"receipt", "again"} : Says(reading[r])
      /\ \A r \in {"expense", "quiet"} : Judges(reading[r])
      /\ \A s \in Screen :
            task[s].at = "confirm" /\ task[s].reply = "ok" => Actual' = "confirmed"
  BY <1>0, <1>1 DEF AheadOfNothing, MovesOn
<1> HIDE DEF Says, Judges
<1>4. /\ Says("none") /\ Says("loading") /\ Says("idle") /\ Says("sent") /\ Says("error")
      /\ Judges("loading") /\ Judges("idle") /\ Judges("sent") /\ Judges("error")
      /\ Judges("missing") /\ Judges("SUBMITTED")
      /\ Actual' = "confirmed" => Says("confirmed")
  BY DEF Says, Judges
<1>5. CASE OpenScreen \/ LeaveScreen \/ AppDies \/ Reload
  BY <1>0, <1>3, <1>4, <1>5
     DEF OpenScreen, LeaveScreen, AppDies, Reload, Loading, Quiet, Read, Resting, Outlives,
         ReadingTypes
<1>6. ASSUME NEW r \in Read, Answers(r)
      PROVE  /\ \A q \in {"receipt", "again"} : Says(reading'[q])
             /\ \A q \in {"expense", "quiet"} : Judges(reading'[q])
             /\ UNCHANGED <<screen, reached, task>>
  <2>1. Says(Told) /\ Judges(expense[Opened]) /\ UNCHANGED <<screen, reached, task>>
    BY <1>6, <1>0 DEF Answers, vars, Told, Actual, Says, Judges
  <2>2. PICK answer :
            /\ reading' = [reading EXCEPT ![r] = answer]
            /\ r \in {"receipt", "again"} => answer \in {"error", Told}
            /\ r \in {"expense", "quiet"} => answer \in {"error", "missing", expense[Opened]}
    BY <1>6 DEF Answers
  <2>3. QED
    BY <1>0, <1>3, <1>4, <2>1, <2>2 DEF ReadingTypes, Read
<1>7. CASE ReadArrives
  <2>1. PICK r \in {"receipt", "expense"} :
            /\ screen' = [screen EXCEPT ![r] = reading[r]]
            /\ reading' = [reading EXCEPT ![r] = "idle"]
            /\ UNCHANGED <<task, reached>>
    BY <1>7 DEF ReadArrives
  <2>2. /\ \A q \in {"receipt", "again"} : Says(reading'[q])
        /\ \A q \in {"expense", "quiet"} : Judges(reading'[q])
    BY <1>0, <1>3, <1>4, <2>1 DEF ReadingTypes, Read
  <2>3. CASE r = "receipt"
    <3>1. screen' = [screen EXCEPT !.receipt = reading["receipt"]]
      BY <2>1, <2>3
    <3>2. screen'.receipt = reading["receipt"] /\ screen'.expense = screen.expense
      BY <1>0, <3>1 DEF ScreenRecord
    <3>3. QED
      BY <1>3, <2>1, <2>2, <3>2
  <2>4. CASE r = "expense"
    <3>1. screen' = [screen EXCEPT !.expense = reading["expense"]]
      BY <2>1, <2>4
    <3>2. screen'.expense = reading["expense"] /\ screen'.receipt = screen.receipt
      BY <1>0, <3>1 DEF ScreenRecord
    <3>3. QED
      BY <1>3, <2>1, <2>2, <3>2
  <2>5. QED
    BY <2>1, <2>3, <2>4
<1>8. CASE Attach \/ Picked \/ NotPicked \/ ConfirmPending
  <2>1. UNCHANGED <<screen, reached, reading>>
    BY <1>8 DEF Attach, Picked, NotPicked, ConfirmPending
  <2>2. \A s \in Screen : task'[s] = task[s] \/ task'[s].reply \in {"none", "waiting"}
    BY <1>0, <1>8 DEF Attach, Picked, NotPicked, ConfirmPending, Becomes
  <2>3. QED
    BY <1>3, <2>1, <2>2
<1>9. ASSUME NEW s \in Screen, Declared(s)
      PROVE  /\ UNCHANGED <<screen, reading>> /\ Says(reached')
             /\ \A q \in Screen : task'[q] = task[q] \/ task'[q].at = "intent"
  <2>1. /\ UNCHANGED <<screen, reading>> /\ reached' \in {"pending", reached}
        /\ \A q \in Screen : task'[q] = task[q] \/ task'[q].at = "intent"
    BY <1>0, <1>9 DEF Declared, Reaches, Replies, Becomes
  <2>2. Actual' # "none"
    <3>1. task[s].file \in Declaration
      BY <1>9 DEF Declared, ViewIndInv, Exclusive
    <3>2. receipt'[Opened] \in Receipt
      BY <1>0, <1>9, <3>1, Outcomes DEF Declared, ViewConstants
    <3>3. QED
      BY <3>2 DEF ViewConstants, Actual
  <2>3. Says("pending")
    BY <2>2 DEF Says
  <2>4. QED
    BY <1>3, <2>1, <2>3
<1>10. ASSUME NEW s \in Screen, Confirmed(s)
       PROVE  UNCHANGED <<screen, reading>> /\ Says(reached') /\ Actual' = "confirmed"
  <2>1. UNCHANGED <<screen, reading>> /\ reached' \in {"confirmed", reached}
    BY <1>10 DEF Confirmed, Reaches
  <2>2. Actual' = "confirmed"
    <3>1. CASE Confirm(Opened)
      BY <1>0, <3>1, Outcomes DEF ViewConstants, Actual
    <3>2. CASE Actual = "confirmed"
      BY <1>0, <3>2 DEF MovesOn
    <3>3. QED
      BY <1>10, <3>1, <3>2 DEF Confirmed
  <2>3. QED
    BY <1>3, <1>4, <2>1, <2>2
<1>11. ASSUME NEW s \in Screen, Uploaded(s) \/ Refused(s) \/ GoesOn(s)
       PROVE  /\ UNCHANGED <<screen, reading, reached>>
              /\ \A q \in Screen :
                    \/ task'[q] = task[q]
                    \/ task'[q].at = "upload" \/ task'[q].reply \in {"failed", "waiting"}
  BY <1>0, <1>11 DEF Uploaded, Refused, GoesOn, Replies, Becomes
<1>12. ASSUME NEW s \in Screen, Settles(s)
       PROVE  /\ UNCHANGED <<reading, reached>> /\ Says(screen'.receipt)
              /\ screen'.expense = screen.expense
              /\ \A q \in Screen : task'[q] = task[q] \/ task'[q].reply = "none"
  <2>1. Says("confirmed")
    BY <1>3, <1>4, <1>12 DEF Settles
  <2>2. QED
    BY <1>0, <1>3, <1>12, <2>1 DEF Settles, Resting, ScreenRecord
<1>13. ASSUME NEW s \in Screen, Fails(s)
       PROVE  /\ UNCHANGED <<screen, reached>>
              /\ \A q \in {"receipt", "again"} : Says(reading'[q])
              /\ \A q \in {"expense", "quiet"} : Judges(reading'[q])
              /\ \A q \in Screen : task'[q] = task[q] \/ task'[q].reply = "none"
  BY <1>0, <1>3, <1>4, <1>13 DEF Fails, Becomes, Resting, ReadingTypes, Read
<1>14. CASE Reread
  <2>1. screen'.receipt = reading["again"] /\ screen'.expense = screen.expense
    BY <1>0, <1>14 DEF Reread, ScreenRecord
  <2>2. /\ \A q \in {"receipt", "again"} : Says(reading'[q])
        /\ \A q \in {"expense", "quiet"} : Judges(reading'[q])
    BY <1>0, <1>3, <1>4, <1>14 DEF Reread, ReadingTypes, Read
  <2>3. /\ reached' = reached
        /\ \A q \in Screen : task'[q] = task[q] \/ task'[q].reply = "none"
    BY <1>0, <1>14 DEF Reread, Becomes
  <2>4. QED
    BY <1>3, <2>1, <2>2, <2>3
<1>15. CASE Refreshed
  <2>1. screen'.expense \in {reading["quiet"], screen.expense} /\ screen'.receipt = screen.receipt
    BY <1>0, <1>15 DEF Refreshed, ScreenRecord
  <2>2. /\ \A q \in {"receipt", "again"} : Says(reading'[q])
        /\ \A q \in {"expense", "quiet"} : Judges(reading'[q])
    BY <1>0, <1>3, <1>4, <1>15 DEF Refreshed, ReadingTypes, Read
  <2>3. /\ reached' = reached
        /\ \A q \in Screen : task'[q] = task[q] \/ task'[q].reply = "none"
    BY <1>0, <1>15 DEF Refreshed, Resting
  <2>4. QED
    BY <1>3, <2>1, <2>2, <2>3
<1>16. CASE View \/ ViewAnswered \/ ImageFails \/ CloseViewer
            \/ Elsewhere \/ UNCHANGED <<vars, viewVars>>
  BY <1>3, <1>16 DEF View, ViewAnswered, ImageFails, CloseViewer, Elsewhere, viewVars
<1>17. QED
  BY <1>3, <1>5, <1>6, <1>7, <1>8, <1>9, <1>10, <1>11, <1>12, <1>13, <1>14, <1>15, <1>16
     DEF ViewNext

\* An attempt waits for the picker as long as its promise is held.
LEMMA PromiseStep ==
    ASSUME ViewConstants, ViewIndInv, [ViewNext]_<<vars, viewVars>> PROVE OnePromise'
<1> USE DEF OnePromise, ViewConstants
<1>0. /\ OnePromise /\ task \in [Screen -> Task] /\ picker \in Screen \cup {None}
      /\ \A s \in Screen : task[s].reply # "none" => task[s].at \in {"intent", "upload", "confirm"}
  BY DEF ViewIndInv, ViewTypeOK, Exclusive, Task
<1>1. CASE UNCHANGED <<task, picker>>
  BY <1>0, <1>1
<1>2. CASE AppDies
  BY <1>2 DEF AppDies, Resting
<1>3. CASE LeaveScreen
  <2>1. /\ Outlives(task["here"]) => task["left"].at = "idle"
        /\ task'["here"].at = "idle"
        /\ task'["left"] = IF Outlives(task["here"]) THEN task["here"] ELSE task["left"]
        /\ picker' = IF picker = None THEN None ELSE "left"
    BY <1>3 DEF LeaveScreen, Resting
  <2>2. task["here"].at = "picking" => Outlives(task["here"])
    BY DEF Outlives
  <2>3. QED
    BY <1>0, <2>1, <2>2
<1>4. CASE Attach
  BY <1>0, <1>4 DEF Attach, TakesPicker, Becomes
<1>5. CASE Picked \/ NotPicked
  BY <1>0, <1>5 DEF Picked, NotPicked, Becomes
<1>6. CASE ConfirmPending
  BY <1>0, <1>6 DEF ConfirmPending, Becomes
<1>7. ASSUME NEW s \in Screen,
             Declared(s) \/ Uploaded(s) \/ Confirmed(s) \/ Refused(s) \/ GoesOn(s)
             \/ Settles(s) \/ Fails(s)
      PROVE  OnePromise'
  <2>1. task[s].at # "picking" /\ picker' = picker
    BY <1>0, <1>7 DEF Declared, Uploaded, Confirmed, Refused, GoesOn, Settles, Fails
  <2>2. task'[s].at # "picking" /\ \A q \in Screen : q # s => task'[q] = task[q]
    BY <1>0, <1>7, <2>1
       DEF Declared, Uploaded, Confirmed, Refused, GoesOn, Settles, Fails, Replies, Becomes, Resting
  <2>3. QED
    BY <1>0, <2>1, <2>2
<1>8. CASE Reread \/ Refreshed
  BY <1>0, <1>8 DEF Reread, Refreshed, Becomes, Resting
<1>9. CASE \/ OpenScreen \/ (\E r \in Read : Answers(r)) \/ ReadArrives \/ Reload
           \/ View \/ ViewAnswered \/ ImageFails \/ CloseViewer
           \/ Elsewhere \/ UNCHANGED <<vars, viewVars>>
  BY <1>1, <1>9 DEF OpenScreen, Answers, ReadArrives, Reload, View, ViewAnswered, ImageFails,
     CloseViewer, Elsewhere, viewVars
<1>10. QED
  BY <1>2, <1>3, <1>4, <1>5, <1>6, <1>7, <1>8, <1>9 DEF ViewNext

\* Each attempt keeps its file until it is uploaded, and asks only while it is asking.
LEMMA AttemptStep ==
    ASSUME ViewConstants, ViewIndInv, [ViewNext]_<<vars, viewVars>>, NEW s \in Screen
    PROVE  /\ task'[s].reply # "none" => task'[s].at \in {"intent", "upload", "confirm"}
           /\ task'[s].at \in {"intent", "upload"} => task'[s].file \in Declaration
<1> DEFINE Inquires(t) == /\ t.reply # "none" => t.at \in {"intent", "upload", "confirm"}
                          /\ t.at \in {"intent", "upload"} => t.file \in Declaration
<1>0. /\ task \in [Screen -> Task] /\ picker \in Screen \cup {None}
      /\ \A q \in Screen : Inquires(task[q])
  BY DEF ViewIndInv, ViewTypeOK, Exclusive, Task
<1>1. Inquires(Resting)
  BY DEF Resting
<1>2. CASE OpenScreen \/ LeaveScreen \/ AppDies
  BY <1>0, <1>1, <1>2 DEF OpenScreen, LeaveScreen, AppDies
<1>3. CASE Attach \/ Picked \/ NotPicked \/ ConfirmPending
  BY <1>0, <1>3 DEF Attach, TakesPicker, Picked, NotPicked, ConfirmPending, Becomes
<1>4. ASSUME NEW q \in Screen,
             Declared(q) \/ Uploaded(q) \/ Confirmed(q) \/ Refused(q) \/ GoesOn(q)
             \/ Settles(q) \/ Fails(q)
      PROVE  Inquires(task'[s])
  <2>1. CASE Declared(q) \/ Uploaded(q) \/ Confirmed(q) \/ Refused(q)
    <3>1. /\ task'[q].at = task[q].at /\ task'[q].file = task[q].file
          /\ task[q].reply # "none"
          /\ \A r \in Screen : r # q => task'[r] = task[r]
      BY <1>0, <2>1 DEF Declared, Uploaded, Confirmed, Refused, Replies, Becomes
    <3>2. QED
      BY <1>0, <3>1
  <2>2. CASE GoesOn(q)
    BY <1>0, <2>2 DEF GoesOn, Becomes
  <2>3. CASE Settles(q) \/ Fails(q)
    BY <1>0, <1>1, <2>3 DEF Settles, Fails, Becomes
  <2>4. QED
    BY <1>4, <2>1, <2>2, <2>3
<1>5. CASE Reread \/ Refreshed
  BY <1>0, <1>1, <1>5 DEF Reread, Refreshed, Becomes
<1>6. CASE \/ \E r \in Read : Answers(r)
           \/ ReadArrives \/ Reload \/ View \/ ViewAnswered \/ ImageFails \/ CloseViewer
           \/ Elsewhere \/ UNCHANGED <<vars, viewVars>>
  BY <1>0, <1>6 DEF Answers, ReadArrives, Reload, View, ViewAnswered, ImageFails, CloseViewer,
     Elsewhere, viewVars
<1>7. QED
  BY <1>2, <1>3, <1>4, <1>5, <1>6 DEF ViewNext

\* No read of before comes in during an attempt.
LEMMA ExclusiveStep ==
    ASSUME ViewConstants, ViewIndInv, [ViewNext]_<<vars, viewVars>> PROVE Exclusive'
<1> DEFINE Reads == \A r \in {"receipt", "expense"} : reading[r] # "idle" => screen[r] = "loading"
           Begun == task["here"].at # "idle" =>
                        /\ mounted /\ screen.receipt # "loading"
                        /\ screen.expense \notin {"loading", "error"}
           Again == reading["again"] # "idle" => task["here"].at = "rereading"
<1>0. /\ Reads /\ Begun /\ Again /\ Exclusive /\ ReadingTypes
      /\ task \in [Screen -> Task] /\ screen \in ScreenRecord /\ screen' \in ScreenRecord
      /\ screen["receipt"] = screen.receipt /\ screen["expense"] = screen.expense
  BY ScreenTypes DEF ViewIndInv, ViewTypeOK, ReadsTypeOK, ReadingTypes, Exclusive, Task, ScreenRecord
<1>1. SUFFICES Reads' /\ Begun' /\ Again'
  BY AttemptStep DEF Exclusive
<1>2. CASE UNCHANGED <<mounted, screen, reading, task>>
  BY <1>0, <1>2
<1>3. CASE OpenScreen
  <2>1. task'["here"].at = "idle" /\ screen' = Loading
        /\ reading' = [Quiet EXCEPT !["receipt"] = "sent", !["expense"] = "sent"]
    BY <1>0, <1>3 DEF OpenScreen
  <2>2. QED
    BY <2>1 DEF Loading, Quiet, Read
<1>4. CASE LeaveScreen \/ AppDies
  <2>1. task'["here"].at = "idle" /\ reading' = Quiet
    BY <1>4 DEF LeaveScreen, AppDies, Resting
  <2>2. QED
    BY <2>1 DEF Quiet, Read
<1>5. CASE Reload
  <2>1. task["here"].at = "idle" /\ task' = task /\ screen' = Loading
    BY <1>0, <1>5 DEF Reload
  <2>2. reading["again"] = "idle" /\ reading'["again"] = "idle"
    BY <1>0, <1>5, <2>1 DEF Reload, ReadingTypes, Read
  <2>3. QED
    BY <2>1, <2>2 DEF Loading
<1>6. ASSUME NEW r \in Read, Answers(r) PROVE Reads' /\ Begun' /\ Again'
  <2>1. /\ reading[r] = "sent" /\ UNCHANGED <<mounted, screen, task>>
        /\ \A q \in Read : q # r => reading'[q] = reading[q]
    BY <1>0, <1>6 DEF Answers, ReadingTypes
  <2>2. QED
    BY <1>0, <2>1 DEF Read
<1>7. CASE ReadArrives
  <2>1. PICK r \in {"receipt", "expense"} :
            /\ reading[r] \notin {"idle", "sent"}
            /\ screen' = [screen EXCEPT ![r] = reading[r]]
            /\ reading' = [reading EXCEPT ![r] = "idle"]
            /\ UNCHANGED <<mounted, task>>
    BY <1>7 DEF ReadArrives
  <2>2. /\ reading'[r] = "idle" /\ reading'["again"] = reading["again"]
        /\ \A q \in {"receipt", "expense"} :
              q # r => reading'[q] = reading[q] /\ screen'[q] = screen[q]
    BY <1>0, <2>1 DEF ReadingTypes, Read, ScreenRecord
  <2>3. task["here"].at = "idle"
    BY <1>0, <2>1
  <2>4. QED
    BY <1>0, <2>1, <2>2, <2>3
<1>8. CASE Attach \/ ConfirmPending
  <2>1. /\ mounted /\ screen.expense = "SUBMITTED" /\ screen.receipt \in {"none", "pending"}
        /\ task["here"].at = "idle" /\ UNCHANGED <<mounted, screen, reading>>
    BY <1>8 DEF Attach, ConfirmPending, Open
  <2>2. QED
    BY <1>0, <2>1
<1>9. CASE Picked \/ NotPicked
  <2>1. /\ picker \in Screen /\ task[picker].at = "picking"
        /\ UNCHANGED <<mounted, screen, reading>>
    BY <1>9 DEF Picked, NotPicked, ViewIndInv, ViewTypeOK, OnePromise
  <2>2. \/ picker = "here" /\ task["here"].at = "picking"
        \/ task'["here"] = task["here"]
    BY <1>0, <1>9, <2>1 DEF Picked, NotPicked, Becomes
  <2>3. QED
    BY <1>0, <2>1, <2>2
<1>10. ASSUME NEW s \in Screen,
             Declared(s) \/ Uploaded(s) \/ Confirmed(s) \/ Refused(s) \/ GoesOn(s)
       PROVE  Reads' /\ Begun' /\ Again'
  <2>1. /\ task[s].reply # "none" /\ UNCHANGED <<mounted, screen, reading>>
        /\ s # "here" => task'["here"] = task["here"]
    BY <1>0, <1>10 DEF Declared, Uploaded, Confirmed, Refused, GoesOn, Replies, Becomes
  <2>2. task[s].at \in {"intent", "upload", "confirm"}
    BY <2>1 DEF ViewIndInv, Exclusive
  <2>3. QED
    BY <1>0, <2>1, <2>2
<1>11. ASSUME NEW s \in Screen, Settles(s) PROVE Reads' /\ Begun' /\ Again'
  <2>1. /\ task[s].at = "confirm" /\ UNCHANGED <<mounted, reading>>
        /\ s = "here" => task'["here"].at = "idle" /\ screen'.expense = screen.expense
        /\ s # "here" => task'["here"] = task["here"] /\ screen' = screen
    BY <1>0, <1>11 DEF Settles, Resting, ScreenRecord
  <2>2. CASE s # "here"
    BY <1>0, <2>1, <2>2
  <2>3. CASE s = "here"
    <3>1. reading["receipt"] = "idle" /\ reading["expense"] = "idle" /\ reading["again"] = "idle"
      BY <1>0, <2>1, <2>3
    <3>2. QED
      BY <2>1, <2>3, <3>1
  <2>4. QED
    BY <2>2, <2>3
<1>12. ASSUME NEW s \in Screen, Fails(s) PROVE Reads' /\ Begun' /\ Again'
  <2>1. task[s].at \in {"intent", "upload", "confirm"} /\ UNCHANGED <<mounted, screen>>
    BY <1>12 DEF Fails, ViewIndInv, Exclusive
  <2>2. CASE s = "left"
    BY <1>0, <1>12, <2>1, <2>2 DEF Fails
  <2>3. CASE s = "here"
    <3>1. /\ task'["here"].at = "rereading"
          /\ reading'["receipt"] = reading["receipt"] /\ reading'["expense"] = reading["expense"]
      BY <1>0, <1>12, <2>3 DEF Fails, Becomes, ReadingTypes, Read
    <3>2. QED
      BY <1>0, <2>1, <2>3, <3>1
  <2>4. QED
    BY <2>2, <2>3
<1>13. CASE Reread
  <2>1. /\ task["here"].at = "rereading" /\ reading["again"] # "idle" /\ mounted' = mounted
        /\ screen'.receipt = reading["again"] /\ screen'.expense = screen.expense
        /\ reading'["again"] = "idle" /\ task'["here"].at = "refreshing"
        /\ reading'["receipt"] = reading["receipt"] /\ reading'["expense"] = reading["expense"]
    BY <1>0, <1>13 DEF Reread, Becomes, ReadingTypes, Read, ScreenRecord
  <2>2. reading["receipt"] = "idle" /\ reading["expense"] = "idle"
    BY <1>0, <2>1
  <2>3. reading["again"] # "loading"
    BY <1>0 DEF ReadingTypes, Stage
  <2>4. QED
    BY <1>0, <2>1, <2>2, <2>3
<1>14. CASE Refreshed
  <2>1. /\ task["here"].at = "refreshing" /\ task'["here"].at = "idle"
        /\ \A r \in {"receipt", "expense", "again"} : reading'[r] = reading[r]
    BY <1>0, <1>14 DEF Refreshed, Resting, ReadingTypes, Read
  <2>2. /\ reading["receipt"] = "idle" /\ reading["expense"] = "idle" /\ reading["again"] = "idle"
    BY <1>0, <2>1
  <2>3. QED
    BY <2>1, <2>2
<1>15. CASE View \/ ViewAnswered \/ ImageFails \/ CloseViewer
            \/ Elsewhere \/ UNCHANGED <<vars, viewVars>>
  BY <1>2, <1>15 DEF View, ViewAnswered, ImageFails, CloseViewer, Elsewhere, viewVars
<1>16. QED
  BY <1>3, <1>4, <1>5, <1>6, <1>7, <1>8, <1>9, <1>10, <1>11, <1>12, <1>13, <1>14, <1>15
     DEF ViewNext

\* What is read after an attempt tells of it.
LEMMA UpToDateStep ==
    ASSUME ViewConstants, ViewIndInv, [ViewNext]_<<vars, viewVars>> PROVE UpToDate'
<1> DEFINE Knows(x) == /\ reached' # "none" /\ x = "none" => expense'[Opened] # "SUBMITTED"
                       /\ reached' = "confirmed" => x \notin {"none", "pending"}
<1>0. /\ UpToDate /\ Exclusive /\ ReadingTypes /\ MovesOn /\ Granted(reached) /\ reached \in Stage
      /\ task \in [Screen -> Task] /\ screen \in ScreenRecord
  BY ViewIsApi, ApiStep DEF ViewIndInv, ViewTypeOK, ReadsTypeOK, ReadingTypes, Task,
     ScreenRecord, AheadOfNothing
<1>1. SUFFICES /\ \A r \in {"receipt", "again"} : Knows(reading'[r])
               /\ task'["here"].at \in {"idle", "picking", "refreshing"} => Knows(screen'.receipt)
  BY DEF UpToDate, Current
<1>2. \A x : reached' = "none" => Knows(x)
  OBVIOUS
<1>3. \A x : reached' = reached /\ Current(x) => Knows(x)
  BY <1>0 DEF Current, MovesOn
<1>4. Knows("idle") /\ Knows("sent") /\ Knows("error") /\ Knows("loading") /\ Knows("confirmed")
  OBVIOUS
<1> HIDE DEF Knows
<1>5. CASE OpenScreen \/ LeaveScreen \/ AppDies
  BY <1>2, <1>5 DEF OpenScreen, LeaveScreen, AppDies
<1>6. CASE UNCHANGED <<screen, reading, task, reached>>
  BY <1>0, <1>3, <1>6 DEF UpToDate
<1>7. CASE Reload
  BY <1>0, <1>3, <1>4, <1>7 DEF Reload, Loading, UpToDate, ReadingTypes, Read
<1>8. ASSUME NEW r \in Read, Answers(r)
      PROVE  /\ \A q \in {"receipt", "again"} : Knows(reading'[q])
             /\ UNCHANGED <<screen, reached, task>>
  <2>1. Current(Told) /\ UNCHANGED <<screen, reached, task>>
    BY <1>0, <1>8 DEF Answers, Current, Told, Granted, Stage
  <2>2. PICK answer :
            /\ reading' = [reading EXCEPT ![r] = answer]
            /\ r \in {"receipt", "again"} => answer \in {"error", Told}
    BY <1>8 DEF Answers
  <2>3. QED
    BY <1>0, <1>3, <1>4, <2>1, <2>2 DEF UpToDate, ReadingTypes, Read
<1>9. CASE ReadArrives
  <2>1. PICK r \in {"receipt", "expense"} :
            /\ screen' = [screen EXCEPT ![r] = reading[r]]
            /\ reading' = [reading EXCEPT ![r] = "idle"]
            /\ UNCHANGED <<task, reached>>
    BY <1>9 DEF ReadArrives
  <2>2. \A q \in {"receipt", "again"} : Knows(reading'[q])
    BY <1>0, <1>3, <1>4, <2>1 DEF UpToDate, ReadingTypes, Read
  <2>3. CASE r = "receipt"
    <3>1. screen' = [screen EXCEPT !.receipt = reading["receipt"]]
      BY <2>1, <2>3
    <3>2. screen'.receipt = reading["receipt"]
      BY <1>0, <3>1 DEF ScreenRecord
    <3>3. QED
      BY <1>0, <1>3, <2>1, <2>2, <3>2 DEF UpToDate
  <2>4. CASE r = "expense"
    <3>1. screen' = [screen EXCEPT !.expense = reading["expense"]]
      BY <2>1, <2>4
    <3>2. screen'.receipt = screen.receipt
      BY <1>0, <3>1 DEF ScreenRecord
    <3>3. QED
      BY <1>0, <1>3, <2>1, <2>2, <3>2 DEF UpToDate
  <2>5. QED
    BY <2>1, <2>3, <2>4
<1>10. CASE Attach \/ Picked \/ NotPicked \/ ConfirmPending
  <2>1. UNCHANGED <<screen, reading, reached>>
    BY <1>10 DEF Attach, Picked, NotPicked, ConfirmPending
  <2>2. \/ task'["here"].at \in {"confirm", "intent"}
        \/ task["here"].at \in {"idle", "picking"}
        \/ task'["here"] = task["here"]
    <3>1. picker \in Screen \cup {None} /\ (picker = "here" => task["here"].at = "picking")
      BY DEF ViewIndInv, ViewTypeOK, OnePromise
    <3>2. QED
      BY <1>0, <1>10, <3>1 DEF Attach, Picked, NotPicked, ConfirmPending, Becomes
  <2>3. QED
    BY <1>0, <1>3, <2>1, <2>2 DEF UpToDate
<1>11. ASSUME NEW s \in Screen,
             Declared(s) \/ Uploaded(s) \/ Confirmed(s) \/ Refused(s) \/ GoesOn(s)
       PROVE  /\ \A r \in {"receipt", "again"} : Knows(reading'[r])
              /\ task'["here"].at \in {"idle", "picking", "refreshing"} => Knows(screen'.receipt)
  <2>1. task[s].reply # "none" /\ task[s].at \in {"intent", "upload", "confirm"}
    BY <1>11 DEF Declared, Uploaded, Confirmed, Refused, GoesOn, ViewIndInv, Exclusive
  <2>2. UNCHANGED <<screen, reading>>
    BY <1>11 DEF Declared, Uploaded, Confirmed, Refused, GoesOn
  <2>3. CASE s = "left"
    <3>1. reached' = reached /\ task'["here"] = task["here"]
      BY <1>0, <1>11, <2>3
         DEF Declared, Uploaded, Confirmed, Refused, GoesOn, Reaches, Replies, Becomes
    <3>2. QED
      BY <1>0, <1>3, <2>2, <3>1 DEF UpToDate
  <2>4. CASE s = "here"
    <3>1. task'["here"].at \in {"intent", "upload", "confirm"}
      BY <1>0, <1>11, <2>1, <2>4
         DEF Declared, Uploaded, Confirmed, Refused, GoesOn, Replies, Becomes
    <3>2. screen["receipt"] = screen.receipt
      BY <1>0 DEF ScreenRecord
    <3>3. reading["receipt"] = "idle" /\ reading["again"] = "idle"
      BY <1>0, <2>1, <2>4, <3>2 DEF Exclusive
    <3>4. QED
      BY <1>4, <2>2, <3>1, <3>3
  <2>5. QED
    BY <2>3, <2>4
<1>12. ASSUME NEW s \in Screen, Settles(s) \/ Fails(s)
       PROVE  /\ \A r \in {"receipt", "again"} : Knows(reading'[r])
              /\ task'["here"].at \in {"idle", "picking", "refreshing"} => Knows(screen'.receipt)
  <2>1. CASE s = "left"
    <3>1. UNCHANGED <<screen, reading, reached>> /\ task'["here"] = task["here"]
      BY <1>0, <1>12, <2>1 DEF Settles, Fails
    <3>2. QED
      BY <1>0, <1>3, <3>1 DEF UpToDate
  <2>2. CASE s = "here" /\ Settles(s)
    <3>1. UNCHANGED <<reading, reached>> /\ screen'.receipt = "confirmed"
      BY <1>0, <2>2 DEF Settles, ScreenRecord
    <3>2. QED
      BY <1>0, <1>3, <1>4, <3>1 DEF UpToDate
  <2>3. CASE s = "here" /\ Fails(s)
    <3>1. /\ task'["here"].at = "rereading" /\ reached' = reached
          /\ reading'["receipt"] = reading["receipt"] /\ reading'["again"] = "sent"
      BY <1>0, <2>3 DEF Fails, Becomes, ReadingTypes, Read
    <3>2. QED
      BY <1>0, <1>3, <1>4, <3>1 DEF UpToDate
  <2>4. QED
    BY <1>12, <2>1, <2>2, <2>3
<1>13. CASE Reread
  <2>1. /\ screen'.receipt = reading["again"] /\ reached' = reached
        /\ reading'["receipt"] = reading["receipt"] /\ reading'["again"] = "idle"
    BY <1>0, <1>13 DEF Reread, ReadingTypes, Read, ScreenRecord
  <2>2. QED
    BY <1>0, <1>3, <1>4, <2>1 DEF UpToDate
<1>14. CASE Refreshed
  <2>1. /\ screen'.receipt = screen.receipt /\ reached' = reached
        /\ task["here"].at = "refreshing"
        /\ \A r \in {"receipt", "again"} : reading'[r] = reading[r]
    BY <1>0, <1>14 DEF Refreshed, ReadingTypes, Read, ScreenRecord
  <2>2. QED
    BY <1>0, <1>3, <2>1 DEF UpToDate
<1>15. CASE View \/ ViewAnswered \/ ImageFails \/ CloseViewer
            \/ Elsewhere \/ UNCHANGED <<vars, viewVars>>
  BY <1>6, <1>15 DEF View, ViewAnswered, ImageFails, CloseViewer, Elsewhere, viewVars
<1>16. QED
  BY <1>5, <1>7, <1>8, <1>9, <1>10, <1>11, <1>12, <1>13, <1>14, <1>15, <1>0, <1>3
     DEF ViewNext, UpToDate

LEMMA ViewStep ==
    ASSUME ViewConstants, ViewIndInv, [ViewNext]_<<vars, viewVars>> PROVE ViewIndInv'
<1>1. ViewTypeOK'
  <2>1. TypeOK'
    BY ViewIsApi, ApiStep DEF ViewIndInv, ViewTypeOK
  <2>2. QED
    BY <2>1, TaskTypes, ScreenTypes, ViewerStep DEF ViewTypeOK, Task, ScreenRecord
<1>2. ReadsTypeOK' /\ ViewedAsAsked'
  BY ReadingStep, ScreenTypes, ViewerStep DEF ReadsTypeOK, ReadingTypes
<1>3. QED
  BY <1>1, <1>2, AheadStep, ExclusiveStep, UpToDateStep, PromiseStep DEF ViewIndInv

\* The driver's screen of an expense (ExpenseDetailView: attach, confirmPending and
\* their catch, the effect that reads): it never says more than the API has done,
\* it says no less than its own attempts have reached, whichever of their answers
\* were lost, an attempt waits only for a promise that is held, and the viewer
\* shows nothing of an earlier press.
THEOREM ScreenOfAnExpense ==
    ASSUME ViewConstants PROVE ViewSpec => []ExpenseViewInv
<1>1. ViewInit => ViewIndInv
  BY ViewStart
<1>2. ViewIndInv /\ [ViewNext]_<<vars, viewVars>> => ViewIndInv'
  BY ViewStep
<1>3. ViewIndInv => ExpenseViewInv
  BY DEF ViewIndInv, AheadOfNothing, UpToDate, Granted, Final, Current,
         ExpenseViewInv, NeverAhead, NotBehindItself
<1>4. QED
  BY <1>1, <1>2, <1>3, PTL DEF ViewSpec
-----------------------------------------------------------------------------
(* The admin's page of an expense. *)

\* What is taken for granted of the constants: the page is of some expense, and
\* what stands for no receipt is not one.
PageConstants == Reviewed \in Expense /\ None \notin Receipt

PageReadsOK ==
    /\ loads \in [Part -> {"idle", "sent", "failed", "missing", "SUBMITTED"} \cup Decision]
    /\ reads \in [mount : {"idle", "sent", "error", "none", "pending", "confirmed"},
                  again : {"idle", "sent", "error", "none", "pending", "confirmed"}]
    /\ achieved \in {"none", "pending", "confirmed"}

\* Stage x, status y: no more than the API has reached.
Backed(x) == /\ x = "confirmed" => Stored = "confirmed"
             /\ x = "pending" => Stored # "none"
Ruled(y) == y \in Decision => y = expense[Reviewed]
\* A stage that was read after the attempts of this page had reached theirs.
Informed(x) ==
    /\ achieved # "none" /\ x = "none" => expense[Reviewed] # "SUBMITTED"
    /\ achieved = "confirmed" => x \notin {"none", "pending"}

\* Nothing on the page, or on its way to it, is ahead of the API ...
PageAhead ==
    /\ Backed(page.receipt) /\ Backed(achieved) /\ Backed(reads.mount) /\ Backed(reads.again)
    /\ Ruled(page.expense) /\ \A p \in Part : Ruled(loads[p])
    /\ review.reply = "ok" => review.decision = expense[Reviewed]
    /\ attempt.at = "confirm" /\ attempt.reply = "ok" => Stored = "confirmed"

\* ... an answer is on its way only to what waits for it: the reads of the mount to
\* a page that shows nothing yet, every later read of the expense to a page that
\* was told of a decision, so it brings one; an attempt is under way only on a page that
\* shows no confirmed receipt ...
PageOrder ==
    /\ loads["mount"] # "idle" =>
          /\ page.expense = "loading" /\ page.receipt = "loading" /\ reads.mount = "idle"
          /\ review.at = "idle" /\ loads["review"] = "idle" /\ loads["receipt"] = "idle"
    /\ reads.mount # "idle" => page.receipt = "loading"
    /\ page.receipt = "loading" => attempt = Idle /\ achieved = "none"
    /\ \A p \in {"review", "receipt"} :
          /\ loads[p] \in {"idle", "sent", "failed"} \cup Decision
          /\ loads[p] # "idle" => expense[Reviewed] # "SUBMITTED"
    /\ \/ review.reply = "closed" \/ attempt.reply = "closed" \/ attempt.at = "rereadingStale"
       => expense[Reviewed] # "SUBMITTED"
    /\ review.reply # "none" => review.at # "idle"
    /\ review.at # "idle" => review.decision \in Decision
    /\ attempt.reply # "none" <=> attempt.at \in {"intent", "upload", "confirm", "view"}
    /\ reads.again # "idle" => attempt.at \in {"rereading", "rereadingStale"}
    /\ attempt.at \in {"intent", "upload"} => file \in Declaration
    /\ attempt.at \in {"idle", "view"} \/ page.receipt # "confirmed"
    /\ attempt.at = "view" \/ preview => page.receipt = "confirmed"

\* ... and whenever no attempt is at the API, the page knows what was reached.
PageUpToDate ==
    /\ Informed(reads.again)
    /\ attempt.at \in {"idle", "view"} => Informed(page.receipt)

PageIndInv == PageTypeOK /\ PageReadsOK /\ PageAhead /\ PageOrder /\ PageUpToDate

PageMovesOn ==
    /\ Stored = "confirmed" => Stored' = "confirmed"
    /\ Stored # "none" => Stored' # "none"
    /\ expense[Reviewed] # "SUBMITTED" => expense'[Reviewed] = expense[Reviewed]

\* What a step of the page does at the API is a step of the API.
LEMMA PageIsApi ==
    ASSUME PageConstants, PageIndInv, [PageNext]_<<vars, pageVars>>
    PROVE  [Next]_vars /\ TypeOK' /\ PageMovesOn
<1>1. [Next]_vars
  <2>1. CASE Decided
    <3>1. review.decision \in {"APPROVED", "REJECTED"}
      BY <2>1 DEF Decided, PageIndInv, PageOrder, Decision
    <3>2. QED
      BY <2>1, <3>1 DEF Decided, Next, PageConstants
  <2>2. CASE Handled
    <3>1. attempt.at \in {"intent", "upload"} => file \in Declaration
      BY DEF PageIndInv, PageOrder
    <3>2. QED
      BY <2>2, <3>1 DEF Handled, Next, PageConstants
  <2>3. CASE Outside
    BY <2>3 DEF Outside
  <2>4. CASE \/ \E p \in Part : LoadAnswered(p) \/ ReloadArrives(p)
             \/ MountLoads \/ ReadAnswered \/ ReceiptArrives
             \/ \E decision \in Decision : Decide(decision)
             \/ KeepSubmitted \/ Apply \/ ReviewAnswered
             \/ Choose \/ UploadReceipt \/ ConfirmUpload \/ ViewReceipt
             \/ TurnedDown \/ AttemptGoesOn \/ AttemptSettles \/ AttemptFails \/ RereadArrives
             \/ PreviewAnswered \/ PreviewFails
             \/ UNCHANGED <<vars, pageVars>>
    BY <2>4 DEF LoadAnswered, ReloadArrives, MountLoads, ReadAnswered, ReceiptArrives, Decide,
       KeepSubmitted, Apply, ReviewAnswered, Choose, UploadReceipt, ConfirmUpload, ViewReceipt,
       TurnedDown, AttemptGoesOn, AttemptSettles, AttemptFails, RereadArrives, PreviewAnswered,
       PreviewFails
  <2>5. QED
    BY <2>1, <2>2, <2>3, <2>4 DEF PageNext
<1>2. TypeOK' /\ Onwards(Reviewed)
  BY <1>1, ApiMovesOn DEF PageConstants, PageIndInv, PageTypeOK
<1>3. QED
  BY <1>1, <1>2 DEF Onwards, PageMovesOn, Stored, PageConstants

LEMMA PageStart == ASSUME PageConstants, PageInit PROVE PageIndInv
<1>1. TypeOK /\ Stored = "none"
  BY DEF PageInit, Init, TypeOK, Stored, PageConstants
<1>2. PageTypeOK /\ PageReadsOK
  BY <1>1 DEF PageInit, PageTypeOK, PageReadsOK, Idle, Undecided, Unsent, Part
<1>3. PageAhead /\ PageOrder /\ PageUpToDate
  BY <1>1 DEF PageInit, PageAhead, PageOrder, PageUpToDate, Backed, Ruled, Informed, Idle,
     Undecided, Unsent, Part, Decision
<1>4. QED
  BY <1>2, <1>3 DEF PageIndInv

LEMMA PageTypes ==
    ASSUME PageConstants, PageIndInv, [PageNext]_<<vars, pageVars>> PROVE PageTypeOK' /\ PageReadsOK'
<1> USE DEF Decision, Part, Unsent
<1>0. /\ PageTypeOK /\ PageReadsOK /\ TypeOK' /\ expense[Reviewed] \in {"SUBMITTED"} \cup Decision
      /\ Stored \in {"none", "pending", "confirmed"} /\ Shown \in {"none", "pending", "confirmed"}
      /\ review.reply # "none" => review.decision \in Decision
  BY PageIsApi DEF PageIndInv, PageTypeOK, TypeOK, Stored, Shown, PageConstants, PageOrder
<1> USE DEF PageTypeOK, PageReadsOK
<1>1. ASSUME NEW p \in Part, LoadAnswered(p) PROVE PageTypeOK' /\ PageReadsOK'
  BY <1>0, <1>1 DEF LoadAnswered
<1>2. ASSUME NEW p \in Part, ReloadArrives(p) PROVE PageTypeOK' /\ PageReadsOK'
  BY <1>0, <1>2 DEF ReloadArrives, PageIndInv, PageOrder
<1>3. CASE MountLoads
  BY <1>0, <1>3 DEF MountLoads
<1>4. CASE ReadAnswered
  BY <1>0, <1>4 DEF ReadAnswered
<1>5. CASE ReceiptArrives
  BY <1>0, <1>5 DEF ReceiptArrives
<1>6. ASSUME NEW decision \in Decision, Decide(decision) PROVE PageTypeOK' /\ PageReadsOK'
  <2>1. review' = [at |-> "deciding", decision |-> decision, reply |-> "none"]
    BY <1>6 DEF Decide, Undecided
  <2>2. QED
    BY <1>0, <1>6, <2>1 DEF Decide
<1>7. CASE KeepSubmitted \/ Apply
  <2>1. \/ review' = [at |-> "idle", decision |-> "none", reply |-> "none"]
        \/ review' = [at |-> "applying", decision |-> review.decision, reply |-> "waiting"]
    BY <1>0, <1>7 DEF KeepSubmitted, Apply, Undecided
  <2>2. QED
    BY <1>0, <1>7, <2>1 DEF KeepSubmitted, Apply
<1>8. CASE Decided
  BY <1>0, <1>8 DEF Decided
<1>9. CASE ReviewAnswered
  BY <1>0, <1>9 DEF ReviewAnswered, Undecided
<1>10. CASE Choose \/ UploadReceipt \/ ConfirmUpload \/ ViewReceipt
  BY <1>0, <1>10 DEF Choose, UploadReceipt, ConfirmUpload, ViewReceipt, Waits
<1>11. CASE Handled \/ TurnedDown
  BY <1>0, <1>11 DEF Handled, TurnedDown, Replied
<1>12. CASE AttemptGoesOn \/ AttemptSettles \/ AttemptFails
  <2>1. /\ attempt'.at \in {"idle", "upload", "confirm", "rereading", "rereadingStale"}
        /\ attempt' = [at |-> attempt'.at, reply |-> attempt'.reply]
        /\ attempt'.reply \in {"none", "waiting"}
    BY <1>12 DEF AttemptGoesOn, AttemptSettles, AttemptFails, Waits, Idle
  <2>2. CASE AttemptGoesOn
    BY <1>0, <2>1, <2>2 DEF AttemptGoesOn
  <2>3. CASE AttemptSettles
    <3>1. preview' \in BOOLEAN /\ file' \in Declaration \cup {None}
      BY <2>3 DEF AttemptSettles
    <3>2. page' \in [expense : Decision \cup {"SUBMITTED", "loading", "missing", "failed"},
                     receipt : {"loading", "none", "pending", "confirmed", "error"}]
      BY <1>0, <2>3 DEF AttemptSettles
    <3>3. UNCHANGED <<loads, reads, review, achieved>>
      BY <2>3 DEF AttemptSettles
    <3>4. QED
      BY <1>0, <2>1, <3>1, <3>2, <3>3
  <2>4. CASE AttemptFails
    BY <1>0, <2>1, <2>4 DEF AttemptFails
  <2>5. QED
    BY <1>12, <2>2, <2>3, <2>4
<1>13. CASE RereadArrives
  BY <1>0, <1>13 DEF RereadArrives, Idle
<1>14. CASE PreviewAnswered \/ PreviewFails
  <2>1. preview' \in BOOLEAN
    BY <1>14 DEF PreviewAnswered, PreviewFails
  <2>2. QED
    BY <1>0, <1>14, <2>1 DEF PreviewAnswered, PreviewFails, Idle
<1>15. CASE Outside \/ UNCHANGED <<vars, pageVars>>
  BY <1>0, <1>15 DEF Outside, pageVars
<1>16. QED
  BY <1>1, <1>2, <1>3, <1>4, <1>5, <1>6, <1>7, <1>8, <1>9, <1>10, <1>11, <1>12, <1>13, <1>14,
     <1>15 DEF PageNext

\* The presses of the review, and the steps of the attempt that leave its stage.
LEMMA ReviewMoves ==
    ASSUME PageTypeOK, (\E decision \in Decision : Decide(decision)) \/ KeepSubmitted \/ Apply
    PROVE  /\ page.expense = "SUBMITTED" /\ review'.reply \in {"none", "waiting"}
           /\ \/ review'.at = "idle" /\ review'.reply = "none"
              \/ review'.at # "idle" /\ review'.decision \in Decision
              \/ review'.at # "idle" /\ review.at # "idle" /\ review'.decision = review.decision
<1>1. ASSUME NEW decision \in Decision, Decide(decision)
      PROVE  /\ page.expense = "SUBMITTED" /\ review'.reply = "none"
             /\ review'.at = "deciding" /\ review'.decision = decision
  BY <1>1 DEF Decide, Undecided
<1>2. CASE KeepSubmitted
  BY <1>2 DEF KeepSubmitted, Undecided
<1>3. CASE Apply
  BY <1>3 DEF Apply, PageTypeOK
<1>4. QED
  BY <1>1, <1>2, <1>3

LEMMA AttemptMoves ==
    ASSUME PageTypeOK, Handled \/ TurnedDown
    PROVE  /\ attempt.reply = "waiting" /\ attempt'.at = attempt.at
           /\ attempt'.reply \in {"ok", "failed", "closed"}
           /\ attempt'.reply = "closed" => UNCHANGED vars /\ expense[Reviewed] # "SUBMITTED"
<1>1. CASE Handled
  BY <1>1 DEF Handled, Replied, PageTypeOK
<1>2. CASE TurnedDown
  BY <1>2 DEF TurnedDown, PageTypeOK
<1>3. QED
  BY <1>1, <1>2

LEMMA PageAheadStep ==
    ASSUME PageConstants, PageIndInv, [PageNext]_<<vars, pageVars>> PROVE PageAhead'
<1> DEFINE Says(x) == /\ x = "confirmed" => Stored' = "confirmed"
                      /\ x = "pending" => Stored' # "none"
           Judges(y) == y \in Decision => y = expense'[Reviewed]
           Kept ==
               /\ Says(page'.receipt) /\ Says(achieved') /\ Says(reads'.mount) /\ Says(reads'.again)
               /\ Judges(page'.expense) /\ \A p \in Part : Judges(loads'[p])
               /\ review'.reply = "ok" => review'.decision = expense'[Reviewed]
               /\ attempt'.at = "confirm" /\ attempt'.reply = "ok" => Stored' = "confirmed"
<1>0. PageTypeOK /\ PageReadsOK /\ PageAhead /\ PageOrder /\ PageMovesOn
  BY PageIsApi DEF PageIndInv
<1>1. \A x : (Backed(x) => Says(x)) /\ (Ruled(x) => Judges(x))
  BY <1>0 DEF Backed, Ruled, PageMovesOn, Decision
<1>2. SUFFICES Kept
  BY DEF PageAhead, Backed, Ruled
<1>3. /\ Says(page.receipt) /\ Says(achieved) /\ Says(reads.mount) /\ Says(reads.again)
      /\ Judges(page.expense) /\ \A p \in Part : Judges(loads[p])
      /\ review.reply = "ok" => review.decision = expense'[Reviewed]
      /\ attempt.at = "confirm" /\ attempt.reply = "ok" => Stored' = "confirmed"
  BY <1>0, <1>1 DEF PageAhead, PageOrder, PageMovesOn, Decision
<1> HIDE DEF Says, Judges
<1>4. /\ Says("none") /\ Says("idle") /\ Says("sent") /\ Says("error")
      /\ Judges("idle") /\ Judges("sent") /\ Judges("failed") /\ Judges("missing")
      /\ Stored' = "confirmed" => Says("confirmed")
      /\ Stored' # "none" => Says("pending")
  BY DEF Says, Judges, Decision
<1> USE <1>0 DEF PageTypeOK, PageReadsOK, Unsent, Part
<1>5. ASSUME NEW p \in Part, LoadAnswered(p) PROVE Kept
  <2>1. Judges(expense[Reviewed])
    BY <1>1 DEF Ruled
  <2>2. PICK answer : /\ loads' = [loads EXCEPT ![p] = answer]
                      /\ answer \in {expense[Reviewed], "failed", "missing"}
    BY <1>5 DEF LoadAnswered
  <2>3. UNCHANGED <<page, reads, review, attempt, achieved>>
    BY <1>5 DEF LoadAnswered
  <2>4. QED
    BY <1>3, <1>4, <2>1, <2>2, <2>3
<1>6. CASE ReadAnswered
  <2>1. Says(Shown)
    BY <1>1, <1>4 DEF Shown, Backed
  <2>2. /\ reads'.mount \in {reads.mount, Shown, "error"}
        /\ reads'.again \in {reads.again, Shown, "error"}
    BY <1>6 DEF ReadAnswered
  <2>3. QED
    BY <1>3, <1>4, <1>6, <2>1, <2>2 DEF ReadAnswered
<1>7. ASSUME NEW p \in Part, ReloadArrives(p) PROVE Kept
  BY <1>3, <1>4, <1>7 DEF ReloadArrives
<1>8. CASE MountLoads
  BY <1>3, <1>4, <1>8 DEF MountLoads
<1>9. CASE ReceiptArrives
  BY <1>3, <1>4, <1>9 DEF ReceiptArrives
<1>10. CASE \/ \E decision \in Decision : Decide(decision)
            \/ KeepSubmitted \/ Apply
  <2>1. review'.reply # "ok"
    BY <1>10, ReviewMoves
  <2>2. UNCHANGED <<page, loads, reads, attempt, achieved>>
    BY <1>10 DEF Decide, KeepSubmitted, Apply
  <2>3. QED
    BY <1>3, <2>1, <2>2
<1>11. CASE Decided
  <2>1. review'.reply = "ok" => review'.decision = expense'[Reviewed]
    BY <1>11, Outcomes DEF Decided, PageConstants
  <2>2. QED
    BY <1>3, <1>11, <2>1 DEF Decided
<1>12. CASE ReviewAnswered
  <2>1. review.reply = "ok" => Judges(review.decision)
    BY <1>3 DEF Judges
  <2>2. QED
    BY <1>3, <1>4, <1>12, <2>1 DEF ReviewAnswered, Undecided
<1>13. CASE Handled
  <2>1. UNCHANGED <<page, loads, reads, review>> /\ attempt'.at = attempt.at
    BY <1>13 DEF Handled, Replied
  <2>2. CASE attempt.at = "intent"
    <3>1. Declare(Reviewed, file) /\ file \in Declaration /\ achieved' = "pending"
      BY <1>13, <2>2 DEF Handled, PageOrder
    <3>2. Stored' # "none"
      BY <3>1, Outcomes DEF PageConstants, Stored
    <3>3. QED
      BY <1>3, <1>4, <2>1, <2>2, <3>1, <3>2
  <2>3. CASE attempt.at = "confirm"
    <3>1. achieved' = "confirmed" /\ (Confirm(Reviewed) \/ Stored = "confirmed")
      BY <1>13, <2>3 DEF Handled
    <3>2. Stored' = "confirmed"
      BY <3>1, Outcomes DEF PageConstants, Stored, PageMovesOn
    <3>3. QED
      BY <1>3, <1>4, <2>1, <3>1, <3>2
  <2>4. CASE attempt.at \in {"upload", "view"}
    BY <1>3, <1>4, <1>13, <2>1, <2>4 DEF Handled
  <2>5. QED
    BY <1>13, <2>2, <2>3, <2>4 DEF Handled
<1>14. CASE TurnedDown
  BY <1>3, <1>4, <1>14 DEF TurnedDown
<1>15. CASE AttemptSettles
  BY <1>3, <1>4, <1>15 DEF AttemptSettles, Idle
<1>16. CASE \/ Choose \/ UploadReceipt \/ ConfirmUpload \/ ViewReceipt \/ AttemptGoesOn
            \/ AttemptFails \/ PreviewAnswered \/ PreviewFails
  BY <1>3, <1>4, <1>16 DEF Choose, UploadReceipt, ConfirmUpload, ViewReceipt, AttemptGoesOn,
     AttemptFails, PreviewAnswered, PreviewFails, Waits, Idle
<1>17. CASE RereadArrives
  BY <1>3, <1>4, <1>17 DEF RereadArrives, Idle
<1>18. CASE Outside \/ UNCHANGED <<vars, pageVars>>
  BY <1>3, <1>18 DEF Outside, pageVars
<1>19. QED
  BY <1>5, <1>6, <1>7, <1>8, <1>9, <1>10, <1>11, <1>12, <1>13, <1>14, <1>15, <1>16, <1>17, <1>18
     DEF PageNext

LEMMA PageUpToDateStep ==
    ASSUME PageConstants, PageIndInv, [PageNext]_<<vars, pageVars>> PROVE PageUpToDate'
<1> DEFINE Knows(x) == /\ achieved' # "none" /\ x = "none" => expense'[Reviewed] # "SUBMITTED"
                       /\ achieved' = "confirmed" => x \notin {"none", "pending"}
           Kept == /\ Knows(reads'.again)
                   /\ attempt'.at \in {"idle", "view"} => Knows(page'.receipt)
<1>0. /\ PageTypeOK /\ PageReadsOK /\ PageOrder /\ PageUpToDate /\ PageMovesOn
      /\ Backed(achieved)
  BY PageIsApi DEF PageIndInv, PageAhead
<1>1. SUFFICES Kept
  BY DEF PageUpToDate, Informed
<1>2. \A x : achieved' = "none" => Knows(x)
  OBVIOUS
<1>3. \A x : achieved' = achieved /\ Informed(x) => Knows(x)
  BY <1>0 DEF Informed, PageMovesOn
<1>4. Knows("idle") /\ Knows("sent") /\ Knows("error") /\ Knows("confirmed")
  OBVIOUS
<1> HIDE DEF Knows
<1>5. /\ achieved' = achieved => Knows(reads.again)
      /\ achieved' = achieved /\ attempt.at \in {"idle", "view"} => Knows(page.receipt)
  BY <1>0, <1>3 DEF PageUpToDate
<1> USE <1>0 DEF PageTypeOK, PageReadsOK, Unsent, Part
<1>6. CASE UNCHANGED <<reads, attempt, page, achieved>>
  BY <1>5, <1>6
<1>7. CASE \/ \E p \in Part : LoadAnswered(p)
           \/ \E decision \in Decision : Decide(decision)
           \/ KeepSubmitted \/ Apply \/ Decided \/ Choose \/ PreviewFails
           \/ Outside \/ UNCHANGED <<vars, pageVars>>
  BY <1>6, <1>7 DEF LoadAnswered, Decide, KeepSubmitted, Apply, Decided, Choose, PreviewFails,
     Outside, pageVars
<1>8. CASE (\E p \in Part : ReloadArrives(p)) \/ MountLoads \/ ReviewAnswered
  <2>1. /\ page'.receipt = page.receipt /\ reads'.again = reads.again
        /\ UNCHANGED <<attempt, achieved>>
    BY <1>8 DEF ReloadArrives, MountLoads, ReviewAnswered
  <2>2. QED
    BY <1>5, <2>1
<1>9. CASE ReadAnswered
  <2>1. Knows(Shown) /\ UNCHANGED <<page, attempt, achieved>>
    BY <1>3, <1>9 DEF ReadAnswered, Informed, Shown, Backed
  <2>2. reads'.again \in {reads.again, Shown, "error"}
    BY <1>9 DEF ReadAnswered
  <2>3. QED
    BY <1>4, <1>5, <2>1, <2>2
<1>10. CASE ReceiptArrives
  <2>1. achieved' = "none"
    BY <1>10 DEF ReceiptArrives, PageOrder
  <2>2. QED
    BY <1>2, <2>1
<1>11. CASE UploadReceipt \/ ConfirmUpload \/ TurnedDown \/ AttemptGoesOn
  <2>1. /\ attempt'.at = "view" => attempt.at = "view"
        /\ attempt'.at # "idle" /\ UNCHANGED <<page, reads, achieved>>
    BY <1>11, AttemptMoves
       DEF UploadReceipt, ConfirmUpload, TurnedDown, AttemptGoesOn, Waits, PageOrder
  <2>2. QED
    BY <1>5, <2>1
<1>12. CASE ViewReceipt \/ PreviewAnswered
  BY <1>5, <1>12 DEF ViewReceipt, PreviewAnswered
<1>13. CASE Handled
  <2>1. attempt'.at = attempt.at /\ UNCHANGED <<page, reads>> /\ reads.again = "idle"
    BY <1>13 DEF Handled, Replied, PageOrder
  <2>2. attempt.at \in {"idle", "view"} => achieved' = achieved
    BY <1>13 DEF Handled
  <2>3. QED
    BY <1>4, <1>5, <2>1, <2>2
<1>14. CASE AttemptSettles
  BY <1>4, <1>5, <1>14 DEF AttemptSettles
<1>15. CASE AttemptFails
  BY <1>4, <1>15 DEF AttemptFails
<1>16. CASE RereadArrives
  BY <1>4, <1>5, <1>16 DEF RereadArrives
<1>17. QED
  BY <1>7, <1>8, <1>9, <1>10, <1>11, <1>12, <1>13, <1>14, <1>15, <1>16 DEF PageNext

LEMMA PageOrderStep ==
    ASSUME PageConstants, PageIndInv, [PageNext]_<<vars, pageVars>> PROVE PageOrder'
<1>0. PageTypeOK /\ PageReadsOK /\ PageOrder /\ PageMovesOn /\ Ruled(page.expense)
  BY PageIsApi DEF PageIndInv, PageAhead
<1> USE <1>0 DEF PageTypeOK, PageReadsOK, Unsent, Part, PageOrder
<1>1. expense[Reviewed] # "SUBMITTED" => expense'[Reviewed] # "SUBMITTED"
  BY DEF PageMovesOn
<1>2. CASE UNCHANGED pageVars
  BY <1>1, <1>2 DEF pageVars
<1>3. CASE Outside \/ UNCHANGED <<vars, pageVars>>
  BY <1>2, <1>3 DEF Outside
<1>4. ASSUME NEW p \in Part, LoadAnswered(p) PROVE PageOrder'
  <2>1. PICK answer : /\ loads' = [loads EXCEPT ![p] = answer]
                      /\ answer \in {expense[Reviewed], "failed"} \/ p = "mount"
    BY <1>4 DEF LoadAnswered
  <2>2. UNCHANGED <<vars, page, reads, review, attempt, file, preview, achieved>> /\ loads[p] = "sent"
    BY <1>4 DEF LoadAnswered
  <2>3. expense[Reviewed] \in {"SUBMITTED"} \cup Decision
    BY DEF TypeOK, PageConstants, Decision
  <2>4. QED
    BY <2>1, <2>2, <2>3 DEF vars
<1>5. ASSUME NEW p \in Part, ReloadArrives(p) PROVE PageOrder'
  <2>1. /\ p # "mount" /\ loads[p] # "idle" /\ loads' = [loads EXCEPT ![p] = "idle"]
        /\ page'.receipt = page.receipt
        /\ UNCHANGED <<vars, reads, review, attempt, file, preview, achieved>>
    BY <1>5 DEF ReloadArrives
  <2>2. QED
    BY <2>1 DEF vars
<1>6. CASE MountLoads
  BY <1>6 DEF MountLoads, vars
<1>7. CASE ReadAnswered
  BY <1>7 DEF ReadAnswered, vars
<1>8. CASE ReceiptArrives
  BY <1>8 DEF ReceiptArrives, vars, Idle
<1>9. CASE \/ \E decision \in Decision : Decide(decision)
           \/ KeepSubmitted \/ Apply
  <2>1. UNCHANGED <<vars, page, loads, reads, attempt, file, preview, achieved>>
    BY <1>9 DEF Decide, KeepSubmitted, Apply
  <2>2. QED
    BY <1>9, <2>1, ReviewMoves DEF vars
<1>10. CASE Decided
  BY <1>1, <1>10 DEF Decided, vars
<1>11. CASE ReviewAnswered
  <2>1. /\ review'.at = "idle" /\ review'.reply = "none" /\ review.at # "idle"
        /\ page'.receipt = page.receipt
        /\ UNCHANGED <<vars, reads, attempt, file, preview, achieved>>
    BY <1>11 DEF ReviewAnswered, Undecided
  <2>2. \/ loads' = loads
        \/ loads' = [loads EXCEPT !["review"] = "sent"] /\ review.reply = "closed"
    BY <1>11 DEF ReviewAnswered, Asks
  <2>3. loads["mount"] = "idle" /\ loads'["mount"] = "idle"
    BY <2>1, <2>2
  <2>4. \A p \in {"review", "receipt"} :
           loads'[p] = loads[p] \/ (loads'[p] = "sent" /\ expense[Reviewed] # "SUBMITTED")
    BY <2>2
  <2>5. QED
    BY <2>1, <2>3, <2>4 DEF vars
<1>12. CASE Choose \/ UploadReceipt \/ ConfirmUpload \/ ViewReceipt
  BY <1>12 DEF Choose, UploadReceipt, ConfirmUpload, ViewReceipt, Mutable, Waits, vars
<1>13. CASE Handled
  <2>1. UNCHANGED <<page, loads, reads, review, file, preview>> /\ attempt # Idle
    BY <1>13 DEF Handled, Idle
  <2>2. QED
    BY <1>1, <1>13, <2>1, AttemptMoves DEF vars
<1>14. CASE TurnedDown
  <2>1. UNCHANGED <<vars, page, loads, reads, review, file, preview, achieved>> /\ attempt # Idle
    BY <1>14 DEF TurnedDown, Idle
  <2>2. QED
    BY <1>14, <2>1, AttemptMoves DEF vars
<1>15. CASE AttemptGoesOn
  <2>1. /\ UNCHANGED <<vars, page, loads, reads, review, file, preview, achieved>>
        /\ attempt # Idle /\ attempt.at \in {"intent", "upload"} /\ attempt'.reply = "waiting"
        /\ attempt'.at \in {"upload", "confirm"}
    BY <1>15 DEF AttemptGoesOn, Waits, Idle
  <2>2. QED
    BY <2>1 DEF vars
<1>16. CASE AttemptSettles
  BY <1>16 DEF AttemptSettles, Idle, vars
<1>17. CASE AttemptFails
  BY <1>17 DEF AttemptFails, Idle, vars
<1>18. CASE RereadArrives
  BY <1>18 DEF RereadArrives, Idle, vars
<1>19. CASE PreviewAnswered \/ PreviewFails
  BY <1>19 DEF PreviewAnswered, PreviewFails, Idle, vars
<1>20. QED
  BY <1>3, <1>4, <1>5, <1>6, <1>7, <1>8, <1>9, <1>10, <1>11, <1>12, <1>13, <1>14, <1>15, <1>16,
     <1>17, <1>18, <1>19 DEF PageNext

LEMMA PageStep ==
    ASSUME PageConstants, PageIndInv, [PageNext]_<<vars, pageVars>> PROVE PageIndInv'
BY PageTypes, PageAheadStep, PageOrderStep, PageUpToDateStep DEF PageIndInv

\* The admin's page of an expense (ExpenseReview and ExpenseReceipt on ExpenseDetail):
\* it shows nothing the API has not done and, at rest, nothing older than what its
\* own attempts have reached, though its sections ask for reads that no one withdraws.
THEOREM PageOfAnExpense ==
    ASSUME PageConstants PROVE PageSpec => []ExpensePageInv
<1>1. PageInit => PageIndInv
  BY PageStart
<1>2. PageIndInv /\ [PageNext]_<<vars, pageVars>> => PageIndInv'
  BY PageStep
<1>3. PageIndInv => ExpensePageInv
  BY DEF PageIndInv, PageAhead, PageOrder, PageUpToDate, Backed, Ruled, Informed,
         ExpensePageInv, PageTrue, PageTypeOK
<1>4. QED
  BY <1>1, <1>2, <1>3, PTL DEF PageSpec

\* A decision, or a confirmed receipt, once on the page is not taken back by an answer
\* that was on its way (load and reload of ExpenseDetail and ExpenseReceipt).
THEOREM PageTakesNothingBack ==
    ASSUME PageConstants PROVE PageSpec => NothingTakenBack
<1>1. PageInit => PageIndInv
  BY PageStart
<1>2. PageIndInv /\ [PageNext]_<<vars, pageVars>> => PageIndInv'
  BY PageStep
<1>3. ASSUME PageIndInv, [PageNext]_<<vars, pageVars>> PROVE [KeepsWhatIsTaken]_page
  <2>0. PageTypeOK /\ PageReadsOK /\ PageOrder /\ Ruled(page.expense)
        /\ (review.reply = "ok" => review.decision = expense[Reviewed])
        /\ \A p \in Part : Ruled(loads[p])
    BY <1>3 DEF PageIndInv, PageAhead
  <2> USE <2>0 DEF PageTypeOK, PageReadsOK, Unsent, Part, PageOrder, KeepsWhatIsTaken
  <2>1. ASSUME NEW p \in Part, ReloadArrives(p) PROVE KeepsWhatIsTaken
    BY <2>1 DEF ReloadArrives, Ruled
  <2>2. CASE MountLoads \/ ReceiptArrives \/ RereadArrives \/ AttemptSettles
    BY <2>2 DEF MountLoads, ReceiptArrives, RereadArrives, AttemptSettles, Decision
  <2>3. CASE ReviewAnswered
    BY <2>3 DEF ReviewAnswered, Ruled
  <2>4. CASE \/ \E p \in Part : LoadAnswered(p)
             \/ ReadAnswered \/ \E decision \in Decision : Decide(decision)
             \/ KeepSubmitted \/ Apply \/ Decided
             \/ Choose \/ UploadReceipt \/ ConfirmUpload \/ ViewReceipt
             \/ Handled \/ TurnedDown \/ AttemptGoesOn \/ AttemptFails
             \/ PreviewAnswered \/ PreviewFails
             \/ Outside \/ UNCHANGED <<vars, pageVars>>
    BY <2>4 DEF LoadAnswered, ReadAnswered, Decide, KeepSubmitted, Apply, Decided, Choose,
       UploadReceipt, ConfirmUpload, ViewReceipt, Handled, TurnedDown, AttemptGoesOn, AttemptFails,
       PreviewAnswered, PreviewFails, Outside, pageVars
  <2>5. QED
    BY <1>3, <2>1, <2>2, <2>3, <2>4 DEF PageNext
<1>4. QED
  BY <1>1, <1>2, <1>3, PTL DEF PageSpec, NothingTakenBack

---------------------------------------------------------------------------
(* WireContract *)

\* A value that says "set" is no missing one, and the widths are numbers.
WireConstants ==
    /\ Null # "set"
    /\ MaxDigits \in Nat \ {0} /\ MaxInt \in Nat /\ MaxBytes \in Nat

Served == {Wire(r) : r \in Row}

\* A call by what may have become of it: on its way, a page, a refusal, or what
\* was filed, as its row or as the authorization to upload it.
SentCall ==
    [at : {"sent"}, client : Client, op : {"read", "file"}, input : Nullable(Typed),
     status : {0}, body : {Null}, problem : {Null}, wrote : {FALSE}]
PageCall ==
    [at : {"answered"}, client : Client, op : {"read"}, input : Nullable(Typed),
     status : {200}, body : SUBSET Served, problem : {Null}, wrote : {FALSE}]
RefusalCode == {400, 404, 409, 500}
Problem == {"code", "list", "message"}
RefusedCall ==
    [at : {"answered"}, client : Client, op : {"file"}, input : Nullable(Typed),
     status : RefusalCode, body : {Null}, problem : Problem, wrote : {FALSE}]
FiledCall ==
    [at : {"answered"}, client : Client, op : {"file"}, input : Nullable(Typed),
     status : {201}, body : Served, problem : {Null}, wrote : {TRUE}]
SignedCall ==
    [at : {"answered"}, client : Client, op : {"file"}, input : Nullable(Typed),
     status : {200}, body : Authorizations, problem : {Null}, wrote : {TRUE}]

CallFits ==
    \/ call = NoCall
    \/ call.at = "sent" /\ call \in SentCall
    \/ call.at = "answered" /\ call.op = "read" /\ call \in PageCall
    \/ call.at = "answered" /\ call.op = "file" /\ ~call.wrote /\ call \in RefusedCall
    \/ /\ call.at = "answered" /\ call.op = "file" /\ call.wrote
       /\ kind # "receipt" /\ call \in FiledCall
    \/ /\ call.at = "answered" /\ call.op = "file" /\ call.wrote
       /\ kind = "receipt" /\ call \in SignedCall

\* A client asks only for what it has a parser for.
MayAsk ==
    call # NoCall => /\ Serves(call.client)
                     /\ call.op = "file" => MayFile(call.client)

TableHolds == table \subseteq Row

WireIndInv == kind \in Kind /\ TableHolds /\ CallFits /\ MayAsk /\ WireInv

---------------------------------------------------------------------------
LEMMA ExpenseServed ==
    ASSUME WireConstants, NEW r \in ExpenseRow
    PROVE  ParseExpense(ToExpense(r)) /\ MobileParseExpense(ToExpense(r))
<1>1. /\ r.amount \in Number /\ ~r.amount.zero /\ r.reviewedAt \in Nullable({"set"})
      /\ r.status \in ExpenseStatuses
  BY DEF ExpenseRow, ExpenseStatuses
<1>2. IsAmount(ToFixed(r.amount))
  BY <1>1 DEF IsAmount, ToFixed, Number, Text, ResponsePattern, WireConstants
<1>3. /\ ToExpense(r).amount = ToFixed(r.amount) /\ ToExpense(r).status = r.status
      /\ ToExpense(r).reviewedAt = r.reviewedAt
  BY DEF ToExpense, ExpenseRow
<1> QED BY <1>1, <1>2, <1>3 DEF ParseExpense, MobileParseExpense

LEMMA JobServed ==
    ASSUME WireConstants, NEW r \in JobRow
    PROVE  ParseMaintenanceRecord(ToJob(r))
<1>1. /\ r.cost \in Nullable(Number) /\ r.completedAt \in Nullable({"set"})
      /\ r.status \in MaintenanceStatuses /\ r.odometer \in Nullable({0, MaxInt})
  BY DEF JobRow, MaintenanceStatuses
<1>2. NullableCost(IF r.cost = Null THEN Null ELSE ToFixed(r.cost))
  BY <1>1 DEF NullableCost, ToFixed, Number, Nullable, Text, ResponsePattern, WireConstants
<1>3. /\ ToJob(r).cost = (IF r.cost = Null THEN Null ELSE ToFixed(r.cost))
      /\ ToJob(r).status = r.status /\ ToJob(r).odometer = r.odometer
      /\ ToJob(r).completedAt = r.completedAt
  BY DEF ToJob, JobRow
<1>4. r.odometer = Null \/ IsInt(r.odometer)
  BY <1>1 DEF Nullable, IsInt, WireConstants
<1> QED BY <1>1, <1>2, <1>3, <1>4 DEF ParseMaintenanceRecord

LEMMA DriverServed ==
    ASSUME NEW r \in DriverRow PROVE ParseDriver(r)
BY DEF DriverRow, ParseDriver, Nullable

LEMMA VehicleServed ==
    ASSUME WireConstants, NEW r \in VehicleRow PROVE ParseVehicle(r)
BY DEF VehicleRow, ParseVehicle, Nullable, IsInt, WireConstants

LEMMA TripServed ==
    ASSUME NEW r \in TripRow PROVE ParseTrip(r) /\ MobileParseTrip(r)
BY DEF TripRow, ParseTrip, MobileParseTrip, TripStatuses

LEMMA ReceiptServed ==
    ASSUME WireConstants, NEW r \in ReceiptRow PROVE ParseReceipt(r) /\ MobileParseReceipt(r)
BY DEF ReceiptRow, ParseReceipt, MobileParseReceipt, IsInt, WireConstants

\* Whatever row a table may hold, the client that reads it understands it.
LEMMA ServedIsUnderstood ==
    ASSUME WireConstants, kind \in Kind, NEW client \in Client, Serves(client),
           NEW w \in Served
    PROVE  Parses(client, w)
<1>1. PICK r \in Row : w = Wire(r) BY DEF Served
<1>2. CASE kind = "driver"
  <2>1. r \in DriverRow /\ w = r BY <1>1, <1>2 DEF Row, Wire
  <2> QED BY <2>1, <1>2, DriverServed DEF Parses
<1>3. CASE kind = "vehicle"
  <2>1. r \in VehicleRow /\ w = r BY <1>1, <1>3 DEF Row, Wire
  <2> QED BY <2>1, <1>3, VehicleServed DEF Parses
<1>4. CASE kind = "trip"
  <2>1. r \in TripRow /\ w = r BY <1>1, <1>4 DEF Row, Wire
  <2>2. ParseTrip(w) /\ MobileParseTrip(w) BY <2>1, TripServed
  <2>3. CASE client = "web" BY <2>2, <2>3, <1>4 DEF Parses
  <2>4. CASE client = "mobile" BY <2>2, <2>4, <1>4 DEF Parses
  <2> QED BY <2>3, <2>4 DEF Client
<1>5. CASE kind = "expense"
  <2>1. r \in ExpenseRow /\ w = ToExpense(r) BY <1>1, <1>5 DEF Row, Wire
  <2>2. ParseExpense(w) /\ MobileParseExpense(w) BY <2>1, ExpenseServed
  <2>3. CASE client = "web" BY <2>2, <2>3, <1>5 DEF Parses
  <2>4. CASE client = "mobile" BY <2>2, <2>4, <1>5 DEF Parses
  <2> QED BY <2>3, <2>4 DEF Client
<1>6. CASE kind = "receipt"
  <2>1. r \in ReceiptRow /\ w = r BY <1>1, <1>6 DEF Row, Wire
  <2>2. ParseReceipt(w) /\ MobileParseReceipt(w) BY <2>1, ReceiptServed
  <2>3. CASE client = "web" BY <2>2, <2>3, <1>6 DEF Parses
  <2>4. CASE client = "mobile" BY <2>2, <2>4, <1>6 DEF Parses
  <2> QED BY <2>3, <2>4 DEF Client
<1>7. CASE kind = "job"
  <2>1. r \in JobRow /\ w = ToJob(r) BY <1>1, <1>7 DEF Row, Wire
  <2> QED BY <2>1, <1>7, JobServed DEF Parses
<1> QED BY <1>2, <1>3, <1>4, <1>5, <1>6, <1>7 DEF Kind

LEMMA SignedIsUnderstood ==
    ASSUME WireConstants, NEW body \in Authorizations PROVE ParseAuthorization(body)
BY DEF WireConstants, Authorizations, ParseAuthorization
---------------------------------------------------------------------------
\* How an answered call ends: with its status, and understood if expected.
LEMMA AnsweredAsServed ==
    ASSUME WireConstants, WireIndInv, call.at = "answered"
    PROVE  /\ call.client \in Client
           /\ \/ /\ call.op = "read" /\ ~call.wrote /\ call.status = 200
                 /\ Understands(call.client, call.op, call.body)
              \/ /\ call.op = "file" /\ ~call.wrote /\ call.status \in {400, 404, 409, 500}
                 /\ ~Expected(call.client, call.op, call.status)
              \/ /\ call.op = "file" /\ call.wrote /\ call.status \in {200, 201}
                 /\ Expected(call.client, call.op, call.status)
                 /\ Understands(call.client, call.op, call.body)
<1>0. call # NoCall /\ Serves(call.client) /\ (call.op = "file" => MayFile(call.client))
  BY DEF NoCall, WireIndInv, MayAsk
<1>1. CASE call.op = "read" /\ call \in PageCall
  <2>1. /\ call.client \in Client /\ call.status = 200 /\ call.wrote = FALSE
        /\ call.body \subseteq Served
    BY <1>1 DEF PageCall
  <2>2. \A w \in call.body : Parses(call.client, w)
    BY <2>1, <1>0, ServedIsUnderstood DEF WireIndInv
  <2>3. Understands(call.client, call.op, call.body)
    BY <2>2, <1>1 DEF Understands, ParsePage
  <2> QED BY <1>1, <2>1, <2>3
<1>2. CASE call.op = "file" /\ ~call.wrote /\ call \in RefusedCall
  <2>1. call.client \in Client /\ call.status \in {400, 404, 409, 500}
    BY <1>2 DEF RefusedCall, RefusalCode
  <2>2. ~Expected(call.client, call.op, call.status) BY <2>1, <1>2 DEF Expected
  <2> QED BY <1>2, <2>1, <2>2
<1>3. CASE call.op = "file" /\ call.wrote /\ kind # "receipt" /\ call \in FiledCall
  <2>1. call.client \in Client /\ call.status = 201 /\ call.body \in Served
    BY <1>3 DEF FiledCall
  <2>2. Parses(call.client, call.body) BY <2>1, <1>0, ServedIsUnderstood DEF WireIndInv
  <2>3. Understands(call.client, call.op, call.body) BY <2>2, <1>3 DEF Understands
  <2>4. call.client = "web" \/ kind = "expense" BY <1>0, <1>3 DEF MayFile
  <2>5. Expected(call.client, call.op, call.status) BY <2>1, <2>4, <1>3 DEF Expected
  <2> QED BY <1>3, <2>1, <2>3, <2>5
<1>4. CASE call.op = "file" /\ call.wrote /\ kind = "receipt" /\ call \in SignedCall
  <2>1. call.client \in Client /\ call.status = 200 /\ call.body \in Authorizations
    BY <1>4 DEF SignedCall
  <2>2. Understands(call.client, call.op, call.body)
    BY <2>1, <1>4, SignedIsUnderstood DEF Understands
  <2>3. Expected(call.client, call.op, call.status) BY <2>1, <1>4 DEF Expected
  <2> QED BY <1>4, <2>1, <2>2, <2>3
<1> QED BY <1>0, <1>1, <1>2, <1>3, <1>4 DEF WireIndInv, CallFits

LEMMA Codes == 0 \notin 400..499 /\ 500 \notin 400..499 /\ 502 \notin 400..499
OBVIOUS

LEMMA SentWroteNothing ==
    ASSUME WireIndInv, call.at = "sent"
    PROVE  call \in SentCall /\ ~call.wrote
<1>1. call # NoCall BY DEF NoCall
<1>2. call \in SentCall BY <1>1 DEF WireIndInv, CallFits
<1> QED BY <1>2 DEF SentCall

\* What a client is told ends the call.
LEMMA ToldEndsTheCall ==
    ASSUME WireIndInv, NEW says, NEW status, NEW whole, Tell(says, status, whole),
           whole => says # "invalid_response" /\ (call.wrote => says = "ok"),
           status \in 400..499 \/ says = "not_authenticated" => ~call.wrote,
           says = "ok" /\ call.op = "file" => call.wrote
    PROVE  WireIndInv'
<1>1. /\ kind' = kind /\ table' = table /\ call' = NoCall
      /\ told' = [says |-> says, status |-> status, wrote |-> call.wrote, op |-> call.op,
                  whole |-> whole]
  BY DEF Tell
<1>2. WireInv'
  BY <1>1 DEF WireInv, AnswersUnderstood, RefusalWroteNothing, DoneWasDone
<1>3. CallFits' /\ MayAsk' BY <1>1 DEF CallFits, MayAsk
<1>4. TableHolds' BY <1>1 DEF WireIndInv, TableHolds, Row
<1> QED BY <1>1, <1>2, <1>3, <1>4 DEF WireIndInv

\* The rest of the invariant, for a step that tells nothing.
LEMMA UntoldStep ==
    ASSUME WireIndInv, kind' = kind, told' = told, TableHolds', CallFits', MayAsk'
    PROVE  WireIndInv'
BY DEF WireIndInv, WireInv, AnswersUnderstood, RefusalWroteNothing, DoneWasDone

LEMMA RowsStand ==
    ASSUME kind' = kind
    PROVE  Row' = Row /\ Typed' = Typed /\ Served' = Served
BY DEF Row, Typed, Served, Wire

LEMMA CallsStand ==
    ASSUME kind' = kind
    PROVE  /\ SentCall' = SentCall /\ PageCall' = PageCall /\ RefusedCall' = RefusedCall
           /\ FiledCall' = FiledCall /\ SignedCall' = SignedCall
BY RowsStand DEF SentCall, PageCall, RefusedCall, FiledCall, SignedCall, Authorizations, Nullable

\* What the handlers make of a sent call.
Became(status, body, problem, wrote) ==
    call' \in [at : {"answered"}, client : {call.client}, op : {call.op}, input : {call.input},
               status : {status}, body : {body}, problem : {problem}, wrote : {wrote}]

LEMMA AnswerRecord ==
    ASSUME NEW A, NEW C, NEW O, NEW I, NEW S, NEW B, NEW P, NEW W,
           NEW c \in [at : A, client : C, op : O, input : I, status : S, body : B,
                      problem : P, wrote : W],
           NEW status, NEW body, NEW wrote
    PROVE  [c EXCEPT !.at = "answered", !.status = status, !.body = body, !.wrote = wrote]
           \in [at : {"answered"}, client : {c.client}, op : {c.op}, input : {c.input},
               status : {status}, body : {body}, problem : {c.problem}, wrote : {wrote}]
OBVIOUS

LEMMA FailRecord ==
    ASSUME NEW A, NEW C, NEW O, NEW I, NEW S, NEW B, NEW P, NEW W,
           NEW c \in [at : A, client : C, op : O, input : I, status : S, body : B,
                      problem : P, wrote : W],
           NEW status, NEW problem
    PROVE  [c EXCEPT !.at = "answered", !.status = status, !.problem = problem]
           \in [at : {"answered"}, client : {c.client}, op : {c.op}, input : {c.input},
               status : {status}, body : {c.body}, problem : {problem}, wrote : {c.wrote}]
OBVIOUS

LEMMA AnsweredCall ==
    ASSUME WireIndInv, call.at = "sent", NEW status, NEW body, NEW wrote,
           Answer(status, body, wrote)
    PROVE  Became(status, body, Null, wrote)
<1>1. call \in SentCall /\ call.problem = Null BY SentWroteNothing DEF SentCall
<1>2. call' = [call EXCEPT !.at = "answered", !.status = status, !.body = body,
                           !.wrote = wrote]
  BY DEF Answer
<1> QED BY <1>1, <1>2, AnswerRecord DEF Became, SentCall

LEMMA FailedCall ==
    ASSUME WireIndInv, call.at = "sent", NEW status, NEW problem, Fail(status, problem)
    PROVE  Became(status, Null, problem, FALSE)
<1>1. call \in SentCall /\ call.body = Null /\ call.wrote = FALSE
  BY SentWroteNothing DEF SentCall
<1>2. call' = [call EXCEPT !.at = "answered", !.status = status, !.problem = problem]
  BY DEF Fail
<1> QED BY <1>1, <1>2, FailRecord DEF Became, SentCall

LEMMA StillMayAsk ==
    ASSUME WireIndInv, call.at = "sent", kind' = kind,
           call'.client = call.client, call'.op = call.op
    PROVE  MayAsk'
<1>1. call # NoCall BY DEF NoCall
<1> QED BY <1>1 DEF WireIndInv, MayAsk, Serves, MayFile

LEMMA PageReturned ==
    ASSUME WireIndInv, call.at = "sent", kind' = kind, call.op = "read",
           NEW body \in SUBSET Served, Became(200, body, Null, FALSE)
    PROVE  CallFits' /\ MayAsk'
<1>1. call.client \in Client /\ call.input \in Nullable(Typed)
  BY SentWroteNothing DEF SentCall
<1>2. call' \in PageCall BY <1>1 DEF Became, PageCall
<1>3. /\ call'.at = "answered" /\ call'.wrote = FALSE
      /\ call'.client = call.client /\ call'.op = call.op
  BY DEF Became
<1>4. CallFits' BY <1>2, <1>3, CallsStand DEF CallFits
<1> QED BY <1>3, <1>4, StillMayAsk

LEMMA RefusalReturned ==
    ASSUME WireIndInv, call.at = "sent", kind' = kind, call.op = "file",
           NEW status \in RefusalCode, NEW problem \in Problem, Became(status, Null, problem, FALSE)
    PROVE  CallFits' /\ MayAsk'
<1>1. call.client \in Client /\ call.input \in Nullable(Typed)
  BY SentWroteNothing DEF SentCall
<1>2. call' \in RefusedCall BY <1>1 DEF Became, RefusedCall
<1>3. /\ call'.at = "answered" /\ call'.wrote = FALSE
      /\ call'.client = call.client /\ call'.op = call.op
  BY DEF Became
<1>4. CallFits' BY <1>2, <1>3, CallsStand DEF CallFits
<1> QED BY <1>3, <1>4, StillMayAsk

LEMMA RowReturned ==
    ASSUME WireIndInv, call.at = "sent", kind' = kind, call.op = "file", kind # "receipt",
           NEW body \in Served, Became(201, body, Null, TRUE)
    PROVE  CallFits' /\ MayAsk'
<1>1. call.client \in Client /\ call.input \in Nullable(Typed)
  BY SentWroteNothing DEF SentCall
<1>2. call' \in FiledCall BY <1>1 DEF Became, FiledCall
<1>3. /\ call'.at = "answered" /\ call'.wrote = TRUE
      /\ call'.client = call.client /\ call'.op = call.op
  BY DEF Became
<1>4. CallFits' BY <1>2, <1>3, CallsStand DEF CallFits
<1> QED BY <1>3, <1>4, StillMayAsk

LEMMA AuthorizationReturned ==
    ASSUME WireIndInv, call.at = "sent", kind' = kind, call.op = "file", kind = "receipt",
           NEW body \in Authorizations, Became(200, body, Null, TRUE)
    PROVE  CallFits' /\ MayAsk'
<1>1. call.client \in Client /\ call.input \in Nullable(Typed)
  BY SentWroteNothing DEF SentCall
<1>2. call' \in SignedCall BY <1>1 DEF Became, SignedCall
<1>3. /\ call'.at = "answered" /\ call'.wrote = TRUE
      /\ call'.client = call.client /\ call'.op = call.op
  BY DEF Became
<1>4. CallFits' BY <1>2, <1>3, CallsStand DEF CallFits
<1> QED BY <1>3, <1>4, StillMayAsk
---------------------------------------------------------------------------
LEMMA WireStart == ASSUME WireConstants, WireInit PROVE WireIndInv
BY DEF WireInit, WireIndInv, TableHolds, CallFits, MayAsk, WireInv, AnswersUnderstood,
       RefusalWroteNothing, DoneWasDone, NothingTold

LEMMA WireStep == ASSUME WireConstants, WireIndInv, [WireNext]_wireVars PROVE WireIndInv'
<1>1. ASSUME NEW client \in Client, NEW op \in {"read", "file"}, NEW input \in Nullable(Typed),
             Send(client, op, input)
      PROVE  WireIndInv'
  <2>1. /\ kind' = kind /\ table' = table /\ told' = told
        /\ call' = [at |-> "sent", client |-> client, op |-> op, input |-> input,
                    status |-> 0, body |-> Null, problem |-> Null, wrote |-> FALSE]
    BY <1>1 DEF Send
  <2>2. Serves(client) /\ (op = "file" => MayFile(client)) BY <1>1 DEF Send
  <2>3. call' \in SentCall BY <2>1, <1>1 DEF SentCall
  <2>4. SentCall' = SentCall BY <2>1, CallsStand
  <2>7. CallFits' BY <2>1, <2>3, <2>4 DEF CallFits
  <2>8. MayAsk' BY <2>1, <2>2 DEF MayAsk, Serves, MayFile
  <2>9. TableHolds' BY <2>1, RowsStand DEF WireIndInv, TableHolds
  <2> QED BY <2>1, <2>7, <2>8, <2>9, UntoldStep
<1>2. CASE Refuse
  <2>1. \E status \in RefusalCode : Fail(status, "code") BY <1>2 DEF Refuse, RefusalCode
  <2>3. PICK status \in RefusalCode : Fail(status, "code") BY <2>1
  <2>2. call.at = "sent" /\ call.op = "file" /\ kind' = kind /\ table' = table /\ told' = told
    BY <1>2 DEF Refuse
  <2>4. Became(status, Null, "code", FALSE) BY <2>2, <2>3, FailedCall
  <2>5. CallFits' /\ MayAsk' BY <2>2, <2>4, RefusalReturned DEF Problem
  <2>6. TableHolds' BY <2>2, RowsStand DEF WireIndInv, TableHolds
  <2> QED BY <2>2, <2>5, <2>6, UntoldStep
<1>3. CASE Handle
  <2>1. call.at = "sent" /\ kind' = kind /\ told' = told BY <1>3 DEF Handle
  <2>2. call \in SentCall BY <2>1, SentWroteNothing
  <2>3. CASE call.op = "read" /\ Answer(200, {Wire(r) : r \in table}, FALSE) /\ table' = table
    <3>1. {Wire(r) : r \in table} \subseteq Served BY DEF Served, WireIndInv, TableHolds
    <3>2. Became(200, {Wire(r) : r \in table}, Null, FALSE)
      BY <2>1, <2>3, AnsweredCall
    <3>3. CallFits' /\ MayAsk' BY <2>1, <2>3, <3>1, <3>2, PageReturned
    <3>4. TableHolds' BY <2>1, <2>3, RowsStand DEF WireIndInv, TableHolds
    <3> QED BY <2>1, <3>3, <3>4, UntoldStep
  <2>4. ASSUME NEW status \in RefusalCode, NEW problem \in Problem,
               call.op = "file", Fail(status, problem), table' = table
        PROVE  WireIndInv'
    <3>1. Became(status, Null, problem, FALSE) BY <2>1, <2>4, FailedCall
    <3>2. CallFits' /\ MayAsk' BY <2>1, <2>4, <3>1, RefusalReturned
    <3>3. TableHolds' BY <2>1, <2>4, RowsStand DEF WireIndInv, TableHolds
    <3> QED BY <2>1, <3>2, <3>3, UntoldStep
  <2>5. ASSUME call.op = "file", Filed(call.input) \in Row,
               table' = table \cup {Filed(call.input)}, NEW status, NEW body,
               Answer(status, body, TRUE),
               \/ kind # "receipt" /\ status = 201 /\ body \in Served
               \/ kind = "receipt" /\ status = 200 /\ body \in Authorizations
        PROVE  WireIndInv'
    <3>1. Became(status, body, Null, TRUE) BY <2>1, <2>5, AnsweredCall
    <3>2. CallFits' /\ MayAsk'
      <4>1. CASE kind # "receipt" /\ status = 201 /\ body \in Served
        BY <2>1, <2>5, <3>1, <4>1, RowReturned
      <4>2. CASE kind = "receipt" /\ status = 200 /\ body \in Authorizations
        BY <2>1, <2>5, <3>1, <4>2, AuthorizationReturned
      <4> QED BY <2>5, <4>1, <4>2
    <3>3. TableHolds' BY <2>1, <2>5, RowsStand DEF WireIndInv, TableHolds
    <3> QED BY <2>1, <3>2, <3>3, UntoldStep
  <2>6. CASE /\ call.op = "file" /\ Filed(call.input) \in Row
             /\ table' = table \cup {Filed(call.input)}
             /\ IF kind = "receipt"
                THEN \E body \in Authorizations : Answer(200, body, TRUE)
                ELSE Answer(201, Wire(Filed(call.input)), TRUE)
    <3>1. CASE kind = "receipt" BY <2>5, <2>6, <3>1
    <3>2. CASE kind # "receipt"
      <4>1. Wire(Filed(call.input)) \in Served BY <2>6 DEF Served
      <4> QED BY <2>5, <2>6, <3>2, <4>1
    <3> QED BY <3>1, <3>2
  <2>7. CASE call.op = "file" /\ (Fail(400, "list") \/ Fail(500, "message")) /\ table' = table
    <3>1. 400 \in RefusalCode /\ 500 \in RefusalCode BY DEF RefusalCode
    <3>2. "list" \in Problem /\ "message" \in Problem BY DEF Problem
    <3> QED BY <3>1, <3>2, <2>4, <2>7
  <2> QED BY <1>3, <2>3, <2>6, <2>7 DEF Handle
<1>4. CASE Fills
  <2>1. call = NoCall /\ kind' = kind /\ call' = call /\ told' = told BY <1>4 DEF Fills
  <2>2. CallFits' /\ MayAsk' BY <2>1 DEF CallFits, MayAsk, NoCall
  <2>3. PICK r \in Row : table' = table \cup {r} BY <1>4 DEF Fills
  <2>4. TableHolds' BY <2>1, <2>3, RowsStand DEF WireIndInv, TableHolds
  <2> QED BY <2>1, <2>2, <2>4, UntoldStep
<1>5. CASE Arrive
  <2>1. call.at = "answered" BY <1>5 DEF Arrive
  <2>2. CASE ~Expected(call.client, call.op, call.status)
    <3>1. Tell(Reason(call.client, call.problem), call.status, TRUE) BY <1>5, <2>2 DEF Arrive
    <3>2. Reason(call.client, call.problem) \in {"code", "validation", "status"} BY DEF Reason
    <3>3. ~call.wrote BY <2>1, <2>2, AnsweredAsServed DEF Expected
    <3> QED BY <3>1, <3>2, <3>3, ToldEndsTheCall
  <2>3. CASE Expected(call.client, call.op, call.status)
    <3>1. /\ Understands(call.client, call.op, call.body)
          /\ call.status \notin 400..499 /\ (call.op = "file" => call.wrote)
      BY <2>1, <2>3, AnsweredAsServed
    <3>2. Tell("ok", call.status, TRUE) BY <1>5, <2>3, <3>1 DEF Arrive
    <3> QED BY <3>1, <3>2, ToldEndsTheCall
  <2> QED BY <2>2, <2>3
<1>6. CASE Lose
  <2>1. Tell("network", 0, FALSE) BY <1>6 DEF Lose
  <2> QED BY <2>1, Codes, ToldEndsTheCall
<1>7. CASE NotAuthenticated
  <2>1. Tell("not_authenticated", 0, FALSE) /\ ~call.wrote
    BY <1>7, SentWroteNothing DEF NotAuthenticated
  <2> QED BY <2>1, Codes, ToldEndsTheCall
<1>8. CASE GatewayFails
  <2>1. Tell("code", 502, FALSE) \/ Tell("status", 500, FALSE) BY <1>8, Zenon DEF GatewayFails
  <2>2. CASE Tell("code", 502, FALSE) BY <2>2, Codes, ToldEndsTheCall
  <2>3. CASE Tell("status", 500, FALSE) BY <2>3, Codes, ToldEndsTheCall
  <2> QED BY <2>1, <2>2, <2>3
<1>9. CASE CutShort
  <2>1. call.at = "answered" BY <1>9 DEF CutShort
  <2>2. CASE call.client = "mobile"
    <3>1. Tell("network", 0, FALSE) BY <1>9, <2>2 DEF CutShort
    <3> QED BY <3>1, Codes, ToldEndsTheCall
  <2>3. CASE call.client = "web" /\ Expected("web", call.op, call.status)
    <3>1. call.status \notin 400..499 BY <2>1, <2>3, AnsweredAsServed
    <3>2. Tell("invalid_response", call.status, FALSE) BY <1>9, <2>3 DEF CutShort
    <3> QED BY <3>1, <3>2, ToldEndsTheCall
  <2>4. CASE call.client = "web" /\ ~Expected("web", call.op, call.status)
    <3>1. ~call.wrote BY <2>1, <2>4, AnsweredAsServed DEF Expected
    <3>2. Tell("status", call.status, FALSE) BY <1>9, <2>4 DEF CutShort
    <3> QED BY <3>1, <3>2, ToldEndsTheCall
  <2> QED BY <2>1, <2>2, <2>3, <2>4, AnsweredAsServed DEF Client
<1>10. CASE UNCHANGED wireVars
  <2>1. kind' = kind /\ table' = table /\ call' = call /\ told' = told BY <1>10 DEF wireVars
  <2>2. CallFits' BY <2>1, CallsStand DEF CallFits, WireIndInv, NoCall
  <2>3. MayAsk' BY <2>1 DEF MayAsk, WireIndInv, Serves, MayFile, NoCall
  <2>4. TableHolds' BY <2>1, RowsStand DEF WireIndInv, TableHolds
  <2> QED BY <2>1, <2>2, <2>3, <2>4, UntoldStep
<1> QED
  <2>1. Null \in Nullable(Typed) /\ Typed \subseteq Nullable(Typed) BY DEF Nullable
  <2> QED BY <2>1, <1>1, <1>2, <1>3, <1>4, <1>5, <1>6, <1>7, <1>8, <1>9, <1>10 DEF WireNext

\* WireContract: a whole answer is understood whatever the tables hold, a refusal
\* wrote nothing, and "filed" is said of what was filed.
THEOREM WireInvariant == ASSUME WireConstants PROVE WireSpec => []WireInv
<1>1. WireInit => WireIndInv BY WireStart
<1>2. WireIndInv /\ [WireNext]_wireVars => WireIndInv' BY WireStep
<1>3. WireIndInv => WireInv BY DEF WireIndInv
<1> QED BY <1>1, <1>2, <1>3, PTL DEF WireSpec
=============================================================================
