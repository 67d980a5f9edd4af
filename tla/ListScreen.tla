----------------------------- MODULE ListScreen -----------------------------
(***************************************************************************)
(* A list of the office or of the phone: a page of rows under a filter,    *)
(* read again by every search, page turn and retry, and after a row was    *)
(* filed or finished on the same screen.  The screens differ in which of   *)
(* these they offer; the effect that reads and the states are the same     *)
(* code in each.                                                           *)
(*                                                                         *)
(* A button is a discrete event: its state updates are rendered and their  *)
(* effects run before anything else.  Updates made after an await are      *)
(* rendered later, and an answer to the request before may still come in   *)
(* between.                                                                *)
(***************************************************************************)
EXTENDS Integers, FiniteSets

CONSTANTS
    Listed,     \* rows, by their place in the order of the API
    PerPage,    \* PAGE_SIZE
    MaxAsked    \* bound: pages asked for

VARIABLES
    rowsOf,     \* the rows of the table, by status
    list,       \* what is shown: state
    want,       \* the search, page and token in force
    turning,    \* that has changed, and the effect has not run yet
    asks,       \* requests for pages
    filing,     \* the form: its row, and how far it has got
    acting,     \* a row's own control
    owed        \* rows the screen has said were filed

listVars == <<rowsOf, list, want, turning, asks, filing, acting, owed>>

Filter == {"all", "open"}
NotFiling == [at |-> "idle", row |-> 0]

ListTypeOK ==
    /\ rowsOf \in [Listed -> {"absent", "open", "done"}]
    /\ list.kind \in {"loading", "ready", "error"} /\ list.n \in 0..want.n
    /\ list.items \subseteq Listed /\ list.counted \subseteq Listed
    /\ want \in [filter : Filter, page : Nat \ {0}, n : 1..MaxAsked]
    /\ turning \in BOOLEAN /\ owed \subseteq Listed
    /\ asks \subseteq [n : 1..want.n, filter : Filter, page : Nat \ {0}, live : BOOLEAN,
                      at : {"asked", "read", "answered"},
                      items : SUBSET Listed, counted : SUBSET Listed]
    /\ filing \in [at : {"idle", "sent", "ok", "failed"}, row : Listed \cup {0}]
    /\ acting \in [at : {"idle", "sent", "ok", "stale", "failed"}, row : Listed \cup {0}]

PageRequest(w) == [n |-> w.n, filter |-> w.filter, page |-> w.page, live |-> TRUE, at |-> "asked",
               items |-> {}, counted |-> {}]
Blank(n) == [kind |-> "loading", items |-> {}, total |-> 0, counted |-> {}, n |-> n]

ListInit ==
    /\ rowsOf = [r \in Listed |-> "absent"]
    /\ want = [filter |-> "all", page |-> 1, n |-> 1]
    /\ list = Blank(0) /\ turning = FALSE /\ asks = {PageRequest(want)}
    /\ filing = NotFiling /\ acting = NotFiling /\ owed = {}
-----------------------------------------------------------------------------
(* The API. *)

Present == {r \in Listed : rowsOf[r] # "absent"}
Matching(f) == IF f = "all" THEN Present ELSE {r \in Listed : rowsOf[r] = "open"}

\* skip and take: the rows with so many before them.
Before(r, rows) == Cardinality({q \in rows : q < r})
Window(f, page) ==
    {r \in Matching(f) : Before(r, Matching(f)) \in (page - 1) * PerPage .. page * PerPage - 1}

Advances(a, b) == asks' = (asks \ {a}) \cup {b}

\* findMany and count are two statements of one READ COMMITTED transaction.
ReadsPage(a) ==
    /\ a.at = "asked"
    /\ Advances(a, [a EXCEPT !.at = "read", !.items = Window(a.filter, a.page)])
    /\ UNCHANGED <<rowsOf, list, want, turning, filing, acting, owed>>

CountsRows(a) ==
    /\ a.at = "read"
    /\ Advances(a, [a EXCEPT !.at = "answered", !.counted = Matching(a.filter)])
    /\ UNCHANGED <<rowsOf, list, want, turning, filing, acting, owed>>

\* Other people file and finish rows, and so does a request given up here.
OthersWork(r) ==
    /\ rowsOf[r] # "done"
    /\ rowsOf' = [rowsOf EXCEPT ![r] = IF @ = "absent" THEN "open" ELSE "done"]
    /\ UNCHANGED <<list, want, turning, asks, filing, acting, owed>>

Files(r) ==
    /\ filing.at = "sent" /\ rowsOf[r] = "absent"
    /\ rowsOf' = [rowsOf EXCEPT ![r] = "open"]
    /\ filing' = [at |-> "ok", row |-> r]
    /\ UNCHANGED <<list, want, turning, asks, acting, owed>>

\* Finished here, or found finished by somebody else.
Finishes ==
    /\ acting.at = "sent"
    /\ rowsOf' = [rowsOf EXCEPT ![acting.row] = "done"]
    /\ acting' = [acting EXCEPT !.at = IF rowsOf[acting.row] = "open" THEN "ok" ELSE "stale"]
    /\ UNCHANGED <<list, want, turning, asks, filing, owed>>

RequestLost ==
    /\ \/ filing.at = "sent" /\ filing' = [filing EXCEPT !.at = "failed"] /\ UNCHANGED acting
       \/ acting.at = "sent" /\ acting' = [acting EXCEPT !.at = "failed"] /\ UNCHANGED filing
    /\ UNCHANGED <<rowsOf, list, want, turning, asks, owed>>
-----------------------------------------------------------------------------
(* The effect that reads. *)

Withdrawn == {[a EXCEPT !.live = FALSE] : a \in asks}

\* Variant: the cleanup of the effect forgotten.
InForceAlways(a) == TRUE
InForce(a) == a.live

Arrives(a) ==
    /\ a.at = "answered"
    /\ asks' = asks \ {a}
    /\ list' = IF ~InForce(a) THEN list
               ELSE [kind |-> "ready", items |-> a.items, total |-> Cardinality(a.counted),
                     counted |-> a.counted, n |-> a.n]
    /\ UNCHANGED <<rowsOf, want, turning, filing, acting, owed>>

ReadFails(a) ==
    /\ asks' = asks \ {a}
    /\ list' = IF InForce(a) THEN [Blank(a.n) EXCEPT !.kind = "error"] ELSE list
    /\ UNCHANGED <<rowsOf, want, turning, filing, acting, owed>>

\* A button: the loading state, the new search and its request at once.
Turns(filter, page) ==
    /\ want.n < MaxAsked
    /\ want' = [filter |-> filter, page |-> page, n |-> want.n + 1]
    /\ list' = Blank(list.n) /\ turning' = FALSE
    /\ asks' = Withdrawn \cup {PageRequest(want')}
    /\ UNCHANGED <<rowsOf, filing, acting, owed>>

Submit == \E f \in Filter : Turns(f, 1)
Retry == list.kind = "error" /\ Turns(want.filter, want.page)

PagerShown == list.kind = "ready" /\ list.items # {}
Previous == PagerShown /\ want.page > 1 /\ Turns(want.filter, want.page - 1)
NextPage == PagerShown /\ want.page * PerPage < list.total /\ Turns(want.filter, want.page + 1)

\* After an await: the loading state and the token are only queued.  Each
\* callback changes the token, for page 1 may be the page already shown.
Reloads(page) ==
    /\ want.n < MaxAsked
    /\ want' = [want EXCEPT !.page = page, !.n = @ + 1]
    /\ list' = Blank(list.n) /\ turning' = TRUE
    /\ UNCHANGED asks

Renders ==
    /\ turning /\ turning' = FALSE
    /\ asks' = Withdrawn \cup {PageRequest(want)}
    /\ UNCHANGED <<rowsOf, list, want, filing, acting, owed>>
-----------------------------------------------------------------------------
(* The form, and the control of a row. *)

SendFiling ==
    /\ filing.at = "idle" /\ filing' = [NotFiling EXCEPT !.at = "sent"]
    /\ UNCHANGED <<rowsOf, list, want, turning, asks, acting, owed>>

Created ==
    /\ filing.at = "ok" /\ filing' = NotFiling
    /\ owed' = owed \cup {filing.row}
    /\ Reloads(1)
    /\ UNCHANGED <<rowsOf, acting>>

\* The values typed stay put, and may be sent again.
FilingFailed ==
    /\ filing.at = "failed" /\ filing' = NotFiling
    /\ UNCHANGED <<rowsOf, list, want, turning, asks, acting, owed>>

\* Offered by the rows on the page.  Bound: one row's request at a time.
SendAction(r) ==
    /\ list.kind = "ready" /\ r \in list.items /\ acting.at = "idle"
    /\ acting' = [at |-> "sent", row |-> r]
    /\ UNCHANGED <<rowsOf, list, want, turning, asks, filing, owed>>

\* onChanged and onStale: the same page again.
Changed ==
    /\ acting.at \in {"ok", "stale"} /\ acting' = NotFiling
    /\ Reloads(want.page)
    /\ UNCHANGED <<rowsOf, filing, owed>>

ActionFailed ==
    /\ acting.at = "failed" /\ acting' = NotFiling
    /\ UNCHANGED <<rowsOf, list, want, turning, asks, filing, owed>>

ListNext ==
    \/ \E r \in Listed : OthersWork(r) \/ Files(r) \/ SendAction(r)
    \/ \E a \in asks : ReadsPage(a) \/ CountsRows(a) \/ Arrives(a) \/ ReadFails(a)
    \/ Finishes \/ RequestLost \/ Renders
    \/ Submit \/ Retry \/ Previous \/ NextPage
    \/ SendFiling \/ Created \/ FilingFailed \/ Changed \/ ActionFailed

ListSpec == ListInit /\ [][ListNext]_listVars
-----------------------------------------------------------------------------
Settled == ~turning /\ ~\E a \in asks : a.live

(* With no request of its own under way a screen shows the answer to the   *)
(* search, page and token in force, however the answers to earlier ones    *)
(* came in.                                                                *)
SettledIsCurrent == Settled => list.kind # "loading" /\ list.n = want.n

(* What the screen has said was filed is among the rows the list on it has *)
(* counted: it was read again, and after the filing.                       *)
FiledIsCounted ==
    Settled /\ list.kind = "ready" /\ want.filter = "all" => owed \subseteq list.counted

ListInv == ListTypeOK /\ SettledIsCurrent /\ FiledIsCounted
=============================================================================
