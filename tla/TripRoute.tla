------------------------------ MODULE TripRoute -----------------------------
(***************************************************************************)
(* TripLocationSection: the recorded route of a trip on its admin page, a  *)
(* first page with the latest position and then page after page, over rows *)
(* that keep arriving.  The phone delivers late, so a new row may belong   *)
(* before rows already on screen and shift every offset behind it.         *)
(*                                                                         *)
(* Samples are numbered in the order of (recordedAt, id), the order of the *)
(* API.  A page is read and counted by two statements of one READ          *)
(* COMMITTED transaction, which may each see another set of rows.  Of the  *)
(* list on screen the model has which rows it shows, on how many lines.    *)
(***************************************************************************)
EXTENDS Integers, FiniteSets

CONSTANTS
    Sample,     \* positions of the trip, by their place in its route
    PageSize,   \* PAGE_SIZE of the section
    MaxRun,     \* bound: snapshots asked for
    Missing     \* no position

VARIABLES
    recorded,   \* rows the API has stored
    section,    \* what the section shows
    busy,       \* its controls are disabled
    mounted,    \* the page is still open: liveRef
    run,        \* the snapshot in force: runRef
    asking,     \* requests without an answer yet
    basis       \* what was stored when the rows shown were read, then counted

routeVars == <<recorded, section, busy, mounted, run, asking, basis>>

Blank(kind) ==
    [kind |-> kind, items |-> {}, lines |-> 0, total |-> 0, latest |-> Missing,
     nextPage |-> 1, exhausted |-> FALSE]
Asked(n, refreshing) ==
    [run |-> n, step |-> "history", page |-> 1, keep |-> refreshing, at |-> "asked",
     items |-> {}, total |-> 0, read |-> {}, counted |-> {}]

RouteTypeOK ==
    /\ recorded \subseteq Sample
    /\ section.kind \in {"loading", "empty", "ready", "error"}
    /\ busy \in BOOLEAN /\ mounted \in BOOLEAN /\ run \in 1..MaxRun
    /\ \A a \in asking : a.run \in 1..run /\ a.step \in {"history", "latest", "more"}

\* Development builds run the effect of a mounted component twice.
RouteInit ==
    /\ recorded = {}
    /\ section = Blank("loading") /\ busy = FALSE /\ mounted = TRUE
    /\ run \in {1, 2} /\ asking = {Asked(n, FALSE) : n \in 1..run}
    /\ basis = [read |-> {}, counted |-> {}]
-----------------------------------------------------------------------------
\* The API.
Ingests(s) ==
    /\ s \notin recorded
    /\ recorded' = recorded \cup {s}
    /\ UNCHANGED <<section, busy, mounted, run, asking, basis>>

\* A row's place in the route, and the rows an offset and a limit leave of it.
Place(rows, s) == Cardinality({r \in rows : r <= s})
Window(rows, page) ==
    {s \in rows : Place(rows, s) \in (page - 1) * PageSize + 1..page * PageSize}

Moves(a, b) == asking' = (asking \ {a}) \cup {b}

ReadsPage(a) ==
    /\ a.at = "asked" /\ a.step # "latest"
    /\ Moves(a, [a EXCEPT !.at = "read", !.items = Window(recorded, a.page), !.read = recorded])
    /\ UNCHANGED <<recorded, section, busy, mounted, run, basis>>

CountsRows(a) ==
    /\ a.at = "read"
    /\ Moves(a, [a EXCEPT !.at = "answered", !.total = Cardinality(recorded),
                          !.counted = recorded])
    /\ UNCHANGED <<recorded, section, busy, mounted, run, basis>>
-----------------------------------------------------------------------------
\* The section.
Applies(a) == mounted /\ run = a.run

\* A first load never held the controls; every other request gives them back.
Release(a) == busy' = (busy /\ ~(mounted /\ (a.keep \/ a.step = "more")))

Done(a) == asking' = asking \ {a} /\ Release(a) /\ UNCHANGED <<recorded, mounted, run>>

Superseded(a) ==
    /\ ~Applies(a) /\ a.at \in {"asked", "answered"}
    /\ Done(a) /\ UNCHANGED <<section, basis>>

Fails(a) ==
    /\ Applies(a) /\ a.at # "read"
    /\ section' = IF a.step = "more" \/ (a.keep /\ section.kind = "ready") THEN section
                  ELSE Blank("error")
    /\ Done(a) /\ UNCHANGED basis

HistoryEmpty(a) ==
    /\ Applies(a) /\ a.step = "history" /\ a.at = "answered" /\ a.total = 0
    /\ section' = Blank("empty")
    /\ Done(a) /\ UNCHANGED basis

\* The count says whether there is anything; only then is the latest asked for.
HistoryFound(a) ==
    /\ Applies(a) /\ a.step = "history" /\ a.at = "answered" /\ a.total # 0
    /\ Moves(a, [a EXCEPT !.step = "latest", !.at = "asked"])
    /\ UNCHANGED <<recorded, section, busy, mounted, run, basis>>

LatestArrives(a) ==
    /\ Applies(a) /\ a.step = "latest"
    /\ \E newest \in recorded :
          /\ \A s \in recorded : s <= newest
          /\ section' = [kind |-> "ready", items |-> a.items, lines |-> Cardinality(a.items),
                         total |-> a.total, latest |-> newest, nextPage |-> 2,
                         exhausted |-> FALSE]
    /\ basis' = [read |-> a.read, counted |-> a.counted]
    /\ Done(a)

FreshUnchecked(items) == items
Fresh(items) == items \ section.items

\* Whether the offsets have run out, whatever was repeated.
Exhausts(a) == a.items = {} \/ a.page * PageSize >= a.total

MoreArrives(a) ==
    /\ Applies(a) /\ a.step = "more" /\ a.at = "answered"
    /\ section' = [section EXCEPT !.items = @ \cup Fresh(a.items),
                                  !.lines = @ + Cardinality(Fresh(a.items)),
                                  !.total = a.total, !.nextPage = @ + 1,
                                  !.exhausted = Exhausts(a)]
    /\ basis' = [basis EXCEPT !.counted = a.counted]
    /\ Done(a)
-----------------------------------------------------------------------------
\* The admin.
Refresh ==
    /\ mounted /\ ~busy /\ section.kind # "loading" /\ run < MaxRun
    /\ run' = run + 1 /\ busy' = TRUE
    /\ asking' = asking \cup {Asked(run + 1, TRUE)}
    /\ UNCHANGED <<recorded, section, mounted, basis>>

MoreOffered ==
    /\ section.kind = "ready" /\ ~section.exhausted
    /\ section.lines < section.total

LoadMore ==
    /\ mounted /\ ~busy /\ MoreOffered
    /\ busy' = TRUE
    /\ asking' = asking \cup
           {[Asked(run, FALSE) EXCEPT !.step = "more", !.page = section.nextPage]}
    /\ UNCHANGED <<recorded, section, mounted, run, basis>>

Leave ==
    /\ mounted /\ mounted' = FALSE
    /\ UNCHANGED <<recorded, section, busy, run, asking, basis>>

RouteNext ==
    \/ \E s \in Sample : Ingests(s)
    \/ \E a \in asking :
          \/ ReadsPage(a) \/ CountsRows(a)
          \/ Superseded(a) \/ Fails(a) \/ HistoryEmpty(a) \/ HistoryFound(a)
          \/ LatestArrives(a) \/ MoreArrives(a)
    \/ Refresh \/ LoadMore \/ Leave

RouteSpec == RouteInit /\ [][RouteNext]_routeVars
-----------------------------------------------------------------------------
(* "Showing all n recorded positions" is said of exactly the rows that     *)
(* were stored when they were last counted: no row is shown twice, or one  *)
(* missing row would hide behind a repeated one.                           *)
AllMeansAll ==
    section.kind = "ready" /\ section.lines >= section.total =>
        /\ section.items = basis.counted
        /\ section.lines = Cardinality(basis.counted)

(* When "Load more" is withdrawn, every row stored when the first page was *)
(* read is on screen, however many rows have arrived in front of it since: *)
(* offsets move with the rows, but never past one.                         *)
NothingStranded ==
    section.kind = "ready" /\ ~MoreOffered => basis.read \subseteq section.items

\* Disabled controls wait for a request that will enable them.
BusyIsReleased == busy /\ mounted => \E a \in asking : a.keep \/ a.step = "more"

RouteInv == RouteTypeOK /\ AllMeansAll /\ NothingStranded /\ BusyIsReleased
=============================================================================
