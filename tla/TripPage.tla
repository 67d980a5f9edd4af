------------------------------ MODULE TripPage ------------------------------
(***************************************************************************)
(* TripDetail, the admin's page of one trip, with the three sections that  *)
(* change it: the text (TripForm), the assignment and the lifecycle.  Each *)
(* section disables itself while its own request is under way and takes no *)
(* notice of the others; every one hands the answer to the page, which     *)
(* shows whatever was handed to it last.  Text and assignment are on the   *)
(* page only while it shows a planned trip; what they had sent when they   *)
(* went is still answered.                                                 *)
(*                                                                         *)
(* The lists of drivers and of vehicles are the same code twice; the       *)
(* drivers stand for both.  Schedules and texts are left out.              *)
(***************************************************************************)
EXTENDS Naturals, FiniteSets

CONSTANTS
    Driver, NoDriver,
    MaxSent,    \* bound: changes of this page without an answer
    MaxReads    \* bound: reads of drivers without an answer

VARIABLES
    row,        \* the trip, in the database
    page,       \* what is shown
    load,       \* the page's own read
    sent,       \* changes asked for, not yet taken notice of
    asked,      \* TripLifecycle: the action its question was about
    chosen,     \* TripAssignment: the driver selected
    candidates, \* its list
    currentDriver, \* the assigned driver as it last read it
    reads       \* its reads

pageVars == <<row, page, load, sent, asked, chosen, candidates, currentDriver, reads>>

Section == {"form", "assignment", "lifecycle"}
Planned == {"DRAFT", "ASSIGNED"}
Nothing == [status |-> "DRAFT", driver |-> NoDriver]
Unread == [driver |-> NoDriver, active |-> FALSE, missed |-> FALSE]

PageTypeOK ==
    /\ row.driver \in Driver \cup {NoDriver}
    /\ page.kind \in {"loading", "missing", "error", "ready"}
    /\ \A s \in sent : s.section \in Section /\ s.at \in {"sent", "ok", "refused"}
    /\ asked \in {"none", "cancel", "verify", "close"}
    /\ chosen \in Driver \cup {NoDriver} /\ candidates \subseteq Driver
    /\ currentDriver.driver \in Driver \cup {NoDriver}
    /\ \A r \in reads : r.of \in {"list"} \cup Driver /\ r.live \in BOOLEAN

\* The state of a section that is not on the page is lost.
PageInit ==
    /\ row = Nothing
    /\ page = [kind |-> "loading", row |-> row]
    /\ load = [at |-> "sent", row |-> row]
    /\ sent = {} /\ asked = "none"
    /\ chosen = NoDriver /\ candidates = {} /\ currentDriver = Unread /\ reads = {}
-----------------------------------------------------------------------------
(* The API, and everybody else who works on this trip. *)

Follows(new) ==
    \/ row.status \in Planned /\ new.status = "CANCELLED" /\ new.driver = row.driver
    \/ row.status \in Planned /\ new.status = "ASSIGNED" /\ new.driver \in Driver
    \/ /\ <<row.status, new.status>> \in
              {<<"ASSIGNED", "IN_PROGRESS">>, <<"IN_PROGRESS", "COMPLETED">>,
               <<"COMPLETED", "VERIFIED">>, <<"VERIFIED", "CLOSED">>}
       /\ new.driver = row.driver

Rows == [status : {"ASSIGNED", "IN_PROGRESS", "COMPLETED", "VERIFIED", "CLOSED", "CANCELLED"},
         driver : Driver \cup {NoDriver}]

\* The driver, another admin, or a request of this page given up long ago.
Elsewhere ==
    /\ \E new \in Rows : Follows(new) /\ row' = new
    /\ UNCHANGED <<page, load, sent, asked, chosen, candidates, currentDriver, reads>>

Result(s) ==
    CASE s.what = "update" -> row
      [] s.what = "assign" -> [status |-> "ASSIGNED", driver |-> s.driver]
      [] s.what = "cancel" -> [row EXCEPT !.status = "CANCELLED"]
      [] s.what = "verify" -> [row EXCEPT !.status = "VERIFIED"]
      [] s.what = "close"  -> [row EXCEPT !.status = "CLOSED"]

Allowed(s) ==
    IF s.what = "update" THEN row.status \in Planned ELSE Follows(Result(s))

Handled(s) ==
    /\ s.at = "sent" /\ Allowed(s)
    /\ row' = Result(s)
    /\ sent' = (sent \ {s}) \cup {[s EXCEPT !.at = "ok", !.driver = NoDriver, !.row = Result(s)]}
    /\ UNCHANGED <<page, load, asked, chosen, candidates, currentDriver, reads>>

\* The rule, the list of schedules, or the network.
Refused(s) ==
    /\ s.at = "sent"
    /\ sent' = (sent \ {s}) \cup {[s EXCEPT !.at = "refused"]}
    /\ UNCHANGED <<row, page, load, asked, chosen, candidates, currentDriver, reads>>

LoadRead ==
    /\ load.at = "sent"
    /\ load' \in {[at |-> a, row |-> row] : a \in {"ok", "missing", "error"}}
    /\ UNCHANGED <<row, page, sent, asked, chosen, candidates, currentDriver, reads>>
-----------------------------------------------------------------------------
(* What the page is handed, it shows; the sections follow. *)

Plannable(p) == p.kind = "ready" /\ p.row.status \in Planned

Read(of) == [of |-> of, live |-> TRUE]
Withdrawn(which) == {IF r.of \in which THEN [r EXCEPT !.live = FALSE] ELSE r : r \in reads}
ReadsOf(d) == IF d = NoDriver THEN {} ELSE {Read(d)}

Mounts(d) ==
    /\ chosen' = d /\ candidates' = {} /\ currentDriver' = Unread
    /\ reads' = Withdrawn(Driver \cup {"list"}) \cup {Read("list")} \cup ReadsOf(d)
Unmounts ==
    /\ chosen' = NoDriver /\ candidates' = {} /\ currentDriver' = Unread
    /\ reads' = Withdrawn(Driver \cup {"list"})

\* The effect on trip.driverId: the read under way is for the driver before.
Follow(d) ==
    /\ reads' = Withdrawn(Driver) \cup ReadsOf(d)
    /\ currentDriver' = IF d = NoDriver THEN Unread ELSE [currentDriver EXCEPT !.missed = FALSE]
    /\ UNCHANGED candidates

\* The sections, when the page goes from `page` to p; the driver selected by
\* the admin stays unless an assignment was answered.
SectionsFollow(p, pick) ==
    \/ Plannable(p) /\ ~Plannable(page) /\ Mounts(p.row.driver)
    \/ ~Plannable(p) /\ Plannable(page) /\ Unmounts
    \/ /\ Plannable(p) /\ Plannable(page) /\ chosen' = pick
       /\ \/ p.row.driver # page.row.driver /\ Follow(p.row.driver)
          \/ p.row.driver = page.row.driver /\ UNCHANGED <<candidates, currentDriver, reads>>
    \/ ~Plannable(p) /\ ~Plannable(page) /\ UNCHANGED <<chosen, candidates, currentDriver, reads>>

\* Requests of sections that leave the page with it.
Orphans(p, rest) ==
    {IF s.section # "lifecycle" /\ ~Plannable(p) THEN [s EXCEPT !.orphan = TRUE] ELSE s : s \in rest}

Loads ==
    /\ load.at \in {"ok", "missing", "error"}
    /\ page' = [kind |-> IF load.at = "ok" THEN "ready" ELSE load.at,
                row |-> load.row]
    /\ load' = [at |-> "done", row |-> Nothing]
    /\ SectionsFollow(page', chosen)
    /\ Cardinality(reads') <= MaxReads
    /\ UNCHANGED <<row, sent, asked>>

\* Variant: the question stays open after the answer.
ClosesQuestionOnRefusal(s) ==
    asked' = IF s.section = "lifecycle" /\ s.at = "refused" THEN "none" ELSE asked
ClosesQuestion(s) ==
    asked' = IF s.section = "lifecycle" THEN "none" ELSE asked

AnswerTaken(s) ==
    /\ s.at = "ok"
    /\ page' = [page EXCEPT !.row = s.row]
    /\ ClosesQuestion(s)
    /\ SectionsFollow(page', IF s.section = "assignment" /\ ~s.orphan THEN s.row.driver ELSE chosen)
    /\ Cardinality(reads') <= MaxReads
    /\ sent' = Orphans(page', sent \ {s})
    /\ UNCHANGED <<row, load>>

\* The error is shown and the trip left as it was.
RefusalTaken(s) ==
    /\ s.at = "refused"
    /\ ClosesQuestion(s)
    /\ sent' = sent \ {s}
    /\ UNCHANGED <<row, page, load, chosen, candidates, currentDriver, reads>>
-----------------------------------------------------------------------------
(* The admin. *)

Busy(section) == \E s \in sent : s.section = section /\ ~s.orphan

Sends(section, what, d) ==
    /\ ~Busy(section) /\ Cardinality(sent) < MaxSent
    /\ sent' = sent \cup {[section |-> section, what |-> what, driver |-> d, at |-> "sent",
                           row |-> Nothing, orphan |-> FALSE]}
    /\ UNCHANGED <<row, page, load, asked, chosen, candidates, currentDriver, reads>>

SaveText == Plannable(page) /\ Sends("form", "update", NoDriver)

\* withCurrent: the assigned driver is added to the active ones.
Options == candidates \cup ({currentDriver.driver} \ {NoDriver})
KnownInactive(d) == d \notin candidates /\ d = currentDriver.driver /\ ~currentDriver.active

Choose(d) ==
    /\ Plannable(page) /\ ~Busy("assignment") /\ d \in Options \cup {NoDriver}
    /\ chosen' = d
    /\ UNCHANGED <<row, page, load, sent, asked, candidates, currentDriver, reads>>

\* The select is `required`: one whose value is none of its options is empty.
Assign ==
    /\ Plannable(page) /\ chosen \in Options /\ ~KnownInactive(chosen)
    /\ Sends("assignment", "assign", chosen)

SearchAgain ==
    /\ Plannable(page) /\ ~Busy("assignment")
    /\ reads' = Withdrawn({"list"}) \cup {Read("list")}
    /\ Cardinality(reads') <= MaxReads
    /\ UNCHANGED <<row, page, load, sent, asked, chosen, candidates, currentDriver>>

InForce(r) == r.live

\* The search finds some of the drivers that are ACTIVE, whichever those are.
ListArrives(r) ==
    /\ r.of = "list"
    /\ candidates' \in IF InForce(r) THEN SUBSET Driver ELSE {candidates}
    /\ reads' = reads \ {r}
    /\ UNCHANGED <<row, page, load, sent, asked, chosen, currentDriver>>

DriverArrives(r) ==
    /\ r.of # "list"
    /\ currentDriver' \in IF InForce(r) THEN [driver : {r.of}, active : BOOLEAN, missed : {FALSE}]
                    ELSE {currentDriver}
    /\ reads' = reads \ {r}
    /\ UNCHANGED <<row, page, load, sent, asked, chosen, candidates>>

\* Nothing is said about it: the list, or the driver before, stays.
ReadFails(r) ==
    /\ currentDriver' = [currentDriver EXCEPT !.missed = @ \/ (r.live /\ r.of # "list")]
    /\ reads' = reads \ {r}
    /\ UNCHANGED <<row, page, load, sent, asked, chosen, candidates>>

\* actionFor: the one transition an admin has from a status.
ActionFor(status) ==
    IF status \in Planned THEN "cancel"
    ELSE IF status = "COMPLETED" THEN "verify"
    ELSE IF status = "VERIFIED" THEN "close" ELSE "none"
Offered == IF page.kind = "ready" THEN ActionFor(page.row.status) ELSE "none"

AskFirst ==
    /\ Offered # "none" /\ asked = "none" /\ ~Busy("lifecycle")
    /\ asked' = Offered
    /\ UNCHANGED <<row, page, load, sent, chosen, candidates, currentDriver, reads>>

KeepTrip ==
    /\ Offered # "none" /\ asked # "none" /\ ~Busy("lifecycle")
    /\ asked' = "none"
    /\ UNCHANGED <<row, page, load, sent, chosen, candidates, currentDriver, reads>>

Apply == Offered # "none" /\ asked # "none" /\ Sends("lifecycle", Offered, NoDriver)

PageNext ==
    \/ Elsewhere \/ LoadRead \/ Loads
    \/ \E d \in Driver \cup {NoDriver} : Choose(d)
    \/ \E s \in sent : Handled(s) \/ Refused(s) \/ AnswerTaken(s) \/ RefusalTaken(s)
    \/ \E r \in reads : ListArrives(r) \/ DriverArrives(r) \/ ReadFails(r)
    \/ SaveText \/ Assign \/ SearchAgain \/ AskFirst \/ KeepTrip \/ Apply

PageSpec == PageInit /\ [][PageNext]_pageVars
-----------------------------------------------------------------------------
(* What the admin confirms is what was asked: a question left open when    *)
(* the trip moves on under it never turns into the confirmation of the     *)
(* next, irreversible, step.                                               *)
ConfirmsWhatWasAsked == asked # "none" /\ Offered # "none" => asked = Offered

(* Once the list and the assigned driver have been read, the selection     *)
(* offers the driver the trip on the page has: inactive or not in the      *)
(* search, it would otherwise lose its own value.                          *)
AssignedIsOffered ==
    /\ Plannable(page) /\ page.row.driver # NoDriver /\ ~currentDriver.missed
    /\ ~\E r \in reads : r.live /\ r.of # "list"
    => page.row.driver \in Options

TripPageInv == PageTypeOK /\ ConfirmsWhatWasAsked /\ AssignedIsOffered

=============================================================================
