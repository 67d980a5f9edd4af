------------------------------ MODULE DriverTrip ------------------------------
(***************************************************************************)
(* The driver's screen of one trip, DriverTripDetailScreen, and what it    *)
(* waits for: the read of the trip, and the start or the completion that   *)
(* the orchestrator makes for it, each a call that may be applied and its  *)
(* answer lost.  What the driver is told is taken from a trip the API gave *)
(* and from nothing else.                                                  *)
(*                                                                         *)
(* Of the orchestrator what its caller hears is kept; what it does with    *)
(* the capture meanwhile is in TripTracking.                               *)
(***************************************************************************)
EXTENDS Naturals, Sequences, FiniteSets

CONSTANTS
    MaxReads,   \* bound: reads without an answer
    MaxCalls    \* bound: mutations without an end, of this screen and of those before

VARIABLES
    trip,       \* its status, and whether it is this driver's
    screen,     \* what is shown
    reads,      \* of the screen's effect
    calls       \* mutations, at the orchestrator

tripVars == <<trip, screen, reads, calls>>

Stage == <<"ASSIGNED", "IN_PROGRESS", "COMPLETED", "VERIFIED", "CLOSED">>
Status == {Stage[i] : i \in DOMAIN Stage} \cup {"CANCELLED"}
Rank(status) ==
    IF status = "CANCELLED" THEN 5 ELSE CHOOSE i \in DOMAIN Stage : Stage[i] = status
Reached(status) == Rank(trip.status) >= Rank(status) /\ trip.status # "CANCELLED"

Away == [at |-> "list", shown |-> "none", asked |-> "none", busy |-> FALSE,
         says |-> "nothing", expense |-> FALSE]
Loading == [Away EXCEPT !.at = "loading"]

DriverTripTypeOK ==
    /\ trip.status \in Status /\ trip.mine \in BOOLEAN
    /\ screen.at \in {"list", "loading", "ready", "missing", "error"}
    /\ screen.shown \in Status \cup {"none"}
    /\ screen.asked \in {"none", "start", "complete"}
    /\ \A r \in reads : r.live \in BOOLEAN
    /\ \A c \in calls : c.at \in {"admission", "sent", "unanswered", "given", "thrown", "blocked"}

DriverTripInit ==
    /\ trip = [status |-> "ASSIGNED", mine |-> TRUE]
    /\ screen = Away /\ reads = {} /\ calls = {}
-----------------------------------------------------------------------------
(* The API. *)

\* Another phone, the office, or a request whose caller has given it up.  A
\* driver is not unlinked from a trip that runs.
Elsewhere ==
    /\ \/ \E i \in 1 .. Len(Stage) - 1 :
             trip.status = Stage[i] /\ trip' = [trip EXCEPT !.status = Stage[i + 1]]
       \/ trip.status = "ASSIGNED" /\ trip' = [trip EXCEPT !.status = "CANCELLED"]
       \/ trip.status # "IN_PROGRESS" /\ trip' = [trip EXCEPT !.mine = ~@]
    /\ UNCHANGED <<screen, reads, calls>>

\* Another driver's trip reads like one that does not exist.
Reading == IF trip.mine THEN trip.status ELSE "missing"

IsRead(r) ==
    /\ r.got = "nothing"
    /\ reads' = (reads \ {r}) \cup {[r EXCEPT !.got = Reading]}
    /\ UNCHANGED <<trip, screen, calls>>

Becomes(c, d) == calls' = (calls \ {c}) \cup {d}
Gives(c, status) == Becomes(c, [c EXCEPT !.at = "given", !.got = status])
Throws(c) == Becomes(c, [c EXCEPT !.at = "thrown"])

Needs(what) == IF what = "start" THEN "ASSIGNED" ELSE "IN_PROGRESS"
Makes(what) == IF what = "start" THEN "IN_PROGRESS" ELSE "COMPLETED"

\* Applied, and the answer may be lost.
Applied(c) ==
    /\ c.at = "sent" /\ trip.mine /\ trip.status = Needs(c.what)
    /\ trip' = [trip EXCEPT !.status = Makes(c.what)]
    /\ Gives(c, Makes(c.what)) \/ Becomes(c, [c EXCEPT !.at = "unanswered"])
    /\ UNCHANGED <<screen, reads>>

\* A rule refuses it, or the network; or the login is over and nothing is read.
NotApplied(c) ==
    /\ c.at = "sent"
    /\ Becomes(c, [c EXCEPT !.at = "unanswered"]) \/ Throws(c)
    /\ UNCHANGED <<trip, screen, reads>>

\* Variant: a call without an answer is taken for one that landed.
ChecksNothing(c) ==
    /\ c.at = "unanswered" /\ Gives(c, Makes(c.what))
    /\ UNCHANGED <<trip, screen, reads>>
\* The one read after a call without an answer: did it land?
Landed(c, status) ==
    IF c.what = "start" THEN status = "IN_PROGRESS" ELSE status # "IN_PROGRESS"
Checks(c) ==
    /\ c.at = "unanswered"
    /\ IF Reading # "missing" /\ Landed(c, Reading) THEN Gives(c, Reading) ELSE Throws(c)
    /\ UNCHANGED <<trip, screen, reads>>

CheckFails(c) ==
    /\ c.at = "unanswered" /\ Throws(c)
    /\ UNCHANGED <<trip, screen, reads>>

\* The capture is paused before a completion, or the completion is not made.
Admits(c) ==
    /\ c.at = "admission"
    /\ \E at \in {"sent", "blocked"} : Becomes(c, [c EXCEPT !.at = at])
    /\ UNCHANGED <<trip, screen, reads>>
-----------------------------------------------------------------------------
(* The screen. *)

Reads == reads' = {[r EXCEPT !.live = FALSE] : r \in reads} \cup {[live |-> TRUE, got |-> "nothing"]}

Open ==
    /\ screen.at = "list" /\ screen' = Loading /\ Reads
    /\ Cardinality(reads') <= MaxReads
    /\ UNCHANGED <<trip, calls>>

Gone ==
    /\ screen' = Away
    /\ reads' = {[r EXCEPT !.live = FALSE] : r \in reads}
    /\ calls' = {[c EXCEPT !.mounted = FALSE] : c \in calls}
    /\ UNCHANGED trip

\* The way out is closed until the request has settled.
Back == screen.at # "list" /\ ~screen.busy /\ ~screen.expense /\ Gone
AuthenticationEnds == screen.at # "list" /\ Gone

Arrives(r) ==
    /\ r.got # "nothing" /\ reads' = reads \ {r}
    /\ screen' = IF ~r.live THEN screen
                 ELSE IF r.got = "missing" THEN [screen EXCEPT !.at = "missing"]
                 ELSE [screen EXCEPT !.at = "ready", !.shown = r.got]
    /\ UNCHANGED <<trip, calls>>

ReadFails(r) ==
    /\ reads' = reads \ {r}
    /\ screen' = IF r.live THEN [screen EXCEPT !.at = "error"] ELSE screen
    /\ UNCHANGED <<trip, calls>>

\* Variant: the trip on screen may be read again at any time.
RetryAnytime == screen.at \in {"error", "ready"}
RetryOffered == screen.at = "error" /\ ~screen.expense
Retry ==
    /\ RetryOffered
    /\ screen' = [screen EXCEPT !.at = IF @ = "error" THEN "loading" ELSE @]
    /\ Reads /\ Cardinality(reads') <= MaxReads
    /\ UNCHANGED <<trip, calls>>

\* One expense in place of the trip; the trip's own state is kept.
TurnsToExpense ==
    /\ screen.expense \/ screen.at = "ready"
    /\ screen' = [screen EXCEPT !.expense = ~@]
    /\ UNCHANGED <<trip, reads, calls>>

Action ==
    CASE screen.at = "ready" /\ screen.shown = "ASSIGNED" -> "start"
      [] screen.at = "ready" /\ screen.shown = "IN_PROGRESS" -> "complete"
      [] OTHER -> "none"
Offered == Action # "none" /\ ~screen.busy /\ ~screen.expense

Ask ==
    /\ Offered /\ screen.asked = "none"
    /\ screen' = [screen EXCEPT !.asked = Action]
    /\ UNCHANGED <<trip, reads, calls>>
Keep ==
    /\ Offered /\ screen.asked # "none"
    /\ screen' = [screen EXCEPT !.asked = "none"]
    /\ UNCHANGED <<trip, reads, calls>>

Apply ==
    /\ Offered /\ screen.asked # "none" /\ Cardinality(calls) < MaxCalls
    /\ screen' = [screen EXCEPT !.busy = TRUE, !.says = "nothing"]
    /\ calls' = calls \cup {[what |-> Action, got |-> "nothing", mounted |-> TRUE,
                             at |-> IF Action = "start" THEN "sent" ELSE "admission"]}
    /\ UNCHANGED <<trip, reads>>

\* startOutcome and completeOutcome, of the trip and not of the button.
Outcome(what, status) ==
    IF what = "start" THEN IF status = "IN_PROGRESS" THEN "started" ELSE "not in progress"
    ELSE IF status = "IN_PROGRESS" THEN "still in progress"
    ELSE IF status \in {"COMPLETED", "VERIFIED", "CLOSED"} THEN "completed" ELSE "too late"

AfterCall(c) ==
    CASE c.at = "given" -> [screen EXCEPT !.at = "ready", !.shown = c.got,
                                          !.says = Outcome(c.what, c.got)]
      [] c.at = "thrown" -> [screen EXCEPT !.says = "failed"]
      [] c.at = "blocked" -> [screen EXCEPT !.says = "not paused"]
\* Variant: the question stays open.
AtRestAsking(s) == [s EXCEPT !.busy = FALSE]
AtRest(s) == [s EXCEPT !.busy = FALSE, !.asked = "none"]

Settles(c) ==
    /\ c.at \in {"given", "thrown", "blocked"}
    /\ calls' = calls \ {c}
    /\ screen' = IF c.mounted THEN AtRest(AfterCall(c)) ELSE screen
    /\ UNCHANGED <<trip, reads>>

DriverTripNext ==
    \/ Elsewhere \/ Open \/ Back \/ AuthenticationEnds \/ Retry \/ TurnsToExpense
    \/ Ask \/ Keep \/ Apply
    \/ \E r \in reads : IsRead(r) \/ Arrives(r) \/ ReadFails(r)
    \/ \E c \in calls :
         \/ Applied(c) \/ NotApplied(c) \/ Checks(c) \/ CheckFails(c)
         \/ Admits(c) \/ Settles(c)

DriverTripSpec == DriverTripInit /\ [][DriverTripNext]_tripVars
-----------------------------------------------------------------------------
(* "Trip started." and "Trip completed." are said of a trip that was, for  *)
(* whichever reason the answer to its call did not come.                   *)
SaysWhatHappened ==
    /\ screen.says = "started" => Reached("IN_PROGRESS")
    /\ screen.says = "completed" => Reached("COMPLETED")

(* What the driver confirms is the question that was asked: no press of    *)
(* "confirm" meant for a start completes the trip.                         *)
ConfirmsWhatWasAsked ==
    screen.asked # "none" /\ Action # "none" => screen.asked = Action

DriverTripInv == DriverTripTypeOK /\ SaysWhatHappened /\ ConfirmsWhatWasAsked

(* A trip on screen does not go back to an earlier stage.                  *)
NeverBack ==
    screen.at = "ready" /\ screen'.at = "ready" => Rank(screen'.shown) >= Rank(screen.shown)
NeverGoesBack == [][NeverBack]_screen
=============================================================================
