----------------------------- MODULE ExpenseView ----------------------------
(***************************************************************************)
(* ExpenseDetailView, the driver's screen of one expense and its receipt,  *)
(* with the image picker and the direct upload it uses.                    *)
(*                                                                         *)
(* Attaching is four awaits: pick, authorize, upload, confirm.  Any answer *)
(* may be lost after it took effect, so a failure is followed by reading   *)
(* the receipt and the expense again.  A sign-out takes the screen away at *)
(* any await; the attempt runs on without it, and a screen opened later    *)
(* shares the one picker with it.  What the API does is ReceiptRules; the  *)
(* office, and requests given up but handled late, are its other steps.    *)
(***************************************************************************)
EXTENDS ReceiptRules, Naturals

CONSTANTS
    Opened,      \* the expense on screen
    MaxPresses   \* bound: presses of View and Close

VARIABLES
    mounted,
    screen,      \* what it shows of the expense and of the receipt
    reading,     \* its reads: of the mount or a retry, and after a failure
    task,        \* the attempt of this screen, and of one that was left
    picker,      \* whose promise the native module holds
    viewer,      \* the image shown, and for which press
    presses,     \* viewerGeneration
    viewing,     \* presses whose authorization has not come yet
    reached      \* how far the API has taken the attempts of this screen

viewVars == <<mounted, screen, reading, task, picker, viewer, presses, viewing, reached>>

Status == {"SUBMITTED", "APPROVED", "REJECTED"}
Stage == {"none", "pending", "confirmed"}
Read == {"receipt", "expense", "again", "quiet"}
Screen == {"here", "left"}

Loading == [expense |-> "loading", receipt |-> "loading"]
Resting == [at |-> "idle", file |-> None, reply |-> "none"]
Quiet == [r \in Read |-> "idle"]
Closed == [kind |-> "closed", press |-> 0]

ViewTypeOK ==
    /\ TypeOK /\ mounted \in BOOLEAN
    /\ screen \in [expense : Status \cup {"loading", "missing", "error"},
                   receipt : Stage \cup {"loading", "error"}]
    /\ task \in [Screen -> [at : {"idle", "picking", "intent", "upload", "confirm",
                                  "rereading", "refreshing"},
                            file : Declaration \cup {None},
                            reply : {"none", "waiting", "ok", "failed"}]]
    /\ picker \in Screen \cup {None} /\ presses \in 0..MaxPresses

ViewInit ==
    /\ Init
    /\ mounted = FALSE /\ screen = Loading /\ reading = Quiet
    /\ task = [s \in Screen |-> Resting] /\ picker = None
    /\ viewer = Closed /\ presses = 0 /\ viewing = {} /\ reached = "none"
-----------------------------------------------------------------------------
\* What the API knows, and tells: a pending receipt only before the review.
Actual == IF receipt[Opened] = None THEN "none"
          ELSE IF receipt[Opened].confirmed THEN "confirmed" ELSE "pending"
Told == IF Actual = "pending" /\ expense[Opened] # "SUBMITTED" THEN "none" ELSE Actual
-----------------------------------------------------------------------------
(* The screen comes and goes. *)

OpenScreen ==
    /\ ~mounted /\ mounted' = TRUE
    /\ screen' = Loading /\ reached' = "none"
    /\ reading' = [Quiet EXCEPT !["receipt"] = "sent", !["expense"] = "sent"]
    /\ UNCHANGED <<vars, task, picker, viewer, presses, viewing>>

\* An attempt survives its screen until it has something to show.
Outlives(t) == t.at \in {"picking", "intent", "upload", "confirm"}

\* Back, which waits for the attempt, or the end of the login, which does not.
LeaveScreen ==
    /\ mounted /\ mounted' = FALSE
    /\ Outlives(task["here"]) => task["left"] = Resting    \* bound: one left attempt
    /\ task' = [s \in Screen |->
                    IF s = "left" /\ Outlives(task["here"]) THEN task["here"]
                    ELSE IF s = "left" THEN task["left"] ELSE Resting]
    /\ picker' = IF picker = None THEN None ELSE "left"
    /\ screen' = Loading /\ reading' = Quiet /\ reached' = "none"
    /\ viewer' = Closed /\ viewing' = {}
    /\ UNCHANGED <<vars, presses>>

\* Android ends the app behind the picker; its answer then finds no promise.
AppDies ==
    /\ mounted' = FALSE /\ screen' = Loading /\ reading' = Quiet
    /\ task' = [s \in Screen |-> Resting] /\ picker' = None
    /\ viewer' = Closed /\ viewing' = {} /\ reached' = "none"
    /\ UNCHANGED <<vars, presses>>
-----------------------------------------------------------------------------
(* Reading.  A read that fails answers "error". *)

Answers(r) ==
    /\ reading[r] = "sent"
    /\ \E answer \in {"error", IF r \in {"receipt", "again"} THEN Told
                               ELSE expense[Opened]} \cup
                     (IF r \in {"expense", "quiet"} THEN {"missing"} ELSE {}) :
           reading' = [reading EXCEPT ![r] = answer]
    /\ UNCHANGED <<vars, mounted, screen, task, picker, viewer, presses, viewing, reached>>

ReadArrives ==
    /\ \E r \in {"receipt", "expense"} :
          /\ reading[r] \notin {"idle", "sent"}
          /\ screen' = [screen EXCEPT ![r] = reading[r]]
          /\ reading' = [reading EXCEPT ![r] = "idle"]
    /\ UNCHANGED <<vars, mounted, task, picker, viewer, presses, viewing, reached>>

\* "Try again", on the screen that has no expense to show.
Reload ==
    /\ mounted /\ screen.expense = "error"
    /\ screen' = Loading
    /\ reading' = [reading EXCEPT !["receipt"] = "sent", !["expense"] = "sent"]
    /\ UNCHANGED <<vars, mounted, task, picker, viewer, presses, viewing, reached>>
-----------------------------------------------------------------------------
(* Picking.  The module holds one promise and settles it once. *)

Open == screen.expense = "SUBMITTED"
Becomes(s, at, file, reply) ==
    task' = [task EXCEPT ![s] = [at |-> at, file |-> file, reply |-> reply]]

\* A picker that is already open refuses, and nothing was sent.
TakesPicker == picker = None /\ picker' = "here"

Attach ==
    /\ mounted /\ task["here"].at = "idle"
    /\ Open /\ screen.receipt \in {"none", "pending"}
    /\ TakesPicker /\ Becomes("here", "picking", None, "none")
    /\ UNCHANGED <<vars, mounted, screen, reading, viewer, presses, viewing, reached>>

\* A usable image: its type and size are what will be declared.
Picked ==
    /\ picker # None /\ picker' = None
    /\ \E d \in Declaration : Becomes(picker, "intent", d, "waiting")
    /\ UNCHANGED <<vars, mounted, screen, reading, viewer, presses, viewing, reached>>

\* Cancelled, unreadable, of another type, empty, too large, or torn down.
NotPicked ==
    /\ picker # None /\ picker' = None
    /\ Becomes(picker, "idle", None, "none")
    /\ UNCHANGED <<vars, mounted, screen, reading, viewer, presses, viewing, reached>>
-----------------------------------------------------------------------------
(* The API and the store handle what an attempt sent; the answer may be    *)
(* lost all the same.                                                      *)

Replies(s) == \E reply \in {"ok", "failed"} : Becomes(s, task[s].at, task[s].file, reply)
Reaches(s, stage) == reached' = IF s = "here" THEN stage ELSE reached

\* The row is written before anything is signed, so signing may yet fail.
Declared(s) ==
    /\ task[s].at = "intent" /\ task[s].reply = "waiting"
    /\ Declare(Opened, task[s].file)
    /\ Replies(s) /\ Reaches(s, "pending")
    /\ UNCHANGED <<mounted, screen, reading, picker, viewer, presses, viewing>>

Uploaded(s) ==
    /\ task[s].at = "upload" /\ task[s].reply = "waiting"
    /\ Hold(Opened, task[s].file) /\ Replies(s)
    /\ UNCHANGED <<mounted, screen, reading, picker, viewer, presses, viewing, reached>>

\* Confirming what is confirmed already is answered like the first time.
Confirmed(s) ==
    /\ task[s].at = "confirm" /\ task[s].reply = "waiting"
    /\ Confirm(Opened) \/ (Actual = "confirmed" /\ UNCHANGED vars)
    /\ Replies(s) /\ Reaches(s, "confirmed")
    /\ UNCHANGED <<mounted, screen, reading, picker, viewer, presses, viewing>>

\* Refused, or lost on the way.
Refused(s) ==
    /\ task[s].reply = "waiting"
    /\ Becomes(s, task[s].at, task[s].file, "failed")
    /\ UNCHANGED <<vars, mounted, screen, reading, picker, viewer, presses, viewing, reached>>
-----------------------------------------------------------------------------
(* The attempt goes on. *)

GoesOn(s) ==
    /\ task[s].reply = "ok" /\ task[s].at \in {"intent", "upload"}
    /\ Becomes(s, IF task[s].at = "intent" THEN "upload" ELSE "confirm",
               task[s].file, "waiting")
    /\ UNCHANGED <<vars, mounted, screen, reading, picker, viewer, presses, viewing, reached>>

\* Only the answer of the confirmation says that a receipt is settled.
Settles(s) ==
    /\ task[s].reply = "ok" /\ task[s].at = "confirm"
    /\ task' = [task EXCEPT ![s] = Resting]
    /\ screen' = IF s = "here" THEN [screen EXCEPT !.receipt = "confirmed"] ELSE screen
    /\ UNCHANGED <<vars, mounted, reading, picker, viewer, presses, viewing, reached>>

ConfirmPending ==
    /\ mounted /\ task["here"].at = "idle" /\ Open /\ screen.receipt = "pending"
    /\ Becomes("here", "confirm", None, "waiting")
    /\ UNCHANGED <<vars, mounted, screen, reading, picker, viewer, presses, viewing, reached>>

\* Variant: a failed attempt leaves the screen as it was.
FailsUnread(s) ==
    /\ task[s].reply = "failed" /\ task' = [task EXCEPT ![s] = Resting]
    /\ UNCHANGED <<vars, mounted, screen, reading, picker, viewer, presses, viewing, reached>>

Fails(s) ==
    /\ task[s].reply = "failed"
    /\ IF s = "left"
       THEN task' = [task EXCEPT ![s] = Resting] /\ UNCHANGED reading
       ELSE /\ Becomes(s, "rereading", None, "none")
            /\ reading' = [reading EXCEPT !["again"] = "sent"]
    /\ UNCHANGED <<vars, mounted, screen, picker, viewer, presses, viewing, reached>>

\* readReceipt, then refreshExpenseQuietly.
Reread ==
    /\ task["here"].at = "rereading" /\ reading["again"] \notin {"idle", "sent"}
    /\ screen' = [screen EXCEPT !.receipt = reading["again"]]
    /\ reading' = [reading EXCEPT !["again"] = "idle", !["quiet"] = "sent"]
    /\ Becomes("here", "refreshing", None, "none")
    /\ UNCHANGED <<vars, mounted, picker, viewer, presses, viewing, reached>>

Refreshed ==
    /\ task["here"].at = "refreshing" /\ reading["quiet"] \notin {"idle", "sent"}
    /\ screen' = [screen EXCEPT !.expense = IF reading["quiet"] \in Status
                                            THEN reading["quiet"] ELSE @]
    /\ reading' = [reading EXCEPT !["quiet"] = "idle"]
    /\ task' = [task EXCEPT !["here"] = Resting]
    /\ UNCHANGED <<vars, mounted, picker, viewer, presses, viewing, reached>>
-----------------------------------------------------------------------------
(* The viewer. *)

View ==
    /\ mounted /\ presses < MaxPresses
    /\ \/ viewer.kind = "closed" /\ screen.receipt = "confirmed"
       \/ viewer.kind = "error"
    /\ presses' = presses + 1 /\ viewing' = viewing \cup {presses'}
    /\ viewer' = [kind |-> "loading", press |-> presses']
    /\ UNCHANGED <<vars, mounted, screen, reading, task, picker, reached>>

Adopted(p) == mounted /\ presses = p

ViewAnswered ==
    /\ \E p \in viewing, kind \in {"open", "error"} :
          /\ viewing' = viewing \ {p}
          /\ viewer' = IF Adopted(p) THEN [kind |-> kind, press |-> p] ELSE viewer
    /\ UNCHANGED <<vars, mounted, screen, reading, task, picker, presses, reached>>

ImageFails ==
    /\ viewer.kind = "open" /\ viewer' = [viewer EXCEPT !.kind = "error"]
    /\ UNCHANGED <<vars, mounted, screen, reading, task, picker, presses, viewing, reached>>

CloseViewer ==
    /\ viewer.kind # "closed" /\ presses < MaxPresses
    /\ presses' = presses + 1 /\ viewer' = Closed
    /\ UNCHANGED <<vars, mounted, screen, reading, task, picker, viewing, reached>>
-----------------------------------------------------------------------------
Elsewhere == Next /\ UNCHANGED viewVars

ViewNext ==
    \/ OpenScreen \/ LeaveScreen \/ AppDies
    \/ \E r \in Read : Answers(r)
    \/ ReadArrives \/ Reload
    \/ Attach \/ Picked \/ NotPicked \/ ConfirmPending
    \/ \E s \in Screen :
          \/ Declared(s) \/ Uploaded(s) \/ Confirmed(s) \/ Refused(s)
          \/ GoesOn(s) \/ Settles(s) \/ Fails(s)
    \/ Reread \/ Refreshed
    \/ View \/ ViewAnswered \/ ImageFails \/ CloseViewer
    \/ Elsewhere

ViewSpec == ViewInit /\ [][ViewNext]_<<vars, viewVars>>
-----------------------------------------------------------------------------
(* The screen is never ahead of the API: a receipt it calls confirmed is,  *)
(* one it calls pending exists, and a decision it shows has been taken.    *)
NeverAhead ==
    /\ screen.receipt = "confirmed" => Actual = "confirmed"
    /\ screen.receipt = "pending" => Actual # "none"
    /\ screen.expense \in {"APPROVED", "REJECTED"} => screen.expense = expense[Opened]

(* Nor does a screen at rest fall behind what its own attempts have done,  *)
(* whichever of their answers were lost: it offers no second upload over a *)
(* receipt of its own that stands.                                         *)
NotBehindItself ==
    mounted /\ task["here"].at = "idle" =>
        /\ reached # "none" /\ screen.receipt = "none" => expense[Opened] # "SUBMITTED"
        /\ reached = "confirmed" => screen.receipt \notin {"none", "pending"}

\* An attempt waits for the picker exactly as long as its promise is held.
OnePromise == \A s \in Screen : picker = s <=> task[s].at = "picking"

\* The viewer shows nothing of a press that was followed by another or by Close.
ViewedAsAsked == viewer.kind # "closed" => mounted /\ viewer.press = presses

ExpenseViewInv == ViewTypeOK /\ NeverAhead /\ NotBehindItself /\ OnePromise /\ ViewedAsAsked
=============================================================================
