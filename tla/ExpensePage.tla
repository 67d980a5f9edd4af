----------------------------- MODULE ExpensePage ----------------------------
(***************************************************************************)
(* ExpenseDetail, the admin's page of one expense, with its two sections:  *)
(* the review and the receipt.  Each section disables itself while its own *)
(* request is under way and takes no notice of the other; either may ask   *)
(* the page to read the expense again, when the API has told it that the   *)
(* copy on screen is old.  No read is ever withdrawn.  What the API does   *)
(* is ReceiptRules; the driver, other admins, and requests given up but    *)
(* handled late are its other steps.                                       *)
(***************************************************************************)
EXTENDS ReceiptRules

CONSTANT Reviewed   \* the expense of the page

VARIABLES
    page,       \* what it shows of the expense and of the receipt
    loads,      \* reads of the expense, by who asked
    reads,      \* reads of the receipt: of the mount, and after a failure
    review,     \* ExpenseReview
    attempt,    \* ExpenseReceipt, while it is busy
    file,       \* the image chosen
    preview,    \* a signed image is on screen
    achieved    \* how far the API has taken the attempts of this page

pageVars == <<page, loads, reads, review, attempt, file, preview, achieved>>

Decision == {"APPROVED", "REJECTED"}
Part == {"mount", "review", "receipt"}
Unsent == "idle"

Idle == [at |-> "idle", reply |-> "none"]
Undecided == [at |-> "idle", decision |-> "none", reply |-> "none"]

PageTypeOK ==
    /\ TypeOK
    /\ page \in [expense : Decision \cup {"SUBMITTED", "loading", "missing", "failed"},
                 receipt : {"loading", "none", "pending", "confirmed", "error"}]
    /\ attempt \in [at : {"idle", "intent", "upload", "confirm", "rereading",
                          "rereadingStale", "view"},
                    reply : {"none", "waiting", "ok", "closed", "failed"}]
    /\ review \in [at : {"idle", "deciding", "applying"}, decision : Decision \cup {"none"},
                   reply : {"none", "waiting", "ok", "closed", "failed"}]
    /\ file \in Declaration \cup {None} /\ preview \in BOOLEAN

PageInit ==
    /\ Init
    /\ page = [expense |-> "loading", receipt |-> "loading"]
    /\ loads = [p \in Part |-> IF p = "mount" THEN "sent" ELSE Unsent]
    /\ reads = [mount |-> Unsent, again |-> Unsent]
    /\ review = Undecided /\ attempt = Idle /\ file = None
    /\ preview = FALSE /\ achieved = "none"
-----------------------------------------------------------------------------
(* Reads. *)

Stored == IF receipt[Reviewed] = None THEN "none"
          ELSE IF receipt[Reviewed].confirmed THEN "confirmed" ELSE "pending"
Shown == IF Stored = "pending" /\ expense[Reviewed] # "SUBMITTED" THEN "none" ELSE Stored

LoadAnswered(p) ==
    /\ loads[p] = "sent"
    /\ \E answer \in {expense[Reviewed], "failed"} \cup
                     (IF p = "mount" THEN {"missing"} ELSE {}) :
           loads' = [loads EXCEPT ![p] = answer]
    /\ UNCHANGED <<vars, page, reads, review, attempt, file, preview, achieved>>

\* The sections come with the expense, and the receipt is read then.
MountLoads ==
    /\ loads["mount"] \notin {Unsent, "sent"}
    /\ page' = [page EXCEPT !.expense = loads["mount"]]
    /\ loads' = [loads EXCEPT !["mount"] = Unsent]
    /\ reads' = [reads EXCEPT !.mount = IF page'.expense \in {"missing", "failed"}
                                        THEN Unsent ELSE "sent"]
    /\ UNCHANGED <<vars, review, attempt, file, preview, achieved>>

\* load, for a section: a failure leaves the expense on screen.
ReloadArrives(p) ==
    /\ p # "mount" /\ loads[p] \notin {Unsent, "sent"}
    /\ page' = [page EXCEPT !.expense = IF loads[p] = "failed" THEN @ ELSE loads[p]]
    /\ loads' = [loads EXCEPT ![p] = Unsent]
    /\ UNCHANGED <<vars, reads, review, attempt, file, preview, achieved>>

ReadAnswered ==
    /\ \E r \in DOMAIN reads : \E answer \in {Shown, "error"} :
          reads[r] = "sent" /\ reads' = [reads EXCEPT ![r] = answer]
    /\ UNCHANGED <<vars, page, loads, review, attempt, file, preview, achieved>>

ReceiptArrives ==
    /\ reads.mount \notin {Unsent, "sent"}
    /\ page' = [page EXCEPT !.receipt = reads.mount]
    /\ reads' = [reads EXCEPT !.mount = Unsent]
    /\ UNCHANGED <<vars, loads, review, attempt, file, preview, achieved>>
-----------------------------------------------------------------------------
(* ExpenseReview: a decision, a confirmation, one request. *)

Decide(decision) ==
    /\ page.expense = "SUBMITTED" /\ review.at = "idle"
    /\ review' = [Undecided EXCEPT !.at = "deciding", !.decision = decision]
    /\ UNCHANGED <<vars, page, loads, reads, attempt, file, preview, achieved>>

KeepSubmitted ==
    /\ page.expense = "SUBMITTED" /\ review.at = "deciding"
    /\ review' = Undecided
    /\ UNCHANGED <<vars, page, loads, reads, attempt, file, preview, achieved>>

Apply ==
    /\ page.expense = "SUBMITTED" /\ review.at = "deciding"
    /\ review' = [review EXCEPT !.at = "applying", !.reply = "waiting"]
    /\ UNCHANGED <<vars, page, loads, reads, attempt, file, preview, achieved>>

Decided ==
    /\ review.reply = "waiting"
    /\ \/ /\ Review(Reviewed, review.decision)
          /\ \E reply \in {"ok", "failed"} : review' = [review EXCEPT !.reply = reply]
       \/ /\ expense[Reviewed] # "SUBMITTED" /\ UNCHANGED vars
          /\ review' = [review EXCEPT !.reply = "closed"]
       \/ review' = [review EXCEPT !.reply = "failed"] /\ UNCHANGED vars
    /\ UNCHANGED <<page, loads, reads, attempt, file, preview, achieved>>

\* Variant: the page is asked to read again when the request was merely lost.
AsksForAll(reply) == reply # "ok"
\* Only an answer that proves the copy old has it read again.
Asks(reply) == reply = "closed"

ReviewAnswered ==
    /\ review.reply \in {"ok", "closed", "failed"}
    /\ page' = IF review.reply = "ok" THEN [page EXCEPT !.expense = review.decision] ELSE page
    /\ IF Asks(review.reply)
       THEN /\ loads["review"] = Unsent    \* bound: one read of a section at a time
            /\ loads' = [loads EXCEPT !["review"] = "sent"]
       ELSE UNCHANGED loads
    /\ review' = Undecided
    /\ UNCHANGED <<vars, reads, attempt, file, preview, achieved>>
-----------------------------------------------------------------------------
(* ExpenseReceipt: choose, then authorize, upload and confirm. *)

Mutable == page.expense = "SUBMITTED" /\ page.receipt \notin {"loading", "confirmed"}
Waits(at) == attempt' = [at |-> at, reply |-> "waiting"]

Choose ==
    /\ Mutable /\ attempt.at = "idle"
    /\ file' \in Declaration \cup {None}
    /\ UNCHANGED <<vars, page, loads, reads, review, attempt, preview, achieved>>

UploadReceipt ==
    /\ Mutable /\ attempt.at = "idle" /\ file # None
    /\ Waits("intent")
    /\ UNCHANGED <<vars, page, loads, reads, review, file, preview, achieved>>

ConfirmUpload ==
    /\ Mutable /\ attempt.at = "idle" /\ page.receipt = "pending"
    /\ Waits("confirm")
    /\ UNCHANGED <<vars, page, loads, reads, review, file, preview, achieved>>

ViewReceipt ==
    /\ page.receipt = "confirmed" /\ attempt.at = "idle"
    /\ Waits("view")
    /\ UNCHANGED <<vars, page, loads, reads, review, file, preview, achieved>>

Replied == \E reply \in {"ok", "failed"} : attempt' = [attempt EXCEPT !.reply = reply]

Handled ==
    /\ attempt.reply = "waiting"
    /\ \/ attempt.at = "intent" /\ Declare(Reviewed, file) /\ Replied /\ achieved' = "pending"
       \/ attempt.at = "upload" /\ Hold(Reviewed, file) /\ Replied /\ UNCHANGED achieved
       \/ /\ attempt.at = "confirm" /\ Replied /\ achieved' = "confirmed"
          /\ Confirm(Reviewed) \/ (Stored = "confirmed" /\ UNCHANGED vars)
       \/ attempt.at = "view" /\ Replied /\ UNCHANGED <<vars, achieved>>
    /\ UNCHANGED <<page, loads, reads, review, file, preview>>

TurnedDown ==
    /\ attempt.reply = "waiting"
    /\ \/ attempt' = [attempt EXCEPT !.reply = "failed"]
       \/ /\ expense[Reviewed] # "SUBMITTED"
          /\ attempt.at = "intent" \/ (attempt.at = "confirm" /\ Stored = "pending")
          /\ attempt' = [attempt EXCEPT !.reply = "closed"]
    /\ UNCHANGED <<vars, page, loads, reads, review, file, preview, achieved>>

AttemptGoesOn ==
    /\ attempt.reply = "ok" /\ attempt.at \in {"intent", "upload"}
    /\ Waits(IF attempt.at = "intent" THEN "upload" ELSE "confirm")
    /\ UNCHANGED <<vars, page, loads, reads, review, file, preview, achieved>>

AttemptSettles ==
    /\ attempt = [at |-> "confirm", reply |-> "ok"]
    /\ page' = [page EXCEPT !.receipt = "confirmed"]
    /\ file' = None /\ preview' = FALSE /\ attempt' = Idle
    /\ UNCHANGED <<vars, loads, reads, review, achieved>>

\* Variant: a failed attempt leaves the section as it was.
AttemptFailsUnread ==
    /\ attempt.reply \in {"failed", "closed"} /\ attempt.at # "view"
    /\ attempt' = Idle
    /\ UNCHANGED <<vars, page, loads, reads, review, file, preview, achieved>>

\* A failed attempt reads the receipt again before it gives the controls back.
AttemptFails ==
    /\ attempt.reply \in {"failed", "closed"} /\ attempt.at # "view"
    /\ attempt' = [Idle EXCEPT !.at = IF attempt.reply = "closed" THEN "rereadingStale"
                                      ELSE "rereading"]
    /\ reads' = [reads EXCEPT !.again = "sent"]
    /\ UNCHANGED <<vars, page, loads, review, file, preview, achieved>>

RereadArrives ==
    /\ reads.again \notin {Unsent, "sent"}
    /\ page' = [page EXCEPT !.receipt = reads.again]
    /\ reads' = [reads EXCEPT !.again = Unsent]
    /\ IF attempt.at = "rereadingStale"
       THEN /\ loads["receipt"] = Unsent   \* bound: one read of a section at a time
            /\ loads' = [loads EXCEPT !["receipt"] = "sent"]
       ELSE UNCHANGED loads
    /\ attempt' = Idle
    /\ UNCHANGED <<vars, review, file, preview, achieved>>

PreviewAnswered ==
    /\ attempt.at = "view" /\ attempt.reply \in {"ok", "failed"}
    /\ preview' = (preview \/ attempt.reply = "ok") /\ attempt' = Idle
    /\ UNCHANGED <<vars, page, loads, reads, review, file, achieved>>

PreviewFails ==
    /\ preview /\ preview' = FALSE
    /\ UNCHANGED <<vars, page, loads, reads, review, attempt, file, achieved>>
-----------------------------------------------------------------------------
Outside == Next /\ UNCHANGED pageVars

PageNext ==
    \/ \E p \in Part : LoadAnswered(p) \/ ReloadArrives(p)
    \/ MountLoads \/ ReadAnswered \/ ReceiptArrives
    \/ \E decision \in Decision : Decide(decision)
    \/ KeepSubmitted \/ Apply \/ Decided \/ ReviewAnswered
    \/ Choose \/ UploadReceipt \/ ConfirmUpload \/ ViewReceipt
    \/ Handled \/ TurnedDown \/ AttemptGoesOn \/ AttemptSettles \/ AttemptFails \/ RereadArrives
    \/ PreviewAnswered \/ PreviewFails
    \/ Outside

PageSpec == PageInit /\ [][PageNext]_<<vars, pageVars>>
-----------------------------------------------------------------------------
(* The page is never ahead of the API, and at rest never behind what its   *)
(* own attempts have done, whichever of their answers were lost.           *)
PageTrue ==
    /\ page.receipt = "confirmed" => Stored = "confirmed"
    /\ page.receipt = "pending" => Stored # "none"
    /\ page.expense \in Decision => page.expense = expense[Reviewed]
    /\ attempt.at = "idle" =>
          /\ achieved # "none" /\ page.receipt = "none" => expense[Reviewed] # "SUBMITTED"
          /\ achieved = "confirmed" => page.receipt \notin {"none", "pending"}
    /\ preview => page.receipt = "confirmed"

ExpensePageInv == PageTypeOK /\ PageTrue

(* What the page has shown as settled it does not take back: its two       *)
(* sections ask for reads that no one withdraws, but an answer from before *)
(* the decision, or before the confirmation, never comes after it.         *)
KeepsWhatIsTaken ==
    /\ page.expense \in Decision => page'.expense = page.expense
    /\ page.receipt = "confirmed" => page'.receipt = "confirmed"

NothingTakenBack == [][KeepsWhatIsTaken]_page
=============================================================================
