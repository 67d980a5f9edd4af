---------------------------- MODULE ReceiptRules ----------------------------
(***************************************************************************)
(* What the receipt of an expense promises, with every operation atomic:   *)
(* it is declared and declared anew while the expense waits for review, it *)
(* is confirmed once the store has held an object of exactly that          *)
(* declaration, and from then on, or once the expense is reviewed, it no   *)
(* longer changes.                                                         *)
(***************************************************************************)
CONSTANTS Expense, Declaration, None

VARIABLES expense,   \* status of each expense
          receipt,   \* its receipt, or None
          held       \* the objects the store has held for it so far

vars == <<expense, receipt, held>>

Receipt == [declared : Declaration, confirmed : BOOLEAN]

TypeOK ==
    /\ expense \in [Expense -> {"SUBMITTED", "APPROVED", "REJECTED"}]
    /\ receipt \in [Expense -> Receipt \cup {None}]
    /\ held \in [Expense -> SUBSET Declaration]

Init ==
    /\ expense = [e \in Expense |-> "SUBMITTED"]
    /\ receipt = [e \in Expense |-> None]
    /\ held = [e \in Expense |-> {}]

Pending(e) == receipt[e] # None /\ ~receipt[e].confirmed

Declare(e, d) ==
    /\ expense[e] = "SUBMITTED" /\ (receipt[e] = None \/ Pending(e))
    /\ receipt' = [receipt EXCEPT ![e] = [declared |-> d, confirmed |-> FALSE]]
    /\ UNCHANGED <<expense, held>>

Confirm(e) ==
    /\ expense[e] = "SUBMITTED" /\ Pending(e)
    /\ receipt[e].declared \in held[e]
    /\ receipt' = [receipt EXCEPT ![e].confirmed = TRUE]
    /\ UNCHANGED <<expense, held>>

Review(e, decision) ==
    /\ expense[e] = "SUBMITTED"
    /\ expense' = [expense EXCEPT ![e] = decision]
    /\ UNCHANGED <<receipt, held>>

Hold(e, object) ==
    /\ held' = [held EXCEPT ![e] = @ \cup {object}]
    /\ UNCHANGED <<expense, receipt>>

Next ==
    \E e \in Expense :
        \/ \E d \in Declaration : Declare(e, d) \/ Hold(e, d)
        \/ Confirm(e)
        \/ \E decision \in {"APPROVED", "REJECTED"} : Review(e, decision)

Spec == Init /\ [][Next]_vars
-----------------------------------------------------------------------------
\* A confirmed receipt describes an object the store really held, not one
\* declared but never uploaded.
ConfirmedWasHeld ==
    \A e \in Expense :
        receipt[e] # None /\ receipt[e].confirmed => receipt[e].declared \in held[e]
=============================================================================
