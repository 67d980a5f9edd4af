-------------------------- MODULE SessionFamilies --------------------------
(***************************************************************************)
(* What refresh sessions promise: a login opens a family, a family has one *)
(* current token at a time, refreshing exchanges it for a token never used *)
(* before, and a family that has ended stays ended.                        *)
(***************************************************************************)
CONSTANTS Family, Session,   \* identifiers the database hands out
          Unborn, Ended      \* states of a family without a current token

VARIABLES current,   \* the family's one token that refreshes
          issued     \* every token ever handed out

vars == <<current, issued>>

TypeOK == current \in [Family -> Session \cup {Unborn, Ended}] /\ issued \subseteq Session

Init == current = [f \in Family |-> Unborn] /\ issued = {}

Open(f, s) ==
    /\ current[f] = Unborn /\ s \notin issued
    /\ current' = [current EXCEPT ![f] = s]
    /\ issued' = issued \cup {s}

Refresh(f, s) ==
    /\ current[f] \in Session /\ s \notin issued
    /\ current' = [current EXCEPT ![f] = s]
    /\ issued' = issued \cup {s}

\* Logout ends one family; logout-all, deactivation and a password reset end
\* several at once.
End(F) ==
    /\ \A f \in F : current[f] \in Session
    /\ current' = [f \in Family |-> IF f \in F THEN Ended ELSE current[f]]
    /\ UNCHANGED issued

Next ==
    \/ \E f \in Family, s \in Session : Open(f, s) \/ Refresh(f, s)
    \/ \E F \in (SUBSET Family) \ {{}} : End(F)

Spec == Init /\ [][Next]_vars
=============================================================================
