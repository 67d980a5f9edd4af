-------------------------- MODULE LocationHistory --------------------------
(***************************************************************************)
(* What becomes of a position the phone captured: it is held on the phone  *)
(* until the server answered for it, or until the phone ran out of room    *)
(* and gave up its oldest.                                                 *)
(***************************************************************************)
EXTENDS Naturals

CONSTANTS Sample     \* in the order of capture

VARIABLE fate

Fate == {"future", "held", "delivered", "refused", "dropped"}

TypeOK == fate \in [Sample -> Fate]

Init == fate = [s \in Sample |-> "future"]

Held == {s \in Sample : fate[s] = "held"}

\* Whether there is room is the phone's business.  When there is not, what goes
\* is the oldest, unless the server has it already.
Capture(s) ==
    /\ fate[s] = "future"
    /\ \/ fate' = [fate EXCEPT ![s] = "held"]
       \/ \E oldest \in Held \cup {s}, left \in {"dropped", "delivered", "refused"} :
             /\ \A r \in Held \cup {s} : oldest <= r
             /\ fate' = [fate EXCEPT ![s] = "held", ![oldest] = left]

\* Answered samples leave the phone together.
Settle(delivered, refused) ==
    fate' = [s \in Sample |-> IF s \in delivered THEN "delivered"
                              ELSE IF s \in refused THEN "refused" ELSE fate[s]]

\* An upload that the phone had given up on arrives after all.
DeliverLate(s) ==
    /\ fate[s] \in {"dropped", "refused"}
    /\ fate' = [fate EXCEPT ![s] = "delivered"]

\* It is answered after all, but refused.
RefuseLate(s) ==
    /\ fate[s] = "dropped"
    /\ fate' = [fate EXCEPT ![s] = "refused"]

Next ==
    \/ \E s \in Sample : Capture(s) \/ DeliverLate(s) \/ RefuseLate(s)
    \/ \E delivered, refused \in SUBSET Held : Settle(delivered, refused)

Spec == Init /\ [][Next]_fate
=============================================================================
