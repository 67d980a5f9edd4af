------------------------------ MODULE MCFleet ------------------------------
(***************************************************************************)
(* Two small instances of Fleet, for TLC: three requests at once, all of   *)
(* them for one schedule; or two at once, for schedules that follow each   *)
(* other back to back, with no expenses.                                   *)
(***************************************************************************)
EXTENDS Fleet, TLC

VARIABLE scene

TwoWindows == {{1}, {2}}

FleetSymmetry ==
    Permutations(Request) \cup Permutations(Trip) \cup Permutations(Driver)

Within ==
    /\ scene = "three requests" => \A p \in Request : req[p].window \in {{1}, None}
    /\ scene = "two schedules" =>
          /\ \A e \in Expense : expense[e].status = "ABSENT"
          /\ \E p \in Request : req[p] = Idle

ScenesInit == scene \in {"three requests", "two schedules"} /\ Init
ScenesNext == Next /\ UNCHANGED scene /\ Within'
ScenesSpec == ScenesInit /\ [][ScenesNext]_<<scene, vars>>
=============================================================================
