--------------------------- MODULE BackgroundDrain --------------------------
(***************************************************************************)
(* The Headless JS task that uploads while the Activity is away, and the   *)
(* fence that tells it when its driver has begun to sign out.              *)
(*                                                                         *)
(* Android starts the task with an owner and nothing else.  The task runs  *)
(* beside the screens: between two of its batches the driver may sign out, *)
(* fail to, and another may sign in.                                       *)
(***************************************************************************)
EXTENDS Naturals

CONSTANTS
    Driver,
    MaxBatches,   \* MAX_BATCHES_PER_INVOCATION
    MaxEpoch,     \* bound: openings and closings of the fence
    NoDriver

ASSUME DrainBoundsAssumption == MaxBatches \in Nat /\ MaxEpoch \in Nat
ASSUME NoDriverAssumption == NoDriver \notin Driver

VARIABLES
    fence,        \* the process-wide fence
    signedIn, initialized, leaving,   \* of the login, and of its orchestrator
    errand        \* the one invocation in flight

errandVars == <<fence, signedIn, initialized, leaving, errand>>

\* behind: history, a sign-out has begun since this task did.
NoErrand == [owner |-> NoDriver, epoch |-> 0, batches |-> 0, behind |-> FALSE]

ErrandTypeOK ==
    /\ fence \in [epoch : 0..MaxEpoch, owner : Driver \cup {NoDriver}]
    /\ signedIn \in Driver \cup {NoDriver}
    /\ initialized \in BOOLEAN /\ leaving \in BOOLEAN
    /\ errand \in [owner : Driver \cup {NoDriver}, epoch : 0..MaxEpoch,
                 batches : 0..MaxBatches, behind : BOOLEAN]

ErrandInit ==
    /\ fence = [epoch |-> 0, owner |-> NoDriver]
    /\ signedIn = NoDriver /\ initialized = FALSE /\ leaving = FALSE
    /\ errand = NoErrand
-----------------------------------------------------------------------------
(* Opening and closing mint a fresh epoch. *)

\* Variant: a reopened fence is the one that was closed.
FenceRestored(owner) == fence' = [fence EXCEPT !.owner = owner]

Fence(owner) ==
    /\ fence.epoch < MaxEpoch
    /\ fence' = [epoch |-> fence.epoch + 1, owner |-> owner]

SignIn(d) ==
    /\ signedIn = NoDriver
    /\ signedIn' = d /\ initialized' = FALSE /\ leaving' = FALSE
    /\ UNCHANGED <<fence, errand>>

Initialize ==
    /\ signedIn # NoDriver /\ ~initialized
    /\ Fence(signedIn) /\ initialized' = TRUE
    /\ UNCHANGED <<signedIn, leaving, errand>>

SignOut ==
    /\ initialized /\ ~leaving
    /\ Fence(NoDriver) /\ leaving' = TRUE
    /\ errand' = [errand EXCEPT !.behind = (errand # NoErrand)]
    /\ UNCHANGED <<signedIn, initialized>>

\* rollbackFence: the stop could not be proved and the driver stays.
RollbackFence ==
    /\ leaving /\ signedIn # NoDriver
    /\ Fence(signedIn) /\ leaving' = FALSE
    /\ UNCHANGED <<signedIn, initialized, errand>>

\* By logout, or refused by the server; the fence is left as it is.
SessionEnds ==
    /\ signedIn # NoDriver
    /\ signedIn' = NoDriver /\ initialized' = FALSE /\ leaving' = FALSE
    /\ UNCHANGED <<fence, errand>>
-----------------------------------------------------------------------------
StillPermitted(owner, epoch) ==
    /\ fence = [epoch |-> epoch, owner |-> owner]
    /\ signedIn = owner

\* runBackgroundDrain: an invocation joins the one in flight, whoever it is for.
Kick(d) ==
    /\ errand = NoErrand /\ MaxBatches > 0
    /\ StillPermitted(d, fence.epoch)
    /\ errand' = [owner |-> d, epoch |-> fence.epoch, batches |-> 1, behind |-> FALSE]
    /\ UNCHANGED <<fence, signedIn, initialized, leaving>>

\* A batch made progress, the budget is not spent, and nothing was closed.
NextBatch ==
    /\ errand # NoErrand /\ errand.batches < MaxBatches
    /\ StillPermitted(errand.owner, errand.epoch)
    /\ errand' = [errand EXCEPT !.batches = @ + 1]
    /\ UNCHANGED <<fence, signedIn, initialized, leaving>>

TaskEnds ==
    /\ errand # NoErrand
    /\ errand' = NoErrand
    /\ UNCHANGED <<fence, signedIn, initialized, leaving>>

ErrandNext ==
    \/ \E d \in Driver : SignIn(d) \/ Kick(d)
    \/ Initialize \/ SignOut \/ RollbackFence \/ SessionEnds \/ NextBatch \/ TaskEnds

ErrandSpec == ErrandInit /\ [][ErrandNext]_errandVars
-----------------------------------------------------------------------------
(* Properties *)

\* No batch is begun behind a sign-out, even one that failed or was followed by
\* another login, nor for a driver who is not signed in.
NoBatchBehindSignOut ==
    [][errand'.batches > errand.batches => ~errand'.behind /\ signedIn = errand'.owner]_errandVars
=============================================================================
