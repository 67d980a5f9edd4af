---------------------------- MODULE LocationDrain ---------------------------
(***************************************************************************)
(* createLocationDrain: when a pass of LocationDelivery begins.  Callers   *)
(* merge into the pass in flight, each completed pass decides what follows *)
(* and at most one timer is armed.                                         *)
(***************************************************************************)
EXTENDS LocationDelivery

CONSTANT LastDelay     \* the last index of RETRY_DELAYS_MS

ASSUME DelayAssumption == LastDelay \in Nat

VARIABLES
    automatic,     \* between start and stop
    timer,         \* Nil, an index of RETRY_DELAYS_MS, or Continuation
    failures,      \* the index of the next delay
    poked,         \* pendingPoke: somebody asked while a pass was in flight
    last           \* lastOutcome

drain == <<automatic, timer, failures, poked, last>>
vars == <<deliveryVars, drain>>

Continuation == LastDelay + 1

Init ==
    /\ DeliveryInit
    /\ automatic = FALSE /\ timer = Nil /\ failures = 0 /\ poked = FALSE /\ last = Nil

\* Variant: a pass leaves the timer of an earlier failure armed.
StartPassKeepingTimer ==
    IF pass.at # "none"
    THEN poked' = TRUE /\ UNCHANGED <<timer, deliveryVars>>
    ELSE Begin /\ UNCHANGED <<timer, poked>>

\* Variant: a second pass begins while one is in flight.
StartPassUnmerged ==
    /\ pass' = [NoPass EXCEPT !.at = "read"] /\ timer' = Nil
    /\ UNCHANGED <<poked, phone, server, call, flaky>>

StartPass ==
    IF pass.at # "none"
    THEN poked' = TRUE /\ UNCHANGED <<timer, deliveryVars>>
    ELSE Begin /\ timer' = Nil /\ UNCHANGED poked

Start ==
    /\ StartPass
    /\ automatic' = TRUE /\ failures' = 0
    /\ UNCHANGED last

\* poke and drainOneBatch, whoever calls them.
Drain == StartPass /\ UNCHANGED <<automatic, failures, last>>

Stop ==
    /\ automatic' = FALSE /\ timer' = Nil
    /\ UNCHANGED <<failures, poked, last, deliveryVars>>

\* The timer's callback has cleared its handle before it looks.
TimerFires ==
    /\ timer # Nil
    /\ IF automatic THEN StartPass ELSE timer' = Nil /\ UNCHANGED <<poked, deliveryVars>>
    /\ UNCHANGED <<automatic, failures, last>>

\* The orchestrator's heartbeat, armed while the app is in the foreground and
\* the last pass does not wait for a person.
IdlePoke == automatic /\ last \in {Nil, "empty", "progress"} /\ Drain

\* The last delay repeats.
Ladder(outcome) ==
    CASE outcome = "blocked" -> failures
      [] outcome \in {"empty", "progress"} -> 0
      [] OTHER -> IF failures < LastDelay THEN failures + 1 ELSE failures

\* Variants: an empty pass forgets that somebody asked meanwhile; a failure
\* arms no timer.
FollowForgetting(outcome) ==
    /\ timer' = CASE outcome \in {"empty", "blocked"} -> timer
                  [] outcome = "progress" -> Continuation
                  [] outcome = "retryable" -> failures
    /\ failures' = Ladder(outcome)

FollowOnce(outcome) ==
    /\ timer' = IF outcome = "progress" \/ (outcome = "empty" /\ poked)
                THEN Continuation ELSE timer
    /\ failures' = Ladder(outcome)

\* What a completed pass decides: go on at once, wait, or leave it.
Follow(outcome) ==
    /\ timer' = CASE outcome = "progress" \/ (outcome = "empty" /\ poked) -> Continuation
                  [] outcome = "retryable" -> failures
                  [] OTHER -> timer
    /\ failures' = Ladder(outcome)

PassEnds(outcome) ==
    /\ End(outcome)
    /\ poked' = FALSE /\ last' = outcome
    /\ IF automatic THEN Follow(outcome) ELSE UNCHANGED <<timer, failures>>
    /\ UNCHANGED automatic

\* The app's process dies and is started again.
Restart ==
    /\ Crash
    /\ automatic' = FALSE /\ timer' = Nil /\ failures' = 0 /\ poked' = FALSE /\ last' = Nil
-----------------------------------------------------------------------------
EndPass == \E outcome \in Outcome : PassEnds(outcome)
ProceedPass == Proceed /\ UNCHANGED drain

Next ==
    \/ Start \/ Drain \/ Stop \/ TimerFires \/ Restart
    \/ EndPass \/ ProceedPass
    \/ World /\ UNCHANGED drain

Spec == Init /\ [][Next]_vars

\* Timers fire, native calls settle, the deadline ends a pass nobody answers,
\* handlers run, the heartbeat ticks, and one day the network recovers.
PassFairness ==
    /\ WF_vars(TimerFires) /\ WF_vars(EndPass) /\ WF_vars(ProceedPass) /\ WF_vars(IdlePoke)
    /\ \A c \in Call : WF_vars(Serve(c) /\ UNCHANGED drain)
Recovers == Recover /\ UNCHANGED drain

FairSpec == Spec /\ PassFairness /\ WF_vars(Recovers)
-----------------------------------------------------------------------------
\* Callers merge into the pass in flight, so all that LocationDelivery shows of
\* one pass at a time holds whoever starts it.
ImplementsDelivery == DeliverySpec

\* "The most recent completed pass decides what happens next": a timer is armed
\* only while draining is automatic and nothing is in flight, and never after a
\* pass that waits for a person.
TimerJustified ==
    /\ timer \in 0..Continuation \cup {Nil} /\ failures \in 0..LastDelay
    /\ timer # Nil =>
          /\ automatic /\ pass.at = "none"
          /\ last \in {"retryable", "progress", "empty"}

\* Whoever asked while a pass was in flight gets another one, unless the pass
\* ended on something that waits for a person.
PokeHonoured ==
    [][poked /\ ~poked' /\ automatic' => last' = "blocked" \/ timer' # Nil]_vars

\* A pass always ends, even when nobody answers.
EveryPassEnds == pass.at # "none" ~> pass.at = "none"

\* While the drain runs automatically, every queued sample leaves the queue in
\* the end, unless the drain is stopped or a pass needs a person.
QueueDrains ==
    \A s \in Sample :
        s \in queue /\ automatic ~> s \notin queue \/ ~automatic \/ last = "blocked"
=============================================================================
