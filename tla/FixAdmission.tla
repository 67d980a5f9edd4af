----------------------------- MODULE FixAdmission ---------------------------
(***************************************************************************)
(* The way of a fix from the provider to the queue: TripLocationRuntime's   *)
(* monitor, handleFix on the worker thread of each service instance, and    *)
(* the emission policy that instance owns.                                  *)
(*                                                                          *)
(* handleFix is the long holder of the monitor: it checks, decides, inserts *)
(* and accepts while the bridge and the main thread wait.  Every other use  *)
(* of the monitor is one step.  A fix that was dispatched is handled however *)
(* late: after a pause, a stop, or the start of an equal session.           *)
(*                                                                          *)
(* Positions lie on a line, times are ticks of the monotonic clock.         *)
(***************************************************************************)
EXTENDS Integers, Sequences, FiniteSets

CONSTANTS
    Capture,           \* session objects, each served by an instance of its own
    TripOf,            \* the owner and trip each names
    Place, Nowhere,    \* where a fix may be; what is no position
    MinDisplacement, Heartbeat,    \* MIN_DISPLACEMENT_METRES, HEARTBEAT_MILLIS
    MaxClock, MaxInbox,            \* bounds
    Nobody

VARIABLES
    capturing, held,   \* TripLocationRuntime: the session, whether it is paused
    begun,             \* sessions claimed so far
    listener,          \* the session whose callback the provider delivers to
    resuming,          \* a resume waits for the provider
    inbox,             \* of each instance: fixes dispatched to its worker
    policy,            \* of each instance: the last emitted fix
    handling,          \* the fix whose handler holds the monitor
    stored,            \* of each instance: the fix it last queued since a resume
    clock

sessionVars == <<capturing, held, begun, listener, resuming>>
fixVars == <<sessionVars, inbox, policy, handling, stored, clock>>

Fix == [place : Place \cup {Nowhere}, at : 0..MaxClock]
NoFix == [for |-> Nobody]

FixTypeOK ==
    /\ capturing \in Capture \cup {Nobody} /\ held \in BOOLEAN
    /\ begun \subseteq Capture /\ listener \in Capture \cup {Nobody}
    /\ resuming \in Capture \cup {Nobody}
    /\ inbox \in [Capture -> Seq(Fix)]
    /\ policy \in [Capture -> Fix \cup {Nobody}]
    /\ handling = NoFix \/
       handling \in [for : Capture, fix : Fix, step : {"decide", "insert", "accept"}]
    /\ stored \in [Capture -> Fix \cup {Nobody}]
    /\ clock \in 0..MaxClock

FixInit ==
    /\ capturing = Nobody /\ held = FALSE /\ begun = {}
    /\ listener = Nobody /\ resuming = Nobody
    /\ inbox = [s \in Capture |-> <<>>]
    /\ policy = [s \in Capture |-> Nobody]
    /\ stored = [s \in Capture |-> Nobody]
    /\ handling = NoFix /\ clock = 0

MonitorFree == handling = NoFix

---------------------------------------------------------------------------
(* Transitions of the session, each under the monitor. *)

\* claim
Claims(s) ==
    /\ MonitorFree /\ capturing = Nobody /\ s \notin begun
    /\ capturing' = s /\ held' = FALSE /\ begun' = begun \cup {s}
    /\ UNCHANGED <<listener, resuming, inbox, policy, handling, stored, clock>>

\* The new instance subscribes; the one before it is gone by then.
Subscribes ==
    /\ capturing # Nobody /\ ~held /\ listener # capturing
    /\ listener' = capturing /\ resuming' = Nobody
    /\ UNCHANGED <<capturing, held, begun, inbox, policy, handling, stored, clock>>

\* Variant: a stop does not wait for the insert in progress.
EndsActiveUnlocked ==
    /\ capturing # Nobody
    /\ capturing' = Nobody /\ held' = FALSE
    /\ UNCHANGED <<begun, listener, resuming, inbox, policy, handling, stored, clock>>

\* endActive: the subscription goes with its service, later.
EndsActive ==
    /\ MonitorFree /\ capturing # Nobody
    /\ capturing' = Nobody /\ held' = FALSE
    /\ UNCHANGED <<begun, listener, resuming, inbox, policy, handling, stored, clock>>

\* retireCallback, of a session that ended or was paused.
Unsubscribes ==
    /\ listener # Nobody /\ (listener = capturing => held /\ resuming = Nobody)
    /\ listener' = Nobody /\ resuming' = Nobody
    /\ UNCHANGED <<capturing, held, begun, inbox, policy, handling, stored, clock>>

\* pause closes admission; the resume in flight gives way.
Pauses ==
    /\ MonitorFree /\ capturing # Nobody /\ (~held \/ resuming = capturing)
    /\ held' = TRUE /\ resuming' = Nobody
    /\ UNCHANGED <<capturing, begun, listener, inbox, policy, handling, stored, clock>>

\* resumeSession: the filter forgets, the provider is asked, the session stays paused ...
Resubscribes ==
    /\ capturing # Nobody /\ held /\ listener # capturing
    /\ policy' = [policy EXCEPT ![capturing] = Nobody]
    /\ stored' = [stored EXCEPT ![capturing] = Nobody]
    /\ resuming' = capturing /\ listener' = capturing
    /\ UNCHANGED <<capturing, held, begun, inbox, handling, clock>>

\* ... until the provider has confirmed, if the session is still that very one.
ResumesOwned ==
    /\ MonitorFree /\ resuming # Nobody /\ resuming' = Nobody
    /\ held' = (held /\ capturing # resuming)
    /\ UNCHANGED <<capturing, begun, listener, inbox, policy, handling, stored, clock>>

---------------------------------------------------------------------------
(* The provider, and the worker of each instance. *)

Delivers(place) ==
    /\ listener # Nobody /\ Len(inbox[listener]) < MaxInbox
    /\ inbox' = [inbox EXCEPT ![listener] = Append(@, [place |-> place, at |-> clock])]
    /\ UNCHANGED <<sessionVars, policy, handling, stored, clock>>

Alike(s, t) == s # Nobody /\ t # Nobody /\ TripOf[s] = TripOf[t]

\* captureIfAdmitted: equal is enough, so a late fix may serve the successor.
Admits(s) ==
    /\ MonitorFree /\ inbox[s] # <<>>
    /\ inbox' = [inbox EXCEPT ![s] = Tail(@)]
    /\ handling' = IF Alike(capturing, s) /\ ~held
                   THEN [for |-> s, fix |-> Head(inbox[s]), step |-> "decide"]
                   ELSE NoFix
    /\ UNCHANGED <<sessionVars, policy, stored, clock>>

HandlerAt(step) == handling # NoFix /\ handling.step = step

Usable(fix) == fix.place # Nowhere
Distance(f, g) == IF f.place > g.place THEN f.place - g.place ELSE g.place - f.place
Near(f, g) == Distance(f, g) < MinDisplacement
Due(last, fix) == fix.at - last.at >= Heartbeat

\* decide: usable, and the first, or displaced, or due.
Decides ==
    LET last == policy[handling.for] fix == handling.fix
        emits == Usable(fix) /\ (last = Nobody \/ ~Near(last, fix) \/ Due(last, fix))
    IN
    /\ HandlerAt("decide")
    /\ handling' = IF emits THEN [handling EXCEPT !.step = "insert"] ELSE NoFix
    /\ UNCHANGED <<sessionVars, inbox, policy, stored, clock>>

\* Variant: a failed write is accepted like any other.
InsertFailsAccepted ==
    /\ HandlerAt("insert")
    /\ handling' = [handling EXCEPT !.step = "accept"]
    /\ UNCHANGED <<sessionVars, inbox, policy, stored, clock>>

\* enqueue throws: the transaction is rolled back and the filter stays.
InsertFails ==
    /\ HandlerAt("insert") /\ handling' = NoFix
    /\ UNCHANGED <<sessionVars, inbox, policy, stored, clock>>

Inserts ==
    /\ HandlerAt("insert")
    /\ stored' = [stored EXCEPT ![handling.for] = handling.fix]
    /\ handling' = [handling EXCEPT !.step = "accept"]
    /\ UNCHANGED <<sessionVars, inbox, policy, clock>>

Accepts ==
    /\ HandlerAt("accept") /\ handling' = NoFix
    /\ policy' = [policy EXCEPT ![handling.for] = handling.fix]
    /\ UNCHANGED <<sessionVars, inbox, stored, clock>>

Ticks ==
    /\ clock < MaxClock /\ clock' = clock + 1
    /\ UNCHANGED <<sessionVars, inbox, policy, handling, stored>>

\* The process dies; what SQLite committed stays.
Dies ==
    /\ capturing # Nobody \/ listener # Nobody
    /\ capturing' = Nobody /\ held' = FALSE /\ listener' = Nobody /\ resuming' = Nobody
    /\ inbox' = [s \in Capture |-> <<>>]
    /\ policy' = [s \in Capture |-> Nobody] /\ handling' = NoFix
    /\ UNCHANGED <<begun, stored, clock>>

FixNext ==
    \/ \E s \in Capture : Claims(s) \/ Admits(s)
    \/ EndsActive \/ Subscribes \/ Unsubscribes \/ Pauses \/ Resubscribes \/ ResumesOwned
    \/ \E place \in Place \cup {Nowhere} : Delivers(place)
    \/ Decides \/ InsertFails \/ Inserts \/ Accepts
    \/ Ticks \/ Dies

FixSpec == FixInit /\ [][FixNext]_fixVars

---------------------------------------------------------------------------
(* Properties *)

\* "Once a stop has returned, no further row can appear for the session it
\* ended", nor once a pause has: whoever is between the check and the end of its
\* insert still serves a session that captures the trip the row will name.
NoRowBehindAStop ==
    handling # NoFix => Alike(capturing, handling.for) /\ ~held

\* What an instance suppresses, the queue has: a fix left out lies within the
\* displacement and the heartbeat of the row this instance stored last, and
\* stored since the session was resumed.  Losing one sample to a failed write
\* does not lose the minutes behind it.
SuppressionJustified ==
    [][\A s \in Capture :
          Decides /\ handling.for = s /\ handling' = NoFix /\ Usable(handling.fix) =>
              /\ stored[s] # Nobody
              /\ Near(stored[s], handling.fix) /\ ~Due(stored[s], handling.fix)]_fixVars
=============================================================================
