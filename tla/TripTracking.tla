----------------------------- MODULE TripTracking -----------------------------
(***************************************************************************)
(* The trip-location orchestrator: which trip, if any, the phone may       *)
(* capture positions for.  One orchestrator lives per login; its           *)
(* operations overlap, await the server and the native module, and go on   *)
(* with what they were answered.                                           *)
(*                                                                         *)
(* The native module is seen through its bridge.  Starts, stops and status *)
(* reads run when they are called, on one thread, and are answered in that *)
(* order; a pause or a resume is sent to the main thread, and a resume     *)
(* waits there for the provider.                                           *)
(***************************************************************************)
EXTENDS Naturals, Sequences, FiniteSets

CONSTANTS
    Op,           \* operations in progress at the same time
    Trip,
    None

VARIABLES
    op,           \* each operation and what it awaits
    bridge,       \* calls of the native-modules thread still to be answered
    mainThread,   \* pauses and resumes sent to the main thread
    native, resumers,    \* the capture session, the calls that wait to resume it
    server,              \* the status of each trip
    authenticated, mounted,
    signingOut, view,    \* of the orchestrator of this login
    overlapped,          \* history: an operation began while it was signing out
    foreground, foregroundPending,
    automatic            \* the owner's drain is started

device == <<mainThread, native, resumers>>
account == <<authenticated, mounted, signingOut, overlapped>>
screen == <<foreground, foregroundPending, automatic>>
trackingVars == <<op, bridge, device, server, account, view, screen>>

\* Whose: the driver of this login, or another one, of a login before.
Whose == {"mine", "another"}
Stopped == [by |-> "nobody", trip |-> None, paused |-> FALSE]
NoOp == [kind |-> "none", at |-> "free", current |-> FALSE, by |-> "nobody",
         trip |-> None, seen |-> "nothing", status |-> Stopped]
Blank == [phase |-> "reconciling", trip |-> None, unknown |-> FALSE, busy |-> FALSE]
Restoration == [NoOp EXCEPT !.kind = "reconcile", !.at = "restore",
                            !.current = TRUE, !.by = "mine"]

\* What each wait is for.
StopWaits == {"endNone", "endAny", "replace", "endLate", "admitOther", "settle",
              "proveOut", "lost"}
StatusWaits == {"closeAny", "look", "lookAgain", "admission"}
BridgeWaits == StopWaits \cup StatusWaits \cup {"started"}
MainWaits == {"resume", "pauseAny", "pauseTrip"}
ServerWaits == {"list", "start", "startCheck", "complete", "completeCheck", "recover"}
OtherWaits == {"restore", "drain", "lastBatch", "logout"}

TrackingTypeOK ==
    /\ \A o \in Op :
          op[o] = NoOp \/
          /\ op[o].kind \in {"reconcile", "request", "start", "complete", "signOut", "lost"}
          /\ op[o].at \in BridgeWaits \cup MainWaits \cup ServerWaits \cup OtherWaits
          /\ op[o].by \in Whose /\ op[o].trip \in Trip \cup {None}
    /\ bridge \in Seq(Op) /\ mainThread \in Seq(Op) /\ resumers \subseteq Op
    /\ native \in [by : Whose \cup {"nobody"}, trip : Trip \cup {None}, paused : BOOLEAN]
    /\ server \in [Trip -> {"assigned", "running", "over"}]
    /\ {authenticated, mounted, signingOut, overlapped, foreground, foregroundPending,
        automatic} \subseteq BOOLEAN
    /\ view \in [phase : {"reconciling", "inactive", "active", "paused", "unavailable"},
                 trip : Trip \cup {None}, unknown : BOOLEAN, busy : BOOLEAN]

\* A login begins in front of the driver, and is initialized there, or behind.
TrackingInit ==
    /\ foreground \in BOOLEAN /\ automatic = foreground /\ foregroundPending = FALSE
    /\ \E o \in Op : op = [q \in Op |-> IF foreground /\ q = o THEN Restoration ELSE NoOp]
    /\ bridge = <<>> /\ mainThread = <<>> /\ native = Stopped /\ resumers = {}
    /\ server = [t \in Trip |-> "assigned"]
    /\ authenticated = TRUE /\ mounted = TRUE
    /\ signingOut = FALSE /\ overlapped = FALSE /\ view = Blank

---------------------------------------------------------------------------
(* How an operation goes on: it is answered, and awaits something else. *)

Mine(o) == op[o].by = "mine"
Live(o) == mounted /\ Mine(o) /\ op[o].current
Publishes(o, next) == view' = IF Mine(o) THEN next ELSE view
Shows(phase, trip) ==
    [view EXCEPT !.phase = phase, !.trip = trip, !.busy = FALSE]

\* The call in front has been answered.
Behind(queue, o) == IF queue # <<>> /\ Head(queue) = o THEN Tail(queue) ELSE queue

Awaits(o, record) ==
    /\ op' = [op EXCEPT ![o] = record]
    /\ bridge' = IF record.at \in BridgeWaits THEN Append(Behind(bridge, o), o)
                 ELSE Behind(bridge, o)

At(o, at, seen) == [op[o] EXCEPT !.at = at, !.seen = seen, !.status = Stopped]
Told(record, status) == [record EXCEPT !.seen = "status", !.status = status]
Goes == UNCHANGED <<server, account, screen>>
Asks(o, at) == Awaits(o, At(o, at, "nothing")) /\ UNCHANGED device /\ Goes

\* A status is read when it is asked for, or cannot be read at all.
Readings(record) == {Told(record, native), [record EXCEPT !.seen = "unreadable"]}
Reads(o, at) ==
    /\ \E record \in Readings(At(o, at, "nothing")) : Awaits(o, record)
    /\ UNCHANGED device /\ Goes

\* stopTracking ends any session; its answer may not prove it.
NativeStops == native' = Stopped /\ resumers' = {} /\ UNCHANGED mainThread
Proofs == {"proved", "unproved"}
Stops(o, at) ==
    NativeStops /\ (\E proof \in Proofs : Awaits(o, At(o, at, proof))) /\ Goes

\* confirmStop: a stop its answer does not prove is proved by a status or not at all.
Rechecks(o) ==
    /\ op[o].at \in StopWaits /\ op[o].seen = "unproved" /\ Head(bridge) = o
    /\ \E proof \in {"refuted"} \cup (IF native = Stopped THEN {"proved"} ELSE {}) :
          Awaits(o, At(o, op[o].at, proof))
    /\ UNCHANGED <<device, view>> /\ Goes

Underway == {o \in Op : op[o].kind \notin {"none", "lost"} /\ Mine(o)}

\* exclusive's finally: the last operation pays back a foreground that came
\* meanwhile, unless the drain was kept all along.
Ends(o, owed) ==
    LET pays == /\ Underway = {o} /\ owed /\ mounted /\ foreground
                /\ ~signingOut' /\ authenticated'
    IN
    /\ op' = [op EXCEPT ![o] = IF pays /\ ~automatic THEN Restoration ELSE NoOp]
    /\ bridge' = Behind(bridge, o)
    /\ foregroundPending' = IF Mine(o) THEN owed /\ ~pays ELSE foregroundPending
    /\ automatic' = (automatic \/ pays)
    /\ UNCHANGED foreground

Done(o) ==
    /\ UNCHANGED <<device, server, account>>
    /\ Ends(o, foregroundPending)

---------------------------------------------------------------------------
(* The driver and the app *)

New(kind, at, trip) ==
    [NoOp EXCEPT !.kind = kind, !.at = at, !.current = TRUE, !.by = "mine", !.trip = trip]

Begins(o, record) ==
    /\ op[o] = NoOp
    /\ op' = [op EXCEPT ![o] = record]
    /\ bridge' = IF record.at \in BridgeWaits THEN Append(bridge, o) ELSE bridge
    /\ overlapped' = (overlapped \/ signingOut)
    /\ UNCHANGED <<device, server, authenticated, mounted, signingOut>>

InFront == mounted /\ authenticated /\ foreground
AtDetail == \E o \in Underway : op[o].kind \in {"start", "complete"}

\* onForeground: what comes during an operation is owed.
Foreground(o) ==
    /\ mounted /\ ~foreground /\ foreground' = TRUE
    /\ IF authenticated /\ ~signingOut /\ Underway = {}
       THEN /\ Begins(o, New("reconcile", "restore", None))
            /\ automatic' = TRUE /\ foregroundPending' = FALSE
       ELSE /\ foregroundPending' = (authenticated /\ ~signingOut)
            /\ UNCHANGED <<op, bridge, device, server, account, automatic>>
    /\ UNCHANGED view

Background ==
    /\ mounted /\ foreground
    /\ foreground' = FALSE /\ foregroundPending' = FALSE /\ automatic' = FALSE
    /\ UNCHANGED <<op, bridge, device, server, account, view>>

\* retryReconcile goes back to an unresolved completion first.
Retry(o) ==
    /\ InFront /\ ~view.busy
    /\ IF view.unknown
       THEN view.trip # None /\ Begins(o, New("reconcile", "recover", view.trip))
       ELSE Begins(o, New("reconcile", "list", None))
    /\ view' = [view EXCEPT !.busy = TRUE, !.phase = IF view.unknown THEN @ ELSE "reconciling"]
    /\ UNCHANGED screen

\* requestOrRetryTracking, its permission dialogs answered.
Request(o) ==
    /\ InFront /\ ~view.busy /\ ~view.unknown
    /\ IF view.trip # None
       THEN \E record \in Readings(New("request", "look", view.trip)) : Begins(o, record)
       ELSE Begins(o, New("request", "list", None))
    /\ view' = [view EXCEPT !.busy = TRUE,
                            !.phase = IF view.trip # None THEN @ ELSE "reconciling"]
    /\ UNCHANGED screen

StartTrip(o, t) ==
    /\ InFront /\ ~AtDetail /\ server[t] = "assigned"
    /\ Begins(o, New("start", "start", t))
    /\ view' = [view EXCEPT !.busy = TRUE]
    /\ UNCHANGED screen

\* The subject of a completion is remembered before anything can fail.
CompleteTrip(o, t) ==
    /\ InFront /\ ~AtDetail /\ server[t] # "assigned"
    /\ \E record \in Readings(New("complete", "admission", t)) : Begins(o, record)
    /\ view' = [view EXCEPT !.busy = TRUE, !.trip = t]
    /\ UNCHANGED screen

\* An ending session: the fence of what is in flight advances before the stop.
StopsBehindFence(o, kind, at) ==
    \E proof \in Proofs :
        /\ op[o] = NoOp /\ NativeStops
        /\ op' = [q \in Op |->
                    IF q # o THEN [op[q] EXCEPT !.current = FALSE]
                    ELSE [New(kind, at, None) EXCEPT !.current = FALSE, !.seen = proof]]
        /\ bridge' = Append(bridge, o)

\* Variant: sign-out stops what runs and leaves the fence alone.
SignsOutUnfenced(o) ==
    /\ InFront /\ ~AtDetail /\ ~signingOut
    /\ signingOut' = TRUE /\ view' = [view EXCEPT !.busy = TRUE]
    /\ \E proof \in Proofs :
          /\ op[o] = NoOp /\ NativeStops
          /\ op' = [op EXCEPT ![o] =
                       [New("signOut", "proveOut", None) EXCEPT !.seen = proof]]
          /\ bridge' = Append(bridge, o)
    /\ UNCHANGED <<server, authenticated, mounted, overlapped, screen>>

SignsOut(o) ==
    /\ InFront /\ ~AtDetail /\ ~signingOut
    /\ signingOut' = TRUE /\ view' = [view EXCEPT !.busy = TRUE]
    /\ StopsBehindFence(o, "signOut", "proveOut")
    /\ UNCHANGED <<server, authenticated, mounted, overlapped, screen>>

\* The session is refused, or was ended elsewhere.
AuthenticationLost(o) ==
    /\ authenticated /\ authenticated' = FALSE
    /\ IF mounted /\ ~signingOut
       THEN /\ StopsBehindFence(o, "lost", "lost")
            /\ view' = [view EXCEPT !.trip = None, !.unknown = FALSE, !.busy = FALSE]
            /\ automatic' = FALSE
       ELSE UNCHANGED <<op, bridge, device, view, automatic>>
    /\ UNCHANGED <<server, mounted, signingOut, overlapped, foreground,
                   foregroundPending>>

\* React takes the screens of the ended session down, and may show a new one's.
Dispose ==
    /\ mounted /\ ~authenticated
    /\ mounted' = FALSE /\ automatic' = FALSE
    /\ op' = [o \in Op |-> [op[o] EXCEPT !.current = FALSE]]
    /\ UNCHANGED <<bridge, device, server, authenticated, signingOut, overlapped,
                   view, foreground, foregroundPending>>

Anothers(by) == IF by = "mine" THEN "another" ELSE by
Past(record) == [record EXCEPT !.by = Anothers(@)]
SignsIn(o) ==
    /\ ~mounted /\ foreground /\ op[o] = NoOp
    /\ authenticated' = TRUE /\ mounted' = TRUE
    /\ signingOut' = FALSE /\ overlapped' = FALSE /\ view' = Blank
    /\ op' = [q \in Op |-> IF q = o THEN Restoration
                            ELSE [Past(op[q]) EXCEPT !.status = Past(@)]]
    /\ native' = Past(native)
    /\ automatic' = TRUE /\ foregroundPending' = FALSE
    /\ UNCHANGED <<bridge, mainThread, resumers, server, foreground>>

---------------------------------------------------------------------------
(* The server, and the main thread of the native module *)

Running == {t \in Trip : server[t] = "running"}

\* A call reaches the server.  A driver has one trip in progress at most.
ServerActs(o) ==
    /\ op[o].at \in ServerWaits /\ op[o].seen = "nothing"
    /\ LET t == op[o].trip
           starts == op[o].at = "start" /\ server[t] = "assigned" /\ Running = {}
           ends == op[o].at = "complete" /\ server[t] = "running"
       IN
       /\ server' = IF starts THEN [server EXCEPT ![t] = "running"]
                    ELSE IF ends THEN [server EXCEPT ![t] = "over"] ELSE server
       /\ IF op[o].at = "list"
          THEN IF Running = {} THEN op' = [op EXCEPT ![o].seen = "noTrip"]
               ELSE \E r \in Running :
                       op' = [op EXCEPT ![o].seen = "oneTrip", ![o].trip = r]
          ELSE op' = [op EXCEPT ![o].seen =
                        IF starts \/ ends THEN "done"
                        ELSE IF op[o].at \in {"start", "complete"} THEN "refused"
                        ELSE server[t]]
    /\ UNCHANGED <<bridge, device, account, view, screen>>

\* From the office, another phone or a request given up: the trip moves on.
Elsewhere(t) ==
    /\ \/ server[t] # "over" /\ server' = [server EXCEPT ![t] = "over"]
       \/ server[t] = "assigned" /\ Running = {} /\ server' = [server EXCEPT ![t] = "running"]
    /\ UNCHANGED <<op, bridge, device, account, view, screen>>

\* What the caller hears: an answer, or that none came, or that the session is over.
Answer(o) ==
    ({op[o].seen} \ {"nothing"})
        \cup {"lost"} \cup (IF authenticated THEN {} ELSE {"unauthenticated"})

Informed(os, status) == [o \in Op |-> IF o \in os THEN Told(op[o], status) ELSE op[o]]
Rejected(os) ==
    [o \in Op |-> IF o \in os THEN [op[o] EXCEPT !.seen = "rejected"] ELSE op[o]]

\* A pause gives the attempts to resume up; the status follows, or cannot be read.
PauseArrives ==
    LET o == Head(mainThread)
        owns == native.by = op[o].by /\ native.trip = op[o].trip
        paused == [native EXCEPT !.paused = TRUE]
    IN
    /\ mainThread # <<>> /\ op[o].at \in {"pauseAny", "pauseTrip"} /\ op[o].seen = "nothing"
    /\ mainThread' = Tail(mainThread)
    /\ IF owns
       THEN /\ native' = paused /\ resumers' = {}
            /\ op' = Informed(resumers \cup {o}, paused)
       ELSE /\ op' = IF native = Stopped THEN Informed({o}, Stopped) ELSE Rejected({o})
            /\ UNCHANGED <<native, resumers>>
    /\ UNCHANGED <<bridge, server, account, view, screen>>

\* A resume asks the provider, unless there is nothing to resume.
ResumeArrives ==
    LET o == Head(mainThread)
        owns == native.by = op[o].by /\ native.trip = op[o].trip
    IN
    /\ mainThread # <<>> /\ op[o].at = "resume" /\ op[o].seen = "nothing"
    /\ mainThread' = Tail(mainThread)
    /\ IF owns /\ native.paused
       THEN resumers' = resumers \cup {o} /\ op' = [op EXCEPT ![o].seen = "asked"]
       ELSE /\ op' = IF native = Stopped \/ owns THEN Informed({o}, native) ELSE Rejected({o})
            /\ UNCHANGED resumers
    /\ UNCHANGED <<native, bridge, server, account, view, screen>>

\* The provider answers all who wait for it, and those whose session is gone.
ProviderConfirms ==
    LET resumed == [native EXCEPT !.paused = FALSE] IN
    /\ resumers # {} /\ resumers' = {}
    /\ \/ native' = resumed /\ op' = Informed(resumers, resumed)
       \/ native' = native /\ op' = Rejected(resumers)
    /\ UNCHANGED <<mainThread, bridge, server, account, view, screen>>

ProviderTooLate(o) ==
    /\ op[o].at = "resume" /\ op[o].seen = "asked" /\ o \notin resumers
    /\ op' = IF native = Stopped THEN Informed({o}, Stopped) ELSE Rejected({o})
    /\ UNCHANGED <<bridge, device, server, account, view, screen>>

\* Android ends the capture service, or it fails.
CaptureEnds ==
    /\ native # Stopped /\ native' = Stopped /\ resumers' = {}
    /\ UNCHANGED <<mainThread, op, bridge, server, account, view, screen>>

---------------------------------------------------------------------------
(* establishCapture *)

Gives(o, phase, trip) == Publishes(o, Shows(phase, trip)) /\ Done(o)

Establishes(o, t, next) ==
    IF Live(o)
    THEN /\ Publishes(o, next)
         /\ \E record \in Readings([At(o, "look", "nothing") EXCEPT !.trip = t]) :
               Awaits(o, record)
         /\ UNCHANGED device /\ Goes
    ELSE Publishes(o, [next EXCEPT !.busy = FALSE]) /\ Done(o)

\* The platform may refuse a new session; another one's is busy.
NativeStarts(o) ==
    LET started == [by |-> op[o].by, trip |-> op[o].trip, paused |-> FALSE] IN
    \/ /\ native = Stopped /\ native' = started
       /\ Awaits(o, Told(At(o, "started", "nothing"), started))
       /\ UNCHANGED <<mainThread, resumers>>
    \/ /\ Awaits(o, IF native.by = op[o].by /\ native.trip = op[o].trip
                    THEN Told(At(o, "started", "nothing"), native)
                    ELSE At(o, "started", "rejected"))
       /\ UNCHANGED device

\* On a status that is this session or no session; the platform's preconditions
\* may not be met.
Proceeds(o, seen) ==
    \/ Gives(o, "unavailable", op[o].trip)
    \/ ~Live(o) /\ Publishes(o, [view EXCEPT !.busy = FALSE]) /\ Done(o)
    \/ /\ Live(o) /\ seen = Stopped
       /\ NativeStarts(o) /\ Goes /\ UNCHANGED view
    \/ /\ Live(o) /\ seen # Stopped /\ seen.paused
       /\ Awaits(o, At(o, "resume", "nothing")) /\ mainThread' = Append(mainThread, o)
       /\ UNCHANGED <<native, resumers, view>> /\ Goes
    \/ /\ Live(o) /\ seen # Stopped /\ ~seen.paused
       /\ Gives(o, "active", op[o].trip)

Returns(o, at) ==
    /\ op[o].at = at /\ op[o].seen \notin {"nothing", "asked", "unproved"}
    /\ at \in BridgeWaits => Head(bridge) = o

Looked(o) ==
    LET seen == op[o].status IN
    /\ Returns(o, "look")
    /\ IF op[o].seen = "unreadable" THEN Gives(o, "unavailable", view.trip)
       ELSE IF seen = Stopped \/ (seen.by = op[o].by /\ seen.trip = op[o].trip)
       THEN Proceeds(o, seen)
       ELSE Stops(o, "replace") /\ UNCHANGED view

Replaced(o) ==
    /\ Returns(o, "replace")
    /\ IF op[o].seen = "proved" THEN Reads(o, "lookAgain") /\ UNCHANGED view
       ELSE Gives(o, "unavailable", op[o].trip)

LookedAgain(o) ==
    /\ Returns(o, "lookAgain")
    /\ IF op[o].seen = "status" /\ op[o].status = Stopped THEN Proceeds(o, Stopped)
       ELSE Gives(o, "unavailable", op[o].trip)

\* A start or a resume that comes back behind the fence is stopped.
Established(o) ==
    /\ Returns(o, "started") \/ Returns(o, "resume")
    /\ IF op[o].seen = "rejected" THEN Gives(o, "unavailable", op[o].trip)
       ELSE IF ~Live(o) THEN Stops(o, "endLate") /\ UNCHANGED view
       ELSE Gives(o, IF op[o].status = Stopped \/ op[o].status.paused THEN "paused" ELSE "active",
                  op[o].trip)

EndedLate(o) ==
    /\ Returns(o, "endLate")
    /\ Publishes(o, [view EXCEPT !.busy = FALSE]) /\ Done(o)

---------------------------------------------------------------------------
(* reconcile and recoverCompletion *)

Reconciles(o) ==
    IF Live(o) /\ authenticated
    THEN Asks(o, "list") /\ Publishes(o, [view EXCEPT !.phase = "reconciling", !.busy = TRUE])
    ELSE Done(o) /\ UNCHANGED view

Restored(o) ==
    /\ op[o].at = "restore"
    /\ IF Mine(o) /\ view.unknown
       THEN IF view.trip # None /\ authenticated /\ Live(o)
            THEN /\ Awaits(o, [At(o, "recover", "nothing") EXCEPT !.trip = view.trip])
                 /\ Publishes(o, [view EXCEPT !.busy = TRUE])
                 /\ UNCHANGED device /\ Goes
            ELSE Done(o) /\ UNCHANGED view
       ELSE Reconciles(o)

\* Without an answer admission is closed, whoever's session it is.
RunningListed(o) ==
    /\ op[o].at = "list"
    /\ \E answer \in Answer(o) :
          IF answer \in {"lost", "unauthenticated"}
          THEN Reads(o, "closeAny") /\ UNCHANGED view
          ELSE IF ~Live(o) THEN Done(o) /\ UNCHANGED view
          ELSE IF answer = "noTrip" THEN Stops(o, "endNone") /\ UNCHANGED view
          ELSE Establishes(o, op[o].trip, [view EXCEPT !.trip = op[o].trip])

EndedNone(o) ==
    /\ Returns(o, "endNone")
    /\ Gives(o, IF op[o].seen = "proved" THEN "inactive" ELSE "unavailable", None)

ClosedAny(o) ==
    LET seen == op[o].status IN
    /\ Returns(o, "closeAny")
    /\ IF op[o].seen # "unreadable" /\ (seen = Stopped \/ seen.paused)
       THEN Gives(o, "reconciling", None)
       ELSE IF op[o].seen # "unreadable" /\ seen.by = op[o].by
       THEN /\ Awaits(o, [At(o, "pauseAny", "nothing") EXCEPT !.trip = seen.trip])
            /\ mainThread' = Append(mainThread, o)
            /\ UNCHANGED <<native, resumers, view>> /\ Goes
       ELSE Stops(o, "endAny") /\ UNCHANGED view

PausedAny(o) ==
    /\ Returns(o, "pauseAny")
    /\ IF op[o].seen = "rejected" THEN Stops(o, "endAny") /\ UNCHANGED view
       ELSE Gives(o, "reconciling", None)

EndedAny(o) ==
    /\ Returns(o, "endAny")
    /\ Gives(o, IF op[o].seen = "proved" THEN "reconciling" ELSE "unavailable", None)

Recovered(o) ==
    /\ op[o].at = "recover"
    /\ \E answer \in Answer(o) :
          IF answer \in {"lost", "unauthenticated"} \/ ~Live(o)
          THEN Publishes(o, IF answer \in {"lost", "unauthenticated"}
                            THEN [view EXCEPT !.busy = FALSE] ELSE view) /\ Done(o)
          ELSE IF answer = "running"
          THEN Establishes(o, op[o].trip, [view EXCEPT !.unknown = FALSE])
          ELSE Stops(o, "settle") /\ UNCHANGED view

---------------------------------------------------------------------------
(* startTrip and completeTrip *)

StartAnswered(o) ==
    /\ op[o].at = "start"
    /\ \E answer \in Answer(o) :
          IF answer = "unauthenticated"
          THEN Publishes(o, [view EXCEPT !.busy = FALSE]) /\ Done(o)
          ELSE IF answer = "done"
          THEN Establishes(o, op[o].trip, [view EXCEPT !.trip = op[o].trip])
          ELSE Asks(o, "startCheck") /\ UNCHANGED view

StartChecked(o) ==
    /\ op[o].at = "startCheck"
    /\ \E answer \in Answer(o) :
          IF answer = "running"
          THEN Establishes(o, op[o].trip, [view EXCEPT !.trip = op[o].trip])
          ELSE Publishes(o, [view EXCEPT !.busy = FALSE]) /\ Done(o)

Uploads(o) == Awaits(o, At(o, "drain", "nothing")) /\ UNCHANGED device /\ Goes
Refuses(o) == Publishes(o, [view EXCEPT !.busy = FALSE]) /\ Done(o)

\* closeAdmission: no completion on top of a capture that may still write rows.
Admission(o) ==
    LET seen == op[o].status IN
    /\ Returns(o, "admission")
    /\ IF op[o].seen = "unreadable" THEN Refuses(o)
       ELSE IF seen = Stopped THEN Uploads(o) /\ UNCHANGED view
       ELSE IF seen.by # op[o].by \/ seen.trip # op[o].trip
       THEN Stops(o, "admitOther") /\ UNCHANGED view
       ELSE IF seen.paused
       THEN Uploads(o) /\ Publishes(o, [view EXCEPT !.phase = "paused", !.trip = op[o].trip])
       ELSE /\ Awaits(o, At(o, "pauseTrip", "nothing")) /\ mainThread' = Append(mainThread, o)
            /\ UNCHANGED <<native, resumers, view>> /\ Goes

AdmittedOther(o) ==
    /\ Returns(o, "admitOther")
    /\ IF op[o].seen = "proved" THEN Uploads(o) /\ UNCHANGED view ELSE Refuses(o)

PausedTrip(o) ==
    /\ Returns(o, "pauseTrip")
    /\ IF op[o].seen = "rejected" THEN Refuses(o)
       ELSE /\ Uploads(o)
            /\ Publishes(o, [view EXCEPT !.phase =
                               IF op[o].status = Stopped THEN "inactive" ELSE "paused"])

Drained(o) == op[o].at = "drain" /\ Asks(o, "complete") /\ UNCHANGED view

Unresolved(o) == Publishes(o, [view EXCEPT !.unknown = TRUE, !.busy = FALSE]) /\ Done(o)

Completed(o) ==
    /\ op[o].at = "complete"
    /\ \E answer \in Answer(o) :
          IF answer = "unauthenticated" THEN Unresolved(o)
          ELSE IF answer = "done" THEN Stops(o, "settle") /\ UNCHANGED view
          ELSE Asks(o, "completeCheck") /\ UNCHANGED view

CompleteChecked(o) ==
    /\ op[o].at = "completeCheck"
    /\ \E answer \in Answer(o) :
          IF answer \in {"lost", "unauthenticated"} THEN Unresolved(o)
          ELSE IF answer = "running"
          THEN Establishes(o, op[o].trip, [view EXCEPT !.unknown = FALSE])
          ELSE Stops(o, "settle") /\ UNCHANGED view

CompletionSettled(o) ==
    /\ Returns(o, "settle")
    /\ Publishes(o, [phase |-> IF op[o].seen = "proved" THEN "inactive" ELSE "unavailable",
                     trip |-> None, unknown |-> FALSE, busy |-> FALSE])
    /\ Done(o)

---------------------------------------------------------------------------
(* signOut and the loss of the session *)

\* A stop without proof leaves the driver signed in and owes a restoration.
StopProved(o) ==
    /\ Returns(o, "proveOut")
    /\ IF op[o].seen = "proved"
       THEN /\ Awaits(o, At(o, "lastBatch", "nothing"))
            /\ automatic' = (automatic /\ ~Mine(o))
            /\ UNCHANGED <<device, server, account, view, foreground, foregroundPending>>
       ELSE /\ signingOut' = (signingOut /\ ~Mine(o))
            /\ Publishes(o, Shows("unavailable", view.trip))
            /\ UNCHANGED <<device, server, authenticated, mounted, overlapped>>
            /\ Ends(o, foregroundPending \/ (mounted /\ authenticated /\ foreground))

\* The logout ends whichever login there is by now; for another driver's that is
\* a lost session.
LastBatch(o) ==
    /\ op[o].at = "lastBatch"
    /\ Awaits(o, At(o, "logout", "nothing"))
    /\ authenticated' = (authenticated /\ ~Mine(o))
    /\ UNCHANGED <<device, server, mounted, signingOut, overlapped, view, screen>>

LoggedOut(o) ==
    /\ op[o].at = "logout"
    /\ Publishes(o, [phase |-> "inactive", trip |-> None, unknown |-> FALSE, busy |-> FALSE])
    /\ Done(o)

LossSettled(o) ==
    /\ Returns(o, "lost")
    /\ op' = [op EXCEPT ![o] = NoOp] /\ bridge' = Behind(bridge, o)
    /\ Publishes(o, [view EXCEPT !.phase = IF op[o].seen = "proved" THEN "inactive"
                                           ELSE "unavailable"])
    /\ UNCHANGED <<device, server, account, screen>>

---------------------------------------------------------------------------
Asked(o) ==
    \/ Foreground(o) \/ Retry(o) \/ Request(o) \/ SignsOut(o) \/ AuthenticationLost(o) \/ SignsIn(o)
    \/ \E t \in Trip : StartTrip(o, t) \/ CompleteTrip(o, t)

Continues(o) ==
    \/ Rechecks(o) \/ ServerActs(o) \/ ProviderTooLate(o)
    \/ Looked(o) \/ Replaced(o) \/ LookedAgain(o) \/ Established(o) \/ EndedLate(o)
    \/ Restored(o) \/ RunningListed(o) \/ EndedNone(o) \/ ClosedAny(o) \/ PausedAny(o) \/ EndedAny(o)
    \/ Recovered(o) \/ StartAnswered(o) \/ StartChecked(o)
    \/ Admission(o) \/ AdmittedOther(o) \/ PausedTrip(o) \/ Drained(o)
    \/ Completed(o) \/ CompleteChecked(o) \/ CompletionSettled(o)
    \/ StopProved(o) \/ LastBatch(o) \/ LoggedOut(o) \/ LossSettled(o)

TrackingNext ==
    \/ \E o \in Op : Asked(o) \/ Continues(o)
    \/ Background \/ Dispose \/ PauseArrives \/ ResumeArrives \/ ProviderConfirms \/ CaptureEnds
    \/ \E t \in Trip : Elsewhere(t)

TrackingSpec == TrackingInit /\ [][TrackingNext]_trackingVars

---------------------------------------------------------------------------
(* Properties *)

Idle == \A o \in Op : op[o] = NoOp
Capturing == native # Stopped /\ ~native.paused

\* No capture outlives the session it was for, unless the driver began something
\* else while signing out.
CaptureEndsWithSession ==
    Idle /\ ~authenticated /\ ~overlapped => native = Stopped

\* "Not tracking" is never said while the phone captures.
InactiveMeansStopped ==
    Idle /\ view.phase = "inactive" /\ ~view.unknown /\ ~overlapped => native = Stopped

\* In front of a driver who is signed in the drain is running.
ForegroundDrains ==
    Idle /\ mounted /\ authenticated /\ foreground /\ ~signingOut => automatic

TrackingInv ==
    TrackingTypeOK /\ CaptureEndsWithSession /\ InactiveMeansStopped /\ ForegroundDrains

\* What the orchestrator's own comment promises: signing out waits until capture
\* is provably over.
SignedOutMeansStopped == Idle /\ ~authenticated => native = Stopped
=============================================================================
