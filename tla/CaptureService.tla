---------------------------- MODULE CaptureService ---------------------------
(***************************************************************************)
(* The capture session of the phone: TripLocationRuntime's monitor, the    *)
(* foreground service that owns the provider subscription, and the bridge  *)
(* calls that start, stop, pause and resume.  A session is an object: two  *)
(* of them may name the same owner and trip.                               *)
(*                                                                         *)
(* Three threads meet here.  startTracking and stopTracking run on the     *)
(* native-modules thread, one call at a time; everything of the service    *)
(* runs on the main thread, one message at a time; each use of the monitor *)
(* is one step of either.  The provider answers when it likes.             *)
(***************************************************************************)
EXTENDS Naturals, Sequences, FiniteSets

CONSTANTS
    Session, JourneyOf,    \* session objects; the owner and trip each names
    Callback,              \* location callbacks, reused once removed
    Caller,                \* resumeTracking calls in progress
    Null

ASSUME NullAssumption == Null \notin Session \cup Callback

VARIABLES
    active, paused,        \* TripLocationRuntime
    claimed,               \* sessions claimed so far
    starting,              \* the session startTracking has claimed and not yet served
    looper,                \* Android's messages for the main thread
    main,                  \* what the main thread is in the middle of
    service,               \* the live instance; of its fields `ahead` is a history:
                           \* a resume was asked of it for a session it did not serve
    registration,          \* what the provider knows of each callback
    answer                 \* of each resumeTracking

runtime == <<active, paused, claimed>>
captureVars == <<runtime, starting, looper, main, service, registration, answer>>

Journey == {JourneyOf[s] : s \in Session}
Names(s, j) == s # Null /\ JourneyOf[s] = j
SameJourney(s, t) == s # Null /\ t # Null /\ JourneyOf[s] = JourneyOf[t]

NoService == [live |-> FALSE, owned |-> Null, callback |-> Null,
              pending |-> Null, waiters |-> {}, kick |-> FALSE, ahead |-> FALSE]
Created == [NoService EXCEPT !.live = TRUE]
Unused == [of |-> Null, at |-> "unused"]
AtRest == [at |-> "free", for |-> Null]

Message == {"create", "start", "destroy"}
Moment == [at : {"free", "starting", "pausing"}, for : Session \cup {Null}]
Instance == [live : BOOLEAN, owned : Session \cup {Null},
             callback : Callback \cup {Null}, pending : Callback \cup {Null},
             waiters : SUBSET Caller, kick : BOOLEAN, ahead : BOOLEAN]
Subscription == [of : Session \cup {Null},
                 at : {"unused", "asked", "dropped", "listening", "refused"}]
Reply == {"none", "waiting", "applied", "notRunning", "busy", "superseded", "failed"}

CaptureTypeOK ==
    /\ active \in Session \cup {Null} /\ paused \in BOOLEAN
    /\ claimed \subseteq Session /\ starting \in claimed \cup {Null}
    /\ looper \in Seq(Message) /\ main \in Moment /\ service \in Instance
    /\ registration \in [Callback -> Subscription]
    /\ answer \in [Caller -> Reply]

CaptureInit ==
    /\ active = Null /\ paused = FALSE /\ claimed = {} /\ starting = Null
    /\ looper = <<>> /\ main = AtRest /\ service = NoService
    /\ registration = [k \in Callback |-> Unused]
    /\ answer = [c \in Caller |-> "none"]

---------------------------------------------------------------------------
(* Android: one instance at a time, its messages in order. *)

\* Whether there will be an instance once the messages are through.
Recorded == IF looper = <<>> THEN service.live ELSE looper[Len(looper)] # "destroy"

StartService == looper \o IF Recorded THEN <<"start">> ELSE <<"create", "start">>

StopService == IF Recorded THEN Append(looper, "destroy") ELSE looper

\* An instance stops itself, unless Android has already let go of it.
StopSelf(messages) ==
    IF \E i \in DOMAIN messages : messages[i] = "destroy" THEN messages
    ELSE Append(messages, "destroy")

---------------------------------------------------------------------------
(* startTracking and stopTracking *)

\* Another session is busy, the same one is a no-op: only a free runtime is
\* claimed, by a caller that passed the gates.
Claim(s) ==
    /\ starting = Null /\ active = Null /\ s \notin claimed
    /\ active' = s /\ paused' = FALSE /\ claimed' = claimed \cup {s}
    /\ starting' = s
    /\ UNCHANGED <<looper, main, service, registration, answer>>

\* Android may refuse to start the service, which ends the session.
RequestStart ==
    /\ starting # Null /\ starting' = Null
    /\ \/ /\ SameJourney(active, starting)
          /\ looper' = StartService
          /\ UNCHANGED <<active, paused>>
       \/ /\ SameJourney(active, starting)
          /\ active' = Null /\ paused' = FALSE
          /\ UNCHANGED looper
       \/ ~SameJourney(active, starting) /\ UNCHANGED <<active, paused, looper>>
    /\ UNCHANGED <<claimed, main, service, registration, answer>>

StopTracking ==
    /\ starting = Null /\ active # Null
    /\ active' = Null /\ paused' = FALSE
    /\ looper' = StopService
    /\ UNCHANGED <<claimed, starting, main, service, registration, answer>>

---------------------------------------------------------------------------
(* The service's own steps, on the main thread. *)

MainFree == main = AtRest
NextMessage(m) == MainFree /\ looper # <<>> /\ Head(looper) = m

CallbackSession == IF service.callback = Null THEN Null ELSE registration[service.callback].of

Remove(k) == [registration EXCEPT ![k] = Unused]

\* retireCallback(expected), Null standing for whatever there is.  An attempt
\* to resume whose callback goes this way still hears from the provider.
Retires(expected) == service.callback # Null /\ (expected # Null => SameJourney(CallbackSession, expected))
Retired(expected) ==
    IF ~Retires(expected) THEN registration
    ELSE IF service.callback = service.pending
    THEN [registration EXCEPT ![service.callback].at = "dropped"]
    ELSE Remove(service.callback)
WithoutCallback(expected) ==
    IF Retires(expected) THEN [service EXCEPT !.callback = Null] ELSE service

Answered(callers, result) ==
    [c \in Caller |-> IF c \in callers THEN result ELSE answer[c]]

\* fail: a session that is still this very one ends with its service.
Fail(s, messages) ==
    IF active = s
    THEN /\ active' = Null /\ paused' = FALSE
         /\ registration' = Retired(s)
         /\ service' = [WithoutCallback(s) EXCEPT !.kick = FALSE]
         /\ looper' = StopSelf(messages)
    ELSE /\ looper' = messages
         /\ UNCHANGED <<active, paused, registration, service>>

Create ==
    /\ NextMessage("create")
    /\ looper' = Tail(looper) /\ service' = Created
    /\ UNCHANGED <<runtime, starting, main, registration, answer>>

\* onStartCommand: the active session is read once ...
StartCommand ==
    /\ NextMessage("start")
    /\ IF active = Null
       THEN looper' = StopSelf(Tail(looper)) /\ UNCHANGED main
       ELSE looper' = Tail(looper) /\ main' = [at |-> "starting", for |-> active]
    /\ UNCHANGED <<runtime, starting, service, registration, answer>>

\* ... and served, or refused by Android or the provider.
NotServed ==
    /\ main.at = "starting" /\ main' = AtRest
    /\ Fail(main.for, looper)
    /\ UNCHANGED <<claimed, starting, answer>>

\* Variant: a start command subscribes whether the session is paused or not.
ServeAnyway ==
    /\ main.at = "starting" /\ main' = AtRest
    /\ \E k \in Callback :
          /\ registration[k] = Unused
          /\ registration' = [Retired(Null) EXCEPT ![k] = [of |-> main.for, at |-> "asked"]]
          /\ service' = [service EXCEPT !.owned = main.for, !.callback = k, !.kick = TRUE]
    /\ UNCHANGED <<runtime, starting, looper, answer>>

\* A session this instance served before is replaced, its attempt to resume with it.
Replaces == service.owned \notin {Null, main.for}
GivesWay ==
    Replaces /\ service.pending # Null /\ registration[service.pending].of = service.owned

Cleared ==
    [k \in Callback |->
        IF GivesWay /\ k = service.pending THEN Unused
        ELSE IF Replaces THEN Retired(Null)[k] ELSE registration[k]]
Resumed(kept) ==
    IF GivesWay THEN [kept EXCEPT !.pending = Null, !.waiters = {}] ELSE kept

Serve ==
    LET kept == Resumed(IF Replaces THEN WithoutCallback(Null) ELSE service) IN
    /\ main.at = "starting" /\ main' = AtRest
    /\ answer' = IF GivesWay THEN Answered(service.waiters, "superseded") ELSE answer
    /\ IF kept.callback = Null /\ ~paused
       THEN \E k \in Callback :
               /\ Cleared[k] = Unused
               /\ registration' = [Cleared EXCEPT ![k] = [of |-> main.for, at |-> "asked"]]
               /\ service' = [kept EXCEPT !.owned = main.for, !.callback = k, !.kick = TRUE]
       ELSE /\ registration' = Cleared
            /\ service' = [kept EXCEPT !.owned = main.for, !.kick = TRUE]
    /\ UNCHANGED <<runtime, starting, looper>>

Destroy ==
    /\ NextMessage("destroy")
    /\ looper' = Tail(looper) /\ service' = NoService
    /\ registration' = [k \in Callback |-> Unused]
    /\ answer' = Answered(service.waiters,
                          CASE active = Null -> "notRunning"
                            [] active # Null /\ active = registration[service.pending].of -> "failed"
                            [] OTHER -> "busy")
    /\ IF active # Null /\ active = service.owned
       THEN active' = Null /\ paused' = FALSE
       ELSE UNCHANGED <<active, paused>>
    /\ UNCHANGED <<claimed, starting, main>>

\* The repeating request for a drain checks again each time it runs.
DrainKick ==
    /\ MainFree /\ service.kick
    /\ active = Null \/ paused \/ service.owned # active
    /\ service' = [service EXCEPT !.kick = FALSE]
    /\ UNCHANGED <<runtime, starting, looper, main, registration, answer>>

---------------------------------------------------------------------------
(* pauseTracking and resumeTracking, dispatched to the main thread. *)

\* Admission closes first; what the service does follows.
Pause(j) ==
    /\ MainFree /\ Names(active, j)
    /\ ~paused \/ service.live
    /\ paused' = TRUE
    /\ main' = IF service.live THEN [at |-> "pausing", for |-> Null] ELSE AtRest
    /\ UNCHANGED <<active, claimed, starting, looper, service, registration, answer>>

\* The attempt to resume the very session that is active gives way.
Superseded == service.pending # Null /\ active = registration[service.pending].of

PauseService ==
    LET unsubscribed == IF Superseded THEN Remove(service.pending) ELSE Retired(active)
        left == IF Superseded
                THEN [service EXCEPT !.pending = Null, !.waiters = {}, !.callback = Null]
                ELSE WithoutCallback(active)
    IN
    /\ main.at = "pausing" /\ main' = AtRest
    /\ answer' = IF Superseded THEN Answered(service.waiters, "superseded") ELSE answer
    /\ registration' = unsubscribed
    /\ service' = [left EXCEPT !.kick = FALSE]
    /\ UNCHANGED <<runtime, starting, looper>>

\* Nothing to wait for.
ResumeAnswered(c, j) ==
    /\ MainFree /\ answer[c] # "waiting"
    /\ answer' = [answer EXCEPT ![c] =
         CASE active = Null -> "notRunning"
           [] active # Null /\ ~Names(active, j) -> "busy"
           [] Names(active, j) /\ ~paused -> "applied"
           [] Names(active, j) /\ paused -> "failed"]
    /\ Names(active, j) /\ paused => ~service.live \/ service.pending = Null
    /\ UNCHANGED <<runtime, starting, looper, main, service, registration>>

\* A second call joins the attempt in flight.
ResumeJoins(c, j) ==
    /\ MainFree /\ answer[c] # "waiting"
    /\ service.live /\ Names(active, j) /\ paused /\ Superseded
    /\ answer' = [answer EXCEPT ![c] = "waiting"]
    /\ service' = [service EXCEPT !.waiters = @ \cup {c}]
    /\ UNCHANGED <<runtime, starting, looper, main, registration>>

\* The subscription comes first, the session stays paused; an attempt for an
\* earlier session is given up.
ResumeAsks(c, j) ==
    /\ MainFree /\ answer[c] # "waiting"
    /\ service.live /\ Names(active, j) /\ paused /\ ~Superseded
    /\ \E k \in Callback :
          /\ registration[k] = Unused
          /\ registration' =
               [(IF service.pending = Null THEN registration ELSE Remove(service.pending))
                  EXCEPT ![k] = [of |-> active, at |-> "asked"]]
          /\ service' = [service EXCEPT !.callback = k, !.pending = k, !.waiters = {c},
                                       !.ahead = @ \/ service.owned # active]
    /\ answer' = [Answered(service.waiters, "superseded") EXCEPT ![c] = "waiting"]
    /\ UNCHANGED <<runtime, starting, looper, main>>

---------------------------------------------------------------------------
(* The provider answers, whenever it likes. *)

Awaited(k) == MainFree /\ registration[k].at \in {"asked", "dropped"}
Settles == [service EXCEPT !.pending = Null, !.waiters = {}]
Current(k) == service.callback = k /\ service.owned # Null /\ registration[k].of = service.owned

\* Variant: the session of that owner and trip, whichever it is.
ConfirmAlike(k) ==
    /\ Awaited(k) /\ service.pending = k /\ SameJourney(active, registration[k].of)
    /\ paused' = FALSE
    /\ registration' = [registration EXCEPT ![k].at = "listening"]
    /\ service' = [Settles EXCEPT !.kick = TRUE]
    /\ answer' = Answered(service.waiters, "applied")
    /\ UNCHANGED <<active, claimed, starting, looper, main>>

\* confirmResume: only now is the session unpaused.
Confirm(k) ==
    /\ Awaited(k) /\ service.pending = k /\ active = registration[k].of
    /\ paused' = FALSE
    /\ registration' = [registration EXCEPT ![k].at = "listening"]
    /\ service' = [Settles EXCEPT !.kick = TRUE]
    /\ answer' = Answered(service.waiters, "applied")
    /\ UNCHANGED <<active, claimed, starting, looper, main>>

\* Stopped or replaced while the provider was registering.
ConfirmTooLate(k) ==
    /\ Awaited(k) /\ service.pending = k /\ active # registration[k].of
    /\ registration' = Remove(k)
    /\ service' = IF service.callback = k THEN [Settles EXCEPT !.callback = Null] ELSE Settles
    /\ answer' = Answered(service.waiters, IF active = Null THEN "notRunning" ELSE "busy")
    /\ UNCHANGED <<runtime, starting, looper, main>>

\* failResume: the session, if it is still there, stays paused.
ResumeFails(k) ==
    /\ Awaited(k) /\ service.pending = k
    /\ registration' = Remove(k)
    /\ service' = IF service.callback = k THEN [Settles EXCEPT !.callback = Null] ELSE Settles
    /\ answer' = Answered(service.waiters,
                          CASE active = Null -> "notRunning"
                            [] active # Null /\ active = registration[k].of -> "failed"
                            [] OTHER -> "busy")
    /\ UNCHANGED <<runtime, starting, looper, main>>

\* The first subscription of a session.
Registered(k) ==
    /\ Awaited(k) /\ service.pending # k
    /\ IF Current(k)
       THEN /\ registration' = [registration EXCEPT ![k].at = "listening"]
            /\ UNCHANGED service
       ELSE /\ registration' = Remove(k)
            /\ service' = IF service.callback = k THEN [service EXCEPT !.callback = Null]
                          ELSE service
    /\ UNCHANGED <<runtime, starting, looper, main, answer>>

NotRegistered(k) ==
    /\ Awaited(k) /\ service.pending # k
    /\ IF Current(k)
       THEN /\ active = registration[k].of => Fail(active, looper)
            /\ active # registration[k].of =>
                  /\ registration' = [registration EXCEPT ![k].at = "refused"]
                  /\ UNCHANGED <<active, paused, service, looper>>
       ELSE /\ registration' = Remove(k)
            /\ service' = IF service.callback = k THEN [service EXCEPT !.callback = Null]
                          ELSE service
            /\ UNCHANGED <<active, paused, looper>>
    /\ UNCHANGED <<claimed, starting, main, answer>>

---------------------------------------------------------------------------
\* Android ends the service on its own account.
SystemStops ==
    /\ Recorded /\ looper' = StopService
    /\ UNCHANGED <<runtime, starting, main, service, registration, answer>>

\* The process dies: no session, and no promise to answer.
ProcessDies ==
    /\ active # Null \/ service.live
    /\ active' = Null /\ paused' = FALSE /\ starting' = Null
    /\ looper' = <<>> /\ main' = AtRest /\ service' = NoService
    /\ registration' = [k \in Callback |-> Unused]
    /\ answer' = [c \in Caller |-> "none"]
    /\ UNCHANGED claimed

Bridge == (\E s \in Session : Claim(s)) \/ RequestStart \/ StopTracking

MainThread ==
    \/ Create \/ StartCommand \/ NotServed \/ Serve \/ Destroy \/ DrainKick
    \/ PauseService
    \/ \E j \in Journey :
          \/ Pause(j)
          \/ \E c \in Caller : ResumeAnswered(c, j) \/ ResumeJoins(c, j) \/ ResumeAsks(c, j)

Provider ==
    \E k \in Callback :
        \/ Confirm(k) \/ ConfirmTooLate(k) \/ ResumeFails(k)
        \/ Registered(k) \/ NotRegistered(k)

CaptureNext == Bridge \/ MainThread \/ Provider \/ SystemStops \/ ProcessDies

CaptureSpec == CaptureInit /\ [][CaptureNext]_captureVars

---------------------------------------------------------------------------
(* Properties *)

Quiet == main = AtRest /\ looper = <<>> /\ starting = Null

\* No session says it is running with nothing behind it: when no message is on
\* its way, a session has a live service of its own, subscribed for it unless
\* it is paused, and a paused one listens to nothing.  A resume asked of a
\* service that does not serve the session yet may leave it unsubscribed.
CaptureBacked ==
    active # Null /\ Quiet =>
        /\ service.live /\ service.owned = active
        /\ ~service.ahead =>
              IF paused THEN service.callback = service.pending
              ELSE service.callback # Null /\ CallbackSession = active

\* Whoever waits for a resume waits for the attempt in flight, of which the live
\* service will hear, and nobody else does.
WaitersServed ==
    /\ \A c \in Caller : answer[c] = "waiting" <=> c \in service.waiters
    /\ service.waiters # {} <=> service.pending # Null
    /\ service.pending # Null =>
          service.live /\ registration[service.pending].at \in {"asked", "dropped"}

\* As long as a session captures, the drain is asked for now and then.
KicksWhileCapturing ==
    active # Null /\ ~paused /\ Quiet => service.kick

CaptureInv == CaptureTypeOK /\ CaptureBacked /\ WaitersServed /\ KicksWhileCapturing

\* Nobody who waited is told that the session captures before the provider
\* listens for that very session ...
ToldOnceListening ==
    \A c \in Caller :
        answer[c] = "waiting" /\ answer'[c] = "applied" =>
            /\ active' # Null /\ ~paused'
            /\ service'.callback # Null
            /\ registration'[service'.callback] = [of |-> active', at |-> "listening"]

\* ... as long as the service was asked to resume only what it serves.
ResumeHonest == [][~service.ahead => ToldOnceListening]_captureVars

\* TripLocationService says so without that condition: a resume is asynchronous "so
\* no caller can be told the session is capturing before anything is listening".
NeverToldTooEarly == [][ToldOnceListening]_captureVars
=============================================================================
