------------------------------ MODULE MCClients -----------------------------
(***************************************************************************)
(* Small instances, for TLC, of two clients that keep asking the API and   *)
(* share no state: the drain of the phone's queue, and the tabs of the     *)
(* browser.  Init picks one; the other stands still.                       *)
(***************************************************************************)
EXTENDS LocationDrain, TLC

CONSTANTS Family, MaxTokens, MaxLate, Unborn, Ended, None, Request

VARIABLES part, current, issued, replayed, late, jar, request, attempt, holder

TripNames == {"A"}
Journeys == [s \in Sample |-> "A"]

\* One request in each of two tabs.
TwoTabs == {"tabA", "tabB"}
PageOf == [q \in Request |-> IF q = 2 THEN "tabB" ELSE "tabA"]
Browser == INSTANCE BrowserSession WITH Tab <- TwoTabs, TabOf <- PageOf
browserVars == <<current, issued, replayed, late, jar, request, attempt, holder>>

PartsInit == part \in {"drain", "browser"} /\ Init /\ Browser!Init
DrainMoves == part = "drain" /\ Next /\ UNCHANGED <<part, browserVars>>
BrowserMoves == part = "browser" /\ Browser!Next /\ UNCHANGED <<part, vars>>
PartsNext == DrainMoves \/ BrowserMoves

\* A drain that stands still has nothing to do but wait for the network.
FairParts ==
    /\ PartsInit /\ [][PartsNext]_<<part, vars, browserVars>>
    /\ PassFairness /\ WF_vars(part = "drain" /\ Recovers)
    /\ \A q \in Request : WF_browserVars(part = "browser" /\ Browser!Answers(q))
    /\ \A t \in TwoTabs :
          /\ WF_browserVars(part = "browser" /\ Browser!Proceeds(t))
          /\ SF_browserVars(part = "browser" /\ Browser!Enter(t))

\* No tab is logged out by another tab of its own (BrowserSession).
TabsNeverReplay == Browser!TabsNeverReplay
\* Every page request is answered (BrowserSession).
EveryFetchSettles == Browser!EveryFetchSettles
=============================================================================
