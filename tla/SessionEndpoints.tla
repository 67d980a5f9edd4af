--------------------------- MODULE SessionEndpoints --------------------------
(***************************************************************************)
(* What /auth/login, /auth/refresh and /auth/logout answer a client, as    *)
(* far as SessionFamilies promises it.  A client knows its tokens only: a  *)
(* token is its family and its number in the family's chain.               *)
(***************************************************************************)
EXTENDS Naturals, FiniteSets

CONSTANTS Family, MaxTokens,   \* bound: the tokens a family may have
          MaxLate,             \* bound: requests that may still arrive late
          Unborn, Ended

ASSUME EndpointAssumption == MaxTokens \in Nat \ {0} /\ MaxLate \in Nat /\ Unborn # Ended

VARIABLES
    current, issued,   \* the families, as in SessionFamilies
    replayed,          \* families ended because a rotated token came back
    late               \* tokens of refresh requests nobody waits for any more

endpoints == <<current, issued, replayed, late>>

Token == Family \X (1..MaxTokens)

ASSUME TokenAssumption == Unborn \notin Token /\ Ended \notin Token

FamilyOf(t) == t[1]

Families == INSTANCE SessionFamilies WITH Session <- Token

EndpointsTypeOK == Families!TypeOK /\ replayed \subseteq Family /\ late \subseteq Token

EndpointsInit == Families!Init /\ replayed = {} /\ late = {}

Alive(f) == current[f] \in Token
Successor(t) == <<t[1], t[2] + 1>>

\* A login opens a family with its first token.
OpenFamily(f) == Families!Open(f, <<f, 1>>) /\ UNCHANGED <<replayed, late>>

\* The presented token is the family's current one: it is exchanged.
Exchange(t) ==
    /\ current[FamilyOf(t)] = t
    /\ Successor(t) \in Token                     \* bound
    /\ Families!Refresh(FamilyOf(t), Successor(t))
    /\ UNCHANGED replayed

\* It was exchanged before: the whole family ends.
Replay(t) ==
    /\ Alive(FamilyOf(t)) /\ current[FamilyOf(t)] # t
    /\ Families!End({FamilyOf(t)})
    /\ replayed' = replayed \cup {FamilyOf(t)}

Refuse(t) == ~Alive(FamilyOf(t)) /\ UNCHANGED <<current, issued, replayed>>

\* A refresh request arrives after its sender gave up: nobody sees the answer.
LateArrival(t) ==
    /\ t \in late
    /\ Exchange(t) \/ Replay(t)
    /\ late' = late \ {t}

\* The senders of these tokens stop waiting; the requests may still arrive, and
\* those that come too late to change anything are forgotten.
GiveUp(tokens) ==
    /\ late' = LET pending == {t \in late \cup tokens : Alive(FamilyOf(t))} IN
               IF Cardinality(pending) <= MaxLate THEN pending ELSE late
    /\ UNCHANGED <<current, issued, replayed>>

\* revokeCurrent: a token that is no longer current ends nothing.
RevokeToken(t) ==
    IF current[FamilyOf(t)] = t
    THEN Families!End({FamilyOf(t)}) /\ UNCHANGED <<replayed, late>>
    ELSE UNCHANGED endpoints

\* Logout-all, deactivation, password reset and the end of a family's life.
EndFamilies(F) == Families!End(F) /\ UNCHANGED <<replayed, late>>
=============================================================================
