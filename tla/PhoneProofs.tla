---------------------------- MODULE PhoneProofs -----------------------------
(* The driver app's session, for every number of calls, rotations and logins *)
(* and whatever the server ends meanwhile; and the driver's screen of a trip *)
(* for every number of reads and calls.                                      *)
EXTENDS PhoneSession, DriverTrip, FiniteSetTheorems, TLAPS

TaskRecord ==
    [op : {"none", "bootstrap", "login", "refresh", "logout", "logoutAll", "again", "rotation"},
     at : {"none", "rotating", "resume", "me", "ask", "pair", "refused", "read", "commit",
           "all", "empty", "revoke", "clear"},
     fresh : BOOLEAN, token : Token \cup {None}, lead : Rotation \cup {None},
     then : {"none", "clear"},
     answer : {"none", "rotated", "missing", "invalid", "unavailable", "superseded"}]

(* What a step makes of a task, field by field. *)

TaskPlace ==
    {"none", "rotating", "resume", "me", "ask", "pair", "refused", "read", "commit",
     "all", "empty", "revoke", "clear"}
Moved(x, at) == [x EXCEPT !.at = at]
WithToken(x, at, token) == [x EXCEPT !.at = at, !.token = token]
WithAnswer(x, at, answer) == [x EXCEPT !.at = at, !.answer = answer]
WithThen(x, at, then) == [x EXCEPT !.at = at, !.then = then]
ToClear(x, at, answer) == [x EXCEPT !.at = at, !.then = "clear", !.answer = answer]

LEMMA MovedRecord ==
  ASSUME NEW x \in TaskRecord, NEW at \in TaskPlace
  PROVE  LET y == Moved(x, at) IN
         /\ y \in TaskRecord /\ y.at = at /\ y.op = x.op /\ y.token = x.token
         /\ y.fresh = x.fresh /\ y.lead = x.lead /\ y.answer = x.answer
BY DEF Moved, TaskRecord, TaskPlace

LEMMA WithTokenRecord ==
  ASSUME NEW x \in TaskRecord, NEW at \in TaskPlace, NEW token \in Token
  PROVE  LET y == WithToken(x, at, token) IN
         /\ y \in TaskRecord /\ y.at = at /\ y.op = x.op /\ y.token = token
         /\ y.fresh = x.fresh /\ y.lead = x.lead /\ y.answer = x.answer
<1>. DEFINE y == WithToken(x, at, token)
<1>1. y \in TaskRecord
  BY DEF WithToken, TaskRecord, TaskPlace
<1>2. /\ y.at = at /\ y.op = x.op /\ y.token = token
      /\ y.fresh = x.fresh /\ y.lead = x.lead /\ y.answer = x.answer
  BY DEF WithToken, TaskRecord
<1>. QED
  BY <1>1, <1>2

LEMMA WithAnswerRecord ==
  ASSUME NEW x \in TaskRecord, NEW at \in TaskPlace,
         NEW answer \in {"none", "rotated", "missing", "invalid", "unavailable", "superseded"}
  PROVE  LET y == WithAnswer(x, at, answer) IN
         /\ y \in TaskRecord /\ y.at = at /\ y.op = x.op /\ y.token = x.token
         /\ y.fresh = x.fresh /\ y.lead = x.lead /\ y.answer = answer
<1>. DEFINE y == WithAnswer(x, at, answer)
<1>1. y \in TaskRecord
  BY DEF WithAnswer, TaskRecord, TaskPlace
<1>2. /\ y.at = at /\ y.op = x.op /\ y.token = x.token
      /\ y.fresh = x.fresh /\ y.lead = x.lead /\ y.answer = answer
  BY DEF WithAnswer, TaskRecord
<1>. QED
  BY <1>1, <1>2

LEMMA WithThenRecord ==
  ASSUME NEW x \in TaskRecord, NEW at \in TaskPlace, NEW then \in {"none", "clear"}
  PROVE  LET y == WithThen(x, at, then) IN
         /\ y \in TaskRecord /\ y.at = at /\ y.op = x.op /\ y.token = x.token
         /\ y.fresh = x.fresh /\ y.lead = x.lead /\ y.answer = x.answer
<1>. DEFINE y == WithThen(x, at, then)
<1>1. y \in TaskRecord
  BY DEF WithThen, TaskRecord, TaskPlace
<1>2. /\ y.at = at /\ y.op = x.op /\ y.token = x.token
      /\ y.fresh = x.fresh /\ y.lead = x.lead /\ y.answer = x.answer
  BY DEF WithThen, TaskRecord
<1>. QED
  BY <1>1, <1>2

LEMMA ToClearRecord ==
  ASSUME NEW x \in TaskRecord, NEW at \in TaskPlace,
         NEW answer \in {"none", "rotated", "missing", "invalid", "unavailable", "superseded"}
  PROVE  LET y == ToClear(x, at, answer) IN
         /\ y \in TaskRecord /\ y.at = at /\ y.op = x.op /\ y.token = x.token
         /\ y.fresh = x.fresh /\ y.lead = x.lead /\ y.answer = answer
<1>. DEFINE y == ToClear(x, at, answer)
<1>1. y \in TaskRecord
  BY DEF ToClear, TaskRecord, TaskPlace
<1>2. /\ y.at = at /\ y.op = x.op /\ y.token = x.token
      /\ y.fresh = x.fresh /\ y.lead = x.lead /\ y.answer = answer
  BY DEF ToClear, TaskRecord
<1>. QED
  BY <1>1, <1>2

\* Who does what: rotations and calls go different ways, and whoever presents,
\* stores or revokes a token has one.
WellFormed(t, rec) ==
    /\ rec.at = "none" => rec = Free
    /\ t \in Rotation =>
          /\ rec.at \in {"none", "read", "ask", "pair", "refused", "commit", "revoke", "clear"}
          /\ rec.at # "none" => rec.op = "rotation"
          /\ rec.at = "ask" => rec.token \in Token
          /\ rec.answer # "rotated"
    /\ t \in Call => rec.op # "rotation" /\ rec.at \notin {"read", "refused"}
    /\ rec.op = "login" => rec.at \in {"ask", "pair", "commit", "revoke", "clear"}
    /\ rec.at = "commit" => rec.op \in {"login", "rotation"}
    /\ rec.at \in {"pair", "refused", "commit", "revoke", "me"} => rec.token \in Token
    /\ rec.at = "resume" /\ rec.answer = "rotated" => rec.token \in Token

Shapes == \A t \in Task : WellFormed(t, task[t])

\* A task whose token may still become the session's.
Carries(rec) == rec.fresh /\ rec.op \notin {"login", "logout"} /\ rec.token # None

\* The one login that is stored, published, carried by a task or on its way into
\* the store.
Identity(f) ==
    /\ store # None => FamilyOf(store) = f
    /\ app.user \in {None, f} /\ app.access \in {None, f}
    /\ \A t \in Task : Carries(task[t]) => FamilyOf(task[t].token) = f
    /\ writing /\ Head(mutations) \in Rotation => FamilyOf(task[Head(mutations)].token) = f

SameIdentity == \E f \in Family \cup {None} : Identity(f)

\* Behind a rotation overtaken during its write waits whoever overtook it.
Overtaken ==
    writing /\ Head(mutations) \in Rotation /\ ~task[Head(mutations)].fresh =>
        \E i \in DOMAIN mutations :
            i # 1 /\ task[mutations[i]].fresh /\ task[mutations[i]].at \in {"empty", "clear"}

\* Families tell logins apart: a login that is not stored yet shares its family
\* with nobody, and a token at the server is no older than the stored one.
Lineage ==
    /\ \A f \in Family : Alive(f) => FamilyOf(current[f]) = f
    /\ store # None => current[FamilyOf(store)] # Unborn
    /\ \A t \in Task : task[t].token # None => current[FamilyOf(task[t].token)] # Unborn
    /\ \A c \in Task : task[c].op = "login" /\ task[c].token # None =>
          /\ store # None => FamilyOf(store) # FamilyOf(task[c].token)
          /\ \A t \in Task \ {c} : task[t].token # None =>
                FamilyOf(task[t].token) # FamilyOf(task[c].token)
    /\ \A r \in Rotation : task[r].at = "ask" =>
          store \in {None, task[r].token} \/ FamilyOf(store) # FamilyOf(task[r].token)

PhoneIndInv ==
    /\ TypeOK /\ MutationsServed /\ OneRotation
    /\ Shapes /\ SameIdentity /\ Overtaken /\ Lineage

USE EndpointAssumption, TokenAssumption, PhoneAssumption DEF Task

-----------------------------------------------------------------------------
(* The queue of the key store. *)

Waits(t) == task[t].at \in KeyStoreSteps

\* Everybody who waits is in the queue, once.
Queue ==
    /\ mutations \in Seq(Task)
    /\ \A i, j \in DOMAIN mutations : mutations[i] = mutations[j] => i = j
    /\ \A t \in Task : Waits(t) <=> \E i \in DOMAIN mutations : mutations[i] = t

\* Nobody begins or stops to wait.
LEMMA QueueSame ==
    ASSUME Queue, mutations' = mutations, \A t \in Task : Waits(t)' = Waits(t) PROVE Queue'
  BY DEF Queue

\* One more begins to wait.
LEMMA QueueJoined ==
    ASSUME Queue, NEW c \in Task, mutations' = Append(mutations, c), ~Waits(c), Waits(c)',
           \A t \in Task \ {c} : Waits(t)' = Waits(t)
    PROVE  Queue' /\ mutations' # <<>> /\ (mutations # <<>> => Head(mutations') = Head(mutations))
<1> PICK n : n = Len(mutations)
  OBVIOUS
<1>1. /\ n \in Nat /\ DOMAIN mutations = 1..n /\ mutations' \in Seq(Task)
      /\ DOMAIN mutations' = 1..(n + 1) /\ mutations'[n + 1] = c
      /\ \A i \in 1..n : mutations'[i] = mutations[i]
  BY DEF Queue
<1>2. \A i \in 1..n : mutations[i] # c /\ mutations[i] \in Task
  BY <1>1 DEF Queue
<1>3. \A i \in 1..(n + 1) : i = n + 1 \/ i \in 1..n
  BY <1>1
<1>4. \A i, j \in DOMAIN mutations' : mutations'[i] = mutations'[j] => i = j
  BY <1>1, <1>2, <1>3 DEF Queue
<1>5. ASSUME NEW t \in Task
      PROVE  Waits(t)' <=> \E i \in DOMAIN mutations' : mutations'[i] = t
  <2>1. CASE t = c
    BY <1>1, <2>1
  <2>2. CASE t # c
    <3>1. Waits(t)' <=> \E i \in 1..n : mutations[i] = t
      BY <1>1, <2>2 DEF Queue
    <3>2. QED
      BY <1>1, <1>3, <2>2, <3>1
  <2>3. QED
    BY <2>1, <2>2
<1>6. mutations' # <<>> /\ (mutations # <<>> => Head(mutations') = Head(mutations))
  BY <1>1 DEF Queue
<1>7. QED
  BY <1>1, <1>4, <1>5, <1>6 DEF Queue

\* The first one is done with the key store.
LEMMA QueueLeft ==
    ASSUME Queue, NEW h \in Task, mutations # <<>>, h = Head(mutations),
           mutations' = Tail(mutations), ~Waits(h)', \A t \in Task \ {h} : Waits(t)' = Waits(t)
    PROVE  Queue'
<1> PICK n : n = Len(mutations)
  OBVIOUS
<1>1. /\ n \in Nat \ {0} /\ DOMAIN mutations = 1..n /\ mutations' \in Seq(Task)
      /\ h = mutations[1] /\ h \in Task
      /\ DOMAIN mutations' = 1..(n - 1)
      /\ \A i \in 1..(n - 1) : mutations'[i] = mutations[i + 1]
  BY DEF Queue
<1>2. \A i \in 1..(n - 1) : i + 1 \in 1..n /\ i + 1 # 1
  BY <1>1
<1>3. \A i, j \in DOMAIN mutations' : mutations'[i] = mutations'[j] => i = j
  BY <1>1, <1>2 DEF Queue
<1>4. ASSUME NEW t \in Task
      PROVE  Waits(t)' <=> \E i \in DOMAIN mutations' : mutations'[i] = t
  <2>1. CASE t = h
    <3>1. \A i \in 1..(n - 1) : mutations'[i] # h
      BY <1>1, <1>2 DEF Queue
    <3>2. ~Waits(t)'
      BY <2>1
    <3>3. QED
      BY <1>1, <2>1, <3>1, <3>2
  <2>2. CASE t # h
    <3>1. Waits(t)' <=> \E i \in 1..n : mutations[i] = t
      BY <1>1, <2>2 DEF Queue
    <3>2. ASSUME NEW i \in 1..n, mutations[i] = t
          PROVE  \E k \in 1..(n - 1) : mutations'[k] = t
      <4>1. i # 1 /\ i - 1 \in 1..(n - 1) /\ (i - 1) + 1 = i
        BY <1>1, <2>2, <3>2
      <4>2. mutations'[i - 1] = t
        BY <1>1, <3>2, <4>1
      <4>3. QED
        BY <4>1, <4>2
    <3>3. ASSUME NEW k \in 1..(n - 1), mutations'[k] = t
          PROVE  \E i \in 1..n : mutations[i] = t
      BY <1>1, <1>2, <3>3
    <3>4. QED
      BY <1>1, <3>1, <3>2, <3>3
  <2>3. QED
    BY <2>1, <2>2
<1>5. QED
  BY <1>1, <1>3, <1>4 DEF Queue

\* The first one goes to the end.
LEMMA QueueAgain ==
    ASSUME Queue, mutations # <<>>, mutations' = Append(Tail(mutations), Head(mutations)),
           \A t \in Task : Waits(t)' = Waits(t)
    PROVE  Queue'
<1> PICK n, h : n = Len(mutations) /\ h = Head(mutations)
  OBVIOUS
<1>1. /\ n \in Nat \ {0} /\ DOMAIN mutations = 1..n /\ mutations' \in Seq(Task)
      /\ h = mutations[1] /\ h \in Task /\ mutations' = Append(Tail(mutations), h)
      /\ DOMAIN mutations' = 1..n /\ mutations'[n] = h
      /\ \A i \in 1..(n - 1) : mutations'[i] = mutations[i + 1]
  BY DEF Queue
<1>2. \A i \in 1..(n - 1) : i + 1 \in 1..n /\ i + 1 # 1
  BY <1>1
<1>3. \A i \in 1..n : i = n \/ i \in 1..(n - 1)
  BY <1>1
<1>4. \A i \in 1..(n - 1) : mutations'[i] # h
  BY <1>1, <1>2 DEF Queue
<1>5. \A i, j \in 1..(n - 1) : mutations'[i] = mutations'[j] => i = j
  BY <1>1, <1>2 DEF Queue
<1>6. \A i, j \in DOMAIN mutations' : mutations'[i] = mutations'[j] => i = j
  BY <1>1, <1>3, <1>4, <1>5
<1>7. ASSUME NEW t \in Task
      PROVE  (\E i \in 1..n : mutations[i] = t) <=> \E i \in 1..n : mutations'[i] = t
  <2>1. CASE t = h
    <3>1. 1 \in 1..n /\ n \in 1..n
      BY <1>1
    <3>2. QED
      BY <1>1, <2>1, <3>1
  <2>2. CASE t # h
    <3>1. ASSUME NEW i \in 1..n, mutations[i] = t PROVE \E k \in 1..n : mutations'[k] = t
      <4>1. i # 1 /\ i - 1 \in 1..(n - 1) /\ (i - 1) + 1 = i /\ i - 1 \in 1..n
        BY <1>1, <2>2, <3>1
      <4>2. mutations'[i - 1] = t
        BY <1>1, <3>1, <4>1
      <4>3. QED
        BY <4>1, <4>2
    <3>2. ASSUME NEW k \in 1..n, mutations'[k] = t PROVE \E i \in 1..n : mutations[i] = t
      BY <1>1, <1>2, <1>3, <2>2, <3>2
    <3>3. QED
      BY <3>1, <3>2
  <2>3. QED
    BY <2>1, <2>2
<1>8. QED
  BY <1>1, <1>6, <1>7 DEF Queue

-----------------------------------------------------------------------------
(* What the steps have in common. *)

AppRecord ==
    [status : {"bootstrapping", "unauthenticated", "bootstrap_error", "authenticated"},
     user : Family \cup {None}, access : Family \cup {None}, opened : BOOLEAN]

\* The invariant, its queue apart.
LEMMA Parts ==
    ASSUME PhoneIndInv
    PROVE  /\ EndpointsTypeOK /\ app \in AppRecord /\ store \in Token \cup {None}
           /\ task \in [Task -> TaskRecord] /\ writing \in BOOLEAN
           /\ Queue /\ OneRotation /\ Shapes /\ SameIdentity /\ Overtaken /\ Lineage
           /\ writing => mutations # <<>> /\ task[Head(mutations)].at = "commit"
           /\ mutations # <<>> => Head(mutations) \in Task
  BY DEF PhoneIndInv, TypeOK, MutationsServed, Queue, Waits, AppRecord, TaskRecord

\* And put together again.
LEMMA Whole ==
    ASSUME EndpointsTypeOK', app' \in AppRecord, store' \in Token \cup {None},
           task' \in [Task -> TaskRecord], writing' \in BOOLEAN,
           Queue', OneRotation', Shapes', SameIdentity', Overtaken', Lineage',
           writing' => mutations' # <<>> /\ task'[Head(mutations')].at = "commit"
    PROVE  PhoneIndInv'
  BY DEF PhoneIndInv, TypeOK, MutationsServed, Queue, Waits, AppRecord, TaskRecord

\* The server opens, exchanges and ends families, and never takes one back.
ServerMoves ==
    /\ EndpointsTypeOK'
    /\ \A f \in Family :
          /\ current'[f] \in Token => FamilyOf(current'[f]) = f
          /\ current[f] # Unborn => current'[f] # Unborn

\* The app publishes the login of the session it has, if any.
AppMoves ==
    /\ app' \in AppRecord
    /\ \A f \in Family \cup {None} :
          Identity(f) => app'.user \in {None, f} /\ app'.access \in {None, f}

\* The store is emptied, if it changes, or written by the rotation in progress.
StoreMoves ==
    \/ store' \in {None, store}
    \/ /\ writing /\ Head(mutations) \in Rotation
       /\ store' = task[Head(mutations)].token

\* Where a task has its token from.
Inherits(t, rec) ==
    \/ rec.token = None
    \/ /\ task[t].token # None /\ FamilyOf(rec.token) = FamilyOf(task[t].token)
       /\ Carries(rec) => Carries(task[t])
       /\ rec.op = "login" <=> task[t].op = "login"
    \/ store # None /\ rec.token = store /\ rec.op # "login"
    \/ /\ rec.op = "login" /\ current[FamilyOf(rec.token)] = Unborn
       /\ current'[FamilyOf(rec.token)] # Unborn

\* One task takes a step of its own.
LEMMA MoveStep ==
    ASSUME PhoneIndInv, NEW t \in Task, NEW rec \in TaskRecord,
           task' = [task EXCEPT ![t] = rec],
           WellFormed(t, rec), rec.at # "rotating", rec.lead = None,
           t \in Rotation => ~Idle(t) /\ rec # Free,
           ServerMoves, AppMoves, StoreMoves, Inherits(t, rec),
           t \in Rotation /\ rec.at = "ask" => rec.token = store /\ store' = store,
           Queue', writing' \in BOOLEAN,
           writing' => writing /\ ~Waits(t) /\ mutations' \in {mutations, Append(mutations, t)}
    PROVE  PhoneIndInv'
<1> USE Parts
<1>1. /\ task' \in [Task -> TaskRecord] /\ task'[t] = rec
      /\ \A u \in Task \ {t} : task'[u] = task[u]
  OBVIOUS
<1>2. store' \in Token \cup {None}
  <2>1. Head(mutations) \in Rotation /\ writing => task[Head(mutations)].token \in Token
    BY DEF Shapes, WellFormed
  <2>2. QED
    BY <2>1 DEF StoreMoves
<1>3. Shapes'
  BY <1>1 DEF Shapes, WellFormed
<1>4. OneRotation'
  BY <1>1 DEF OneRotation, Idle
<1>5. ASSUME writing'
      PROVE  /\ mutations # <<>> /\ mutations' # <<>> /\ Head(mutations') = Head(mutations)
             /\ task'[Head(mutations)] = task[Head(mutations)] /\ writing
             /\ DOMAIN mutations \subseteq DOMAIN mutations'
             /\ \A i \in DOMAIN mutations : /\ mutations'[i] = mutations[i]
                                            /\ task'[mutations[i]] = task[mutations[i]]
  <2>1. mutations # <<>> /\ writing /\ mutations \in Seq(Task)
    BY <1>5 DEF Queue
  <2>2. \A i \in DOMAIN mutations : mutations[i] \in Task \ {t}
    BY <1>5, <2>1 DEF Queue
  <2>3. /\ mutations' # <<>> /\ Head(mutations') = Head(mutations)
        /\ DOMAIN mutations \subseteq DOMAIN mutations'
        /\ \A i \in DOMAIN mutations : mutations'[i] = mutations[i]
    BY <1>5, <2>1
  <2>4. 1 \in DOMAIN mutations /\ Head(mutations) = mutations[1]
    BY <2>1
  <2>5. QED
    BY <1>1, <2>1, <2>2, <2>3, <2>4
<1>6. writing' => mutations' # <<>> /\ task'[Head(mutations')].at = "commit"
  BY <1>5
<1>7. Overtaken'
  BY <1>5 DEF Overtaken
<1>8. SameIdentity'
  <2>1. PICK f \in Family \cup {None} : Identity(f)
    BY DEF SameIdentity
  <2>2. store' # None => FamilyOf(store') = f
    BY <2>1 DEF StoreMoves, Identity
  <2>3. app'.user \in {None, f} /\ app'.access \in {None, f}
    BY <2>1 DEF AppMoves
  <2>4. Carries(rec) => FamilyOf(rec.token) = f
    BY <2>1 DEF Inherits, Identity, Carries
  <2>5. writing' /\ Head(mutations') \in Rotation => FamilyOf(task'[Head(mutations')].token) = f
    BY <1>5, <2>1 DEF Identity
  <2>6. Identity(f)'
    BY <1>1, <2>1, <2>2, <2>3, <2>4, <2>5 DEF Identity
  <2>7. QED
    BY <2>6 DEF SameIdentity
<1>9. Lineage'
  <2>1. \A k \in Token : FamilyOf(k) \in Family
    BY DEF Token, FamilyOf
  <2>2. /\ rec.token # None => current'[FamilyOf(rec.token)] # Unborn
        /\ store' # None => current'[FamilyOf(store')] # Unborn
    <3>1. rec.token # None => rec.token \in Token
      BY DEF TaskRecord
    <3>2. task[t].token # None => task[t].token \in Token
      BY DEF TaskRecord
    <3>3. rec.token # None => current'[FamilyOf(rec.token)] # Unborn
      BY <2>1, <3>1, <3>2 DEF Inherits, ServerMoves, Lineage
    <3>4. store' # None => current'[FamilyOf(store')] # Unborn
      BY <1>2, <2>1 DEF StoreMoves, ServerMoves, Lineage
    <3>5. QED
      BY <3>3, <3>4
  <2>3. \A u \in Task : task'[u].token # None => current'[FamilyOf(task'[u].token)] # Unborn
    <3>1. \A u \in Task : task[u].token # None => FamilyOf(task[u].token) \in Family
      BY <2>1 DEF TaskRecord
    <3>2. QED
      BY <1>1, <2>2, <3>1 DEF ServerMoves, Lineage
  <2>4. ASSUME NEW c \in Task, task'[c].op = "login", task'[c].token # None
        PROVE  /\ store' # None => FamilyOf(store') # FamilyOf(task'[c].token)
               /\ \A u \in Task \ {c} : task'[u].token # None =>
                     FamilyOf(task'[u].token) # FamilyOf(task'[c].token)
    <3>1. CASE c = t
      <4>1. t \notin Rotation /\ (store' \in {None, store} \/ t # Head(mutations))
        BY <1>1, <2>4, <3>1 DEF WellFormed, Free, StoreMoves
      <4>2. CASE task[t].token # None /\ FamilyOf(rec.token) = FamilyOf(task[t].token)
                 /\ task[t].op = "login"
        BY <1>1, <3>1, <4>2 DEF Lineage, StoreMoves, Shapes, WellFormed
      <4>3. CASE current[FamilyOf(rec.token)] = Unborn
        BY <1>1, <3>1, <4>3 DEF Lineage, StoreMoves
      <4>4. QED
        BY <1>1, <2>4, <3>1, <4>2, <4>3 DEF Inherits
    <3>2. CASE c # t
      <4>1. task[c].op = "login" /\ task[c].token # None /\ task'[c] = task[c]
        BY <1>1, <2>4, <3>2
      <4>2. store' # None => FamilyOf(store') # FamilyOf(task[c].token)
        <5>1. Head(mutations) \in Rotation => Head(mutations) \in Task \ {c}
          BY <4>1 DEF Shapes, WellFormed, Free
        <5>2. QED
          BY <4>1, <5>1 DEF StoreMoves, Lineage
      <4>3. rec.token # None => FamilyOf(rec.token) # FamilyOf(task[c].token)
        BY <3>2, <4>1 DEF Inherits, Lineage
      <4>4. QED
        BY <1>1, <4>1, <4>2, <4>3 DEF Lineage
    <3>3. QED
      BY <3>1, <3>2
  <2>5. ASSUME NEW r \in Rotation, task'[r].at = "ask"
        PROVE  store' \in {None, task'[r].token} \/ FamilyOf(store') # FamilyOf(task'[r].token)
    <3>1. CASE r = t
      BY <1>1, <2>5, <3>1
    <3>2. CASE r # t
      <4>1. task'[r] = task[r] /\ task[r].at = "ask" /\ ~Idle(r)
        BY <1>1, <2>5, <3>2 DEF Idle, Free
      <4>2. writing => Head(mutations) = r \/ Head(mutations) \notin Rotation
        BY <4>1 DEF OneRotation, Idle, Free
      <4>3. writing => Head(mutations) # r
        BY <4>1
      <4>4. store' \in {None, store}
        BY <4>2, <4>3 DEF StoreMoves
      <4>5. QED
        BY <4>1, <4>4 DEF Lineage
    <3>3. QED
      BY <3>1, <3>2
  <2>6. QED
    BY <2>2, <2>3, <2>4, <2>5 DEF Lineage, ServerMoves, Alive
<1>10. QED
  BY <1>1, <1>2, <1>3, <1>4, <1>6, <1>7, <1>8, <1>9, Whole DEF ServerMoves, AppMoves

\* A rotation is done: whoever waits for it is answered.
LEMMA SettleStep ==
    ASSUME PhoneIndInv, NEW r \in Rotation, ~Idle(r),
           NEW answer \in {"none", "rotated", "missing", "invalid", "unavailable", "superseded"},
           NEW token \in Token \cup {None}, task' = Settled(task, r, answer, token),
           token # None => token = task[r].token /\ task[r].fresh,
           answer = "rotated" => token \in Token,
           ServerMoves, AppMoves, StoreMoves,
           Queue', writing' \in BOOLEAN,
           writing' => writing /\ ~Waits(r) /\ mutations' = mutations
    PROVE  PhoneIndInv'
<1> USE Parts
<1> DEFINE answered(u) == [task[u] EXCEPT !.at = "resume", !.lead = None, !.answer = answer,
                                          !.token = token]
<1>0. ASSUME NEW u \in Task PROVE answered(u) \in TaskRecord
  <2>1. task[u] \in TaskRecord
    OBVIOUS
  <2>2. QED
    BY <2>1 DEF TaskRecord
<1>1. /\ task'[r] = Free /\ Free \in TaskRecord
      /\ \A u \in Task \ {r} : task'[u] = IF task[u].lead = r THEN answered(u) ELSE task[u]
      /\ \A u \in Task : answered(u) \in TaskRecord
  <2>1. Free \in TaskRecord
    BY DEF Free, TaskRecord
  <2>2. QED
    BY <1>0, <2>1 DEF Settled
<1>2. \A u \in Task : task[u].lead = r => u \in Call /\ u # r /\ task[u].at = "rotating"
                                          /\ task[u].op # "login"
  BY DEF OneRotation, Shapes, WellFormed
<1>3. task' \in [Task -> TaskRecord]
  BY <1>1 DEF Settled
<1>4. \A u \in Task :
         \/ u = r /\ task'[u] = Free
         \/ u # r /\ task'[u] = task[u] /\ task[u].lead # r
         \/ /\ u \in Call /\ u # r /\ task'[u] = answered(u) /\ task[u].at = "rotating"
            /\ task[u].op # "login" /\ task'[u].at = "resume" /\ task'[u].lead = None
            /\ task'[u].token = token /\ task'[u].op = task[u].op /\ task'[u].answer = answer
            /\ task'[u].fresh = task[u].fresh
  <2>1. TAKE u \in Task
  <2>2. CASE u # r /\ task[u].lead = r
    <3>1. task'[u] = answered(u) /\ task[u] \in TaskRecord
      BY <1>1, <2>2
    <3>2. /\ answered(u).at = "resume" /\ answered(u).lead = None /\ answered(u).token = token
          /\ answered(u).op = task[u].op /\ answered(u).answer = answer
          /\ answered(u).fresh = task[u].fresh
      BY <3>1 DEF TaskRecord
    <3>3. QED
      BY <1>2, <2>2, <3>1, <3>2
  <2>3. QED
    BY <1>1, <2>2
<1> HIDE DEF answered
<1>5. store' \in Token \cup {None}
  <2>1. Head(mutations) \in Rotation /\ writing => task[Head(mutations)].token \in Token
    BY DEF Shapes, WellFormed
  <2>2. QED
    BY <2>1 DEF StoreMoves
<1>6. ASSUME NEW u \in Task PROVE WellFormed(u, task'[u])
  <2>1. CASE u = r
    BY <1>1, <2>1 DEF WellFormed, Free
  <2>2. CASE u # r /\ task'[u] = task[u]
    BY <2>2 DEF Shapes
  <2>3. CASE /\ u \in Call /\ task[u].op # "login" /\ task'[u].at = "resume"
             /\ task'[u].token = token /\ task'[u].op = task[u].op
             /\ task'[u].answer = answer
    <3>1. u \notin Rotation /\ task[u].op # "rotation"
      BY <2>3 DEF Shapes, WellFormed
    <3>2. QED
      BY <2>3, <3>1 DEF WellFormed
  <2>4. QED
    BY <1>4, <2>1, <2>2, <2>3
<1>7. OneRotation'
  <2>1. \A q \in Rotation : task'[q] = Free
    BY <1>4 DEF OneRotation, Idle
  <2>2. \A u \in Task : task[u].at = "rotating" => task[u].lead = r
    BY DEF OneRotation, Idle, Shapes, WellFormed
  <2>3. ASSUME NEW u \in Task PROVE task'[u].at # "rotating" /\ task'[u].lead = None
    <3>1. CASE u = r
      BY <1>1, <3>1 DEF Free
    <3>2. CASE u # r
      BY <1>4, <2>2, <3>2 DEF OneRotation
    <3>3. QED
      BY <3>1, <3>2
  <2>4. QED
    BY <2>1, <2>3 DEF OneRotation, Idle
<1>8. ASSUME writing'
      PROVE  /\ mutations # <<>> /\ mutations' = mutations /\ writing
             /\ 1 \in DOMAIN mutations /\ Head(mutations) = mutations[1]
             /\ \A i \in DOMAIN mutations : task'[mutations[i]] = task[mutations[i]]
  <2>1. mutations # <<>> /\ writing /\ mutations \in Seq(Task)
    BY <1>8 DEF Queue
  <2>2. \A i \in DOMAIN mutations : mutations[i] \in Task /\ Waits(mutations[i])
    BY <2>1 DEF Queue
  <2>3. \A i \in DOMAIN mutations : task'[mutations[i]] = task[mutations[i]]
    BY <1>4, <1>8, <2>2 DEF Waits, KeyStoreSteps
  <2>4. QED
    BY <1>8, <2>1, <2>3
<1>9. writing' => mutations' # <<>> /\ task'[Head(mutations')].at = "commit"
  BY <1>8
<1>10. Overtaken'
  BY <1>8 DEF Overtaken
<1>11. SameIdentity'
  <2>1. PICK f \in Family \cup {None} : Identity(f)
    BY DEF SameIdentity
  <2>2. store' # None => FamilyOf(store') = f
    BY <2>1 DEF StoreMoves, Identity
  <2>3. app'.user \in {None, f} /\ app'.access \in {None, f}
    BY <2>1 DEF AppMoves
  <2>4. token # None => FamilyOf(token) = f
    BY <2>1 DEF Identity, Carries, Shapes, WellFormed, Idle, Free
  <2>5. \A u \in Task : Carries(task'[u]) => FamilyOf(task'[u].token) = f
    BY <1>4, <2>1, <2>4 DEF Identity, Carries, Free
  <2>6. writing' /\ Head(mutations') \in Rotation => FamilyOf(task'[Head(mutations')].token) = f
    BY <1>8, <2>1 DEF Identity
  <2>7. Identity(f)'
    BY <2>2, <2>3, <2>5, <2>6 DEF Identity
  <2>8. QED
    BY <2>7 DEF SameIdentity
<1>12. Lineage'
  <2>1. \A k \in Token : FamilyOf(k) \in Family
    BY DEF Token, FamilyOf
  <2>2. store' # None => current'[FamilyOf(store')] # Unborn
    <3>1. store' # None => current[FamilyOf(store')] # Unborn
      BY DEF StoreMoves, Lineage
    <3>2. QED
      BY <1>5, <2>1, <3>1 DEF ServerMoves
  <2>3. \A u \in Task : task'[u].token # None => current'[FamilyOf(task'[u].token)] # Unborn
    <3>1. \A u \in Task : task'[u].token # None => /\ task'[u].token \in Token
                                                   /\ current[FamilyOf(task'[u].token)] # Unborn
      BY <1>3, <1>4 DEF Lineage, TaskRecord, Free
    <3>2. QED
      BY <2>1, <3>1 DEF ServerMoves
  <2>4. ASSUME NEW c \in Task, task'[c].op = "login", task'[c].token # None
        PROVE  /\ store' # None => FamilyOf(store') # FamilyOf(task'[c].token)
               /\ \A u \in Task \ {c} : task'[u].token # None =>
                     FamilyOf(task'[u].token) # FamilyOf(task'[c].token)
    <3>1. task'[c] = task[c] /\ c # r /\ c \notin Rotation
      BY <1>4, <2>4 DEF Free, Shapes, WellFormed
    <3>2. store' # None => FamilyOf(store') # FamilyOf(task[c].token)
      BY <2>4, <3>1 DEF StoreMoves, Lineage
    <3>3. token # None => FamilyOf(token) # FamilyOf(task[c].token)
      BY <2>4, <3>1 DEF Lineage
    <3>4. QED
      BY <1>4, <2>4, <3>1, <3>2, <3>3 DEF Lineage, Free
  <2>5. \A q \in Rotation : task'[q].at # "ask"
    BY <1>4 DEF OneRotation, Idle, Free
  <2>6. QED
    BY <2>2, <2>3, <2>4, <2>5 DEF Lineage, ServerMoves, Alive
<1>13. QED
  BY <1>3, <1>5, <1>6, <1>7, <1>9, <1>10, <1>11, <1>12, Whole
     DEF Shapes, ServerMoves, AppMoves

\* A call joins the rotation in progress, or starts it.
LEMMA JoinStep ==
    ASSUME PhoneIndInv, NEW c \in Call, NEW op \in {"bootstrap", "refresh", "again"},
           JoinRotation(c, [Free EXCEPT !.op = op]), ~Waits(c),
           UNCHANGED <<endpoints, store, writing>>, AppMoves
    PROVE  PhoneIndInv'
<1> USE Parts
<1> DEFINE joined(r) == [[Free EXCEPT !.op = op] EXCEPT !.at = "rotating", !.lead = r]
           started == [Free EXCEPT !.op = "rotation", !.at = "read"]
<1>1. PICK r \in Rotation :
        /\ \A q \in Rotation : q # r => Idle(q)
        /\ \/ /\ ~Idle(r) /\ task' = [task EXCEPT ![c] = joined(r)]
              /\ mutations' = mutations
           \/ /\ Idle(r) /\ task' = [task EXCEPT ![c] = joined(r), ![r] = started]
              /\ mutations' = Append(mutations, r)
  <2>1. CASE \E q \in Rotation : ~Idle(q)
    <3>1. PICK r : r = CHOOSE q \in Rotation : ~Idle(q)
      OBVIOUS
    <3>2. r \in Rotation /\ ~Idle(r)
      BY <2>1, <3>1
    <3>3. task' = [task EXCEPT ![c] = joined(r)] /\ mutations' = mutations
      BY <2>1, <3>1 DEF JoinRotation
    <3>4. QED
      BY <3>2, <3>3 DEF OneRotation
  <2>2. CASE ~\E q \in Rotation : ~Idle(q)
    <3>1. PICK r : r = CHOOSE q \in Rotation : TRUE
      OBVIOUS
    <3>2. r \in Rotation /\ Idle(r)
      BY <2>2, <3>1
    <3>3. task' = [task EXCEPT ![c] = joined(r), ![r] = started]
          /\ mutations' = Append(mutations, r)
      BY <2>2, <3>1 DEF JoinRotation, RotationFor
    <3>4. QED
      BY <2>2, <3>2, <3>3
  <2>3. QED
    BY <2>1, <2>2
<1>2. /\ joined(r) \in TaskRecord /\ joined(r).at = "rotating" /\ joined(r).lead = r
      /\ joined(r).token = None /\ joined(r).op = op /\ joined(r).answer = "none"
  BY DEF Free, TaskRecord
<1>3. /\ started \in TaskRecord /\ started.at = "read" /\ started.lead = None
      /\ started.token = None /\ started.op = "rotation" /\ started.answer = "none"
  BY DEF Free, TaskRecord
<1> HIDE DEF joined, started
<1>4. /\ task' \in [Task -> TaskRecord] /\ c # r /\ task'[c] = joined(r)
      /\ \A u \in Task \ {c, r} : task'[u] = task[u]
      /\ \/ ~Idle(r) /\ task'[r] = task[r] /\ mutations' = mutations
         \/ Idle(r) /\ task'[r] = started /\ mutations' = Append(mutations, r)
  BY <1>1, <1>2, <1>3
<1>5. Queue' /\ (mutations # <<>> => mutations' # <<>> /\ Head(mutations') = Head(mutations))
  <2>1. Waits(c)' = Waits(c) /\ \A u \in Task \ {c, r} : Waits(u)' = Waits(u)
    BY <1>2, <1>4 DEF Waits, KeyStoreSteps
  <2>2. CASE task'[r] = task[r] /\ mutations' = mutations
    <3>1. \A u \in Task : Waits(u)' = Waits(u)
      BY <2>1, <2>2 DEF Waits
    <3>2. QED
      BY <2>2, <3>1, QueueSame
  <2>3. CASE Idle(r) /\ task'[r] = started /\ mutations' = Append(mutations, r)
    <3>1. ~Waits(r) /\ Waits(r)'
      BY <1>3, <2>3 DEF Waits, KeyStoreSteps, Idle, Free
    <3>2. QED
      BY <2>1, <2>3, <3>1, QueueJoined
  <2>4. QED
    BY <1>4, <2>2, <2>3
<1>6. ASSUME writing
      PROVE  /\ mutations # <<>> /\ mutations' # <<>> /\ Head(mutations') = Head(mutations)
             /\ DOMAIN mutations \subseteq DOMAIN mutations'
             /\ 1 \in DOMAIN mutations /\ Head(mutations) = mutations[1]
             /\ \A i \in DOMAIN mutations : /\ mutations'[i] = mutations[i]
                                            /\ task'[mutations[i]] = task[mutations[i]]
  <2>1. mutations # <<>> /\ mutations \in Seq(Task)
    BY <1>6 DEF Queue
  <2>2. \A i \in DOMAIN mutations : mutations[i] \in Task \ {c} /\ Waits(mutations[i])
    BY <2>1 DEF Queue
  <2>3. \A i \in DOMAIN mutations : task'[mutations[i]] = task[mutations[i]]
    BY <1>4, <2>2 DEF Waits, KeyStoreSteps, Idle, Free
  <2>4. /\ DOMAIN mutations \subseteq DOMAIN mutations'
        /\ \A i \in DOMAIN mutations : mutations'[i] = mutations[i]
    <3>1. CASE mutations' = mutations
      BY <3>1
    <3>2. CASE mutations' = Append(mutations, r)
      BY <2>1, <3>2
    <3>. QED
      BY <1>4, <3>1, <3>2
  <2>5. 1 \in DOMAIN mutations /\ Head(mutations) = mutations[1]
    BY <2>1
  <2>6. QED
    BY <1>5, <2>1, <2>3, <2>4, <2>5
<1>7. writing' => mutations' # <<>> /\ task'[Head(mutations')].at = "commit"
  BY <1>6
<1>8. Overtaken'
  BY <1>6 DEF Overtaken
<1>9. Shapes'
  <2>1. WellFormed(c, joined(r))
    BY <1>2, <1>4 DEF WellFormed
  <2>2. WellFormed(r, started)
    BY <1>3, <1>4 DEF WellFormed
  <2>3. QED
    BY <1>4, <2>1, <2>2 DEF Shapes
<1>10. OneRotation'
  <2>1. task'[r] # Free
    BY <1>3, <1>4 DEF Idle, Free
  <2>2. \A q \in Rotation : q # r => task'[q] = Free
    BY <1>1, <1>4 DEF Idle
  <2>3. ASSUME NEW d \in Call, task'[d].at = "rotating"
        PROVE  task'[d].lead = r
    <3>1. CASE d = c
      BY <1>2, <1>4, <3>1
    <3>2. CASE d # c
      BY <1>1, <1>4, <2>3, <3>2 DEF OneRotation
    <3>3. QED
      BY <3>1, <3>2
  <2>4. \A u \in Task : task'[u].at # "rotating" => task'[u].lead = None
    BY <1>2, <1>3, <1>4 DEF OneRotation
  <2>5. QED
    BY <2>1, <2>2, <2>3, <2>4 DEF OneRotation, Idle
<1>11. \A u \in Task :
          \/ task'[u] = task[u]
          \/ task'[u].token = None /\ task'[u].at # "ask" /\ ~Carries(task'[u])
  BY <1>2, <1>3, <1>4 DEF Carries
<1>12. SameIdentity'
  <2>1. PICK f \in Family \cup {None} : Identity(f)
    BY DEF SameIdentity
  <2>2. \A u \in Task : Carries(task'[u]) => FamilyOf(task'[u].token) = f
    BY <1>11, <2>1 DEF Identity
  <2>3. writing' /\ Head(mutations') \in Rotation => FamilyOf(task'[Head(mutations')].token) = f
    BY <1>6, <2>1 DEF Identity
  <2>4. Identity(f)'
    BY <2>1, <2>2, <2>3 DEF Identity, AppMoves
  <2>5. QED
    BY <2>4 DEF SameIdentity
<1>13. Lineage'
  BY <1>11 DEF Lineage, Alive, endpoints
<1>14. EndpointsTypeOK'
  BY DEF EndpointsTypeOK, endpoints, Families!TypeOK
<1>15. QED
  BY <1>4, <1>5, <1>7, <1>8, <1>9, <1>10, <1>12, <1>13, <1>14, Whole DEF AppMoves

\* The other tasks after a step that makes them stale.
LEMMA Stale ==
    ASSUME PhoneIndInv, NEW c \in Call, NEW rec \in TaskRecord,
           task' = [NewGeneration(c) EXCEPT ![c] = rec]
    PROVE  /\ task' \in [Task -> TaskRecord] /\ task'[c] = rec
           /\ \A u \in Task \ {c} :
                 /\ task'[u].op = task[u].op /\ task'[u].at = task[u].at
                 /\ task'[u].token = task[u].token /\ task'[u].lead = task[u].lead
                 /\ task'[u].answer = task[u].answer
                 /\ (task'[u] = Free) <=> Idle(u)
                 /\ ~Carries(task'[u]) /\ (Idle(u) \/ ~task'[u].fresh)
                 /\ WellFormed(u, task'[u])
<1> USE Parts
<1>1. ASSUME NEW u \in Task
      PROVE  [task[u] EXCEPT !.fresh = FALSE] \in TaskRecord
  <2>1. task[u] \in TaskRecord
    OBVIOUS
  <2>2. QED
    BY <2>1 DEF TaskRecord
<1>2. /\ NewGeneration(c) \in [Task -> TaskRecord]
      /\ \A u \in Task \ {c} : NewGeneration(c)[u] =
            IF Idle(u) THEN task[u] ELSE [task[u] EXCEPT !.fresh = FALSE]
  BY <1>1 DEF NewGeneration
<1>3. /\ task' \in [Task -> TaskRecord] /\ task'[c] = rec
      /\ \A u \in Task \ {c} :
            task'[u] = IF Idle(u) THEN task[u] ELSE [task[u] EXCEPT !.fresh = FALSE]
  BY <1>2
<1>4. ASSUME NEW u \in Task \ {c}, Idle(u)
      PROVE  task'[u] = task[u] /\ task'[u] = Free /\ ~Carries(task'[u])
  <2>1. task'[u] = task[u]
    BY <1>3, <1>4
  <2>2. task'[u] = Free
    BY <1>4, <2>1 DEF Idle
  <2>3. Free.token = None
    BY DEF Free
  <2>4. QED
    BY <2>1, <2>2, <2>3 DEF Carries
<1>5. ASSUME NEW u \in Task \ {c}, ~Idle(u)
      PROVE  /\ task'[u].op = task[u].op /\ task'[u].at = task[u].at
             /\ task'[u].token = task[u].token /\ task'[u].lead = task[u].lead
             /\ task'[u].answer = task[u].answer /\ task'[u].then = task[u].then
             /\ ~task'[u].fresh /\ task'[u] # Free /\ task[u].at # "none"
  <2>1. task'[u] = [task[u] EXCEPT !.fresh = FALSE] /\ task[u] \in TaskRecord
    BY <1>3, <1>5
  <2>2. task'[u] # Free
    BY <2>1 DEF TaskRecord, Free
  <2>3. QED
    BY <1>5, <2>1, <2>2 DEF TaskRecord, Idle, Shapes, WellFormed
<1>6. ASSUME NEW u \in Task PROVE WellFormed(u, task[u])
  BY DEF Shapes
<1>7. ASSUME NEW u \in Task \ {c} PROVE WellFormed(u, task'[u])
  <2>1. CASE Idle(u)
    BY <1>4, <1>6, <2>1
  <2>2. CASE ~Idle(u)
    BY <1>5, <1>6, <2>2 DEF WellFormed
  <2>3. QED
    BY <2>1, <2>2
<1>8. ASSUME NEW u \in Task \ {c}, ~Idle(u) PROVE ~Carries(task'[u])
  BY <1>5, <1>8 DEF Carries
<1>9. QED
  BY <1>3, <1>4, <1>5, <1>7, <1>8

\* What making them stale leaves of the invariant.
LEMMA StaleOneRotation ==
    ASSUME PhoneIndInv, NEW c \in Call, NEW rec \in TaskRecord,
           rec.at # "rotating", rec.lead = None,
           task' = [NewGeneration(c) EXCEPT ![c] = rec]
    PROVE  OneRotation'
<1> USE Parts
<1>0. /\ task'[c] = rec
      /\ \A u \in Task \ {c} : /\ task'[u].at = task[u].at /\ task'[u].lead = task[u].lead
                               /\ (task'[u] = Free) <=> Idle(u)
  BY Stale
<1> USE <1>0
<1>1. \A q \in Rotation : q # c /\ ((task'[q] = Free) <=> Idle(q))
  OBVIOUS
<1>2. \A u \in Task : task'[u].at # "rotating" => task'[u].lead = None
  BY DEF OneRotation
<1>3. \A d \in Call : task'[d].at = "rotating" =>
         d # c /\ task'[d].lead \in Rotation /\ ~Idle(task'[d].lead)
  BY DEF OneRotation
<1>4. \A d \in Call : task'[d].at = "rotating" =>
         task'[d].lead \in Rotation /\ task'[task'[d].lead] # Free
  BY <1>1, <1>3
<1>5. \A q, r \in Rotation : task'[q] = Free \/ task'[r] = Free \/ q = r
  BY <1>1 DEF OneRotation
<1>6. QED
  BY <1>2, <1>4, <1>5 DEF OneRotation, Idle

\* The local session ends; the operation that empties the store joins the queue.
LEMMA ForgetStep ==
    ASSUME PhoneIndInv, NEW c \in Call, NEW at \in {"empty", "clear"},
           EndsLocally(c, at), ~Waits(c), ServerMoves, UNCHANGED <<store, writing>>
    PROVE  PhoneIndInv'
<1> USE Parts
<1> DEFINE rec == [Free EXCEPT !.op = "logout", !.at = at]
<1>1. /\ rec \in TaskRecord /\ rec.op = "logout" /\ rec.at = at /\ rec.token = None
      /\ rec.fresh /\ rec.lead = None /\ WellFormed(c, rec)
  BY DEF Free, TaskRecord, WellFormed
<1>2. app' = Forgotten /\ task' = [NewGeneration(c) EXCEPT ![c] = rec]
      /\ mutations' = Append(mutations, c)
  BY DEF EndsLocally
<1> HIDE DEF rec
<1>3. /\ task' \in [Task -> TaskRecord] /\ task'[c] = rec
      /\ \A u \in Task \ {c} :
            /\ task'[u].op = task[u].op /\ task'[u].at = task[u].at
            /\ task'[u].token = task[u].token /\ task'[u].lead = task[u].lead
            /\ ~Carries(task'[u]) /\ WellFormed(u, task'[u])
  BY <1>1, <1>2, Stale
<1>4. Queue' /\ mutations' # <<>>
      /\ (mutations # <<>> => Head(mutations') = Head(mutations))
  <2>1. Waits(c)' /\ \A u \in Task \ {c} : Waits(u)' = Waits(u)
    BY <1>1, <1>3 DEF Waits, KeyStoreSteps
  <2>2. QED
    BY <1>2, <2>1, QueueJoined
<1>5. ASSUME writing
      PROVE  /\ Head(mutations') = Head(mutations) /\ Head(mutations) \in Task \ {c}
             /\ task[Head(mutations)].at = "commit"
  <2>1. mutations # <<>> /\ task[Head(mutations)].at = "commit"
    BY <1>5
  <2>2. QED
    BY <1>4, <2>1 DEF Waits, KeyStoreSteps
<1>6. writing' => mutations' # <<>> /\ task'[Head(mutations')].at = "commit"
  BY <1>3, <1>4, <1>5
<1>7. Overtaken'
  <2>1. SUFFICES ASSUME writing
                 PROVE  \E i \in DOMAIN mutations' :
                           /\ i # 1 /\ task'[mutations'[i]].fresh
                           /\ task'[mutations'[i]].at \in {"empty", "clear"}
    BY DEF Overtaken
  <2>2. mutations # <<>> /\ mutations \in Seq(Task)
    BY <2>1 DEF Queue
  <2>3. PICK n : n = Len(mutations)
    OBVIOUS
  <2>4. n \in Nat \ {0} /\ n + 1 # 1 /\ n + 1 \in DOMAIN mutations' /\ mutations'[n + 1] = c
    BY <1>2, <2>2, <2>3
  <2>5. QED
    BY <1>1, <1>3, <2>4
<1>8. Shapes'
  BY <1>1, <1>3 DEF Shapes
<1>9. OneRotation'
  BY <1>1, <1>2, StaleOneRotation
<1>10. app' \in AppRecord /\ app'.user = None /\ app'.access = None
  BY <1>2 DEF AppRecord, Forgotten
<1>11. SameIdentity'
  <2>1. PICK f \in Family \cup {None} : Identity(f)
    BY DEF SameIdentity
  <2>2. \A u \in Task : ~Carries(task'[u])
    BY <1>1, <1>3 DEF Carries
  <2>3. writing' /\ Head(mutations') \in Rotation => FamilyOf(task'[Head(mutations')].token) = f
    BY <1>3, <1>5, <2>1 DEF Identity
  <2>4. Identity(f)'
    BY <1>10, <2>1, <2>2, <2>3 DEF Identity
  <2>5. QED
    BY <2>4 DEF SameIdentity
<1>12. Lineage'
  <2>1. \A u \in Task : \/ task'[u].op = task[u].op /\ task'[u].at = task[u].at
                           /\ task'[u].token = task[u].token
                        \/ task'[u].token = None /\ task'[u].at # "ask"
    BY <1>1, <1>3
  <2>2. \A k \in Token : FamilyOf(k) \in Family
    BY DEF Token, FamilyOf
  <2>3. store' # None => current'[FamilyOf(store')] # Unborn
    BY <2>2 DEF Lineage, ServerMoves
  <2>4. \A u \in Task : task'[u].token # None => current'[FamilyOf(task'[u].token)] # Unborn
    <3>1. \A u \in Task : task'[u].token # None =>
             task'[u].token \in Token /\ current[FamilyOf(task'[u].token)] # Unborn
      BY <2>1 DEF Lineage, TaskRecord
    <3>2. QED
      BY <2>2, <3>1 DEF ServerMoves
  <2>5. \A d \in Task : task'[d].op = "login" /\ task'[d].token # None =>
          /\ store' # None => FamilyOf(store') # FamilyOf(task'[d].token)
          /\ \A t \in Task \ {d} : task'[t].token # None =>
                FamilyOf(task'[t].token) # FamilyOf(task'[d].token)
    BY <2>1 DEF Lineage
  <2>6. \A r \in Rotation : task'[r].at = "ask" =>
          store' \in {None, task'[r].token} \/ FamilyOf(store') # FamilyOf(task'[r].token)
    BY <2>1 DEF Lineage
  <2>7. QED
    BY <2>3, <2>4, <2>5, <2>6 DEF Lineage, ServerMoves, Alive
<1>13. QED
  BY <1>3, <1>4, <1>6, <1>7, <1>8, <1>9, <1>10, <1>11, <1>12, Whole DEF ServerMoves

-----------------------------------------------------------------------------
(* What the server does. *)

LEMMA TokenFacts ==
    /\ \A k \in Token : FamilyOf(k) \in Family /\ k # Unborn /\ k # Ended /\ k # None
    /\ \A k \in Token : Successor(k) \in Token => FamilyOf(Successor(k)) = FamilyOf(k)
    /\ \A f \in Family : <<f, 1>> \in Token /\ FamilyOf(<<f, 1>>) = f
  BY DEF Token, FamilyOf, Successor

LEMMA ServedSame ==
    ASSUME PhoneIndInv, UNCHANGED <<current, issued, replayed>>, late' \subseteq Token
    PROVE  ServerMoves
  BY Parts DEF ServerMoves, EndpointsTypeOK, Families!TypeOK, Lineage, Alive

LEMMA ServedEnds ==
    ASSUME PhoneIndInv, NEW F \in SUBSET Family, Families!End(F), replayed' \subseteq Family,
           late' \subseteq Token
    PROVE  ServerMoves
<1> USE Parts
<1>1. \A f \in Family : current'[f] = IF f \in F THEN Ended ELSE current[f]
  BY DEF Families!End
<1>2. Families!TypeOK'
  BY DEF Families!End, Families!TypeOK, EndpointsTypeOK
<1>3. QED
  BY <1>1, <1>2 DEF ServerMoves, EndpointsTypeOK, Lineage, Alive

LEMMA ServedOne ==
    ASSUME PhoneIndInv, NEW k \in Token,
           Families!Open(FamilyOf(k), k) \/ Families!Refresh(FamilyOf(k), k),
           replayed' = replayed, late' \subseteq Token
    PROVE  ServerMoves /\ current'[FamilyOf(k)] = k
<1> USE Parts
<1>1. /\ current' = [current EXCEPT ![FamilyOf(k)] = k] /\ issued' = issued \cup {k}
      /\ FamilyOf(k) \in Family /\ k # Unborn
  BY TokenFacts DEF Families!Open, Families!Refresh
<1>2. EndpointsTypeOK'
  BY <1>1 DEF EndpointsTypeOK, Families!TypeOK
<1>3. current \in [Family -> Token \cup {Unborn, Ended}]
  BY DEF EndpointsTypeOK, Families!TypeOK
<1>4. \A f \in Family : current'[f] = IF f = FamilyOf(k) THEN k ELSE current[f]
  BY <1>1, <1>3
<1>5. QED
  BY <1>1, <1>2, <1>4 DEF ServerMoves, Lineage, Alive

\* A refresh request.
LEMMA ServedRefresh ==
    ASSUME PhoneIndInv, NEW k \in Token, Exchange(k) \/ Replay(k) \/ Refuse(k),
           late' \subseteq Token
    PROVE  ServerMoves
<1> USE Parts
<1>1. CASE Exchange(k)
  <2>1. /\ Successor(k) \in Token /\ FamilyOf(Successor(k)) = FamilyOf(k)
        /\ Families!Refresh(FamilyOf(k), Successor(k)) /\ replayed' = replayed
    BY <1>1, TokenFacts DEF Exchange
  <2>2. QED
    BY <2>1, ServedOne
<1>2. CASE Replay(k)
  <2>1. /\ {FamilyOf(k)} \in SUBSET Family /\ Families!End({FamilyOf(k)})
        /\ replayed' \subseteq Family
    BY <1>2, TokenFacts DEF Replay, EndpointsTypeOK
  <2>2. QED
    BY <2>1, ServedEnds
<1>3. CASE Refuse(k)
  BY <1>3, ServedSame DEF Refuse
<1>4. QED
  BY <1>1, <1>2, <1>3

\* The requests somebody waits on, and those that may arrive late, carry tokens.
LEMMA LateTokens ==
    ASSUME PhoneIndInv
    PROVE  /\ late \subseteq Token
           /\ \A R \in SUBSET Rotation : Asked(R) \subseteq Token
           /\ \A T \in SUBSET Token : GiveUp(T) => ServerMoves
<1> USE Parts
<1>1. late \subseteq Token
  BY DEF EndpointsTypeOK
<1>2. \A R \in SUBSET Rotation : Asked(R) \subseteq Token
  BY DEF Asked, Shapes, WellFormed
<1>3. ASSUME NEW T \in SUBSET Token, GiveUp(T) PROVE ServerMoves
  <2>1. late' \subseteq Token
    BY <1>1, <1>3 DEF GiveUp
  <2>2. QED
    BY <1>3, <2>1, ServedSame DEF GiveUp
<1>4. QED
  BY <1>1, <1>2, <1>3

LEMMA ServedRevoke ==
    ASSUME PhoneIndInv, NEW k \in Token, RevokeToken(k) \/ UNCHANGED endpoints
    PROVE  ServerMoves
<1>1. late \subseteq Token /\ replayed \subseteq Family
  BY Parts DEF EndpointsTypeOK
<1>2. CASE UNCHANGED endpoints
  BY <1>1, <1>2, ServedSame DEF endpoints
<1>3. CASE Families!End({FamilyOf(k)}) /\ UNCHANGED <<replayed, late>>
  <2>1. {FamilyOf(k)} \in SUBSET Family
    BY TokenFacts
  <2>2. QED
    BY <1>1, <1>3, <2>1, ServedEnds
<1>4. QED
  BY <1>2, <1>3 DEF RevokeToken

\* The app publishes what it did, or what one task carries.
LEMMA AppSame ==
    ASSUME PhoneIndInv, app' \in AppRecord, app'.user \in {app.user, None},
           app'.access \in {app.access, None}
    PROVE  AppMoves
  BY DEF AppMoves, Identity

-----------------------------------------------------------------------------
(* MoveStep and SettleStep, by what happens to the queue. *)

\* The task is not in the queue and does not enter it.
LEMMA MoveAside ==
    ASSUME PhoneIndInv, NEW t \in Task, NEW rec \in TaskRecord,
           task' = [task EXCEPT ![t] = rec],
           WellFormed(t, rec), rec.at # "rotating", rec.lead = None,
           t \in Rotation => ~Idle(t) /\ rec # Free /\ rec.at # "ask",
           ServerMoves, AppMoves, store' = store, Inherits(t, rec),
           ~Waits(t), rec.at \notin KeyStoreSteps, UNCHANGED <<mutations, writing>>
    PROVE  PhoneIndInv'
<1> USE Parts
<1>1. task'[t] = rec /\ \A u \in Task \ {t} : task'[u] = task[u]
  OBVIOUS
<1>2. \A u \in Task : Waits(u)' = Waits(u)
  BY <1>1 DEF Waits
<1>3. Queue'
  BY <1>2, QueueSame
<1>4. StoreMoves
  BY DEF StoreMoves
<1>5. QED
  BY <1>3, <1>4, MoveStep

\* It enters the queue.
LEMMA MoveIn ==
    ASSUME PhoneIndInv, NEW t \in Task, NEW rec \in TaskRecord,
           task' = [task EXCEPT ![t] = rec],
           WellFormed(t, rec), rec.lead = None,
           t \in Rotation => ~Idle(t) /\ rec # Free,
           ServerMoves, AppMoves, store' = store, Inherits(t, rec),
           ~Waits(t), rec.at \in KeyStoreSteps,
           mutations' = Append(mutations, t), writing' = writing
    PROVE  PhoneIndInv'
<1> USE Parts
<1>1. task'[t] = rec /\ \A u \in Task \ {t} : task'[u] = task[u]
  OBVIOUS
<1>2. Waits(t)' /\ \A u \in Task \ {t} : Waits(u)' = Waits(u)
  BY <1>1 DEF Waits
<1>3. Queue'
  BY <1>2, QueueJoined
<1>4. StoreMoves
  BY DEF StoreMoves
<1>5. rec.at # "rotating" /\ rec.at # "ask"
  BY DEF KeyStoreSteps
<1>6. QED
  BY <1>3, <1>4, <1>5, MoveStep

\* Whoever uses the key store is the first, and only a commit is a write.
LEMMA UsingFacts ==
    ASSUME PhoneIndInv, NEW t, NEW at \in KeyStoreSteps, Using(t, at)
    PROVE  /\ t \in Task /\ mutations # <<>> /\ Head(mutations) = t /\ task[t].at = at
           /\ Waits(t) /\ (at # "commit" => writing = FALSE)
  BY Parts DEF Using, Waits

\* It is done with the key store.
LEMMA MoveOut ==
    ASSUME PhoneIndInv, NEW t \in Task, NEW at \in KeyStoreSteps, Using(t, at),
           NEW rec \in TaskRecord, task' = [task EXCEPT ![t] = rec],
           WellFormed(t, rec), rec.at # "rotating", rec.lead = None,
           t \in Rotation => ~Idle(t) /\ rec # Free,
           t \in Rotation /\ rec.at = "ask" => rec.token = store /\ store' = store,
           ServerMoves, AppMoves, StoreMoves, Inherits(t, rec),
           rec.at \notin KeyStoreSteps,
           mutations' = Tail(mutations), writing' = FALSE
    PROVE  PhoneIndInv'
<1> USE Parts
<1>1. task'[t] = rec /\ \A u \in Task \ {t} : task'[u] = task[u]
  OBVIOUS
<1>2. ~Waits(t)' /\ \A u \in Task \ {t} : Waits(u)' = Waits(u)
  BY <1>1 DEF Waits
<1>3. mutations # <<>> /\ Head(mutations) = t
  BY UsingFacts
<1>4. Queue'
  BY <1>2, <1>3, QueueLeft
<1>5. QED
  BY <1>4, MoveStep

LEMMA SettledWaits ==
    ASSUME PhoneIndInv, NEW r \in Rotation, NEW answer, NEW token,
           task' = Settled(task, r, answer, token)
    PROVE  ~Waits(r)' /\ \A u \in Task \ {r} : Waits(u)' = Waits(u)
<1> USE Parts
<1>1. task'[r] = Free
  BY DEF Settled
<1>2. ASSUME NEW u \in Task \ {r} PROVE Waits(u)' = Waits(u)
  <2>1. CASE task[u].lead = r
    <3>1. task[u].at = "rotating"
      BY <2>1 DEF OneRotation
    <3>2. task[u] \in TaskRecord
      OBVIOUS
    <3>3. task'[u] = [task[u] EXCEPT !.at = "resume", !.lead = None, !.answer = answer,
                                     !.token = token]
      BY <2>1 DEF Settled
    <3>4. task'[u].at = "resume"
      BY <3>2, <3>3 DEF TaskRecord
    <3>5. QED
      BY <3>1, <3>4 DEF Waits, KeyStoreSteps
  <2>2. CASE task[u].lead # r
    BY <2>2 DEF Settled, Waits
  <2>3. QED
    BY <2>1, <2>2
<1>3. QED
  BY <1>1, <1>2 DEF Waits, KeyStoreSteps, Free

\* A rotation that does not use the key store is done.
LEMMA SettleAside ==
    ASSUME PhoneIndInv, NEW r \in Rotation, ~Idle(r), ~Waits(r),
           NEW answer \in {"none", "missing", "invalid", "unavailable", "superseded"},
           task' = Settled(task, r, answer, None),
           ServerMoves, AppMoves, store' = store, UNCHANGED <<mutations, writing>>
    PROVE  PhoneIndInv'
<1> USE Parts
<1>1. \A u \in Task : Waits(u)' = Waits(u)
  <2>1. ~Waits(r)' /\ \A u \in Task \ {r} : Waits(u)' = Waits(u)
    BY SettledWaits
  <2>2. QED
    BY <2>1 DEF Waits
<1>2. Queue'
  BY <1>1, QueueSame
<1>3. StoreMoves
  BY DEF StoreMoves
<1>4. QED
  BY <1>2, <1>3, SettleStep

\* A rotation is done after its use of the key store.
LEMMA SettleOut ==
    ASSUME PhoneIndInv, NEW r \in Rotation, NEW at \in KeyStoreSteps, Using(r, at),
           NEW answer \in {"none", "rotated", "missing", "invalid", "unavailable", "superseded"},
           NEW token \in Token \cup {None}, task' = Settled(task, r, answer, token),
           token # None => token = task[r].token /\ task[r].fresh,
           answer = "rotated" => token \in Token,
           ServerMoves, AppMoves, StoreMoves,
           mutations' = Tail(mutations), writing' = FALSE
    PROVE  PhoneIndInv'
<1> USE Parts
<1>1. mutations # <<>> /\ Head(mutations) = r /\ task[r].at = at
  BY UsingFacts
<1>2. ~Idle(r)
  BY <1>1 DEF Idle, Free, KeyStoreSteps
<1>3. Queue'
  BY <1>1, SettledWaits, QueueLeft
<1>4. QED
  BY <1>2, <1>3, SettleStep

-----------------------------------------------------------------------------
(* One lemma per action. *)

LEMMA Untouched ==
    ASSUME PhoneIndInv
    PROVE  /\ UNCHANGED endpoints => ServerMoves
           /\ UNCHANGED app => AppMoves
           /\ store' \in {None, store} => StoreMoves
<1>1. UNCHANGED endpoints => ServerMoves
  BY Parts, ServedSame DEF endpoints, EndpointsTypeOK
<1>2. UNCHANGED app => AppMoves
  BY Parts, AppSame
<1>3. QED
  BY <1>1, <1>2 DEF StoreMoves

\* What a task is before it steps.
LEMMA Before ==
    ASSUME PhoneIndInv, NEW t \in Task
    PROVE  /\ task[t] \in TaskRecord /\ WellFormed(t, task[t])
           /\ task[t].at # "rotating" => task[t].lead = None
           /\ task[t].at # "none" <=> ~Idle(t)
           /\ Free \in TaskRecord /\ Free.lead = None /\ Free.at = "none" /\ Free.token = None
           /\ Free.op = "none"
           /\ t \in Call => t \notin Rotation /\ WellFormed(t, Free)
           /\ Inherits(t, Free)
<1> USE Parts
<1>1. /\ Free \in TaskRecord /\ Free.lead = None /\ Free.at = "none" /\ Free.token = None
      /\ Free.op = "none"
  BY DEF Free, TaskRecord
<1>2. task[t] \in TaskRecord /\ WellFormed(t, task[t])
  BY DEF Shapes
<1>3. task[t].at # "rotating" => task[t].lead = None
  BY DEF OneRotation
<1>4. task[t].at # "none" <=> ~Idle(t)
  BY <1>1, <1>2 DEF WellFormed, Idle
<1>5. Inherits(t, Free)
  BY <1>1 DEF Inherits
<1>6. t \in Call => t \notin Rotation /\ WellFormed(t, Free)
  BY <1>1 DEF WellFormed
<1>7. QED
  BY <1>1, <1>2, <1>3, <1>4, <1>5, <1>6

LEMMA RevokeKeeps ==
    ASSUME PhoneIndInv, NEW t \in Task, Revoke(t) PROVE PhoneIndInv'
<1> USE Parts, Before, Untouched
<1>1. ServerMoves /\ AppMoves /\ store' = store /\ writing' = writing /\ task[t].at = "revoke"
  <2>1. task[t].at = "revoke" /\ task[t].token \in Token
    BY DEF Revoke, WellFormed
  <2>2. ServerMoves
    BY <2>1, ServedRevoke DEF Revoke
  <2>3. QED
    BY <2>1, <2>2 DEF Revoke
<1>2. ~Waits(t)
  BY <1>1 DEF Waits, KeyStoreSteps
<1>3. CASE task[t].then = "clear"
  <2> DEFINE rec == Moved(task[t], "clear")
  <2>1. task' = [task EXCEPT ![t] = rec] /\ mutations' = Append(mutations, t)
    BY <1>3 DEF Moved, Revoke, Enqueued
  <2>2. /\ rec \in TaskRecord /\ rec.at = "clear" /\ rec.op = task[t].op
        /\ rec.token = task[t].token /\ rec.fresh = task[t].fresh /\ rec.lead = None
        /\ rec.answer = task[t].answer
    BY <1>1, MovedRecord DEF TaskPlace
  <2> HIDE DEF rec
  <2>3. WellFormed(t, rec)
    BY <1>1, <2>2 DEF WellFormed
  <2>4. Inherits(t, rec)
    BY <2>2 DEF Inherits, Carries
  <2>5. QED
    BY <1>1, <1>2, <2>1, <2>2, <2>3, <2>4, MoveIn DEF KeyStoreSteps
<1>4. CASE task[t].then # "clear" /\ t \in Rotation
  <2>1. task' = Settled(task, t, task[t].answer, None) /\ UNCHANGED mutations
    BY <1>4 DEF Revoke, Ends
  <2>2. task[t].answer \in {"none", "missing", "invalid", "unavailable", "superseded"}
    BY <1>4 DEF WellFormed, TaskRecord
  <2>3. QED
    BY <1>1, <1>2, <1>4, <2>1, <2>2, SettleAside
<1>5. CASE task[t].then # "clear" /\ t \in Call
  <2>1. task' = [task EXCEPT ![t] = Free] /\ UNCHANGED mutations
    BY <1>5 DEF Revoke, Ends
  <2>2. QED
    BY <1>1, <1>2, <1>5, <2>1, MoveAside DEF KeyStoreSteps
<1>6. QED
  BY <1>3, <1>4, <1>5

LEMMA ClearKeeps ==
    ASSUME PhoneIndInv, NEW t \in Task, Clear(t) PROVE PhoneIndInv'
<1> USE Parts, Before, Untouched
<1>1. /\ Using(t, "clear") /\ "clear" \in KeyStoreSteps /\ task[t].at = "clear"
      /\ writing = FALSE /\ writing' = FALSE /\ mutations' = Tail(mutations)
      /\ store' \in {None, store} /\ StoreMoves /\ ServerMoves /\ ~Idle(t)
  BY UsingFacts DEF Clear, KeyStoreSteps
<1>2. AppMoves
  <2>1. app' \in AppRecord /\ app'.user \in {app.user, None} /\ app'.access = app.access
    BY DEF Clear, AppRecord
  <2>2. QED
    BY <2>1, AppSame
<1>3. CASE t \in Rotation
  <2>1. task' = Settled(task, t, task[t].answer, None)
    BY <1>3 DEF Clear, Ends
  <2>2. task[t].answer \in {"none", "missing", "invalid", "unavailable", "superseded"}
    BY <1>3 DEF WellFormed, TaskRecord
  <2>3. QED
    BY <1>1, <1>2, <1>3, <2>1, <2>2, SettleOut
<1>4. CASE t \in Call
  <2>1. task' = [task EXCEPT ![t] = Free]
    BY <1>4 DEF Clear, Ends
  <2>2. QED
    BY <1>1, <1>2, <1>4, <2>1, MoveOut DEF KeyStoreSteps
<1>5. QED
  BY <1>3, <1>4

LEMMA ReadStoredKeeps ==
    ASSUME PhoneIndInv, NEW r \in Task, ReadStored(r) PROVE PhoneIndInv'
<1> USE Parts, Before, Untouched
<1>1. /\ Using(r, "read") /\ "read" \in KeyStoreSteps /\ task[r].at = "read"
      /\ mutations # <<>> /\ Head(mutations) = r /\ Waits(r)
      /\ writing = FALSE /\ writing' = FALSE /\ store' = store
      /\ StoreMoves /\ ServerMoves /\ AppMoves /\ ~Idle(r)
  BY UsingFacts DEF ReadStored, KeyStoreSteps
<1>2. r \in Rotation /\ task[r].op = "rotation"
  BY <1>1 DEF WellFormed
<1>3. CASE task' = Settled(task, r, "missing", None) /\ mutations' = Tail(mutations)
  BY <1>1, <1>2, <1>3, SettleOut
<1>4. CASE /\ store # None
           /\ task' = [task EXCEPT ![r].at = "ask", ![r].token = store]
           /\ mutations' = Tail(mutations)
  <2> DEFINE rec == WithToken(task[r], "ask", store)
  <2>1. task' = [task EXCEPT ![r] = rec]
    BY <1>4 DEF WithToken
  <2>2. /\ rec \in TaskRecord /\ rec.at = "ask" /\ rec.op = "rotation" /\ rec.token = store
        /\ rec.lead = None /\ rec.answer = task[r].answer
    <3>1. task[r] \in TaskRecord /\ task[r].lead = None /\ store \in Token /\ "ask" \in TaskPlace
      BY <1>1, <1>4 DEF TaskPlace
    <3>. QED
      BY <1>2, <3>1, WithTokenRecord
  <2> HIDE DEF rec
  <2>3. WellFormed(r, rec) /\ Inherits(r, rec) /\ rec # Free
    BY <1>2, <1>4, <2>2 DEF WellFormed, Inherits
  <2>4. QED
    BY <1>1, <1>2, <1>4, <2>1, <2>2, <2>3, MoveOut DEF KeyStoreSteps
<1>5. CASE /\ task' = [task EXCEPT ![r].at = "clear", ![r].answer = "invalid"]
           /\ mutations' = Append(Tail(mutations), r)
  <2> DEFINE rec == WithAnswer(task[r], "clear", "invalid")
  <2>1. task' = [task EXCEPT ![r] = rec]
    BY <1>5 DEF WithAnswer
  <2>2. /\ rec \in TaskRecord /\ rec.at = "clear" /\ rec.op = "rotation"
        /\ rec.token = task[r].token /\ rec.fresh = task[r].fresh
        /\ rec.lead = None /\ rec.answer = "invalid"
    BY <1>1, <1>2, WithAnswerRecord DEF TaskPlace
  <2> HIDE DEF rec
  <2>3. WellFormed(r, rec) /\ Inherits(r, rec) /\ rec # Free
    BY <1>2, <2>2 DEF WellFormed, Inherits, Carries
  <2>4. Queue'
    <3>1. task'[r] = rec /\ \A u \in Task \ {r} : task'[u] = task[u]
      BY <2>1, <2>2
    <3>2. \A u \in Task : Waits(u)' = Waits(u)
      BY <1>1, <2>2, <3>1 DEF Waits, KeyStoreSteps
    <3>3. QED
      BY <1>1, <1>5, <3>2, QueueAgain
  <2>5. QED
    BY <1>1, <1>2, <2>1, <2>2, <2>3, <2>4, MoveStep
<1>6. QED
  BY <1>3, <1>4, <1>5 DEF ReadStored

LEMMA ServeRotationKeeps ==
    ASSUME PhoneIndInv, NEW r \in Task, ServeRotation(r) PROVE PhoneIndInv'
<1> USE Parts, Before, Untouched
<1>1. /\ task[r].op = "rotation" /\ task[r].at = "ask" /\ r \in Rotation
      /\ task[r].token \in Token /\ ~Idle(r) /\ ~Waits(r)
      /\ store' = store /\ AppMoves /\ UNCHANGED <<mutations, writing, late>>
  BY DEF ServeRotation, At, WellFormed, Waits, KeyStoreSteps
<1>2. ServerMoves
  <2>1. late' \subseteq Token
    BY <1>1, LateTokens
  <2>2. QED
    BY <1>1, <2>1, ServedRefresh DEF ServeRotation
<1>3. CASE /\ Exchange(task[r].token)
           /\ task' = [task EXCEPT ![r].at = "pair", ![r].token = Successor(@)]
  <2> DEFINE rec == WithToken(task[r], "pair", Successor(task[r].token))
  <2>1. Successor(task[r].token) \in Token
        /\ FamilyOf(Successor(task[r].token)) = FamilyOf(task[r].token)
    BY <1>1, <1>3, TokenFacts DEF Exchange
  <2>2. task' = [task EXCEPT ![r] = rec]
    BY <1>3 DEF WithToken
  <2>3. /\ rec \in TaskRecord /\ rec.at = "pair" /\ rec.op = "rotation"
        /\ rec.token = Successor(task[r].token) /\ rec.fresh = task[r].fresh
        /\ rec.lead = None /\ rec.answer = task[r].answer
    <3>1. task[r] \in TaskRecord /\ task[r].lead = None /\ "pair" \in TaskPlace
      BY <1>1 DEF TaskPlace
    <3>. QED
      BY <1>1, <2>1, <3>1, WithTokenRecord
  <2> HIDE DEF rec
  <2>4. WellFormed(r, rec) /\ Inherits(r, rec) /\ rec # Free
    BY <1>1, <2>1, <2>3, TokenFacts DEF WellFormed, Inherits, Carries
  <2>5. QED
    BY <1>1, <1>2, <2>2, <2>3, <2>4, MoveAside DEF KeyStoreSteps
<1>4. CASE task' = [task EXCEPT ![r].at = "refused"]
  <2> DEFINE rec == Moved(task[r], "refused")
  <2>1. task' = [task EXCEPT ![r] = rec]
    BY <1>4 DEF Moved
  <2>2. /\ rec \in TaskRecord /\ rec.at = "refused" /\ rec.op = "rotation"
        /\ rec.token = task[r].token /\ rec.fresh = task[r].fresh
        /\ rec.lead = None /\ rec.answer = task[r].answer
    BY <1>1, MovedRecord DEF TaskPlace
  <2> HIDE DEF rec
  <2>3. WellFormed(r, rec) /\ Inherits(r, rec) /\ rec # Free
    BY <1>1, <2>2, TokenFacts DEF WellFormed, Inherits, Carries
  <2>4. QED
    BY <1>1, <1>2, <2>1, <2>2, <2>3, MoveAside DEF KeyStoreSteps
<1>5. QED
  BY <1>3, <1>4 DEF ServeRotation

LEMMA RotationAnsweredKeeps ==
    ASSUME PhoneIndInv, NEW r \in Task, RotationAnswered(r) PROVE PhoneIndInv'
<1> USE Parts, Before, Untouched
<1>1. /\ task[r].op = "rotation" /\ task[r].at \in {"pair", "refused"} /\ r \in Rotation
      /\ task[r].token \in Token /\ ~Idle(r) /\ ~Waits(r)
      /\ store' = store /\ AppMoves /\ ServerMoves
      /\ writing' = writing /\ mutations' = Append(mutations, r)
  BY DEF RotationAnswered, At, WellFormed, Waits, KeyStoreSteps
<1>2. PICK rec \in TaskRecord :
        /\ task' = [task EXCEPT ![r] = rec] /\ rec.at \in {"commit", "clear"}
        /\ rec.op = "rotation" /\ rec.token = task[r].token /\ rec.fresh = task[r].fresh
        /\ rec.lead = None /\ rec.answer \in {task[r].answer, "invalid"}
  <2>1. CASE task' = [task EXCEPT ![r].at = "commit"]
    <3> DEFINE rec == Moved(task[r], "commit")
    <3>1. task' = [task EXCEPT ![r] = rec]
      BY <2>1 DEF Moved
    <3>2. /\ rec \in TaskRecord /\ rec.at = "commit" /\ rec.op = "rotation"
          /\ rec.token = task[r].token /\ rec.fresh = task[r].fresh
          /\ rec.lead = None /\ rec.answer = task[r].answer
      BY <1>1, MovedRecord DEF TaskPlace
    <3>3. QED
      BY <3>1, <3>2
  <2>2. CASE task' = [task EXCEPT ![r].at = "clear", ![r].answer = "invalid"]
    <3> DEFINE rec == WithAnswer(task[r], "clear", "invalid")
    <3>1. task' = [task EXCEPT ![r] = rec]
      BY <2>2 DEF WithAnswer
    <3>2. /\ rec \in TaskRecord /\ rec.at = "clear" /\ rec.op = "rotation"
          /\ rec.token = task[r].token /\ rec.fresh = task[r].fresh
          /\ rec.lead = None /\ rec.answer = "invalid"
      BY <1>1, WithAnswerRecord DEF TaskPlace
    <3>3. QED
      BY <3>1, <3>2
  <2>3. QED
    BY <2>1, <2>2 DEF RotationAnswered, Enqueued
<1>3. WellFormed(r, rec) /\ Inherits(r, rec) /\ rec # Free
  BY <1>1, <1>2, TokenFacts DEF WellFormed, Inherits, Carries
<1>4. QED
  BY <1>1, <1>2, <1>3, MoveIn DEF KeyStoreSteps

LEMMA RotationUnansweredKeeps ==
    ASSUME PhoneIndInv, NEW r \in Task, RotationUnanswered(r) PROVE PhoneIndInv'
<1> USE Parts, Before, Untouched
<1>1. /\ r \in Rotation /\ ~Idle(r) /\ ~Waits(r)
      /\ task' = Settled(task, r, "unavailable", None)
      /\ store' = store /\ AppMoves /\ UNCHANGED <<mutations, writing>>
  BY DEF RotationUnanswered, WellFormed, Waits, KeyStoreSteps
<1>2. ServerMoves
  <2>1. {r} \in SUBSET Rotation
    BY <1>1
  <2>2. Asked({r}) \in SUBSET Token
    BY <2>1, LateTokens
  <2>3. QED
    BY <2>2, LateTokens DEF RotationUnanswered
<1>3. QED
  BY <1>1, <1>2, SettleAside

LEMMA BeginWriteKeeps ==
    ASSUME PhoneIndInv, NEW t \in Task, BeginWrite(t) PROVE PhoneIndInv'
<1> USE Parts, Before, Untouched
<1>1. /\ Using(t, "commit") /\ "commit" \in KeyStoreSteps /\ task[t].at = "commit"
      /\ mutations # <<>> /\ Head(mutations) = t /\ writing = FALSE /\ ~Idle(t)
      /\ store' = store /\ app' = app /\ UNCHANGED endpoints
      /\ StoreMoves /\ ServerMoves /\ AppMoves
  BY UsingFacts DEF BeginWrite, KeyStoreSteps
<1>2. CASE /\ task[t].fresh /\ writing' = TRUE /\ UNCHANGED <<task, mutations>>
  <2>1. Queue' /\ OneRotation' /\ Shapes' /\ EndpointsTypeOK'
    <3>1. Queue'
      BY <1>2, QueueSame DEF Waits
    <3>2. OneRotation'
      BY <1>2 DEF OneRotation, Idle
    <3>3. Shapes' /\ EndpointsTypeOK'
      BY <1>1, <1>2 DEF Shapes, ServerMoves
    <3>4. QED
      BY <3>1, <3>2, <3>3
  <2>2. Overtaken'
    BY <1>1, <1>2 DEF Overtaken
  <2>3. SameIdentity'
    <3>1. PICK f \in Family \cup {None} : Identity(f)
      BY DEF SameIdentity
    <3>2. t \in Rotation => Carries(task[t])
      BY <1>1, <1>2, TokenFacts DEF Carries, WellFormed
    <3>3. t \in Rotation => FamilyOf(task[t].token) = f
      BY <3>1, <3>2 DEF Identity
    <3>4. Identity(f)'
      BY <1>1, <1>2, <3>1, <3>3 DEF Identity
    <3>5. QED
      BY <3>4 DEF SameIdentity
  <2>4. Lineage'
    BY <1>1, <1>2 DEF Lineage, Alive, endpoints
  <2>5. QED
    BY <1>1, <1>2, <2>1, <2>2, <2>3, <2>4, Whole
<1>3. CASE /\ task' = [task EXCEPT ![t].at = "revoke", ![t].answer = "superseded"]
           /\ mutations' = Tail(mutations) /\ UNCHANGED writing
  <2> DEFINE rec == WithAnswer(task[t], "revoke", "superseded")
  <2>1. task' = [task EXCEPT ![t] = rec]
    BY <1>3 DEF WithAnswer
  <2>2. /\ rec \in TaskRecord /\ rec.at = "revoke" /\ rec.op = task[t].op
        /\ rec.token = task[t].token /\ rec.fresh = task[t].fresh
        /\ rec.lead = None /\ rec.answer = "superseded"
    BY <1>1, WithAnswerRecord DEF TaskPlace
  <2> HIDE DEF rec
  <2>3. WellFormed(t, rec) /\ Inherits(t, rec) /\ rec # Free
    BY <1>1, <2>2, TokenFacts DEF WellFormed, Inherits, Carries
  <2>4. QED
    BY <1>1, <1>3, <2>1, <2>2, <2>3, MoveOut DEF KeyStoreSteps
<1>4. QED
  BY <1>2, <1>3 DEF BeginWrite

LEMMA WriteFailsKeeps ==
    ASSUME PhoneIndInv, NEW t \in Task, WriteFails(t) PROVE PhoneIndInv'
<1> USE Parts, Before, Untouched
<1>1. /\ Using(t, "commit") /\ "commit" \in KeyStoreSteps /\ task[t].at = "commit"
      /\ ~Idle(t) /\ StoreMoves /\ ServerMoves /\ AppMoves
      /\ writing' = FALSE /\ mutations' = Tail(mutations)
  BY UsingFacts DEF WriteFails, KeyStoreSteps
<1> DEFINE rec == ToClear(task[t], "revoke", "invalid")
<1>2. task' = [task EXCEPT ![t] = rec]
  BY DEF ToClear, WriteFails
<1>3. /\ rec \in TaskRecord /\ rec.at = "revoke" /\ rec.op = task[t].op
      /\ rec.token = task[t].token /\ rec.fresh = task[t].fresh
      /\ rec.lead = None /\ rec.answer = "invalid"
  BY <1>1, ToClearRecord DEF TaskPlace
<1> HIDE DEF rec
<1>4. WellFormed(t, rec) /\ Inherits(t, rec) /\ rec # Free
  BY <1>1, <1>3, TokenFacts DEF WellFormed, Inherits, Carries
<1>5. QED
  BY <1>1, <1>2, <1>3, <1>4, MoveOut DEF KeyStoreSteps

LEMMA LoginWrittenKeeps ==
    ASSUME PhoneIndInv, NEW c \in Task, LoginWritten(c) PROVE PhoneIndInv'
<1> USE Parts, Before, Untouched
<1>1. /\ Using(c, "commit") /\ "commit" \in KeyStoreSteps /\ task[c].at = "commit"
      /\ mutations # <<>> /\ Head(mutations) = c /\ task[c].op = "login"
      /\ task[c].token \in Token /\ c \in Call
      /\ task' = [NewGeneration(c) EXCEPT ![c] = Free]
      /\ store' = task[c].token /\ writing' = FALSE /\ mutations' = Tail(mutations)
      /\ UNCHANGED endpoints
  BY UsingFacts DEF LoginWritten, KeyStoreSteps, WellFormed
<1>2. /\ task' \in [Task -> TaskRecord] /\ task'[c] = Free
      /\ \A u \in Task \ {c} :
            /\ task'[u].op = task[u].op /\ task'[u].at = task[u].at
            /\ task'[u].token = task[u].token /\ task'[u].lead = task[u].lead
            /\ ~Carries(task'[u]) /\ WellFormed(u, task'[u])
  BY <1>1, Stale
<1>3. Queue'
  <2>1. ~Waits(c)' /\ \A u \in Task \ {c} : Waits(u)' = Waits(u)
    BY <1>2 DEF Waits, KeyStoreSteps
  <2>2. QED
    BY <1>1, <2>1, QueueLeft
<1>4. Overtaken'
  BY <1>1 DEF Overtaken
<1>5. Shapes'
  BY <1>1, <1>2 DEF Shapes
<1>6. OneRotation'
  BY <1>1, StaleOneRotation
<1> PICK f : f = FamilyOf(task[c].token)
  OBVIOUS
<1>7. f \in Family
  BY <1>1, TokenFacts
<1>8. app' \in AppRecord /\ app'.user = f /\ app'.access = f
  BY <1>7 DEF LoginWritten, AppRecord
<1>9. SameIdentity'
  <2>1. \A u \in Task : ~Carries(task'[u])
    BY <1>2 DEF Carries
  <2>2. Identity(f)'
    BY <1>1, <1>8, <2>1 DEF Identity
  <2>3. QED
    BY <1>7, <2>2 DEF SameIdentity
<1>10. Lineage'
  <2>1. \A u \in Task : \/ u # c /\ task'[u].op = task[u].op /\ task'[u].at = task[u].at
                           /\ task'[u].token = task[u].token
                        \/ task'[u].token = None /\ task'[u].at # "ask"
    BY <1>2
  <2>2. \A u \in Task : task'[u].token # None => current[FamilyOf(task'[u].token)] # Unborn
    BY <2>1 DEF Lineage
  <2>3. \A u \in Task \ {c} : task[u].token # None => FamilyOf(task[u].token) # f
    BY <1>1, TokenFacts DEF Lineage
  <2>4. \A d \in Task : task'[d].op = "login" /\ task'[d].token # None =>
          /\ FamilyOf(store') # FamilyOf(task'[d].token)
          /\ \A t \in Task \ {d} : task'[t].token # None =>
                FamilyOf(task'[t].token) # FamilyOf(task'[d].token)
    BY <1>1, <2>1, <2>3 DEF Lineage
  <2>5. \A r \in Rotation : task'[r].at = "ask" => FamilyOf(store') # FamilyOf(task'[r].token)
    BY <1>1, <2>1, <2>3, TokenFacts DEF Shapes, WellFormed
  <2>6. current[f] # Unborn
    BY <1>1, TokenFacts DEF Lineage
  <2>7. QED
    BY <1>1, <2>2, <2>4, <2>5, <2>6 DEF Lineage, Alive, endpoints
<1>11. EndpointsTypeOK'
  BY <1>1 DEF ServerMoves
<1>12. QED
  BY <1>1, <1>2, <1>3, <1>4, <1>5, <1>6, <1>8, <1>9, <1>10, <1>11, Whole

LEMMA RotationWrittenKeeps ==
    ASSUME PhoneIndInv, NEW r \in Task, RotationWritten(r) PROVE PhoneIndInv'
<1> USE Parts, Before, Untouched
<1>1. /\ Using(r, "commit") /\ "commit" \in KeyStoreSteps /\ task[r].at = "commit"
      /\ Head(mutations) = r /\ task[r].op = "rotation" /\ r \in Rotation /\ writing
      /\ task[r].token \in Token /\ ~Idle(r)
      /\ ServerMoves /\ AppMoves /\ store' = task[r].token
      /\ writing' = FALSE /\ mutations' = Tail(mutations)
  BY UsingFacts DEF RotationWritten, KeyStoreSteps, WellFormed
<1>2. StoreMoves
  BY <1>1 DEF StoreMoves
<1>3. CASE task[r].fresh /\ task' = Settled(task, r, "rotated", task[r].token)
  BY <1>1, <1>2, <1>3, SettleOut
<1>4. CASE task' = [task EXCEPT ![r].at = "revoke", ![r].answer = "superseded"]
  <2> DEFINE rec == WithAnswer(task[r], "revoke", "superseded")
  <2>1. task' = [task EXCEPT ![r] = rec]
    BY <1>4 DEF WithAnswer
  <2>2. /\ rec \in TaskRecord /\ rec.at = "revoke" /\ rec.op = task[r].op
        /\ rec.token = task[r].token /\ rec.fresh = task[r].fresh
        /\ rec.lead = None /\ rec.answer = "superseded"
    BY <1>1, WithAnswerRecord DEF TaskPlace
  <2> HIDE DEF rec
  <2>3. WellFormed(r, rec) /\ Inherits(r, rec) /\ rec # Free
    BY <1>1, <2>2, TokenFacts DEF WellFormed, Inherits, Carries
  <2>4. QED
    BY <1>1, <1>2, <2>1, <2>2, <2>3, MoveOut DEF KeyStoreSteps
<1>5. QED
  BY <1>3, <1>4 DEF RotationWritten

\* The app publishes what a task carries.
LEMMA AppCarried ==
    ASSUME PhoneIndInv, NEW t \in Task, Carries(task[t]), app' \in AppRecord,
           app'.user \in {app.user, None, FamilyOf(task[t].token)},
           app'.access \in {app.access, None, FamilyOf(task[t].token)}
    PROVE  AppMoves
  BY DEF AppMoves, Identity

LEMMA AfterRotationMoves ==
    ASSUME PhoneIndInv, NEW c \in Task, task[c].at = "resume",
           task[c].op \in {"refresh", "again"}, app' = AfterRotation(c)
    PROVE  AppMoves
<1> USE Parts, Before, Untouched
<1>1. CASE app' = app
  BY <1>1
<1>2. CASE app' = Forgotten
  <2>1. app' \in AppRecord /\ app'.user = None /\ app'.access = None
    BY <1>2 DEF Forgotten, AppRecord
  <2>2. QED
    BY <2>1, AppSame
<1>3. CASE /\ task[c].fresh /\ task[c].answer = "rotated"
           /\ app' = [app EXCEPT !.access = FamilyOf(task[c].token)]
  <2>1. task[c].token \in Token /\ Carries(task[c])
    BY <1>3, TokenFacts DEF WellFormed, Carries
  <2>2. app' \in AppRecord /\ app'.user = app.user /\ app'.access = FamilyOf(task[c].token)
    BY <1>3, <2>1, TokenFacts DEF AppRecord
  <2>3. QED
    BY <2>1, <2>2, AppCarried
<1>4. QED
  BY <1>1, <1>2, <1>3 DEF AfterRotation

\* A call that is not in the queue ends.
LEMMA CallEnds ==
    ASSUME PhoneIndInv, NEW c \in Call, ~Waits(c), task' = [task EXCEPT ![c] = Free],
           ServerMoves, AppMoves, UNCHANGED <<store, mutations, writing>>
    PROVE  PhoneIndInv'
  BY Before, MoveAside DEF KeyStoreSteps

\* A call goes on with the token it has.
LEMMA CallGoesOn ==
    ASSUME PhoneIndInv, NEW c \in Call, ~Waits(c), task[c].at # "rotating",
           NEW at \in {"me", "all", "revoke"}, NEW then \in {"none", "clear"},
           task' = [task EXCEPT ![c] = [@ EXCEPT !.at = at, !.then = then]],
           task[c].op # "login" \/ at = "revoke", task[c].token \in Token,
           ServerMoves, AppMoves, UNCHANGED <<store, mutations, writing>>
    PROVE  PhoneIndInv'
<1> USE Before
<1> DEFINE rec == WithThen(task[c], at, then)
<1>1. task' = [task EXCEPT ![c] = rec]
  BY DEF WithThen
<1>2. /\ rec \in TaskRecord /\ rec.at = at /\ rec.op = task[c].op
      /\ rec.token = task[c].token /\ rec.fresh = task[c].fresh
      /\ rec.lead = None /\ rec.answer = task[c].answer
  <2>1. task[c] \in TaskRecord /\ task[c].lead = None
    OBVIOUS
  <2>2. QED
    BY <2>1, WithThenRecord DEF TaskPlace
<1> HIDE DEF rec
<1>3. WellFormed(c, rec) /\ Inherits(c, rec)
  BY <1>2, TokenFacts DEF WellFormed, Inherits, Carries
<1>4. QED
  BY <1>1, <1>2, <1>3, MoveAside DEF KeyStoreSteps

LEMMA FallsBackKeeps ==
    ASSUME PhoneIndInv, NEW c \in Call, FallsBack(c), ~Waits(c), ServerMoves,
           UNCHANGED <<store, writing>>
    PROVE  PhoneIndInv'
<1>1. CASE EndsLocally(c, "empty")
  BY <1>1, ForgetStep
<1>2. CASE task' = [task EXCEPT ![c] = Free] /\ UNCHANGED <<app, mutations>>
  BY <1>2, Untouched, CallEnds
<1>3. QED
  BY <1>1, <1>2 DEF FallsBack

\* The calls the app makes.
LEMMA CallKeeps ==
    ASSUME PhoneIndInv, NEW c \in Call,
           Bootstrap(c) \/ Login(c) \/ Refresh(c) \/ Logout(c) \/ LogoutAll(c)
    PROVE  PhoneIndInv'
<1> USE Parts, Before, Untouched
<1>1. Idle(c) /\ task[c] = Free /\ ~Waits(c) /\ UNCHANGED <<endpoints, store, writing>> /\ ServerMoves
  BY DEF Bootstrap, Login, Refresh, Logout, LogoutAll, Idle, Waits, KeyStoreSteps
<1>2. CASE Bootstrap(c)
  <2>1. app' \in AppRecord /\ app'.user \in {app.user, None} /\ app'.access = app.access
    BY <1>2 DEF Bootstrap, AppRecord
  <2>2. AppMoves
    BY <2>1, AppSame
  <2>3. QED
    BY <1>1, <1>2, <2>2, JoinStep DEF Bootstrap
<1>3. CASE Refresh(c)
  BY <1>1, <1>3, JoinStep DEF Refresh
<1>4. CASE Logout(c)
  BY <1>1, <1>4, ForgetStep DEF Logout
<1>5. CASE Login(c) \/ LogoutAll(c)
  <2>1. PICK op \in {"login", "logoutAll"}, at \in {"ask", "all"} :
          /\ op = "login" <=> at = "ask"
          /\ task' = [task EXCEPT ![c] = [Free EXCEPT !.op = op, !.at = at]]
    BY <1>5 DEF Login, LogoutAll
  <2> DEFINE rec == [Free EXCEPT !.op = op, !.at = at]
  <2>2. /\ rec \in TaskRecord /\ rec.at = at /\ rec.op = op /\ rec.token = None
        /\ rec.lead = None /\ rec.answer = "none"
    BY DEF TaskRecord, Free
  <2>3. task' = [task EXCEPT ![c] = rec]
    BY <2>1
  <2> HIDE DEF rec
  <2>4. WellFormed(c, rec) /\ Inherits(c, rec)
    BY <2>1, <2>2 DEF WellFormed, Inherits
  <2>5. AppMoves /\ UNCHANGED <<mutations, writing>>
    BY <1>5 DEF Login, LogoutAll
  <2>6. QED
    BY <1>1, <2>2, <2>3, <2>4, <2>5, MoveAside DEF KeyStoreSteps
<1>6. QED
  BY <1>2, <1>3, <1>4, <1>5

LEMMA BootstrapResumesKeeps ==
    ASSUME PhoneIndInv, NEW c \in Call, BootstrapResumes(c) PROVE PhoneIndInv'
<1> USE Parts, Before, Untouched
<1>1. /\ task[c].op = "bootstrap" /\ task[c].at = "resume" /\ ~Waits(c)
      /\ ServerMoves /\ UNCHANGED <<store, mutations, writing>>
  BY DEF BootstrapResumes, At, Waits, KeyStoreSteps
<1>2. CASE task[c].answer = "rotated"
  <2>1. AppMoves
    BY <1>2 DEF BootstrapResumes
  <2>2. task[c].token \in Token
    BY <1>1, <1>2 DEF WellFormed
  <2>3. PICK at \in {"me", "revoke"} : task' = [task EXCEPT ![c].at = at]
    BY <1>2 DEF BootstrapResumes
  <2>4. PICK then \in {"none", "clear"} : then = task[c].then
    BY DEF TaskRecord
  <2>5. task' = [task EXCEPT ![c] = [@ EXCEPT !.at = at, !.then = then]]
    <3>1. task[c] \in TaskRecord
      OBVIOUS
    <3>2. [task[c] EXCEPT !.at = at] = [task[c] EXCEPT !.at = at, !.then = then]
      BY <2>4, <3>1 DEF TaskRecord
    <3>3. QED
      BY <2>3, <3>2
  <2>6. QED
    BY <1>1, <2>1, <2>2, <2>5, CallGoesOn
<1>3. CASE task[c].answer # "rotated"
  <2>1. task' = [task EXCEPT ![c] = Free]
    BY <1>3 DEF BootstrapResumes
  <2>2. app' \in AppRecord /\ app'.user = app.user /\ app'.access = app.access
    BY <1>3 DEF BootstrapResumes, AppRecord
  <2>3. AppMoves
    BY <2>2, AppSame
  <2>4. QED
    BY <1>1, <2>1, <2>3, CallEnds
<1>4. QED
  BY <1>2, <1>3

LEMMA IdentifiedKeeps ==
    ASSUME PhoneIndInv, NEW c \in Call, Identified(c) PROVE PhoneIndInv'
<1> USE Parts, Before, Untouched
<1>1. /\ task[c].op = "bootstrap" /\ task[c].at = "me" /\ ~Waits(c)
      /\ task[c].token \in Token /\ task' = [task EXCEPT ![c] = Free]
      /\ ServerMoves /\ UNCHANGED <<store, mutations, writing>>
  BY DEF Identified, At, Waits, KeyStoreSteps, WellFormed
<1>2. AppMoves
  <2>1. CASE ~task[c].fresh
    BY <2>1 DEF Identified
  <2>2. CASE task[c].fresh
    <3>1. Carries(task[c])
      BY <1>1, <2>2, TokenFacts DEF Carries
    <3>2. PICK f \in Family : f = FamilyOf(task[c].token)
      BY <1>1, TokenFacts
    <3>3. app' \in AppRecord /\ app'.user = f /\ app'.access = f
      BY <2>2, <3>2 DEF Identified, AppRecord
    <3>4. QED
      BY <3>1, <3>2, <3>3, AppCarried
  <2>3. QED
    BY <2>1, <2>2
<1>3. QED
  BY <1>1, <1>2, CallEnds

LEMMA NotIdentifiedKeeps ==
    ASSUME PhoneIndInv, NEW c \in Call, NotIdentified(c) PROVE PhoneIndInv'
<1> USE Parts, Before, Untouched
<1>1. /\ task[c].op = "bootstrap" /\ task[c].at = "me" /\ ~Waits(c) /\ task[c].token \in Token
      /\ ServerMoves /\ UNCHANGED <<store, mutations, writing>>
  BY DEF NotIdentified, At, Waits, KeyStoreSteps, WellFormed
<1>2. CASE /\ task' = [task EXCEPT ![c] = Free]
           /\ app' = IF task[c].fresh THEN [app EXCEPT !.status = "bootstrap_error"] ELSE app
  <2>1. app' \in AppRecord /\ app'.user = app.user /\ app'.access = app.access
    BY <1>2 DEF AppRecord
  <2>2. QED
    BY <1>1, <1>2, <2>1, AppSame, CallEnds
<1>3. CASE /\ task' = [task EXCEPT ![c].at = "revoke", ![c].then = "clear"]
           /\ UNCHANGED app
  <2>1. task' = [task EXCEPT ![c] = [@ EXCEPT !.at = "revoke", !.then = "clear"]]
    BY <1>3
  <2>2. QED
    BY <1>1, <1>3, <2>1, CallGoesOn
<1>4. QED
  BY <1>2, <1>3 DEF NotIdentified

LEMMA ServeLoginKeeps ==
    ASSUME PhoneIndInv, NEW c \in Task, NEW f \in Family, ServeLogin(c, f) PROVE PhoneIndInv'
<1> USE Parts, Before, Untouched
<1>1. /\ task[c].op = "login" /\ task[c].at = "ask" /\ ~Waits(c) /\ c \in Call
      /\ AppMoves /\ UNCHANGED <<store, mutations, writing>>
  BY DEF ServeLogin, At, Waits, KeyStoreSteps, WellFormed
<1>2. PICK k \in Token : k = <<f, 1>> /\ FamilyOf(k) = f
  BY TokenFacts
<1>3. /\ Families!Open(f, k) /\ replayed' = replayed /\ late' \subseteq Token
      /\ current[f] = Unborn
  BY <1>2, LateTokens DEF ServeLogin, OpenFamily, Families!Open
<1>4. ServerMoves /\ current'[f] = k /\ k # Unborn
  BY <1>2, <1>3, ServedOne, TokenFacts
<1> DEFINE rec == WithToken(task[c], "pair", k)
<1>5. task' = [task EXCEPT ![c] = rec]
  BY <1>2 DEF WithToken, ServeLogin
<1>6. /\ rec \in TaskRecord /\ rec.at = "pair" /\ rec.op = "login" /\ rec.token = k
      /\ rec.lead = None /\ rec.answer = task[c].answer
  <2>1. task[c] \in TaskRecord /\ task[c].lead = None /\ "pair" \in TaskPlace /\ k \in Token
    BY <1>1 DEF TaskPlace
  <2>. QED
    BY <1>1, <2>1, WithTokenRecord
<1> HIDE DEF rec
<1>7. WellFormed(c, rec) /\ Inherits(c, rec)
  BY <1>1, <1>2, <1>3, <1>4, <1>6 DEF WellFormed, Inherits
<1>8. QED
  BY <1>1, <1>4, <1>5, <1>6, <1>7, MoveAside DEF KeyStoreSteps

LEMMA LoginAnsweredKeeps ==
    ASSUME PhoneIndInv, NEW c \in Task, LoginAnswered(c) PROVE PhoneIndInv'
<1> USE Parts, Before, Untouched
<1>1. /\ task[c].op = "login" /\ task[c].at = "pair" /\ ~Waits(c) /\ c \in Call
      /\ task[c].token \in Token
      /\ ServerMoves /\ AppMoves /\ UNCHANGED <<store, writing>>
  BY DEF LoginAnswered, At, Waits, KeyStoreSteps, WellFormed
<1>2. CASE task' = [task EXCEPT ![c].at = "commit"] /\ mutations' = Append(mutations, c)
  <2> DEFINE rec == Moved(task[c], "commit")
  <2>1. task' = [task EXCEPT ![c] = rec]
    BY <1>2 DEF Moved
  <2>2. /\ rec \in TaskRecord /\ rec.at = "commit" /\ rec.op = "login"
        /\ rec.token = task[c].token /\ rec.fresh = task[c].fresh
        /\ rec.lead = None /\ rec.answer = task[c].answer
    BY <1>1, MovedRecord DEF TaskPlace
  <2> HIDE DEF rec
  <2>3. WellFormed(c, rec) /\ Inherits(c, rec)
    BY <1>1, <2>2, TokenFacts DEF WellFormed, Inherits, Carries
  <2>4. QED
    BY <1>1, <1>2, <2>1, <2>2, <2>3, MoveIn DEF KeyStoreSteps
<1>3. CASE task' = [task EXCEPT ![c].at = "revoke"] /\ UNCHANGED mutations
  <2>1. PICK then \in {"none", "clear"} : then = task[c].then
    BY DEF TaskRecord
  <2>2. task' = [task EXCEPT ![c] = [@ EXCEPT !.at = "revoke", !.then = then]]
    <3>1. task[c] \in TaskRecord
      OBVIOUS
    <3>2. [task[c] EXCEPT !.at = "revoke"] = [task[c] EXCEPT !.at = "revoke", !.then = then]
      BY <2>1, <3>1 DEF TaskRecord
    <3>3. QED
      BY <1>3, <3>2
  <2>3. QED
    BY <1>1, <1>3, <2>2, CallGoesOn
<1>4. QED
  BY <1>2, <1>3 DEF LoginAnswered, Enqueued

LEMMA LoginUnansweredKeeps ==
    ASSUME PhoneIndInv, NEW c \in Task, LoginUnanswered(c) PROVE PhoneIndInv'
<1> USE Parts, Before, Untouched
<1>1. /\ ~Waits(c) /\ c \in Call /\ task' = [task EXCEPT ![c] = Free]
      /\ ServerMoves /\ AppMoves /\ UNCHANGED <<store, mutations, writing>>
  BY DEF LoginUnanswered, Waits, KeyStoreSteps, WellFormed
<1>2. QED
  BY <1>1, CallEnds

\* A caller whose rotation went through under a later session revokes what it got.
LEMMA RevokesNext ==
    ASSUME PhoneIndInv, NEW c \in Call, NEW at \in {"all", "revoke"}, task[c].at = "resume",
           task[c].op \in {"refresh", "again"}, task[c].answer = "rotated",
           task' = [task EXCEPT ![c].at = at],
           ServerMoves, AppMoves, UNCHANGED <<store, mutations, writing>>
    PROVE  PhoneIndInv'
<1> USE Before
<1>1. task[c] \in TaskRecord /\ task[c].token \in Token /\ ~Waits(c)
  BY DEF WellFormed, Waits, KeyStoreSteps
<1>2. PICK then \in {"none", "clear"} : then = task[c].then
  BY DEF TaskRecord
<1>3. [task[c] EXCEPT !.at = at] = [task[c] EXCEPT !.at = at, !.then = then]
  BY <1>1, <1>2 DEF TaskRecord
<1>4. task' = [task EXCEPT ![c] = [@ EXCEPT !.at = at, !.then = then]]
  BY <1>3
<1>5. QED
  BY <1>1, <1>4, CallGoesOn

LEMMA RefreshResumesKeeps ==
    ASSUME PhoneIndInv, NEW c \in Call, RefreshResumes(c) PROVE PhoneIndInv'
<1> USE Parts, Before, Untouched
<1>1. /\ task[c].op = "refresh" /\ task[c].at = "resume" /\ ~Waits(c)
      /\ ServerMoves /\ UNCHANGED <<store, mutations, writing>>
  BY DEF RefreshResumes, At, Waits, KeyStoreSteps
<1>2. AppMoves
  BY <1>1, AfterRotationMoves DEF RefreshResumes
<1>3. CASE task[c].answer = "rotated" /\ task' = [task EXCEPT ![c].at = "revoke"]
  BY <1>1, <1>2, <1>3, RevokesNext
<1>4. CASE task' = [task EXCEPT ![c] = Free]
  BY <1>1, <1>2, <1>4, CallEnds
<1>5. QED
  BY <1>3, <1>4 DEF RefreshResumes

LEMMA LogoutAllResumesKeeps ==
    ASSUME PhoneIndInv, NEW c \in Call, LogoutAllResumes(c) PROVE PhoneIndInv'
<1> USE Parts, Before, Untouched
<1>1. /\ task[c].op = "again" /\ task[c].at = "resume" /\ ~Waits(c)
      /\ ServerMoves /\ UNCHANGED <<store, writing>>
  BY DEF LogoutAllResumes, At, Waits, KeyStoreSteps
<1>2. CASE task[c].answer = "rotated"
  <2>1. app' = AfterRotation(c) /\ UNCHANGED mutations
    BY <1>2 DEF LogoutAllResumes
  <2>2. AppMoves
    BY <1>1, <2>1, AfterRotationMoves
  <2>3. PICK at \in {"all", "revoke"} : task' = [task EXCEPT ![c].at = at]
    BY <1>2 DEF LogoutAllResumes
  <2>4. QED
    BY <1>1, <1>2, <2>1, <2>2, <2>3, RevokesNext
<1>3. CASE task[c].answer # "rotated"
  <2>1. FallsBack(c)
    BY <1>3 DEF LogoutAllResumes
  <2>2. QED
    BY <1>1, <2>1, FallsBackKeeps
<1>4. QED
  BY <1>2, <1>3

LEMMA EmptyStoreKeeps ==
    ASSUME PhoneIndInv, NEW c \in Task, EmptyStore(c) PROVE PhoneIndInv'
<1> USE Parts, Before, Untouched
<1>1. /\ Using(c, "empty") /\ "empty" \in KeyStoreSteps /\ task[c].at = "empty" /\ ~Idle(c)
      /\ writing = FALSE /\ writing' = FALSE /\ mutations' = Tail(mutations)
      /\ store' \in {None, store} /\ StoreMoves /\ ServerMoves /\ AppMoves
  BY UsingFacts DEF EmptyStore, KeyStoreSteps
<1>2. c \in Call /\ task[c].op # "login"
  BY <1>1 DEF WellFormed
<1>3. CASE task' = [task EXCEPT ![c] = Free]
  BY <1>1, <1>2, <1>3, MoveOut DEF KeyStoreSteps
<1>4. CASE store # None /\ task' = [task EXCEPT ![c].at = "revoke", ![c].token = store]
  <2> DEFINE rec == WithToken(task[c], "revoke", store)
  <2>1. task' = [task EXCEPT ![c] = rec]
    BY <1>4 DEF WithToken
  <2>2. /\ rec \in TaskRecord /\ rec.at = "revoke" /\ rec.op = task[c].op
        /\ rec.token = store /\ rec.lead = None /\ rec.answer = task[c].answer
    <3>1. task[c] \in TaskRecord /\ task[c].lead = None /\ store \in Token
          /\ "revoke" \in TaskPlace
      BY <1>1, <1>4 DEF TaskPlace
    <3>. QED
      BY <3>1, WithTokenRecord
  <2> HIDE DEF rec
  <2>3. WellFormed(c, rec) /\ Inherits(c, rec)
    BY <1>2, <1>4, <2>2 DEF WellFormed, Inherits
  <2>4. QED
    BY <1>1, <1>2, <2>1, <2>2, <2>3, MoveOut DEF KeyStoreSteps
<1>5. QED
  BY <1>3, <1>4 DEF EmptyStore

LEMMA AllKeeps ==
    ASSUME PhoneIndInv, NEW c \in Task, AllRevoked(c) \/ AllRefused(c) \/ AllUnanswered(c)
    PROVE  PhoneIndInv'
<1> USE Parts, Before, Untouched
<1>1. task[c].at = "all" /\ ~Waits(c) /\ UNCHANGED <<store, writing>>
  BY DEF AllRevoked, AllRefused, AllUnanswered, Waits, KeyStoreSteps
<1>2. c \in Call
  BY <1>1 DEF WellFormed
<1>3. ServerMoves
  <2>1. CASE UNCHANGED endpoints
    BY <2>1
  <2>2. CASE EndFamilies({f \in Family : Alive(f)})
    <3>1. {f \in Family : Alive(f)} \in SUBSET Family /\ replayed \subseteq Family
      BY DEF EndpointsTypeOK
    <3>2. QED
      BY <2>2, <3>1, LateTokens, ServedEnds DEF EndFamilies
  <2>3. QED
    BY <2>1, <2>2 DEF AllRevoked, AllRefused, AllUnanswered
<1>4. CASE EndsLocally(c, "clear")
  BY <1>1, <1>2, <1>3, <1>4, ForgetStep
<1>5. CASE FallsBack(c)
  BY <1>1, <1>2, <1>3, <1>5, FallsBackKeeps
<1>6. CASE task' = [task EXCEPT ![c] = Free] /\ UNCHANGED <<app, mutations>>
  BY <1>1, <1>2, <1>3, <1>6, CallEnds
<1>7. CASE JoinRotation(c, [Free EXCEPT !.op = "again"]) /\ UNCHANGED <<endpoints, app>>
  BY <1>1, <1>2, <1>7, JoinStep
<1>8. QED
  BY <1>4, <1>5, <1>6, <1>7 DEF AllRevoked, AllRefused, AllUnanswered

LEMMA CrashKeeps ==
    ASSUME PhoneIndInv, Crash PROVE PhoneIndInv'
<1> USE Parts, Before
<1>1. /\ app' = Launched /\ task' = [t \in Task |-> Free] /\ mutations' = <<>>
      /\ writing' = FALSE
  BY DEF Crash
<1>2. ServerMoves
  <2>1. Asked(Rotation) \in SUBSET Token
    BY LateTokens
  <2>2. QED
    BY <2>1, LateTokens DEF Crash
<1>3. store' \in Token \cup {None} /\ (store' # None => current'[FamilyOf(store')] # Unborn)
  <2>1. writing => task[Head(mutations)].token \in Token
    BY DEF Shapes, WellFormed
  <2>2. store' \in Token \cup {None} /\ (store' # None => current[FamilyOf(store')] # Unborn)
    BY <2>1, TokenFacts DEF Crash, Lineage
  <2>3. store' # None => FamilyOf(store') \in Family
    BY <2>2, TokenFacts
  <2>4. QED
    BY <1>2, <2>2, <2>3 DEF ServerMoves
<1>4. \A t \in Task : task'[t] = Free /\ Free \in TaskRecord /\ Free.at = "none"
                      /\ Free.token = None /\ Free.lead = None
  BY <1>1 DEF Free, TaskRecord
<1>5. app' \in AppRecord /\ app'.user = None /\ app'.access = None
  BY <1>1 DEF Launched, AppRecord
<1>6. Queue'
  BY <1>1, <1>4 DEF Queue, Waits, KeyStoreSteps
<1>7. OneRotation' /\ Overtaken'
  BY <1>1, <1>4 DEF OneRotation, Overtaken, Idle
<1>8. Shapes'
  <2>1. ASSUME NEW t \in Task PROVE WellFormed(t, Free)
    BY DEF WellFormed, Free
  <2>2. QED
    BY <1>4, <2>1 DEF Shapes
<1>9. SameIdentity'
  <2>1. PICK f : f = IF store' = None THEN None ELSE FamilyOf(store')
    OBVIOUS
  <2>2. f \in Family \cup {None} /\ Identity(f)'
    BY <1>1, <1>3, <1>4, <1>5, <2>1, TokenFacts DEF Identity, Carries
  <2>3. QED
    BY <2>2 DEF SameIdentity
<1>10. Lineage'
  BY <1>2, <1>3, <1>4 DEF Lineage, ServerMoves, Alive
<1>11. task' \in [Task -> TaskRecord]
  BY <1>1, <1>4
<1>12. QED
  BY <1>1, <1>2, <1>3, <1>5, <1>6, <1>7, <1>8, <1>9, <1>10, <1>11, Whole DEF ServerMoves

\* The server acts on its own.
LEMMA ServerKeeps ==
    ASSUME PhoneIndInv, ServerMoves, UNCHANGED phone
    PROVE  PhoneIndInv'
<1> USE Parts
<1>1. UNCHANGED <<app, store, task, mutations, writing>>
  BY DEF phone
<1>2. Lineage'
  <2>1. store # None => FamilyOf(store) \in Family
    BY TokenFacts
  <2>2. \A t \in Task : task[t].token # None => FamilyOf(task[t].token) \in Family
    BY TokenFacts DEF TaskRecord
  <2>3. QED
    BY <1>1, <2>1, <2>2 DEF Lineage, ServerMoves, Alive
<1>3. Queue'
  BY <1>1, QueueSame DEF Waits
<1>4. OneRotation' /\ Shapes' /\ Overtaken'
  BY <1>1 DEF OneRotation, Idle, Shapes, Overtaken
<1>5. SameIdentity'
  BY <1>1 DEF SameIdentity, Identity
<1>6. QED
  BY <1>1, <1>2, <1>3, <1>4, <1>5, Whole DEF ServerMoves

-----------------------------------------------------------------------------
(* The theorems. *)

LEMMA PhoneInit == Init => PhoneIndInv
<1> SUFFICES ASSUME Init PROVE PhoneIndInv
  OBVIOUS
<1>1. /\ app = Launched /\ store = None /\ mutations = <<>> /\ writing = FALSE
      /\ \A t \in Task : task[t] = Free
      /\ current = [f \in Family |-> Unborn] /\ issued = {} /\ replayed = {} /\ late = {}
  BY DEF Init, EndpointsInit, Families!Init
<1>2. Free \in TaskRecord /\ Free.at = "none" /\ Free.token = None /\ Free.lead = None
  BY DEF Free, TaskRecord
<1>3. TypeOK
  <2>1. app \in AppRecord
    BY <1>1 DEF Launched, AppRecord
  <2>2. task \in [Task -> TaskRecord]
    BY <1>2 DEF Init
  <2>3. EndpointsTypeOK
    BY <1>1 DEF EndpointsTypeOK, Families!TypeOK
  <2>4. store \in Token \cup {None} /\ writing \in BOOLEAN
    BY <1>1
  <2>5. <<>> \in Seq(Task)
    OBVIOUS
  <2>6. mutations \in Seq(Task)
    BY <1>1, <2>5
  <2>7. QED
    BY <2>1, <2>2, <2>3, <2>4, <2>6 DEF TypeOK, AppRecord, TaskRecord
<1>4. MutationsServed /\ OneRotation /\ Overtaken
  BY <1>1, <1>2 DEF MutationsServed, KeyStoreSteps, OneRotation, Overtaken, Idle
<1>5. Shapes
  <2>1. ASSUME NEW t \in Task PROVE WellFormed(t, Free)
    BY DEF WellFormed, Free
  <2>2. QED
    BY <1>1, <2>1 DEF Shapes
<1>6. SameIdentity
  <2>1. app.user = None /\ app.access = None
    BY <1>1 DEF Launched
  <2>2. Identity(None)
    BY <1>1, <1>2, <2>1 DEF Identity, Carries
  <2>3. QED
    BY <2>2 DEF SameIdentity
<1>7. Lineage
  BY <1>1, <1>2, TokenFacts DEF Lineage, Alive
<1>8. QED
  BY <1>3, <1>4, <1>5, <1>6, <1>7 DEF PhoneIndInv

LEMMA PhoneStep == PhoneIndInv /\ [Next]_vars => PhoneIndInv'
<1> SUFFICES ASSUME PhoneIndInv, [Next]_vars PROVE PhoneIndInv'
  OBVIOUS
<1> USE Parts, Untouched
<1>1. CASE \E c \in Call : Bootstrap(c) \/ Login(c) \/ Refresh(c) \/ Logout(c) \/ LogoutAll(c)
  BY <1>1, CallKeeps
<1>2. CASE \E t \in Task : KeyStore(t)
  BY <1>2, ClearKeeps, ReadStoredKeeps, EmptyStoreKeeps, BeginWriteKeeps, WriteFailsKeeps,
     LoginWrittenKeeps, RotationWrittenKeeps DEF KeyStore
<1>3. ASSUME NEW t \in Task, Resumes(t) PROVE PhoneIndInv'
  <2>1. t \in Call
    BY <1>3, Before DEF Resumes, BootstrapResumes, RefreshResumes, LogoutAllResumes, At, WellFormed
  <2>2. QED
    BY <1>3, <2>1, BootstrapResumesKeeps, RefreshResumesKeeps, LogoutAllResumesKeeps DEF Resumes
<1>4. ASSUME NEW t \in Task, Answers(t) PROVE PhoneIndInv'
  <2>1. CASE ServeRotation(t) \/ RotationAnswered(t) \/ RotationUnanswered(t)
    BY <2>1, ServeRotationKeeps, RotationAnsweredKeeps, RotationUnansweredKeeps
  <2>2. CASE LoginAnswered(t) \/ LoginUnanswered(t) \/ \E f \in Family : ServeLogin(t, f)
    BY <2>2, LoginAnsweredKeeps, LoginUnansweredKeeps, ServeLoginKeeps
  <2>3. CASE Identified(t) \/ NotIdentified(t)
    <3>1. t \in Call
      BY <2>3, Before DEF Identified, NotIdentified, At, WellFormed
    <3>2. QED
      BY <2>3, <3>1, IdentifiedKeeps, NotIdentifiedKeeps
  <2>4. CASE AllRevoked(t) \/ AllRefused(t) \/ AllUnanswered(t) \/ Revoke(t)
    BY <2>4, AllKeeps, RevokeKeeps
  <2>5. QED
    BY <1>4, <2>1, <2>2, <2>3, <2>4 DEF Answers
<1>5. CASE Crash
  BY <1>5, CrashKeeps
<1>6. ASSUME NEW f \in Family, EndedElsewhere(f) PROVE PhoneIndInv'
  <2>1. {f} \in SUBSET Family /\ replayed \subseteq Family
    BY DEF EndpointsTypeOK
  <2>2. ServerMoves
    BY <1>6, <2>1, LateTokens, ServedEnds DEF EndedElsewhere, EndFamilies
  <2>3. QED
    BY <1>6, <2>2, ServerKeeps DEF EndedElsewhere
<1>7. ASSUME NEW k \in late, ArrivesLate(k) PROVE PhoneIndInv'
  <2>1. k \in Token /\ late' \subseteq Token
    BY <1>7, LateTokens DEF ArrivesLate, LateArrival
  <2>2. ServerMoves
    BY <1>7, <2>1, ServedRefresh DEF ArrivesLate, LateArrival
  <2>3. QED
    BY <1>7, <2>2, ServerKeeps DEF ArrivesLate
<1>8. CASE UNCHANGED vars
  BY <1>8, ServerKeeps DEF vars
<1>9. QED
  BY <1>1, <1>2, <1>3, <1>4, <1>5, <1>6, <1>7, <1>8 DEF Next, Continue

LEMMA OneLogin == PhoneIndInv => PhoneInv
<1> SUFFICES ASSUME PhoneIndInv PROVE PhoneInv
  OBVIOUS
<1>1. PICK f \in Family \cup {None} : Identity(f)
  BY DEF PhoneIndInv, SameIdentity
<1> DEFINE logins == {FamilyOf(t) : t \in {store} \ {None}} \cup ({app.user, app.access} \ {None})
<1>2. logins \in SUBSET {f}
  BY <1>1 DEF Identity
<1>3. Cardinality(logins) <= Cardinality({f}) /\ Cardinality({f}) = 1
  BY <1>2, FS_Singleton, FS_Subset
<1>4. OneIdentity
  BY <1>3 DEF OneIdentity
<1>5. QED
  BY <1>4 DEF PhoneIndInv, PhoneInv

LEMMA PhoneAlways == Spec => []PhoneIndInv
  BY PhoneInit, PhoneStep, PTL DEF Spec

\* However many calls, rotations and logins there are: nothing waits for itself
\* in the key store's queue, at most one rotation is in progress and everybody
\* who waits, waits for it, and the key store, the access token and the
\* published user never belong to two logins.
THEOREM PhoneInvariant == Spec => []PhoneInv
  BY PhoneAlways, OneLogin, PTL

\* A rotation that writes its token after it was overtaken by a logout does so
\* ahead of the operation that removes the token again.
THEOREM NeverResurrected == Spec => NoResurrection
<1>1. ASSUME PhoneIndInv, [Next]_vars, NEW r \in Rotation, RotationWritten(r), ~task[r].fresh
      PROVE  \E i \in DOMAIN mutations' :
                task[mutations'[i]].fresh /\ task[mutations'[i]].at \in {"empty", "clear"}
  <2>1. /\ mutations # <<>> /\ mutations \in Seq(Task) /\ Head(mutations) = r /\ writing
        /\ mutations' = Tail(mutations)
    BY <1>1, Parts DEF RotationWritten, Using, Queue
  <2>2. PICK i \in DOMAIN mutations :
          i # 1 /\ task[mutations[i]].fresh /\ task[mutations[i]].at \in {"empty", "clear"}
    BY <1>1, <2>1, Parts DEF Overtaken
  <2>3. i - 1 \in DOMAIN mutations' /\ mutations'[i - 1] = mutations[i]
    BY <2>1, <2>2
  <2>4. QED
    BY <2>2, <2>3
<1>2. PhoneIndInv /\ [Next]_vars =>
        [\A r \in Rotation :
            RotationWritten(r) /\ ~task[r].fresh =>
                \E i \in DOMAIN mutations' :
                   task[mutations'[i]].fresh /\ task[mutations'[i]].at \in {"empty", "clear"}]_vars
  BY <1>1
<1>3. QED
  BY <1>2, PhoneAlways, PTL DEF Spec, NoResurrection

\* When the server takes a token somebody waits on for a replay, the token that
\* it revokes is not stored and is not on its way into the store.
THEOREM ReplayCostsNothing == Spec => ReplayNeedsALoss
<1>1. ASSUME PhoneIndInv, NEW r \in Rotation, NEW f \in Family,
             ServeRotation(r), f \in replayed' \ replayed
      PROVE  /\ store # current[f]
             /\ \A q \in Rotation :
                   task[q].at \in {"pair", "commit"} => task[q].token # current[f]
  <2>1. /\ task[r].at = "ask" /\ task[r].token \in Token /\ Replay(task[r].token)
        /\ f = FamilyOf(task[r].token)
    BY <1>1, Parts DEF ServeRotation, At, Exchange, Refuse, Replay, Shapes, WellFormed
  <2> Lineage /\ OneRotation
    BY <1>1, Parts
  <2>2. current[f] \in Token /\ current[f] # task[r].token /\ FamilyOf(current[f]) = f
    BY <2>1 DEF Replay, Alive, Lineage
  <2>3. store # current[f]
    BY <2>1, <2>2, TokenFacts DEF Lineage
  <2>4. \A q \in Rotation : task[q].at \notin {"pair", "commit"}
    BY <2>1 DEF OneRotation, Idle, Free
  <2>5. QED
    BY <2>3, <2>4
<1>2. PhoneIndInv /\ [Next]_vars =>
        [\A r \in Rotation, f \in Family :
            ServeRotation(r) /\ f \in replayed' \ replayed =>
                /\ store # current[f]
                /\ \A q \in Rotation :
                      task[q].at \in {"pair", "commit"} => task[q].token # current[f]]_vars
  BY <1>1
<1>3. QED
  BY <1>2, PhoneAlways, PTL DEF Spec, ReplayNeedsALoss

-----------------------------------------------------------------------------
(* The driver's screen of a trip. *)

Later == {"IN_PROGRESS", "COMPLETED", "VERIFIED", "CLOSED"}

\* What the trip is now, or was: every trip was assigned once.
Was(status) ==
    \/ status = "ASSIGNED"
    \/ status = "CANCELLED" /\ trip.status = "CANCELLED"
    \/ status \in Later /\ Reached(status)

ReadRecord == [live : BOOLEAN, got : Status \cup {"nothing", "missing"}]
CallRecord ==
    [what : {"start", "complete"}, got : Status \cup {"nothing"}, mounted : BOOLEAN,
     at : {"admission", "sent", "unanswered", "given", "thrown", "blocked"}]

TripShapes ==
    /\ trip \in [status : Status, mine : BOOLEAN]
    /\ screen \in [at : {"list", "loading", "ready", "missing", "error"},
                   shown : Status \cup {"none"}, asked : {"none", "start", "complete"},
                   busy : BOOLEAN, expense : BOOLEAN,
                   says : {"nothing", "failed", "not paused", "started", "not in progress",
                           "completed", "still in progress", "too late"}]
    /\ reads \subseteq ReadRecord
    /\ calls \subseteq CallRecord

\* Whatever is shown, or on its way to the screen, was so.
OnlyWhatWas ==
    /\ screen.shown # "none" => Was(screen.shown)
    /\ screen.at = "ready" => screen.shown # "none"
    /\ \A r \in reads : r.got \in Status => Was(r.got)
    /\ \A c \in calls : c.at = "given" => c.got \in Status /\ Was(c.got)

\* The read that counts is the only one, and nothing is on screen before it.
ReadFirst ==
    /\ \A r \in reads : r.live => screen.at = "loading"
    /\ \A r, s \in reads : r.live /\ s.live => r = s

\* The question, and the call that answers it, are about what is shown.
AboutTheShown ==
    /\ screen.at # "ready" => screen.asked = "none" /\ ~screen.busy
    /\ screen.asked # "none" => screen.shown = Needs(screen.asked)
    /\ \A c \in calls : c.mounted => screen.busy /\ screen.shown = Needs(c.what)
    /\ \A c, d \in calls : c.mounted /\ d.mounted => c = d

\* A completion is asked of a trip that runs, and what is given for it is later.
MovesOn ==
    \A c \in calls :
        /\ c.what = "complete" => Reached("IN_PROGRESS")
        /\ c.at = "given" => Rank(c.got) >= Rank(Needs(c.what))

DriverTripIndInv ==
    TripShapes /\ OnlyWhatWas /\ ReadFirst /\ AboutTheShown /\ MovesOn /\ SaysWhatHappened

\* Every status has its place; a cancelled trip is behind all others.
LEMMA Ranks ==
    /\ Rank("ASSIGNED") = 1 /\ Rank("IN_PROGRESS") = 2 /\ Rank("COMPLETED") = 3
    /\ Rank("VERIFIED") = 4 /\ Rank("CLOSED") = 5 /\ Rank("CANCELLED") = 5
    /\ Status = {"ASSIGNED", "CANCELLED"} \cup Later
<1>1. DOMAIN Stage = 1 .. 5 /\ Len(Stage) = 5
  BY DEF Stage
<1>2. /\ Stage[1] = "ASSIGNED" /\ Stage[2] = "IN_PROGRESS" /\ Stage[3] = "COMPLETED"
      /\ Stage[4] = "VERIFIED" /\ Stage[5] = "CLOSED"
  BY DEF Stage
<1>3. 1 .. 5 = {1, 2, 3, 4, 5}
  OBVIOUS
<1>. HIDE DEF Stage
<1>4. ASSUME NEW i \in 1 .. 5
      PROVE  (CHOOSE j \in DOMAIN Stage : Stage[j] = Stage[i]) = i
  <2>1. \A j \in 1 .. 5 : Stage[j] = Stage[i] => j = i
    BY <1>2, <1>3
  <2>. QED
    BY <1>1, <2>1
<1>5. \A i \in 1 .. 5 : Rank(Stage[i]) = i
  <2>1. \A i \in 1 .. 5 : Stage[i] # "CANCELLED"
    BY <1>2, <1>3
  <2>. QED
    BY <1>4, <2>1 DEF Rank
<1>6. Status = {"ASSIGNED", "CANCELLED"} \cup Later
  BY <1>1, <1>2, <1>3 DEF Status, Later
<1>7. Rank("CANCELLED") = 5
  BY DEF Rank
<1>. QED
  BY <1>2, <1>3, <1>5, <1>6, <1>7

LEMMA RankIsNumber ==
  ASSUME NEW s \in Status
  PROVE  Rank(s) \in Nat /\ Rank(s) >= Rank(s)
BY Ranks DEF Later

\* The trip goes on by one stage, is cancelled before it began, or stays.
Onward ==
    \/ trip'.status = trip.status
    \/ trip.status = "ASSIGNED" /\ trip'.status \in {"IN_PROGRESS", "CANCELLED"}
    \/ trip.status = "IN_PROGRESS" /\ trip'.status = "COMPLETED"
    \/ trip.status = "COMPLETED" /\ trip'.status = "VERIFIED"
    \/ trip.status = "VERIFIED" /\ trip'.status = "CLOSED"

\* What was so was so.
LEMMA WasStays ==
  ASSUME TripShapes, Onward
  PROVE  /\ \A s \in Status : Was(s) => Was(s)'
         /\ Reached("IN_PROGRESS") => Reached("IN_PROGRESS")'
         /\ Reached("COMPLETED") => Reached("COMPLETED")'
<1>1. trip.status \in {"ASSIGNED", "CANCELLED", "IN_PROGRESS", "COMPLETED", "VERIFIED", "CLOSED"}
  BY Ranks DEF TripShapes, ReadRecord, CallRecord, Later
<1>2. \A s \in Status : Rank(s) \in Nat
  BY Ranks DEF Later
<1>3. \/ trip'.status = trip.status
      \/ trip'.status = "CANCELLED" /\ trip.status = "ASSIGNED"
      \/ trip'.status # "CANCELLED" /\ Rank(trip'.status) = Rank(trip.status) + 1
  BY Ranks DEF Onward
<1>4. ASSUME NEW s \in {"IN_PROGRESS", "COMPLETED", "VERIFIED", "CLOSED"}, Reached(s)
      PROVE  Reached(s)'
  <2>1. Rank(trip.status) \in Nat /\ Rank(s) \in Nat /\ Rank(s) >= 2
    BY <1>1, Ranks
  <2>. QED
    BY <1>3, <1>4, <2>1, Ranks DEF Reached
<1>. QED
  BY <1>1, <1>4, Ranks DEF Was, Onward, Later

LEMMA OnwardSteps ==
  ASSUME TripShapes, [DriverTripNext]_tripVars
  PROVE  Onward
<1>1. trip.status \in {"ASSIGNED", "CANCELLED", "IN_PROGRESS", "COMPLETED", "VERIFIED", "CLOSED"}
  BY Ranks DEF TripShapes, ReadRecord, CallRecord, Later
<1>2. CASE Elsewhere
  <2>1. CASE \E i \in 1 .. Len(Stage) - 1 :
                 trip.status = Stage[i] /\ trip' = [trip EXCEPT !.status = Stage[i + 1]]
    <3>1. PICK i \in 1 .. 4 :
              trip.status = Stage[i] /\ trip' = [trip EXCEPT !.status = Stage[i + 1]]
      BY <2>1 DEF Stage
    <3>2. i = 1 \/ i = 2 \/ i = 3 \/ i = 4
      OBVIOUS
    <3>3. trip'.status = Stage[i + 1]
      BY <3>1 DEF TripShapes, ReadRecord, CallRecord
    <3>4. /\ Stage[1] = "ASSIGNED" /\ Stage[2] = "IN_PROGRESS" /\ Stage[3] = "COMPLETED"
          /\ Stage[4] = "VERIFIED" /\ Stage[5] = "CLOSED"
      BY DEF Stage
    <3>. HIDE DEF Stage
    <3>. QED
      BY <3>1, <3>2, <3>3, <3>4 DEF Onward
  <2>. QED
    BY <1>2, <2>1 DEF Elsewhere, Onward, TripShapes, ReadRecord, CallRecord
<1>3. ASSUME NEW c \in calls, Applied(c)
      PROVE  Onward
  BY <1>3 DEF Applied, Needs, Makes, Onward, TripShapes, ReadRecord, CallRecord
<1>4. CASE UNCHANGED trip
  BY <1>4 DEF Onward
<1>. QED
  BY <1>2, <1>3, <1>4
     DEF DriverTripNext, tripVars, Open, Back, AuthenticationEnds, Gone, Retry, TurnsToExpense,
         Ask, Keep, Apply, IsRead, Arrives, ReadFails, NotApplied, Checks, CheckFails, Admits,
         Settles

LEMMA ReadingWas ==
  ASSUME TripShapes
  PROVE  Reading \in Status \cup {"missing"} /\ (Reading # "missing" => Was(Reading))
<1>1. trip.status \in Status /\ trip.mine \in BOOLEAN
  BY DEF TripShapes, ReadRecord, CallRecord
<1>. QED
  BY <1>1, Ranks DEF Reading, Was, Reached, Later

LEMMA DriverTripStart == DriverTripInit => DriverTripIndInv
BY Ranks
DEF DriverTripInit, DriverTripIndInv, TripShapes, OnlyWhatWas, ReadFirst, AboutTheShown, MovesOn,
    SaysWhatHappened, Away, Later

\* What a step does not touch stays as it was: the trip only moves on.
LEMMA TripStays ==
  ASSUME DriverTripIndInv, [DriverTripNext]_tripVars
  PROVE  /\ \A s \in Status : Was(s) => Was(s)'
         /\ Reached("IN_PROGRESS") => Reached("IN_PROGRESS")'
         /\ Reached("COMPLETED") => Reached("COMPLETED")'
         /\ trip' \in [status : Status, mine : BOOLEAN]
<1>1. TripShapes /\ Onward
  BY OnwardSteps DEF DriverTripIndInv
<1>2. trip'.status \in Status
  BY <1>1, Ranks DEF Onward, TripShapes, ReadRecord, CallRecord, Later
<1>3. \/ trip' = trip
      \/ \E s : trip' = [trip EXCEPT !.status = s]
      \/ \E b \in BOOLEAN : trip' = [trip EXCEPT !.mine = b]
  <2>1. CASE Elsewhere
    BY <1>1, <2>1 DEF Elsewhere, TripShapes, ReadRecord, CallRecord
  <2>2. ASSUME NEW c \in calls, Applied(c)
        PROVE  \E s : trip' = [trip EXCEPT !.status = s]
    BY <2>2 DEF Applied
  <2>. QED
    BY <2>1, <2>2
       DEF DriverTripNext, tripVars, Open, Back, AuthenticationEnds, Gone, Retry, TurnsToExpense,
           Ask, Keep, Apply, IsRead, Arrives, ReadFails, NotApplied, Checks, CheckFails, Admits,
           Settles
<1>4. trip' \in [status : Status, mine : BOOLEAN]
  BY <1>1, <1>2, <1>3 DEF TripShapes, ReadRecord, CallRecord
<1>. QED
  BY <1>1, <1>4, WasStays

\* A call that goes on: only what it carries changes.
LEMMA CallStep ==
  ASSUME DriverTripIndInv, [DriverTripNext]_tripVars, UNCHANGED <<screen, reads>>,
         NEW c \in calls, NEW d, Becomes(c, d),
         d \in [what : {c.what}, got : Status \cup {"nothing"}, mounted : {c.mounted},
                at : {"sent", "unanswered", "given", "thrown", "blocked"}],
         d.at = "given" =>
             d.got \in Status /\ Was(d.got)' /\ Rank(d.got) >= Rank(Needs(c.what))
  PROVE  DriverTripIndInv'
<1>1. \A e \in calls' : e \in calls \/ e = d
  BY DEF Becomes
<1>2. TripShapes'
  <2>1. TripShapes
    BY DEF DriverTripIndInv
  <2>2. c \in CallRecord
    BY <2>1 DEF TripShapes
  <2>3. d \in CallRecord
    BY <2>2 DEF CallRecord
  <2>. QED
    BY <1>1, <2>1, <2>3, TripStays DEF TripShapes
<1>3. OnlyWhatWas'
  BY <1>1, TripStays DEF DriverTripIndInv, OnlyWhatWas, TripShapes, ReadRecord, CallRecord
<1>4. ReadFirst'
  BY DEF DriverTripIndInv, ReadFirst
<1>5. AboutTheShown'
  <2>1. /\ calls' = (calls \ {c}) \cup {d}
        /\ d.what = c.what /\ d.mounted = c.mounted
    BY DEF Becomes
  <2>2. \A e, f \in calls' : e.mounted /\ f.mounted => e = f
    BY <2>1 DEF DriverTripIndInv, AboutTheShown
  <2>3. \A e \in calls' : e.mounted => screen.busy /\ screen.shown = Needs(e.what)
    BY <2>1 DEF DriverTripIndInv, AboutTheShown
  <2>. QED
    BY <2>2, <2>3 DEF DriverTripIndInv, AboutTheShown
<1>6. MovesOn'
  BY <1>1, TripStays DEF DriverTripIndInv, MovesOn
<1>7. SaysWhatHappened'
  BY TripStays DEF DriverTripIndInv, SaysWhatHappened
<1>. QED
  BY <1>2, <1>3, <1>4, <1>5, <1>6, <1>7 DEF DriverTripIndInv

\* Of a completion nothing is read that lies before it.
LEMMA LandedIsLater ==
  ASSUME DriverTripIndInv, NEW c \in calls, Reading # "missing", Landed(c, Reading)
  PROVE  Rank(Reading) >= Rank(Needs(c.what))
<1>1. trip.status \in {"ASSIGNED", "CANCELLED", "IN_PROGRESS", "COMPLETED", "VERIFIED", "CLOSED"}
  BY Ranks DEF DriverTripIndInv, TripShapes, ReadRecord, CallRecord, Later
<1>2. Reading = trip.status /\ c.what \in {"start", "complete"}
  BY DEF Reading, DriverTripIndInv, TripShapes, ReadRecord, CallRecord
<1>3. CASE c.what = "start"
  BY <1>2, <1>3, Ranks DEF Landed, Needs
<1>4. CASE c.what = "complete"
  <2>1. Rank(trip.status) >= 2
    BY <1>4, Ranks DEF DriverTripIndInv, MovesOn, Reached
  <2>. QED
    BY <1>2, <1>4, <2>1, Ranks DEF Needs
<1>. QED
  BY <1>2, <1>3, <1>4

LEMMA CallsStep ==
  ASSUME DriverTripIndInv, [DriverTripNext]_tripVars, NEW c \in calls,
         Applied(c) \/ NotApplied(c) \/ Checks(c) \/ CheckFails(c) \/ Admits(c)
  PROVE  DriverTripIndInv'
<1>1. c \in [what : {"start", "complete"}, got : Status \cup {"nothing"}, mounted : BOOLEAN,
             at : {"admission", "sent", "unanswered", "given", "thrown", "blocked"}]
  BY DEF DriverTripIndInv, TripShapes, ReadRecord, CallRecord
<1>2. ASSUME NEW at \in {"sent", "unanswered", "thrown", "blocked"},
             Becomes(c, [c EXCEPT !.at = at]), UNCHANGED <<screen, reads>>
      PROVE  DriverTripIndInv'
  <2>. DEFINE d == [c EXCEPT !.at = at]
  <2>1. d \in [what : {c.what}, got : Status \cup {"nothing"}, mounted : {c.mounted},
               at : {"sent", "unanswered", "given", "thrown", "blocked"}] /\ d.at # "given"
    BY <1>1
  <2>2. Becomes(c, d)
    BY <1>2
  <2>. HIDE DEF d
  <2>. QED
    BY <1>2, <2>1, <2>2, CallStep
<1>3. ASSUME NEW s \in Status, Gives(c, s), UNCHANGED <<screen, reads>>, Was(s)',
             Rank(s) >= Rank(Needs(c.what))
      PROVE  DriverTripIndInv'
  <2>. DEFINE d == [c EXCEPT !.at = "given", !.got = s]
  <2>1. d \in [what : {c.what}, got : Status \cup {"nothing"}, mounted : {c.mounted},
               at : {"sent", "unanswered", "given", "thrown", "blocked"}] /\ d.got = s
    BY <1>1
  <2>2. Becomes(c, d)
    BY <1>3 DEF Gives
  <2>. HIDE DEF d
  <2>. QED
    BY <1>3, <2>1, <2>2, CallStep
<1>4. CASE Applied(c)
  <2>1. /\ Makes(c.what) \in {"IN_PROGRESS", "COMPLETED"}
        /\ trip'.status = Makes(c.what)
    BY <1>1, <1>4 DEF Applied, Makes, DriverTripIndInv, TripShapes, ReadRecord, CallRecord
  <2>2. Was(Makes(c.what))' /\ Makes(c.what) \in Status
    BY <2>1, Ranks DEF Was, Reached, Later
  <2>3. Rank(Makes(c.what)) >= Rank(Needs(c.what))
    BY <1>1, Ranks DEF Makes, Needs
  <2>. QED
    BY <1>2, <1>3, <1>4, <2>2, <2>3 DEF Applied
<1>5. CASE NotApplied(c)
  BY <1>2, <1>5 DEF NotApplied, Throws
<1>6. CASE Checks(c)
  <2>1. CASE Reading # "missing" /\ Landed(c, Reading)
    <3>1. Gives(c, Reading) /\ UNCHANGED <<screen, reads, trip>>
      BY <1>6, <2>1 DEF Checks
    <3>2. Reading \in Status /\ Was(Reading)
      BY <2>1, ReadingWas DEF DriverTripIndInv
    <3>3. PICK s \in Status : s = Reading /\ Was(s)
      BY <3>2
    <3>4. Was(s)' /\ Gives(c, s)
      BY <3>1, <3>3 DEF Was, Reached
    <3>. QED
      BY <1>3, <2>1, <3>1, <3>3, <3>4, LandedIsLater
  <2>2. CASE ~(Reading # "missing" /\ Landed(c, Reading))
    BY <1>2, <1>6, <2>2 DEF Checks, Throws
  <2>. QED
    BY <2>1, <2>2
<1>7. CASE CheckFails(c)
  BY <1>2, <1>7 DEF CheckFails, Throws
<1>8. CASE Admits(c)
  BY <1>2, <1>8 DEF Admits
<1>. QED
  BY <1>4, <1>5, <1>6, <1>7, <1>8

\* The trip moves, or the driver is at it, while no call and no read changes.
LEMMA ScreenStep ==
  ASSUME DriverTripIndInv, [DriverTripNext]_tripVars, UNCHANGED <<reads, calls>>,
         TripShapes', UNCHANGED screen
           \/ (/\ screen.at = "ready" /\ screen'.at = "ready"
               /\ screen'.shown = screen.shown /\ screen'.busy = screen.busy
               /\ screen'.says = screen.says
               /\ screen'.asked # "none" => screen.shown = Needs(screen'.asked))
           \/ (\E e \in BOOLEAN : screen' = [screen EXCEPT !.expense = e])
  PROVE  DriverTripIndInv'
<1>1. /\ screen'.at = screen.at /\ screen'.shown = screen.shown /\ screen'.busy = screen.busy
      /\ screen'.says = screen.says
      /\ screen'.asked = screen.asked \/ screen.at = "ready"
      /\ screen'.asked # "none" => screen.shown = Needs(screen'.asked)
  BY DEF DriverTripIndInv, TripShapes, AboutTheShown
<1>2. OnlyWhatWas'
  <2>1. screen.shown = "none" \/ screen.shown \in Status
    BY DEF DriverTripIndInv, TripShapes
  <2>. QED
    BY <1>1, <2>1, TripStays DEF DriverTripIndInv, OnlyWhatWas, TripShapes, ReadRecord, CallRecord
<1>3. ReadFirst' /\ AboutTheShown'
  BY <1>1 DEF DriverTripIndInv, ReadFirst, AboutTheShown
<1>4. MovesOn' /\ SaysWhatHappened'
  BY <1>1, TripStays DEF DriverTripIndInv, MovesOn, SaysWhatHappened
<1>. QED
  BY <1>1, <1>2, <1>3, <1>4 DEF DriverTripIndInv

\* The screen is left: what is still on its way is no longer for it.
LEMMA GoneStep ==
  ASSUME DriverTripIndInv, [DriverTripNext]_tripVars, Gone
  PROVE  DriverTripIndInv'
<1>. DEFINE Dead(r) == [r EXCEPT !.live = FALSE]
            Left(c) == [c EXCEPT !.mounted = FALSE]
<1>a. \A r \in reads : Dead(r) \in ReadRecord /\ ~Dead(r).live /\ Dead(r).got = r.got
  <2>. TAKE r \in reads
  <2>1. r \in ReadRecord
    BY DEF DriverTripIndInv, TripShapes
  <2>. QED
    BY <2>1 DEF ReadRecord
<1>b. \A c \in calls :
          /\ Left(c) \in CallRecord
          /\ ~Left(c).mounted /\ Left(c).what = c.what /\ Left(c).at = c.at
          /\ Left(c).got = c.got
  <2>. TAKE c \in calls
  <2>1. c \in CallRecord
    BY DEF DriverTripIndInv, TripShapes
  <2>. QED
    BY <2>1 DEF CallRecord
<1>c. reads' = {Dead(r) : r \in reads} /\ calls' = {Left(c) : c \in calls}
  BY DEF Gone
<1>. HIDE DEF Dead, Left
<1>1. TripShapes'
  <2>1. reads' \subseteq ReadRecord /\ calls' \subseteq CallRecord
    BY <1>a, <1>b, <1>c
  <2>2. trip' = trip /\ screen' = Away
    BY DEF Gone
  <2>. QED
    BY <2>1, <2>2 DEF DriverTripIndInv, TripShapes, ReadRecord, CallRecord, Away
<1>2. /\ \A r \in reads' : ~r.live /\ \E s \in reads : r.got = s.got
      /\ \A c \in calls' : ~c.mounted
                           /\ \E d \in calls : c.what = d.what /\ c.at = d.at /\ c.got = d.got
  BY <1>a, <1>b, <1>c
<1>3. OnlyWhatWas'
  <2>1. /\ \A r \in reads' : r.got \in Status => Was(r.got)'
        /\ \A c \in calls' : c.at = "given" => c.got \in Status /\ Was(c.got)'
    BY TripStays, <1>2 DEF DriverTripIndInv, OnlyWhatWas
  <2>2. screen' = Away
    BY DEF Gone
  <2>. QED
    BY <2>1, <2>2 DEF OnlyWhatWas, Away
<1>4. ReadFirst' /\ AboutTheShown'
  BY <1>2 DEF ReadFirst, AboutTheShown, Gone, Away
<1>5. MovesOn' /\ SaysWhatHappened'
  BY TripStays, <1>2 DEF DriverTripIndInv, MovesOn, SaysWhatHappened, Gone, Away
<1>. QED
  BY <1>1, <1>3, <1>4, <1>5 DEF DriverTripIndInv

\* The trip is read, first or again: no earlier read counts any more.
LEMMA ReadsStep ==
  ASSUME DriverTripIndInv, [DriverTripNext]_tripVars, Open \/ Retry
  PROVE  DriverTripIndInv'
<1>1. /\ screen.at # "ready" /\ screen'.at = "loading" /\ screen'.asked = screen.asked
      /\ screen'.busy = screen.busy /\ screen'.shown \in {screen.shown, "none"}
      /\ screen'.says \in {screen.says, "nothing"} /\ UNCHANGED calls /\ Reads
      /\ (screen.asked = "none" /\ ~screen.busy)
  BY DEF Open, Retry, RetryOffered, Loading, Away, DriverTripIndInv, AboutTheShown, TripShapes,
         ReadRecord, CallRecord
<1>. DEFINE Dead(r) == [r EXCEPT !.live = FALSE]
<1>a. \A r \in reads : Dead(r) \in ReadRecord /\ ~Dead(r).live /\ Dead(r).got = r.got
  <2>. TAKE r \in reads
  <2>1. r \in ReadRecord
    BY DEF DriverTripIndInv, TripShapes
  <2>. QED
    BY <2>1 DEF ReadRecord
<1>b. reads' = {Dead(r) : r \in reads} \cup {[live |-> TRUE, got |-> "nothing"]}
  BY <1>1 DEF Reads
<1>. HIDE DEF Dead
<1>2. TripShapes'
  <2>1. reads' \subseteq ReadRecord
    <3>1. [live |-> TRUE, got |-> "nothing"] \in ReadRecord
      BY DEF ReadRecord
    <3>. QED
      BY <1>a, <1>b, <3>1
  <2>2. UNCHANGED <<trip, calls>>
    BY DEF Open, Retry
  <2>. QED
    BY <2>1, <2>2
       DEF DriverTripIndInv, TripShapes, ReadRecord, CallRecord, Open, Retry, Loading, Away
<1>3. /\ \A r \in reads' : r.live => r = [live |-> TRUE, got |-> "nothing"]
      /\ \A r \in reads' : r.got = "nothing" \/ \E s \in reads : r.got = s.got
  BY <1>a, <1>b
<1>4. OnlyWhatWas'
  <2>1. "nothing" \notin Status
    BY Ranks DEF Later
  <2>2. \A r \in reads' : r.got \in Status => Was(r.got)'
    BY TripStays, <1>3, <2>1 DEF DriverTripIndInv, OnlyWhatWas
  <2>3. \A c \in calls' : c.at = "given" => c.got \in Status /\ Was(c.got)'
    BY TripStays, <1>1 DEF DriverTripIndInv, OnlyWhatWas
  <2>4. (screen.shown # "none" => Was(screen.shown))'
    <3>1. CASE screen.shown = "none"
      BY <1>1, <3>1
    <3>2. CASE screen.shown # "none"
      <4>1. PICK s \in Status : s = screen.shown /\ Was(s)
        BY <3>2 DEF DriverTripIndInv, OnlyWhatWas, TripShapes
      <4>. QED
        BY TripStays, <1>1, <4>1
    <3>. QED
      BY <3>1, <3>2
  <2>. QED
    BY <1>1, <2>2, <2>3, <2>4 DEF OnlyWhatWas
<1>5. ReadFirst'
  BY <1>1, <1>3 DEF ReadFirst
<1>6. AboutTheShown'
  BY <1>1 DEF DriverTripIndInv, AboutTheShown
<1>7. MovesOn' /\ SaysWhatHappened'
  BY TripStays, <1>1 DEF DriverTripIndInv, MovesOn, SaysWhatHappened
<1>. QED
  BY <1>2, <1>4, <1>5, <1>6, <1>7 DEF DriverTripIndInv

LEMMA ReadAnswers ==
  ASSUME DriverTripIndInv, [DriverTripNext]_tripVars, NEW r \in reads,
         IsRead(r) \/ Arrives(r) \/ ReadFails(r)
  PROVE  DriverTripIndInv'
<1>1. CASE IsRead(r)
  <2>. DEFINE s == [r EXCEPT !.got = Reading]
  <2>0. r \in ReadRecord /\ Reading \in Status \cup {"missing"}
    BY ReadingWas DEF DriverTripIndInv, TripShapes
  <2>1. s \in ReadRecord /\ s.live = r.live /\ s.got = Reading
    BY <2>0 DEF ReadRecord
  <2>2. reads' = (reads \ {r}) \cup {s} /\ UNCHANGED <<trip, screen, calls>>
    BY <1>1 DEF IsRead
  <2>3. s.got \in Status => Was(s.got)
    BY <2>1, ReadingWas, Ranks DEF DriverTripIndInv, Later
  <2>. HIDE DEF s
  <2>4. TripShapes'
    BY <2>1, <2>2 DEF DriverTripIndInv, TripShapes
  <2>5. \A u \in reads' : u.got \in Status => Was(u.got)
    BY <2>2, <2>3 DEF DriverTripIndInv, OnlyWhatWas
  <2>6. OnlyWhatWas'
    BY TripStays, <2>2, <2>5 DEF DriverTripIndInv, OnlyWhatWas, Was, Reached
  <2>7. ReadFirst'
    BY <2>1, <2>2 DEF DriverTripIndInv, ReadFirst
  <2>8. AboutTheShown' /\ MovesOn' /\ SaysWhatHappened'
    BY TripStays, <2>2 DEF DriverTripIndInv, AboutTheShown, MovesOn, SaysWhatHappened, Reached
  <2>. QED
    BY <2>4, <2>6, <2>7, <2>8 DEF DriverTripIndInv
<1>2. CASE Arrives(r) \/ ReadFails(r)
  <2>1. reads' = reads \ {r} /\ UNCHANGED <<trip, calls>>
    BY <1>2 DEF Arrives, ReadFails
  <2>2. CASE ~r.live
    <3>1. UNCHANGED screen
      BY <1>2, <2>2 DEF Arrives, ReadFails
    <3>2. TripShapes' /\ OnlyWhatWas' /\ ReadFirst'
      <4>1. TripShapes'
        BY <2>1, <3>1 DEF DriverTripIndInv, TripShapes
      <4>2. OnlyWhatWas'
        BY TripStays, <2>1, <3>1 DEF DriverTripIndInv, OnlyWhatWas, Was, Reached
      <4>3. ReadFirst'
        BY <2>1, <3>1 DEF DriverTripIndInv, ReadFirst
      <4>. QED
        BY <4>1, <4>2, <4>3
    <3>3. AboutTheShown' /\ MovesOn' /\ SaysWhatHappened'
      BY <2>1, <3>1 DEF DriverTripIndInv, AboutTheShown, MovesOn, SaysWhatHappened, Reached
    <3>. QED
      BY <3>2, <3>3 DEF DriverTripIndInv
  <2>3. CASE r.live
    <3>1. /\ screen.at = "loading" /\ screen.asked = "none" /\ ~screen.busy
          /\ \A c \in calls : ~c.mounted
          /\ \A s \in reads' : ~s.live
      BY <2>1, <2>3 DEF DriverTripIndInv, ReadFirst, AboutTheShown
    <3>2. \/ screen' = [screen EXCEPT !.at = "missing"]
          \/ screen' = [screen EXCEPT !.at = "error"]
          \/ /\ screen' = [screen EXCEPT !.at = "ready", !.shown = r.got]
             /\ r.got \in Status
      BY <1>2, <2>3 DEF Arrives, ReadFails, DriverTripIndInv, TripShapes, ReadRecord, CallRecord
    <3>3. TripShapes'
      BY TripStays, <2>1, <3>2 DEF DriverTripIndInv, TripShapes, ReadRecord, CallRecord
    <3>4. OnlyWhatWas'
      BY TripStays, <2>1, <3>2, Ranks
         DEF DriverTripIndInv, OnlyWhatWas, TripShapes, ReadRecord, CallRecord, Was, Reached,
             Later
    <3>5. ReadFirst' /\ AboutTheShown'
      BY <2>1, <3>1, <3>2
         DEF DriverTripIndInv, ReadFirst, AboutTheShown, TripShapes, ReadRecord, CallRecord
    <3>6. MovesOn' /\ SaysWhatHappened'
      BY TripStays, <2>1, <3>2
         DEF DriverTripIndInv, MovesOn, SaysWhatHappened, TripShapes, ReadRecord, CallRecord,
             Reached
    <3>. QED
      BY <3>3, <3>4, <3>5, <3>6 DEF DriverTripIndInv
  <2>. QED
    BY <2>2, <2>3 DEF DriverTripIndInv, TripShapes, ReadRecord, CallRecord
<1>. QED
  BY <1>1, <1>2

\* The press that sends a call: no other of this screen is under way.
LEMMA ApplyStep ==
  ASSUME DriverTripIndInv, [DriverTripNext]_tripVars, Apply
  PROVE  DriverTripIndInv'
<1>. DEFINE c == [what |-> Action, got |-> "nothing", mounted |-> TRUE,
                  at |-> IF Action = "start" THEN "sent" ELSE "admission"]
<1>1. /\ Action \in {"start", "complete"} /\ screen.at = "ready" /\ ~screen.busy
      /\ screen.shown = Needs(Action)
  BY DEF Apply, Offered, Action, Needs
<1>2. /\ calls' = calls \cup {c} /\ UNCHANGED <<trip, reads>>
      /\ screen' = [screen EXCEPT !.busy = TRUE, !.says = "nothing"]
  BY DEF Apply
<1>3. /\ c \in [what : {"start", "complete"}, got : {"nothing"}, mounted : {TRUE},
                at : {"sent", "admission"}]
      /\ c.what = Action
  BY <1>1
<1>4. c.what = "complete" => Reached("IN_PROGRESS")
  BY <1>1, <1>3 DEF Needs, DriverTripIndInv, OnlyWhatWas, Was
<1>. HIDE DEF c
<1>5. TripShapes'
  BY TripStays, <1>2, <1>3 DEF DriverTripIndInv, TripShapes, ReadRecord, CallRecord
<1>6. OnlyWhatWas'
  BY TripStays, <1>2, <1>3
     DEF DriverTripIndInv, OnlyWhatWas, TripShapes, ReadRecord, CallRecord, Was, Reached
<1>7. ReadFirst'
  BY <1>2 DEF DriverTripIndInv, ReadFirst, TripShapes, ReadRecord, CallRecord
<1>8. AboutTheShown'
  BY <1>1, <1>2, <1>3 DEF DriverTripIndInv, AboutTheShown, TripShapes, ReadRecord, CallRecord
<1>9. MovesOn' /\ SaysWhatHappened'
  BY TripStays, <1>2, <1>3, <1>4
     DEF DriverTripIndInv, MovesOn, SaysWhatHappened, TripShapes, ReadRecord, CallRecord, Reached
<1>. QED
  BY <1>5, <1>6, <1>7, <1>8, <1>9 DEF DriverTripIndInv

\* The call's end: what it was given is shown, and is not behind what was.
LEMMA SettlesStep ==
  ASSUME DriverTripIndInv, [DriverTripNext]_tripVars, NEW c \in calls, Settles(c)
  PROVE  /\ DriverTripIndInv'
         /\ screen.at = "ready" /\ screen'.at = "ready" =>
                \/ screen'.shown = screen.shown
                \/ Rank(screen'.shown) >= Rank(screen.shown)
<1>1. calls' = calls \ {c} /\ UNCHANGED <<trip, reads>>
  BY DEF Settles
<1>2. CASE ~c.mounted
  <2>1. UNCHANGED screen
    BY <1>2 DEF Settles
  <2>2. TripShapes' /\ OnlyWhatWas' /\ ReadFirst'
    <3>1. TripShapes'
      BY <1>1, <2>1 DEF DriverTripIndInv, TripShapes, ReadRecord, CallRecord
    <3>2. OnlyWhatWas'
      BY <1>1, <2>1 DEF DriverTripIndInv, OnlyWhatWas, Was, Reached
    <3>3. ReadFirst'
      BY <1>1, <2>1 DEF DriverTripIndInv, ReadFirst
    <3>. QED
      BY <3>1, <3>2, <3>3
  <2>3. AboutTheShown' /\ MovesOn' /\ SaysWhatHappened'
    BY <1>1, <2>1 DEF DriverTripIndInv, AboutTheShown, MovesOn, SaysWhatHappened, Reached
  <2>. QED
    BY <2>1, <2>2, <2>3 DEF DriverTripIndInv
<1>3. CASE c.mounted
  <2>1. /\ screen.at = "ready" /\ screen.shown = Needs(c.what)
        /\ \A d \in calls' : ~d.mounted
        /\ \A r \in reads : ~r.live
    BY <1>1, <1>3
       DEF DriverTripIndInv, AboutTheShown, ReadFirst, TripShapes, ReadRecord, CallRecord
  <2>2. c.what \in {"start", "complete"}
    BY DEF DriverTripIndInv, TripShapes, ReadRecord, CallRecord
  <2>3. PICK says \in {"nothing", "failed", "not paused", "started", "not in progress",
                       "completed", "still in progress", "too late"},
             shown \in Status :
            /\ screen' = [screen EXCEPT !.busy = FALSE, !.asked = "none", !.at = "ready",
                                        !.shown = shown, !.says = says]
            /\ Was(shown) /\ Rank(shown) >= Rank(Needs(c.what))
            /\ says = "started" => shown = "IN_PROGRESS"
            /\ says = "completed" => shown \in {"COMPLETED", "VERIFIED", "CLOSED"}
    <3>1. screen' = AtRest(AfterCall(c)) /\ c.at \in {"given", "thrown", "blocked"}
      BY <1>3 DEF Settles
    <3>2. CASE c.at = "given"
      <4>1. c.got \in Status /\ Was(c.got) /\ Rank(c.got) >= Rank(Needs(c.what))
        BY <3>2 DEF DriverTripIndInv, OnlyWhatWas, MovesOn
      <4>2. screen' = [screen EXCEPT !.busy = FALSE, !.asked = "none", !.at = "ready",
                                     !.shown = c.got, !.says = Outcome(c.what, c.got)]
        BY <3>1, <3>2 DEF AtRest, AfterCall, DriverTripIndInv, TripShapes, ReadRecord, CallRecord
      <4>. QED
        BY <4>1, <4>2 DEF Outcome
    <3>3. CASE c.at # "given"
      <4>1. PICK says \in {"failed", "not paused"} :
                screen' = [screen EXCEPT !.busy = FALSE, !.asked = "none", !.says = says]
        BY <3>1, <3>3 DEF AtRest, AfterCall, DriverTripIndInv, TripShapes, ReadRecord, CallRecord
      <4>2. screen.shown \in Status /\ Was(screen.shown)
        BY <2>1, <2>2, Ranks DEF Needs, DriverTripIndInv, OnlyWhatWas, Later
      <4>4. Rank(screen.shown) >= Rank(Needs(c.what))
        <5>1. Rank(screen.shown) >= Rank(screen.shown)
          BY <4>2, RankIsNumber
        <5>. QED
          BY <2>1, <5>1, Zenon
      <4>3. screen' = [screen EXCEPT !.busy = FALSE, !.asked = "none", !.at = "ready",
                                     !.shown = screen.shown, !.says = says]
        BY <2>1, <4>1 DEF DriverTripIndInv, TripShapes, ReadRecord, CallRecord
      <4>. QED
        BY <4>1, <4>2, <4>3, <4>4
    <3>. QED
      BY <3>2, <3>3
  <2>4. TripShapes'
    BY <1>1, <2>3 DEF DriverTripIndInv, TripShapes, ReadRecord, CallRecord
  <2>5. OnlyWhatWas'
    BY <1>1, <2>3, Ranks
       DEF DriverTripIndInv, OnlyWhatWas, TripShapes, ReadRecord, CallRecord, Was, Reached, Later
  <2>6. ReadFirst' /\ AboutTheShown'
    BY <1>1, <2>1, <2>3
       DEF DriverTripIndInv, ReadFirst, AboutTheShown, TripShapes, ReadRecord, CallRecord
  <2>7. MovesOn'
    BY <1>1 DEF DriverTripIndInv, MovesOn, Reached
  <2>8. SaysWhatHappened'
    <3>1. says = "completed" => Reached("COMPLETED")
      <4>1. trip.status \in Status
        BY DEF DriverTripIndInv, TripShapes, ReadRecord, CallRecord
      <4>2. ASSUME says = "completed"
            PROVE  Reached(shown) /\ Rank(shown) >= 3
        BY <2>3, <4>2, Ranks DEF Was
      <4>3. says = "completed" => Rank(shown) \in Nat /\ Rank(trip.status) \in Nat
        BY <4>1, RankIsNumber
      <4>. QED
        BY <4>2, <4>3, Ranks DEF Reached
    <3>2. says = "started" => Reached("IN_PROGRESS")
      BY <2>3 DEF Was, Later
    <3>. QED
      BY <1>1, <2>3, <3>1, <3>2
         DEF SaysWhatHappened, Reached, DriverTripIndInv, TripShapes, ReadRecord, CallRecord
  <2>. QED
    BY <2>1, <2>3, <2>4, <2>5, <2>6, <2>7, <2>8
       DEF DriverTripIndInv, TripShapes, ReadRecord, CallRecord
<1>. QED
  BY <1>2, <1>3 DEF DriverTripIndInv, TripShapes, ReadRecord, CallRecord

LEMMA DriverTripStep == DriverTripIndInv /\ [DriverTripNext]_tripVars => DriverTripIndInv'
<1>. SUFFICES ASSUME DriverTripIndInv, [DriverTripNext]_tripVars
              PROVE  DriverTripIndInv'
  OBVIOUS
<1>1. CASE Elsewhere
  <2>1. TripShapes'
    BY <1>1, TripStays DEF Elsewhere, DriverTripIndInv, TripShapes
  <2>. QED
    BY <1>1, <2>1, ScreenStep DEF Elsewhere
<1>2. CASE Open \/ Retry
  BY <1>2, ReadsStep
<1>3. CASE Back \/ AuthenticationEnds
  BY <1>3, GoneStep DEF Back, AuthenticationEnds
<1>4. CASE TurnsToExpense
  <2>1. TripShapes' /\ \E e \in BOOLEAN : screen' = [screen EXCEPT !.expense = e]
    BY <1>4 DEF TurnsToExpense, DriverTripIndInv, TripShapes, ReadRecord, CallRecord
  <2>. QED
    BY <1>4, <2>1, ScreenStep DEF TurnsToExpense
<1>5. CASE Ask \/ Keep
  <2>1. /\ screen.at = "ready" /\ Action \in {"start", "complete"}
        /\ screen.shown = Needs(Action)
    BY <1>5 DEF Ask, Keep, Offered, Action, Needs
  <2>2. PICK asked \in {Action, "none"} : screen' = [screen EXCEPT !.asked = asked]
    BY <1>5 DEF Ask, Keep
  <2>3. TripShapes'
    BY <1>5, <2>1, <2>2 DEF Ask, Keep, DriverTripIndInv, TripShapes, ReadRecord, CallRecord
  <2>4. /\ screen'.at = "ready" /\ screen'.shown = screen.shown /\ screen'.busy = screen.busy
        /\ screen'.says = screen.says
        /\ screen'.asked # "none" => screen.shown = Needs(screen'.asked)
    BY <2>1, <2>2 DEF DriverTripIndInv, TripShapes, ReadRecord, CallRecord
  <2>. QED
    BY <1>5, <2>1, <2>3, <2>4, ScreenStep DEF Ask, Keep
<1>6. CASE Apply
  BY <1>6, ApplyStep
<1>7. ASSUME NEW r \in reads, IsRead(r) \/ Arrives(r) \/ ReadFails(r)
      PROVE  DriverTripIndInv'
  BY <1>7, ReadAnswers
<1>8. ASSUME NEW c \in calls,
             Applied(c) \/ NotApplied(c) \/ Checks(c) \/ CheckFails(c) \/ Admits(c) \/ Settles(c)
      PROVE  DriverTripIndInv'
  BY <1>8, CallsStep, SettlesStep
<1>9. CASE UNCHANGED tripVars
  <2>1. TripShapes' /\ OnlyWhatWas' /\ ReadFirst'
    <3>1. TripShapes'
      BY <1>9 DEF tripVars, DriverTripIndInv, TripShapes
    <3>2. OnlyWhatWas'
      BY <1>9 DEF tripVars, DriverTripIndInv, OnlyWhatWas, Was, Reached
    <3>3. ReadFirst'
      BY <1>9 DEF tripVars, DriverTripIndInv, ReadFirst
    <3>. QED
      BY <3>1, <3>2, <3>3
  <2>2. AboutTheShown' /\ MovesOn' /\ SaysWhatHappened'
    BY <1>9 DEF tripVars, DriverTripIndInv, AboutTheShown, MovesOn, SaysWhatHappened, Reached
  <2>. QED
    BY <2>1, <2>2 DEF DriverTripIndInv
<1>. QED
  BY <1>1, <1>2, <1>3, <1>4, <1>5, <1>6, <1>7, <1>8, <1>9 DEF DriverTripNext

LEMMA DriverTripFacts == DriverTripIndInv => DriverTripInv
<1>. SUFFICES ASSUME DriverTripIndInv
              PROVE  DriverTripInv
  OBVIOUS
<1>1. DriverTripTypeOK
  BY DEF DriverTripIndInv, TripShapes, ReadRecord, CallRecord, DriverTripTypeOK
<1>2. ConfirmsWhatWasAsked
  BY DEF DriverTripIndInv, TripShapes, ReadRecord, CallRecord, AboutTheShown,
         ConfirmsWhatWasAsked, Action, Needs
<1>. QED
  BY <1>1, <1>2 DEF DriverTripIndInv, DriverTripInv

LEMMA DriverTripInduction == DriverTripSpec => []DriverTripIndInv
BY DriverTripStart, DriverTripStep, PTL DEF DriverTripSpec

\* The driver's screen of a trip says "started" and "completed" of a trip that was, and a
\* confirmation answers the question that was asked, for any number of reads and calls whose
\* answers are lost or late.
THEOREM DriverTripInvariant == DriverTripSpec => []DriverTripInv
BY DriverTripInduction, DriverTripFacts, PTL

\* The screen never shows an earlier stage after a later one.
THEOREM TheTripNeverGoesBack == DriverTripSpec => NeverGoesBack
<1>1. DriverTripIndInv /\ [DriverTripNext]_tripVars => [NeverBack]_screen
  <2>. SUFFICES ASSUME DriverTripIndInv, [DriverTripNext]_tripVars, screen' # screen,
                       screen.at = "ready", screen'.at = "ready"
                PROVE  Rank(screen'.shown) >= Rank(screen.shown)
    BY DEF NeverBack
  <2>0. screen.shown \in Status
    BY DEF DriverTripIndInv, TripShapes, ReadRecord, CallRecord, OnlyWhatWas
  <2>1. Rank(screen.shown) \in Nat
    BY <2>0, RankIsNumber
  <2>2. ASSUME NEW c \in calls, Settles(c)
        PROVE  Rank(screen'.shown) >= Rank(screen.shown)
    BY <2>1, <2>2, SettlesStep
  <2>3. ASSUME NEW r \in reads, Arrives(r) \/ ReadFails(r)
        PROVE  FALSE
    BY <2>3
       DEF Arrives, ReadFails, DriverTripIndInv, ReadFirst, TripShapes, ReadRecord, CallRecord
  <2>4. CASE screen'.shown = screen.shown
    BY <2>1, <2>4
  <2>5. CASE Ask \/ Keep \/ Apply \/ TurnsToExpense
    <3>1. screen'.shown = screen.shown
      BY <2>5
         DEF Ask, Keep, Apply, TurnsToExpense, DriverTripIndInv, TripShapes, ReadRecord,
             CallRecord
    <3>. QED
      BY <2>4, <3>1
  <2>6. ~(Open \/ Retry \/ Back \/ AuthenticationEnds)
    BY DEF Open, Retry, RetryOffered, Back, AuthenticationEnds, Gone, Away
  <2>. QED
    BY <2>2, <2>3, <2>5, <2>6
       DEF DriverTripNext, tripVars, Elsewhere, IsRead, Applied, NotApplied, Checks, CheckFails,
           Admits
<1>. QED
  BY <1>1, DriverTripInduction, PTL DEF DriverTripSpec, NeverGoesBack
=============================================================================
