----------------------------- MODULE RecordForms -----------------------------
(***************************************************************************)
(* The forms in which admins file and correct vehicles, drivers, trips and *)
(* jobs of maintenance, and the rows they save: the page of one admin, and *)
(* the others as far as its rows show them.  Nobody locks an open record,  *)
(* and a save is one UPDATE.  Three of the forms send every field they     *)
(* hold.  The form of a job compares with what it was filled from and      *)
(* sends what differs.                                                     *)
(*                                                                         *)
(* Of a record's fields two are kept: a name, which the API stores in one  *)
(* spelling, and a mark, which may be empty (an odometer, an expiry) or,   *)
(* of a job, is an instant of which the form shows the minute.  Of the     *)
(* sections beside a form the one that changes a status stands for all:    *)
(* the login link of a driver is set and cleared alike.                    *)
(***************************************************************************)
EXTENDS Naturals, FiniteSets

CONSTANTS
    Entity,     \* some of "vehicle", "driver", "trip" and "job"
    Nothing,    \* an empty mark, or no record
    MaxNames,   \* bound: names an admin may type
    MaxCalls,   \* bound: calls of the page
    MaxOthers   \* bound: changes by other admins

VARIABLES
    entity,     \* the table
    records,    \* its rows
    form,       \* the page that is open
    mail,       \* calls, until their answer is taken notice of
    spent       \* of the bounds

formVars == <<entity, records, form, mail, spent>>

Id == {1, 2}
Field == {"name", "mark"}
Name == [spelt : 1..MaxNames, rough : BOOLEAN]
Text == [name : Name, mark : {Nothing, 1, 2}]

\* Over means CANCELLED, COMPLETED and so on; a vehicle or a driver that is not
\* ACTIVE is not over.
Ends == entity \in {"trip", "job"}
Editable(r) == Ends => r.live

\* Variant: the name is stored as it was typed.
AsTyped(name) == name
Normalize(name) == [name EXCEPT !.rough = FALSE]

ToText(r) == [name |-> r.name, mark |-> IF r.mark = Nothing THEN Nothing ELSE r.mark.minute]
Instant(minute) == [minute |-> minute, second |-> 0]
Blank == [name |-> [spelt |-> 1, rough |-> TRUE], mark |-> Nothing]

\* What is typed, as it is sent: an empty mark is null and not zero.
Wire(text) ==
    [name |-> text.name, mark |-> IF text.mark = Nothing THEN Nothing ELSE Instant(text.mark)]

Filled(id, r) ==
    [of |-> id, at |-> "ready", seen |-> [f \in Field |-> r[f]], live |-> r.live,
     text |-> ToText(r), typed |-> {}]
Loading(id) ==
    [of |-> id, at |-> "loading", seen |-> Nothing, live |-> TRUE, text |-> Blank,
     typed |-> {}]
Unread(id) == [Loading(id) EXCEPT !.at = "error"]
New == [Loading(0) EXCEPT !.at = "ready"]

Named(n, mark) == [name |-> [spelt |-> n, rough |-> FALSE], mark |-> mark, live |-> TRUE]

FormsInit ==
    /\ entity \in Entity
    /\ records = [i \in Id |->
                    IF i = 1 THEN Named(1, IF entity = "job" THEN [minute |-> 1, second |-> 1]
                                           ELSE Nothing)
                    ELSE Nothing]
    /\ form = Loading(1)
    /\ mail = {}
    /\ spent = [calls |-> 0, others |-> 0]

FormsTypeOK ==
    /\ \A i \in Id : records[i] # Nothing =>
          records[i].name \in Name /\ records[i].live \in BOOLEAN
    /\ form.of \in Id \cup {0} /\ form.at \in {"loading", "error", "ready"}
    /\ form.text \in Text /\ form.typed \subseteq Field
    /\ \A c \in mail : c.what \in {"save", "create", "status"}
    /\ Cardinality(mail) <= spent.calls
-----------------------------------------------------------------------------
(* The API. *)

AnswerTo(c, at, r) ==
    [c EXCEPT !.at = at, !.row = r, !.body = Nothing, !.seen = Nothing, !.typed = {}]
\* The answer to a page that was left goes unheard; only the page of a new
\* record opens all the same.
Heard(c) == c.mounted \/ (c.what = "create" /\ c.at # "refused")
Answered(c, at, r) ==
    mail' = (mail \ {c}) \cup {d \in {AnswerTo(c, at, r)} : Heard(d)}

\* vehicles_plate_number_key.
Taken(name, id) ==
    entity = "vehicle" /\ \E i \in Id \ {id} : records[i] # Nothing /\ records[i].name = name

Stored(c, r) ==
    [f \in DOMAIN r |-> IF f \notin DOMAIN c.body THEN r[f]
                        ELSE IF f = "name" THEN Normalize(c.body.name) ELSE c.body[f]]

\* The answer may be lost; what was written stays written.
Writes(c, id, r) ==
    /\ records' = [records EXCEPT ![id] = r]
    /\ Answered(c, "ok", r) \/ Answered(c, "refused", Nothing)
    /\ UNCHANGED <<entity, form, spent>>

\* Variant: the caller's page decides whether the record may be edited.
ClaimsUnchecked(c) == TRUE
\* The condition on the status is part of the UPDATE.
Claims(c) == Editable(records[c.of])

Updates(c) ==
    /\ c.at = "sent" /\ c.what = "save" /\ Claims(c)
    /\ LET r == Stored(c, records[c.of]) IN ~Taken(r.name, c.of) /\ Writes(c, c.of, r)

\* Always ACTIVE, a DRAFT, with nothing the client could choose.
Creates(c) ==
    /\ c.at = "sent" /\ c.what = "create"
    /\ \E i \in Id :
         /\ records[i] = Nothing
         /\ LET r == Stored(c, Named(1, Nothing)) IN
              /\ ~Taken(r.name, i)
              /\ records' = [records EXCEPT ![i] = r]
              /\ \/ mail' = (mail \ {c}) \cup {[AnswerTo(c, "ok", Nothing) EXCEPT !.of = i]}
                 \/ Answered(c, "refused", Nothing)
    /\ UNCHANGED <<entity, form, spent>>

ChangesStatus(c) ==
    /\ c.at = "sent" /\ c.what = "status" /\ records[c.of].live # c.body.live
    /\ Writes(c, c.of, [records[c.of] EXCEPT !.live = c.body.live])

\* A value out of range, a name taken, a status already so, or the network.
Refuses(c) ==
    /\ c.at = "sent"
    /\ \/ Answered(c, "refused", Nothing)
       \/ /\ entity = "job" /\ c.what = "save" /\ ~Claims(c)
          /\ Answered(c, "stale", Nothing)
    /\ UNCHANGED <<entity, records, form, spent>>

\* Another admin files, corrects, ends or retires a record.
Marks == IF entity = "job" THEN {Instant(1), Instant(2)} ELSE {Nothing, Instant(1)}
Records == [name : [spelt : 1..MaxNames, rough : {FALSE}], mark : Marks, live : BOOLEAN]

Elsewhere(i) ==
    /\ spent.others < MaxOthers /\ spent' = [spent EXCEPT !.others = @ + 1]
    /\ \E r \in Records :
         /\ ~Taken(r.name, i)
         /\ IF i = 2 THEN entity # "job" /\ records[i] = Nothing /\ r.live /\ r.mark = Nothing
            ELSE Editable(records[i])
         /\ records' = [records EXCEPT ![i] = r]
    /\ UNCHANGED <<entity, form, mail>>
-----------------------------------------------------------------------------
(* A page. *)

Busy(what) == \E c \in mail : c.what \in what /\ c.mounted
Offered == form.at = "ready" /\ Editable(form)

Unmounted(calls) ==
    mail' = {d \in {[c EXCEPT !.mounted = FALSE] : c \in calls} : d.at = "sent" \/ Heard(d)}

Visit(f) ==
    /\ entity # "job" /\ f # form
    /\ form' = f /\ Unmounted(mail)
    /\ UNCHANGED <<entity, records, spent>>

\* The page of a trip or a vehicle, or the list of jobs.
Loads ==
    /\ form.at = "loading"
    /\ form' = Filled(form.of, records[form.of]) \/ form' = Unread(form.of)
    /\ UNCHANGED <<entity, records, mail, spent>>

\* Another job of the list was saved: the whole list is read again.
ListReloads ==
    /\ entity = "job" /\ form.at # "loading"
    /\ form' = Loading(form.of) /\ Unmounted(mail)
    /\ UNCHANGED <<entity, records, spent>>

Typing == [spelt : 1..MaxNames, rough : {TRUE}]

\* The inputs stay enabled while a save is under way.
Types ==
    /\ Offered
    /\ \E f \in Field : \E v \in IF f = "name" THEN Typing ELSE {Nothing, 1} \cup
                                     (IF entity = "job" THEN {2} ELSE {}) :
         form' = [form EXCEPT !.text[f] = v, !.typed = @ \cup {f}]
    /\ UNCHANGED <<entity, records, mail, spent>>

\* Variant: instants are compared, and a stored second makes a difference.
DiffersAsInstant(f) == Wire(form.text)[f] # form.seen[f]
Differs(f) == form.text[f] # ToText(form.seen)[f]

Patch ==
    IF entity = "job" THEN [f \in {g \in Field : Differs(g)} |-> Wire(form.text)[f]]
    ELSE Wire(form.text)

Calls(what, body, typed, seen) ==
    /\ spent.calls < MaxCalls /\ spent' = [spent EXCEPT !.calls = @ + 1]
    /\ mail' = mail \cup {[what |-> what, of |-> form.of, body |-> body, typed |-> typed,
                           seen |-> seen, mounted |-> TRUE, at |-> "sent", row |-> Nothing]}
    /\ UNCHANGED <<entity, records, form>>

\* "No changes to save." is said without a call; so is a job without a start.
Submit ==
    /\ Offered /\ ~Busy({"save", "create"})
    /\ entity = "job" => form.text.mark # Nothing
    /\ Patch # << >>
    /\ IF form.of = 0 THEN Calls("create", Patch, {}, Nothing)
       ELSE Calls("save", Patch, form.typed, form.seen)

HasStatus == ~Ends /\ form.at = "ready" /\ form.of # 0 /\ ~Busy({"status"})
\* The question before it is left out.
ConfirmStatus ==
    /\ HasStatus
    /\ Calls("status", [live |-> ~form.live], {}, Nothing)
-----------------------------------------------------------------------------
(* Answers, in the order they come. *)

TakenNotice(c) == mail' = mail \ {c}

\* The form of a job goes with its list, which is read again.
Saved(c) ==
    /\ c.at = "ok" /\ c.what = "save" /\ c.mounted
    /\ IF entity = "job"
       THEN /\ form' = Loading(c.of)
            /\ Unmounted(mail \ {c})
       ELSE /\ form' = Filled(c.of, c.row)
            /\ TakenNotice(c)
    /\ UNCHANGED <<entity, records, spent>>

\* Whatever is open by then, the page of the new record replaces it.
Created(c) ==
    /\ c.at = "ok" /\ c.what = "create"
    /\ form' = Loading(c.of)
    /\ Unmounted(mail \ {c})
    /\ UNCHANGED <<entity, records, spent>>

\* Variant: the form is filled again.
RefillsForm(c) == Filled(c.of, c.row)
\* The page shows the row; the form keeps what it holds.
KeepsForm(c) == [form EXCEPT !.live = c.row.live]

StatusChanged(c) ==
    /\ c.at = "ok" /\ c.what = "status" /\ c.mounted
    /\ form' = KeepsForm(c) /\ TakenNotice(c)
    /\ UNCHANGED <<entity, records, spent>>

\* A failed save keeps everything that was typed.
Failed(c) ==
    /\ c.at = "refused" /\ c.mounted
    /\ TakenNotice(c)
    /\ UNCHANGED <<entity, records, form, spent>>

\* Finished by somebody else: the list is read for the real state.
Stale(c) ==
    /\ c.at = "stale" /\ c.mounted
    /\ form' = Loading(c.of)
    /\ TakenNotice(c)
    /\ UNCHANGED <<entity, records, spent>>

FormsNext ==
    \/ \E i \in Id : Elsewhere(i) \/ (records[i] # Nothing /\ Visit(Loading(i)))
    \/ Visit(New) \/ Loads \/ ListReloads
    \/ Types \/ Submit \/ ConfirmStatus
    \/ \E c \in mail :
         \/ Updates(c) \/ Creates(c) \/ ChangesStatus(c) \/ Refuses(c)
         \/ Saved(c) \/ Created(c) \/ StatusChanged(c) \/ Failed(c) \/ Stale(c)

FormsSpec == FormsInit /\ [][FormsNext]_formVars
-----------------------------------------------------------------------------
(* No two vehicles have one plate, however their plates were typed and     *)
(* whoever saved first: the spelling is settled before the key sees it.    *)
OnePlateEach ==
    entity = "vehicle" =>
        \A i, j \in Id : i # j /\ records[i] # Nothing /\ records[j] # Nothing
                            => records[i].name.spelt # records[j].name.spelt

(* What an admin did not type, a form still holds as it was filled.        *)
UntypedAsFilled ==
    form.of # 0 /\ form.at = "ready" =>
        \A f \in Field \ form.typed : form.text[f] = ToText(form.seen)[f]

FormsInv == FormsTypeOK /\ OnePlateEach /\ UntypedAsFilled

(* A save changes a field its admin did not type only by putting it back   *)
(* to what the form was filled with, and the form of a job not even then:  *)
(* not the second of a start of which it shows the minute, not what        *)
(* another admin has corrected meanwhile.                                  *)
SavesWhatWasTyped ==
    \A c \in mail \ mail' : \A i \in Id, f \in Field :
        records[i] # Nothing /\ records'[i][f] # records[i][f] =>
            f \in c.typed \/ (entity # "job" /\ records'[i][f] = c.seen[f])

(* A trip or a job that is over is not edited by a form opened before.     *)
OverIsOver ==
    \A i \in Id : records[i] # Nothing /\ ~Editable(records[i]) => records'[i] = records[i]

(* What an admin typed is replaced only by the answer to the save of it,   *)
(* or goes with its page.                                                  *)
TypedStays ==
    \/ form'.text = form.text \/ form'.at # "ready" \/ form.at # "ready" \/ form'.of = 0
    \/ form'.typed # {} /\ mail' = mail
    \/ \E c \in mail \ mail' : c.what = "save" /\ c.at = "ok"

FormsStep == SavesWhatWasTyped /\ OverIsOver /\ TypedStays
FormsKeep == [][FormsStep]_formVars
=============================================================================
