---------------------------- MODULE WireContract ----------------------------
(***************************************************************************)
(* One call of a client and what its user is told of it.  A row passes the *)
(* request schema, the column and the projection of the API, and then a    *)
(* parser of the client that was written apart from them: the browser's or *)
(* the driver's.  A parser refuses a whole page for one row, and a write   *)
(* whose answer is refused has happened all the same.  Requests and        *)
(* answers may be lost on either side of the API, the gateway in front of  *)
(* the browser may give up, and a body may be cut short.                   *)
(*                                                                         *)
(* A field is here when a schema, a column or a parser tells its values    *)
(* apart; texts, ids and instants are left out, or are "set".              *)
(***************************************************************************)
EXTENDS Naturals, FiniteSets

CONSTANTS
    Null,
    MaxDigits,  \* of an amount, before the point
    MaxInt,     \* the widest integer column
    MaxBytes,   \* of a receipt
    MaxRows     \* bound: rows of the table

VARIABLES
    kind,       \* of the rows
    table,
    call,       \* the call in flight
    told        \* what the client made of the last one

wireVars == <<kind, table, call, told>>

Client == {"web", "mobile"}
Kind == {"driver", "vehicle", "trip", "expense", "receipt", "job"}
Nullable(S) == S \cup {Null}

---------------------------------------------------------------------------
(* Money, as text and as numeric(12, 2): how many digits, how many places. *)

Text == {t \in [digits : 1..MaxDigits + 1, places : 0..3, zero : BOOLEAN] :
             t.zero => t.digits = 1}
Number == {n \in [digits : 1..MaxDigits, zero : BOOLEAN] : n.zero => n.digits = 1}

Decimal(t) == [digits |-> t.digits, zero |-> t.zero]
ToFixed(n) == [digits |-> n.digits, places |-> 2, zero |-> n.zero]

\* The same pattern in both schemas of the API, and in the forms.
AmountPattern(t) == t.digits <= MaxDigits /\ t.places <= 2
InputPattern(t) == t.digits <= MaxDigits /\ t.places <= 2
ResponsePattern(t) == t.digits <= MaxDigits /\ t.places = 2

---------------------------------------------------------------------------
(* What the tables hold: columns, enums and CHECKs. *)

DriverRow == [status : {"ACTIVE", "INACTIVE"}, licenceExpiry : Nullable({"set"}),
              user : Nullable([isActive : BOOLEAN])]

VehicleRow == [status : {"ACTIVE", "IN_MAINTENANCE", "RETIRED"},
               odometer : Nullable({0, MaxInt})]

\* Only a draft or a cancelled trip may lack its driver, vehicle or window.
TripRow ==
    {r \in [status : {"DRAFT", "ASSIGNED", "IN_PROGRESS", "COMPLETED", "VERIFIED",
                      "CLOSED", "CANCELLED"},
            driverId : Nullable({"set"}), scheduledStartAt : Nullable({"set"}),
            startedAt : Nullable({"set"}), completedAt : Nullable({"set"})] :
        \/ r.status \in {"DRAFT", "CANCELLED"}
        \/ r.driverId = "set" /\ r.scheduledStartAt = "set"}

ExpenseRow ==
    {r \in [status : {"SUBMITTED", "APPROVED", "REJECTED"}, amount : Number,
            reviewedAt : Nullable({"set"})] :
        ~r.amount.zero /\ (r.status = "SUBMITTED" <=> r.reviewedAt = Null)}

ReceiptRow == [contentType : {"image/jpeg", "image/png", "image/webp"},
               byteSize : 1..MaxBytes, confirmedAt : Nullable({"set"})]

JobRow ==
    {r \in [status : {"OPEN", "COMPLETED", "CANCELLED"}, cost : Nullable(Number),
            odometer : Nullable({0, MaxInt}), completedAt : Nullable({"set"})] :
        r.status = "COMPLETED" <=> r.completedAt # Null}

Row ==
    CASE kind = "driver" -> DriverRow [] kind = "vehicle" -> VehicleRow
      [] kind = "trip" -> TripRow [] kind = "expense" -> ExpenseRow
      [] kind = "receipt" -> ReceiptRow [] kind = "job" -> JobRow

\* The projection of a row on the wire: an amount is always text.
ToExpense(r) == [r EXCEPT !.amount = ToFixed(@)]
ToJob(r) == [r EXCEPT !.cost = IF @ = Null THEN Null ELSE ToFixed(@)]
Wire(r) ==
    CASE kind = "expense" -> ToExpense(r) [] kind = "job" -> ToJob(r)
      [] kind \notin {"expense", "job"} -> r

---------------------------------------------------------------------------
(* What the clients understand. *)

TripStatuses == {"DRAFT", "ASSIGNED", "IN_PROGRESS", "COMPLETED", "VERIFIED", "CLOSED",
                 "CANCELLED"}
ExpenseStatuses == {"SUBMITTED", "APPROVED", "REJECTED"}
MaintenanceStatuses == {"OPEN", "COMPLETED", "CANCELLED"}

IsInt(x) == x \in Nat
IsAmount(t) == t \in Text /\ ResponsePattern(t) /\ ~t.zero

\* Variant: a cost is read by the rule of an amount.
NullableCostPositive(x) == x = Null \/ IsAmount(x)
NullableCost(x) == x = Null \/ (x \in Text /\ ResponsePattern(x))

ParseDriver(w) ==
    /\ w.status \in {"ACTIVE", "INACTIVE"} /\ w.licenceExpiry \in Nullable({"set"})
    /\ w.user = Null \/ w.user.isActive \in BOOLEAN

ParseVehicle(w) ==
    /\ w.status \in {"ACTIVE", "IN_MAINTENANCE", "RETIRED"}
    /\ w.odometer = Null \/ IsInt(w.odometer)

ParseTrip(w) ==
    /\ w.status \in TripStatuses
    /\ {w.driverId, w.scheduledStartAt, w.startedAt, w.completedAt} \subseteq Nullable({"set"})

ParseExpense(w) ==
    /\ w.status \in ExpenseStatuses /\ IsAmount(w.amount)
    /\ w.reviewedAt \in Nullable({"set"})

ParseReceipt(w) ==
    /\ w.contentType \in {"image/jpeg", "image/png", "image/webp"}
    /\ IsInt(w.byteSize) /\ w.byteSize \in 1..MaxBytes
    /\ w.confirmedAt \in Nullable({"set"})

ParseMaintenanceRecord(w) ==
    /\ w.status \in MaintenanceStatuses /\ w.completedAt \in Nullable({"set"})
    /\ w.odometer = Null \/ IsInt(w.odometer)
    /\ NullableCost(w.cost)

\* The two branches carry their own member and not the other's.
ParseAuthorization(w) ==
    \/ w.method = "POST" /\ w.fields # Null /\ w.headers = Null
    \/ w.method = "PUT" /\ w.headers # Null /\ w.fields = Null

\* The driver's parsers are another copy of three of them.
MobileParseTrip(w) ==
    /\ w.status \in TripStatuses
    /\ {w.driverId, w.scheduledStartAt, w.startedAt, w.completedAt} \subseteq Nullable({"set"})
MobileParseExpense(w) ==
    /\ w.status \in ExpenseStatuses /\ IsAmount(w.amount)
    /\ w.reviewedAt \in Nullable({"set"})
MobileParseReceipt(w) ==
    /\ w.contentType \in {"image/jpeg", "image/png", "image/webp"}
    /\ IsInt(w.byteSize) /\ w.byteSize \in 1..MaxBytes
    /\ w.confirmedAt \in Nullable({"set"})

Parses(client, w) ==
    CASE kind = "driver" -> ParseDriver(w) [] kind = "vehicle" -> ParseVehicle(w)
      [] kind = "trip" /\ client = "web" -> ParseTrip(w)
      [] kind = "trip" /\ client = "mobile" -> MobileParseTrip(w)
      [] kind = "expense" /\ client = "web" -> ParseExpense(w)
      [] kind = "expense" /\ client = "mobile" -> MobileParseExpense(w)
      [] kind = "receipt" /\ client = "web" -> ParseReceipt(w)
      [] kind = "receipt" /\ client = "mobile" -> MobileParseReceipt(w)
      [] kind = "job" -> ParseMaintenanceRecord(w)

\* One bad row refuses the page.
ParsePage(client, items) == \A w \in items : Parses(client, w)

Understands(client, op, body) ==
    CASE op = "read" -> ParsePage(client, body)
      [] op = "file" /\ kind = "receipt" -> ParseAuthorization(body)
      [] op = "file" /\ kind # "receipt" -> Parses(client, body)

---------------------------------------------------------------------------
(* A call *)

NoCall == [at |-> "none"]
NothingTold == [says |-> "nothing", status |-> 0, wrote |-> FALSE, op |-> "read",
                whole |-> TRUE]

WireInit ==
    /\ kind \in Kind /\ table = {} /\ call = NoCall /\ told = NothingTold

\* The driver's app reads and files these; the office all.
Serves(client) == client = "web" \/ kind \in {"trip", "expense", "receipt"}
MayFile(client) == kind \in {"expense", "receipt"} \/ (client = "web" /\ kind \in {"vehicle", "job"})

\* What may be typed or chosen.
Typed ==
    CASE kind = "expense" -> [amount : Text]
      [] kind = "job" -> [cost : Nullable(Text), odometer : Nullable({0, MaxInt + 1})]
      [] kind = "vehicle" -> [odometer : Nullable({0, MaxInt, MaxInt + 1})]
      [] kind = "receipt" -> [contentType : {"image/png"}, byteSize : {1, MaxBytes, MaxBytes + 1}]
      [] kind \notin {"expense", "job", "vehicle", "receipt"} -> {}

FormAdmits(input) ==
    CASE kind = "expense" -> InputPattern(input.amount) /\ ~input.amount.zero
      [] kind = "job" -> input.cost # Null => InputPattern(input.cost)
      [] kind \notin {"expense", "job"} -> TRUE

Send(client, op, input) ==
    /\ call = NoCall /\ Serves(client)
    /\ op = "file" => MayFile(client) /\ FormAdmits(input)
    /\ call' = [at |-> "sent", client |-> client, op |-> op, input |-> input,
                status |-> 0, body |-> Null, problem |-> Null, wrote |-> FALSE]
    /\ UNCHANGED <<kind, table, told>>

SchemaAdmits(input) ==
    CASE kind = "expense" -> AmountPattern(input.amount) /\ ~input.amount.zero
      [] kind = "job" -> input.cost # Null => AmountPattern(input.cost)
      [] kind = "vehicle" -> TRUE
      [] kind = "receipt" -> input.byteSize \in 1..MaxBytes

Filed(input) ==
    CASE kind = "expense" -> [status |-> "SUBMITTED", amount |-> Decimal(input.amount),
                              reviewedAt |-> Null]
      [] kind = "job" -> [status |-> "OPEN", completedAt |-> Null, odometer |-> input.odometer,
                          cost |-> IF input.cost = Null THEN Null ELSE Decimal(input.cost)]
      [] kind = "vehicle" -> [status |-> "ACTIVE", odometer |-> input.odometer]
      [] kind = "receipt" -> [contentType |-> input.contentType, byteSize |-> input.byteSize,
                              confirmedAt |-> Null]

\* A store signs a form to POST or a PUT with headers.
Authorizations == {[method |-> "POST", fields |-> "set", headers |-> Null],
                   [method |-> "PUT", fields |-> Null, headers |-> "set"]}

Answer(status, body, wrote) ==
    call' = [call EXCEPT !.at = "answered", !.status = status, !.body = body, !.wrote = wrote]

\* A problem names its code, lists the fields at fault, or says neither.
Fail(status, problem) ==
    call' = [call EXCEPT !.at = "answered", !.status = status, !.problem = problem]

\* Nothing is filed and a code says why: no such row, not the state for it.
Refuse ==
    /\ call.at = "sent" /\ call.op = "file" /\ SchemaAdmits(call.input)
    /\ \E status \in {404, 409} : Fail(status, "code")
    /\ UNCHANGED <<kind, table, told>>

Handle ==
    /\ call.at = "sent"
    /\ \/ /\ call.op = "read"
          /\ Answer(200, {Wire(r) : r \in table}, FALSE) /\ UNCHANGED table
       \/ /\ call.op = "file" /\ ~SchemaAdmits(call.input)
          /\ Fail(400, "list") /\ UNCHANGED table
       \/ /\ call.op = "file" /\ SchemaAdmits(call.input) /\ Cardinality(table) < MaxRows
          /\ IF Filed(call.input) \in Row
             THEN /\ table' = table \cup {Filed(call.input)}
                  /\ IF kind = "receipt"
                     THEN \E body \in Authorizations : Answer(200, body, TRUE)
                     ELSE Answer(201, Wire(Filed(call.input)), TRUE)
             ELSE Fail(500, "message") /\ UNCHANGED table
    /\ UNCHANGED <<kind, told>>

\* The rest of the system fills the table with whatever it may hold.
Fills ==
    /\ call = NoCall /\ Cardinality(table) < MaxRows
    /\ \E r \in Row : table' = table \cup {r}
    /\ UNCHANGED <<kind, call, told>>

Tell(says, status, whole) ==
    /\ told' = [says |-> says, status |-> status, wrote |-> call.wrote, op |-> call.op,
                whole |-> whole]
    /\ call' = NoCall
    /\ UNCHANGED <<kind, table>>

\* Any success will do for the browser; the driver's app asks for the very one.
\* Variant: the filing call of the driver's app is answered 200 as all others.
ExpectedAlways(client, op, status) == IF client = "web" THEN status \in 200..299 ELSE status = 200
Expected(client, op, status) ==
    IF client = "web" THEN status \in 200..299
    ELSE status = IF op = "file" /\ kind = "expense" THEN 201 ELSE 200

\* The browser takes any message for a code and reads the list; the driver's
\* app knows a code by its form.
Reason(client, problem) ==
    CASE problem = "code" \/ (problem = "message" /\ client = "web") -> "code"
      [] problem = "list" /\ client = "web" -> "validation"
      [] OTHER -> "status"

Arrive ==
    /\ call.at = "answered"
    /\ IF ~Expected(call.client, call.op, call.status)
       THEN Tell(Reason(call.client, call.problem), call.status, TRUE)
       ELSE Tell(IF Understands(call.client, call.op, call.body) THEN "ok"
                 ELSE "invalid_response", call.status, TRUE)

\* The request, or the answer, is lost.
Lose ==
    /\ call.at \in {"sent", "answered"}
    /\ Tell("network", 0, FALSE)

\* Without a session nothing is sent, and the driver's app tells it apart.
NotAuthenticated ==
    /\ call.at = "sent" /\ call.client = "mobile"
    /\ Tell("not_authenticated", 0, FALSE)

\* The gateway could not reach the API, or not hear it out.
GatewayFails ==
    /\ call.at \in {"sent", "answered"} /\ call.client = "web"
    /\ \/ Tell("code", 502, FALSE)
       \/ call.at = "answered" /\ Tell("status", 500, FALSE)

\* The browser keeps the status of a body cut short, the driver's app does not.
CutShort ==
    /\ call.at = "answered"
    /\ IF call.client = "mobile" THEN Tell("network", 0, FALSE)
       ELSE IF Expected("web", call.op, call.status)
       THEN Tell("invalid_response", call.status, FALSE)
       ELSE Tell("status", call.status, FALSE)

WireNext ==
    \/ \E client \in Client : Send(client, "read", Null)
    \/ \E client \in Client, input \in Typed : Send(client, "file", input)
    \/ Refuse \/ Handle \/ Fills
    \/ Arrive \/ Lose \/ NotAuthenticated \/ GatewayFails \/ CutShort

WireSpec == WireInit /\ [][WireNext]_wireVars

---------------------------------------------------------------------------
\* A whole answer is understood, whatever the tables hold: no row blanks the
\* page it is on, and what was filed is reported filed.
AnswersUnderstood ==
    /\ told.whole => told.says # "invalid_response"
    /\ told.whole /\ told.wrote => told.says = "ok"

\* A refusal of the API is final: nothing was filed.  What may have been filed
\* is told as a lost answer, a gateway's failure or an unreadable success.
RefusalWroteNothing ==
    told.status \in 400..499 \/ told.says = "not_authenticated" => ~told.wrote

\* "Filed" is said of what was filed.
DoneWasDone == told.says = "ok" /\ told.op = "file" => told.wrote

WireInv == AnswersUnderstood /\ RefusalWroteNothing /\ DoneWasDone
=============================================================================
