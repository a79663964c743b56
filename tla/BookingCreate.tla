----------------------------- MODULE BookingCreate -----------------------------
(***************************************************************************)
(* The distributor's API: authentication, the create handler with          *)
(* Service.Create and InsertOrLoad, and reads, on any number of replicas,  *)
(* with distributors that retry because an answer was lost and that rotate *)
(* their keys.  The booking itself is followed from its committed row by   *)
(* BookingLifecycle; here a row is what makes it found again.              *)
(*                                                                         *)
(*   idle     no request in hand                                           *)
(*   insert   the INSERT ... ON CONFLICT DO NOTHING                        *)
(*   load     GetByKey after a conflict, then the fingerprint compared     *)
(*   start    StartBooking, then the answer                                *)
(*   read     GetByID                                                      *)
(*   refused  the 401 to a credential                                      *)
(*                                                                         *)
(* A credential is written as its distributor, because nothing else of it  *)
(* is kept; a malformed or unknown key and a wrong secret are "stranger".  *)
(* A payload is what the fingerprint tells apart.  The duplicate-suspect   *)
(* report only reads and logs and is left out.                             *)
(***************************************************************************)
EXTENDS Naturals

CONSTANTS
    Tenants,        \* distributors
    Keys,           \* idempotency keys they choose
    Payloads,       \* what they want booked
    Handlers,       \* handlers, on any number of replicas
    MaxRequests     \* bound on the requests of one behaviour

ASSUME CreateAssumption == MaxRequests \in Nat

VARIABLES
    rows,       \* the bookings table
    active,     \* the distributors whose key is not revoked
    req,        \* req[h]: the request handler h is working on
    requests,   \* requests so far; the next one's booking id is the next number
    started,    \* ids an execution was started for
    answers,    \* history: the successes of creates
    reads       \* history: the answers to reads

history == <<answers, reads>>
vars == <<rows, active, req, requests, started, history>>

Ids == 1 .. MaxRequests

Presented == Tenants \cup {"stranger"}

CreateRequest == [pc : {"insert", "load", "start"}, id : Ids, tenant : Tenants,
                  key : Keys, payload : Payloads]
ReadRequest == [pc : {"read"}, id : Ids, tenant : Tenants, asked : Ids]
RefusedRequest == [pc : {"refused"}, credential : Presented]

Idle == [pc |-> "idle"]

RowOf(q) == [id |-> q.id, tenant |-> q.tenant, key |-> q.key, payload |-> q.payload]

\* UNIQUE (distributor_id, idempotency_key).
\* Mutant: the constraint covers the fingerprint too.
SameKeyAndPayload(row, q) == /\ row.tenant = q.tenant /\ row.key = q.key
                             /\ row.payload = q.payload

SameKey(row, q) == row.tenant = q.tenant /\ row.key = q.key

Done(h) == req' = [req EXCEPT ![h] = Idle]

\* A success about booking id, and an error answer.
Succeed(h, code, id) ==
    /\ answers' = answers \cup {[tenant |-> req[h].tenant, key |-> req[h].key,
                                 payload |-> req[h].payload, code |-> code, id |-> id,
                                 to |-> req[h].id]}
    /\ Done(h)
    /\ UNCHANGED reads

Fail(h) == Done(h) /\ UNCHANGED history

Goto(h, pc) == req' = [req EXCEPT ![h].pc = pc]

Init == /\ rows = {}
        /\ active = Tenants
        /\ req = [h \in Handlers |-> Idle]
        /\ requests = 0
        /\ started = {}
        /\ answers = {}
        /\ reads = {}

-----------------------------------------------------------------------------
(* Authentication. *)

\* FindActive and Verify succeed; a create takes the next booking id.
Authenticated(h, credential) ==
    /\ req[h] = Idle
    /\ credential \in active
    /\ requests < MaxRequests
    /\ requests' = requests + 1
    /\ UNCHANGED <<rows, active, started, history>>

\* A valid body; an invalid one, or a check-in that is past, is a 400 and no more.
ReceiveCreate(h, credential, key, payload) ==
    /\ Authenticated(h, credential)
    /\ req' = [req EXCEPT ![h] =
           [pc |-> "insert", id |-> requests + 1, tenant |-> credential,
            key |-> key, payload |-> payload]]

ReceiveRead(h, credential, id) ==
    /\ Authenticated(h, credential)
    /\ req' = [req EXCEPT ![h] = [pc |-> "read", id |-> requests + 1,
                                  tenant |-> credential, asked |-> id]]

Unauthorized(h, credential) ==
    /\ req[h] = Idle
    /\ req' = [req EXCEPT ![h] = [pc |-> "refused", credential |-> credential]]
    /\ UNCHANGED <<rows, active, requests, started, history>>

\* No such key, a revoked one, or a wrong secret.
Reject(h, credential) == credential \notin active /\ Unauthorized(h, credential)

\* The lookup itself fails: whatever the error, the key is called bad.
LookupFails(h, credential) == credential \in active /\ Unauthorized(h, credential)

Refused(h) ==
    /\ req[h].pc = "refused"
    /\ Fail(h)
    /\ UNCHANGED <<rows, active, requests, started>>

\* An operator issues or revokes a key in the table.
Rotate(credential) ==
    /\ active' = (active \ {credential}) \cup ({credential} \ active)
    /\ UNCHANGED <<rows, req, requests, started, history>>

\* One statement: insert, or find that the key is taken.
\* Mutant: the loser of the race goes on as if it had inserted.
InsertRegardless(h) ==
    /\ req[h].pc = "insert"
    /\ Goto(h, "start")
    /\ rows' = IF \E row \in rows : SameKey(row, req[h]) THEN rows ELSE rows \cup {RowOf(req[h])}
    /\ UNCHANGED <<active, requests, started, history>>

Insert(h) ==
    /\ req[h].pc = "insert"
    /\ IF \E row \in rows : SameKey(row, req[h])
       THEN Goto(h, "load") /\ UNCHANGED rows
       ELSE Goto(h, "start") /\ rows' = rows \cup {RowOf(req[h])}
    /\ UNCHANGED <<active, requests, started, history>>

\* The statement fails, or it commits and its reply is lost: a 500 either way.
InsertFails(h) ==
    /\ req[h].pc = "insert"
    /\ rows' \in {rows, IF \E row \in rows : SameKey(row, req[h])
                        THEN rows ELSE rows \cup {RowOf(req[h])}}
    /\ Fail(h)
    /\ UNCHANGED <<active, requests, started>>

\* replay: the stored booking is the answer if its fingerprint is the request's.
\* Mutants: the fingerprint is not compared; the answer names the new id.
ReplayUnchecked(h, row) == Succeed(h, "200", row.id)
ReplayNewId(h, row) ==
    IF row.payload = req[h].payload
    THEN Succeed(h, "200", req[h].id) ELSE Fail(h)

Replay(h, row) ==
    IF row.payload = req[h].payload
    THEN Succeed(h, "200", row.id)
    ELSE Fail(h)

\* GetByKey, then replay.
Load(h) ==
    /\ req[h].pc = "load"
    /\ \E row \in rows : SameKey(row, req[h]) /\ Replay(h, row)
    /\ UNCHANGED <<rows, active, requests, started>>

LoadFails(h) ==
    /\ req[h].pc = "load"
    /\ Fail(h)
    /\ UNCHANGED <<rows, active, requests, started>>

\* A start that fails is logged: the row is committed and the sweep starts it.
StartWorkflow(h) ==
    /\ req[h].pc = "start"
    /\ started' \in {started, started \cup {req[h].id}}
    /\ Succeed(h, "201", req[h].id)
    /\ UNCHANGED <<rows, active, requests>>

-----------------------------------------------------------------------------
(* Reads. *)

\* Mutant: any booking may be read.
VisibleToAll(row, tenant) == TRUE

VisibleTo(row, tenant) == row.tenant = tenant

\* GetByID, then the tenant compared: another's booking is not found either.
Get(h) ==
    LET q == req[h]
        found == \E row \in rows : row.id = q.asked /\ VisibleTo(row, q.tenant)
    IN  /\ q.pc = "read"
        /\ reads' = reads \cup {[tenant |-> q.tenant, asked |-> q.asked, to |-> q.id,
                                 code |-> IF found THEN "200" ELSE "404"]}
        /\ Done(h)
        /\ UNCHANGED <<rows, active, requests, started, answers>>

GetFails(h) ==
    /\ req[h].pc = "read"
    /\ Fail(h)
    /\ UNCHANGED <<rows, active, requests, started>>

-----------------------------------------------------------------------------
\* The replica dies; the distributor gets no answer.
HandlerDies(h) ==
    /\ req[h] # Idle
    /\ req' = [req EXCEPT ![h] = Idle]
    /\ UNCHANGED <<rows, active, requests, started, history>>

\* The sweep starts an execution for a booking it found; a second start is a
\* no-op.  Which rows it finds, and when, is in module Sweep.
Sweep == \E row \in rows :
             /\ started' = started \cup {row.id}
             /\ UNCHANGED <<rows, active, req, requests, history>>

Serve(h) ==
    \/ \E credential \in Tenants :
           \/ \E key \in Keys, payload \in Payloads :
                  ReceiveCreate(h, credential, key, payload)
           \/ \E id \in Ids : ReceiveRead(h, credential, id)
           \/ LookupFails(h, credential)
    \/ \E credential \in Presented : Reject(h, credential)
    \/ Refused(h)
    \/ Insert(h) \/ InsertFails(h) \/ Load(h) \/ LoadFails(h) \/ StartWorkflow(h)
    \/ Get(h) \/ GetFails(h) \/ HandlerDies(h)

Next == \/ \E h \in Handlers : Serve(h)
        \/ \E credential \in Tenants : Rotate(credential)
        \/ Sweep

Spec == Init /\ [][Next]_vars

-----------------------------------------------------------------------------
Row == [id : Ids, tenant : Tenants, key : Keys, payload : Payloads]

\* Every variable has its type, and executions are only started for committed
\* rows: StartBooking never runs on an id the table does not hold.
TypeOK ==
    /\ rows \subseteq Row
    /\ active \subseteq Tenants
    /\ req \in [Handlers -> CreateRequest \cup ReadRequest \cup RefusedRequest \cup {Idle}]
    /\ requests \in 0 .. MaxRequests
    /\ started \subseteq {row.id : row \in rows}
    /\ answers \subseteq [tenant : Tenants, key : Keys, payload : Payloads,
                          code : {"201", "200"}, id : Ids, to : Ids]
    /\ reads \subseteq [tenant : Tenants, asked : Ids, code : {"200", "404"}, to : Ids]

\* docs/RFC.md:666.  A key can never yield two bookings, however many creates
\* race and whatever is lost on the way.
OneBookingPerKey ==
    \A r1, r2 \in rows : r1.tenant = r2.tenant /\ r1.key = r2.key => r1 = r2

\* docs/RFC.md:482-484, 666 and README.md:119.  Every success of a create names
\* the booking made for the credential's distributor, this key and this very
\* payload; and nobody reads another's booking.
AnswersOwnBooking ==
    /\ \A a \in answers :
           [id |-> a.id, tenant |-> a.tenant, key |-> a.key, payload |-> a.payload] \in rows
    /\ \A a \in reads : a.code = "200" =>
           \E row \in rows : row.id = a.asked /\ row.tenant = a.tenant

\* docs/RFC.md:596.  All successes of a distributor under one key name one
\* booking, and at most one of the requests is told that it created it.
AnswersAgree ==
    \A a, b \in answers :
        a.tenant = b.tenant /\ a.key = b.key
            => a.id = b.id /\ (a.code = "201" /\ b.code = "201" => a = b)

\* docs/RFC.md:526 and 507.  "If a create returned 201, use the id it gave you":
\* an id that a distributor was given is found by it from then on, although its
\* credentials are rotated in between.
KnownIsFound ==
    [][\A a \in reads' \ reads : a.code = "404" =>
         ~ \E b \in answers : b.id = a.asked /\ b.tenant = a.tenant]_vars

\* README.md:119 and docs/RFC.md:482-484.  All of it together, over any race and
\* any loss: creates and reads behave as if bookings were made one at a time in
\* one table, the maker of a booking told 201 and every replay 200.
Promise == INSTANCE IdempotentCreate WITH bookings <- rows, told <- answers, seen <- reads

CreatesAreIdempotent == Promise!PromiseSpec

\* docs/RFC.md:524 and 534.  A 401 means a missing or unrecognized key; a database
\* fault on a request path answers 500.
UnauthorizedMeansBadKey ==
    [][\A h \in Handlers : req'[h].pc = "refused" /\ req[h].pc # "refused"
            => req'[h].credential \notin active]_vars
=============================================================================
