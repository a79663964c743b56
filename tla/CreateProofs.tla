------------------------------ MODULE CreateProofs ------------------------------
(***************************************************************************)
(* Whatever races and whatever is lost: a key stands for one booking, and  *)
(* a distributor is told about its own bookings only, and can find them.   *)
(* The service implements IdempotentCreate.                                *)
(***************************************************************************)
EXTENDS BookingCreate, TLAPS

\* A handler that is about to start an execution has its row in the table.
Inserted == \A h \in Handlers : req[h].pc = "start" => RowOf(req[h]) \in rows

\* Whoever is told that it created a booking is told its own id.
CreatorsId == \A a \in answers : a.code = "201" => a.id = a.to

Inv == TypeOK /\ Inserted /\ CreatorsId /\ OneBookingPerKey /\ AnswersOwnBooking

-----------------------------------------------------------------------------
\* A request in the hands of a create is a create.
LEMMA CreatesAreCreates ==
    ASSUME TypeOK, NEW h \in Handlers, req[h].pc \in {"insert", "load", "start"}
    PROVE  req[h] \in CreateRequest /\ RowOf(req[h]) \in Row
<1>1. req[h] \in CreateRequest
  BY DEF TypeOK, CreateRequest, ReadRequest, RefusedRequest, Idle
<1> QED
  BY <1>1 DEF CreateRequest, RowOf, Row

\* Steps that give no success and change no row.
LEMMA NothingSaid ==
    ASSUME Inv, rows' = rows, answers' = answers, reads' = reads, TypeOK',
           \A h \in Handlers : req'[h] = req[h] \/ req'[h].pc # "start"
    PROVE  Inv'
  BY DEF Inv, Inserted, CreatorsId, OneBookingPerKey, AnswersOwnBooking, RowOf

Requests == CreateRequest \cup ReadRequest \cup RefusedRequest \cup {Idle}

\* Handler h is left with q, nothing is said and no row is touched.
Silent(h, q) ==
    /\ q \in Requests /\ q.pc # "start"
    /\ req' = [req EXCEPT ![h] = q]
    /\ rows' = rows /\ active' = active /\ started' = started /\ history' = history
    /\ requests' \in 0 .. MaxRequests

LEMMA SilentTypes == ASSUME TypeOK, NEW h \in Handlers, NEW q, Silent(h, q) PROVE TypeOK'
  BY DEF TypeOK, Silent, Requests, history

\* Requests that arrive, and that end without a success.
LEMMA SilentStep ==
    ASSUME Inv, NEW h \in Handlers,
           \/ \E credential \in Tenants :
                  \/ \E key \in Keys, payload \in Payloads :
                         ReceiveCreate(h, credential, key, payload)
                  \/ \E id \in Ids : ReceiveRead(h, credential, id)
           \/ \E credential \in Presented : Unauthorized(h, credential)
           \/ Refused(h) \/ LoadFails(h) \/ GetFails(h) \/ HandlerDies(h)
    PROVE  Inv'
<1>1. \E q : Silent(h, q)
  <2>1. requests \in 0 .. MaxRequests /\ TypeOK
    BY DEF Inv, TypeOK
  <2>2. ASSUME NEW credential \in Tenants, NEW key \in Keys, NEW payload \in Payloads,
               ReceiveCreate(h, credential, key, payload)
        PROVE  \E r : Silent(h, r)
    <3> DEFINE q == [pc |-> "insert", id |-> requests + 1, tenant |-> credential,
                     key |-> key, payload |-> payload]
    <3>1. q \in CreateRequest /\ q.pc # "start"
      BY <2>1, <2>2, CreateAssumption DEF ReceiveCreate, Authenticated, CreateRequest, Ids
    <3>2. req' = [req EXCEPT ![h] = q]
      BY <2>2 DEF ReceiveCreate
    <3>3. /\ rows' = rows /\ active' = active /\ started' = started /\ history' = history
          /\ requests' = requests + 1 /\ requests < MaxRequests
      BY <2>2 DEF ReceiveCreate, Authenticated
    <3>4. requests' \in 0 .. MaxRequests
      BY <2>1, <3>3, CreateAssumption
    <3> HIDE DEF q
    <3>5. Silent(h, q)
      BY <3>1, <3>2, <3>3, <3>4 DEF Silent, Requests
    <3> QED
      BY <3>5
  <2>3. ASSUME NEW credential \in Tenants, NEW id \in Ids, ReceiveRead(h, credential, id)
        PROVE  \E r : Silent(h, r)
    <3> DEFINE q == [pc |-> "read", id |-> requests + 1, tenant |-> credential, asked |-> id]
    <3>1. q \in ReadRequest /\ q.pc # "start"
      BY <2>1, <2>3, CreateAssumption DEF ReceiveRead, Authenticated, ReadRequest, Ids
    <3>2. req' = [req EXCEPT ![h] = q]
      BY <2>3 DEF ReceiveRead
    <3>3. /\ rows' = rows /\ active' = active /\ started' = started /\ history' = history
          /\ requests' = requests + 1 /\ requests < MaxRequests
      BY <2>3 DEF ReceiveRead, Authenticated
    <3>4. requests' \in 0 .. MaxRequests
      BY <2>1, <3>3, CreateAssumption
    <3> HIDE DEF q
    <3>5. Silent(h, q)
      BY <3>1, <3>2, <3>3, <3>4 DEF Silent, Requests
    <3> QED
      BY <3>5
  <2>4. ASSUME NEW credential \in Presented, Unauthorized(h, credential)
        PROVE  \E r : Silent(h, r)
    <3> DEFINE q == [pc |-> "refused", credential |-> credential]
    <3>1. q \in RefusedRequest /\ q.pc # "start"
      BY DEF RefusedRequest
    <3>2. req' = [req EXCEPT ![h] = q]
      BY <2>4 DEF Unauthorized
    <3> HIDE DEF q
    <3> QED
      BY <2>1, <2>4, <3>1, <3>2 DEF Unauthorized, history, Silent, Requests
  <2>5. CASE Refused(h) \/ LoadFails(h) \/ GetFails(h) \/ HandlerDies(h)
    <3>1. Silent(h, Idle)
      BY <2>1, <2>5 DEF Refused, LoadFails, GetFails, HandlerDies, Fail, Done, Idle, history,
                        Silent, Requests
    <3> QED
      BY <3>1
  <2> QED
    BY <2>2, <2>3, <2>4, <2>5
<1>2. PICK q : Silent(h, q)
  BY <1>1
<1>3. TypeOK'
  BY <1>2, SilentTypes DEF Inv
<1>4. \A g \in Handlers : req'[g] = req[g] \/ req'[g].pc # "start"
  BY <1>2 DEF Inv, TypeOK, Silent
<1> QED
  BY <1>2, <1>3, <1>4, NothingSaid DEF history, Silent

\* An insert adds a row whose key was free, or nothing.
LEMMA InsertStep == ASSUME Inv, NEW h \in Handlers, Insert(h) \/ InsertFails(h) PROVE Inv'
<1> DEFINE new == RowOf(req[h])
<1>1. /\ req[h].pc = "insert" /\ req[h] \in CreateRequest /\ new \in Row
      /\ new.tenant = req[h].tenant /\ new.key = req[h].key
  BY CreatesAreCreates DEF Insert, InsertFails, Inv, RowOf
<1>2. rows' = rows \/ (rows' = rows \cup {new} /\ ~ \E row \in rows : SameKey(row, req[h]))
  BY DEF Insert, InsertFails
<1>3. /\ active' = active /\ requests' = requests /\ started' = started
      /\ answers' = answers /\ reads' = reads
  BY DEF Insert, InsertFails, Fail, history
<1>4. PICK q \in Requests :
          /\ req' = [req EXCEPT ![h] = q]
          /\ q.pc = "start" => RowOf(q) = new /\ new \in rows'
  <2>1. CASE InsertFails(h)
    <3>1. req' = [req EXCEPT ![h] = Idle]
      BY <2>1 DEF InsertFails, Fail, Done
    <3>2. Idle \in Requests /\ Idle.pc # "start"
      BY DEF Idle, Requests
    <3> HIDE DEF new
    <3> QED
      BY <3>1, <3>2
  <2>2. ASSUME Insert(h), NEW pc \in {"load", "start"}, Goto(h, pc),
               pc = "start" => rows' = rows \cup {new}
        PROVE  \E q \in Requests : /\ req' = [req EXCEPT ![h] = q]
                                   /\ q.pc = "start" => RowOf(q) = new /\ new \in rows'
    <3> DEFINE q == [req[h] EXCEPT !.pc = pc]
    <3>1. q \in CreateRequest /\ q.pc = pc /\ RowOf(q) = new
      BY <1>1 DEF CreateRequest, RowOf
    <3>2. req' = [req EXCEPT ![h] = q]
      BY <2>2 DEF Goto
    <3> HIDE DEF q, new
    <3> QED
      BY <2>2, <3>1, <3>2 DEF Requests
  <2>3. CASE Insert(h)
    BY <2>2, <2>3 DEF Insert
  <2> QED
    BY <2>1, <2>3
<1> HIDE DEF new
<1>5. rows \subseteq rows' /\ rows' \subseteq Row
  BY <1>1, <1>2 DEF Inv, TypeOK
<1>6. TypeOK'
  <2>1. started' \subseteq {row.id : row \in rows'}
    BY <1>3, <1>5 DEF Inv, TypeOK
  <2>2. req' \in [Handlers -> Requests]
    BY <1>4 DEF Inv, TypeOK, Requests
  <2> QED
    BY <1>3, <1>5, <2>1, <2>2 DEF Inv, TypeOK, Requests
<1>7. Inserted'
  <2> SUFFICES ASSUME NEW g \in Handlers, req'[g].pc = "start" PROVE RowOf(req'[g]) \in rows'
    BY DEF Inserted, RowOf
  <2>1. CASE g = h
    BY <1>4, <2>1 DEF Inv, TypeOK
  <2>2. CASE g # h
    BY <1>4, <1>5, <2>2 DEF Inv, TypeOK, Inserted
  <2> QED
    BY <2>1, <2>2
<1>8. OneBookingPerKey'
  BY <1>1, <1>2 DEF Inv, OneBookingPerKey, SameKey
<1>9. CreatorsId' /\ AnswersOwnBooking'
  BY <1>3, <1>5 DEF Inv, CreatorsId, AnswersOwnBooking
<1> QED
  BY <1>6, <1>7, <1>8, <1>9 DEF Inv

Success == [tenant : Tenants, key : Keys, payload : Payloads, code : {"201", "200"},
            id : Ids, to : Ids]

RowAnswered(a) == [id |-> a.id, tenant |-> a.tenant, key |-> a.key, payload |-> a.payload]

\* A success about a row of the table.
LEMMA SuccessStep ==
    ASSUME Inv, NEW h \in Handlers, NEW a \in Success,
           RowAnswered(a) \in rows, a.code = "201" => a.id = a.to,
           answers' = answers \cup {a}, req' = [req EXCEPT ![h] = Idle],
           rows' = rows, reads' = reads, active' = active, requests' = requests,
           started' \subseteq {row.id : row \in rows}
    PROVE  Inv'
<1>1. req' \in [Handlers -> CreateRequest \cup ReadRequest \cup RefusedRequest \cup {Idle}]
  BY DEF Inv, TypeOK
<1>2. TypeOK'
  BY <1>1 DEF Inv, TypeOK, Success
<1>3. \A g \in Handlers : req'[g] = req[g] \/ req'[g].pc = "idle"
  BY DEF Inv, TypeOK, Idle
<1>4. Inserted'
  BY <1>3 DEF Inv, Inserted, RowOf
<1>5. CreatorsId' /\ OneBookingPerKey' /\ AnswersOwnBooking'
  BY DEF Inv, CreatorsId, OneBookingPerKey, AnswersOwnBooking, RowAnswered
<1> QED
  BY <1>2, <1>4, <1>5 DEF Inv

\* The winner of the insert answers with its own row.
LEMMA StartStep == ASSUME Inv, NEW h \in Handlers, StartWorkflow(h) PROVE Inv'
<1> DEFINE a == [tenant |-> req[h].tenant, key |-> req[h].key, payload |-> req[h].payload,
                 code |-> "201", id |-> req[h].id, to |-> req[h].id]
<1>1. req[h] \in CreateRequest /\ RowOf(req[h]) \in rows
  BY CreatesAreCreates DEF StartWorkflow, Inv, Inserted
<1>2. a \in Success /\ RowAnswered(a) = RowOf(req[h]) /\ a.id = a.to
  BY <1>1 DEF CreateRequest, Success, RowAnswered, RowOf
<1>3. req[h].id \in {row.id : row \in rows}
  BY <1>1 DEF RowOf
<1>4. started' \subseteq {row.id : row \in rows}
  BY <1>3 DEF StartWorkflow, Inv, TypeOK
<1>5. /\ answers' = answers \cup {a} /\ req' = [req EXCEPT ![h] = Idle]
      /\ rows' = rows /\ reads' = reads /\ active' = active /\ requests' = requests
  BY DEF StartWorkflow, Succeed, Done
<1> HIDE DEF a
<1> QED
  BY <1>1, <1>2, <1>4, <1>5, SuccessStep

\* The loser answers with the winner's row, if it is the same booking.
LEMMA LoadStep == ASSUME Inv, NEW h \in Handlers, Load(h) PROVE Inv'
<1>1. PICK row \in rows : SameKey(row, req[h]) /\ Replay(h, row)
  BY DEF Load
<1>2. req[h] \in CreateRequest /\ row \in Row
  BY CreatesAreCreates DEF Load, Inv, TypeOK
<1>3. rows' = rows /\ active' = active /\ requests' = requests /\ started' = started
  BY DEF Load
<1>4. CASE row.payload = req[h].payload
  <2> DEFINE a == [tenant |-> req[h].tenant, key |-> req[h].key, payload |-> req[h].payload,
                   code |-> "200", id |-> row.id, to |-> req[h].id]
  <2>1. a \in Success /\ RowAnswered(a) = row /\ a.code # "201"
    BY <1>1, <1>2, <1>4 DEF CreateRequest, Row, Success, RowAnswered, SameKey
  <2>2. answers' = answers \cup {a} /\ req' = [req EXCEPT ![h] = Idle] /\ reads' = reads
    BY <1>1, <1>4 DEF Replay, Succeed, Done
  <2>3. started' \subseteq {r.id : r \in rows}
    BY <1>3 DEF Inv, TypeOK
  <2> HIDE DEF a
  <2> QED
    BY <1>1, <1>3, <2>1, <2>2, <2>3, SuccessStep
<1>5. CASE row.payload # req[h].payload
  <2>1. Silent(h, Idle)
    BY <1>1, <1>3, <1>5 DEF Replay, Fail, Done, Silent, Requests, Idle, Inv, TypeOK
  <2>2. TypeOK'
    BY <2>1, SilentTypes DEF Inv
  <2>3. \A g \in Handlers : req'[g] = req[g] \/ req'[g].pc # "start"
    BY <2>1 DEF Inv, TypeOK, Silent, Idle
  <2> QED
    BY <2>1, <2>2, <2>3, NothingSaid DEF Silent, history
<1> QED
  BY <1>4, <1>5

\* A read finds the distributor's own rows.
LEMMA GetStep == ASSUME Inv, NEW h \in Handlers, Get(h) PROVE Inv'
<1> DEFINE found == \E row \in rows : row.id = req[h].asked /\ VisibleTo(row, req[h].tenant)
           a == [tenant |-> req[h].tenant, asked |-> req[h].asked, to |-> req[h].id,
                 code |-> IF found THEN "200" ELSE "404"]
<1>1. req[h] \in ReadRequest
  BY DEF Get, Inv, TypeOK, CreateRequest, ReadRequest, RefusedRequest, Idle
<1>2. /\ a \in [tenant : Tenants, asked : Ids, code : {"200", "404"}, to : Ids]
      /\ a.code = "200" => \E row \in rows : row.id = a.asked /\ row.tenant = a.tenant
  BY <1>1 DEF ReadRequest, VisibleTo
<1>3. /\ reads' = reads \cup {a} /\ req' = [req EXCEPT ![h] = Idle]
      /\ rows' = rows /\ active' = active /\ requests' = requests /\ started' = started
      /\ answers' = answers
  BY DEF Get, Done
<1> HIDE DEF a
<1>4. TypeOK'
  <2>1. req' \in [Handlers -> CreateRequest \cup ReadRequest \cup RefusedRequest \cup {Idle}]
    BY <1>3 DEF Inv, TypeOK
  <2> QED
    BY <1>2, <1>3, <2>1 DEF Inv, TypeOK
<1>5. \A g \in Handlers : req'[g] = req[g] \/ req'[g].pc = "idle"
  BY <1>3 DEF Inv, TypeOK, Idle
<1>6. Inserted' /\ CreatorsId' /\ OneBookingPerKey'
  BY <1>3, <1>5 DEF Inv, Inserted, CreatorsId, OneBookingPerKey, RowOf
<1>7. AnswersOwnBooking'
  BY <1>2, <1>3 DEF Inv, AnswersOwnBooking
<1> QED
  BY <1>4, <1>6, <1>7 DEF Inv

\* Keys come and go, and the sweep starts what is in the table.
LEMMA OtherStep ==
    ASSUME Inv, (\E credential \in Tenants : Rotate(credential)) \/ Sweep
    PROVE  Inv'
<1>1. /\ rows' = rows /\ req' = req /\ requests' = requests /\ answers' = answers
      /\ reads' = reads /\ active' \subseteq Tenants
  BY DEF Rotate, Sweep, history, Inv, TypeOK
<1>2. started' \subseteq {row.id : row \in rows}
  BY DEF Rotate, Sweep, Inv, TypeOK
<1>3. TypeOK'
  BY <1>1, <1>2 DEF Inv, TypeOK
<1> QED
  BY <1>1, <1>3, NothingSaid DEF Inv, TypeOK

-----------------------------------------------------------------------------
\* The invariant is inductive.
THEOREM InvHolds == Spec => []Inv
<1>1. Init => Inv
  BY CreateAssumption DEF Init, Inv, TypeOK, Inserted, CreatorsId, OneBookingPerKey,
                          AnswersOwnBooking, Idle
<1>2. Inv /\ [Next]_vars => Inv'
  <2> SUFFICES ASSUME Inv, [Next]_vars PROVE Inv'
    OBVIOUS
  <2>1. CASE UNCHANGED vars
    BY <2>1 DEF vars, history, Inv, TypeOK, Inserted, CreatorsId, OneBookingPerKey,
                AnswersOwnBooking, RowOf
  <2>2. ASSUME NEW h \in Handlers, Serve(h) PROVE Inv'
    BY <2>2, SilentStep, InsertStep, LoadStep, StartStep, GetStep
       DEF Serve, Reject, LookupFails, Presented
  <2> QED
    BY <2>1, <2>2, OtherStep DEF Next
<1> QED
  BY <1>1, <1>2, PTL DEF Spec

\* Every variable keeps its type, and executions are started for committed rows
\* only.
THEOREM CreateTypes == Spec => []TypeOK
<1>1. Inv => TypeOK
  BY DEF Inv
<1> QED
  BY <1>1, InvHolds, PTL

\* docs/RFC.md:666.  Whatever the number of handlers and requests, a key of a
\* distributor never stands for two bookings.
THEOREM KeysStandForOneBooking == Spec => []OneBookingPerKey
<1>1. Inv => OneBookingPerKey
  BY DEF Inv
<1> QED
  BY <1>1, InvHolds, PTL

\* docs/RFC.md:482-484.  Nobody is told of a booking that is not its own.
THEOREM TenantsSeeTheirOwn == Spec => []AnswersOwnBooking
<1>1. Inv => AnswersOwnBooking
  BY DEF Inv
<1> QED
  BY <1>1, InvHolds, PTL

\* docs/RFC.md:596.  All successes under one key agree.
THEOREM SuccessesAgree == Spec => []AnswersAgree
<1>1. Inv => AnswersAgree
  <2> SUFFICES ASSUME Inv, NEW a \in answers, NEW b \in answers,
                      a.tenant = b.tenant, a.key = b.key
               PROVE  a.id = b.id /\ (a.code = "201" /\ b.code = "201" => a = b)
    BY DEF AnswersAgree
  <2>1. a \in Success /\ b \in Success
    BY DEF Inv, TypeOK, Success
  <2>2. RowAnswered(a) = RowAnswered(b)
    BY DEF Inv, AnswersOwnBooking, OneBookingPerKey, RowAnswered
  <2>3. a.id = b.id /\ a.payload = b.payload
    BY <2>2 DEF RowAnswered
  <2> QED
    BY <2>1, <2>3 DEF Inv, CreatorsId, Success
<1> QED
  BY <1>1, InvHolds, PTL

\* docs/RFC.md:526.  An id that was given to a distributor is found by it.
THEOREM GivenIdsAreFound == Spec => KnownIsFound
<1>1. Inv /\ [Next]_vars =>
          [\A a \in reads' \ reads : a.code = "404" =>
               ~ \E b \in answers : b.id = a.asked /\ b.tenant = a.tenant]_vars
  <2> SUFFICES ASSUME Inv, Next, NEW a \in reads' \ reads, a.code = "404",
                      NEW b \in answers, b.id = a.asked, b.tenant = a.tenant
               PROVE  FALSE
    OBVIOUS
  <2>1. PICK h \in Handlers : Get(h)
    BY DEF Next, Serve, ReceiveCreate, ReceiveRead, Authenticated, LookupFails, Reject,
           Unauthorized, Refused, Insert, InsertFails, Load, Replay, LoadFails, StartWorkflow,
           GetFails, HandlerDies, Fail, Succeed, Rotate, Sweep, history
  <2>2. /\ a.tenant = req[h].tenant /\ a.asked = req[h].asked
        /\ ~ \E row \in rows : row.id = req[h].asked /\ VisibleTo(row, req[h].tenant)
    BY <2>1 DEF Get
  <2>3. RowAnswered(b) \in rows
    BY DEF Inv, AnswersOwnBooking, RowAnswered
  <2> QED
    BY <2>2, <2>3 DEF RowAnswered, VisibleTo
<1> QED
  BY <1>1, InvHolds, PTL DEF Spec, KnownIsFound

-----------------------------------------------------------------------------
(* Creates and reads behave as if bookings were made one at a time. *)

Creating(h) == req[h].pc \in {"insert", "load", "start"}

\* A booking id belongs to one request: no row has the id of a create that did
\* not insert, and no two creates share one.
Fresh ==
    /\ \A row \in rows : row.id <= requests
    /\ \A h \in Handlers : Creating(h) => req[h].id <= requests
    /\ \A h \in Handlers : req[h].pc \in {"insert", "load"} =>
           \A row \in rows : row.id # req[h].id
    /\ \A g, h \in Handlers : g # h /\ Creating(g) /\ Creating(h) => req[g].id # req[h].id

\* Steps that begin no create and change no row.
LEMMA FreshWhenQuiet ==
    ASSUME Fresh, rows' = rows, requests \in Nat, requests' \in Nat, requests <= requests',
           TypeOK, \A h \in Handlers : req'[h] = req[h] \/ ~Creating(h)'
    PROVE  Fresh'
<1>1. \A row \in rows : row.id \in Nat
  BY DEF TypeOK, Row, Ids
<1>2. \A h \in Handlers : Creating(h) => req[h].id \in Nat
  BY CreatesAreCreates DEF Creating, CreateRequest, Ids
<1>3. \A h \in Handlers : Creating(h)' => Creating(h) /\ req'[h] = req[h]
  BY DEF Creating
<1>4. \A row \in rows' : row.id <= requests'
  BY <1>1 DEF Fresh
<1>5. \A h \in Handlers : Creating(h)' => req'[h].id <= requests'
  BY <1>2, <1>3 DEF Fresh
<1>6. \A h \in Handlers : req'[h].pc \in {"insert", "load"} =>
           \A row \in rows' : row.id # req'[h].id
  BY <1>3 DEF Fresh, Creating
<1>7. \A g, h \in Handlers : g # h /\ Creating(g)' /\ Creating(h)' => req'[g].id # req'[h].id
  BY <1>3 DEF Fresh
<1> QED
  BY <1>4, <1>5, <1>6, <1>7 DEF Fresh

\* A create that arrives takes an id that nobody has.
LEMMA FreshOnArrival ==
    ASSUME Inv, Fresh, NEW h \in Handlers, NEW credential \in Tenants, NEW key \in Keys,
           NEW payload \in Payloads, ReceiveCreate(h, credential, key, payload)
    PROVE  Fresh'
<1>1. requests \in Nat /\ requests' = requests + 1 /\ rows' = rows
  BY CreateAssumption DEF Inv, TypeOK, ReceiveCreate, Authenticated
<1>2. req'[h].id = requests' /\ req'[h].pc = "insert"
  BY <1>1 DEF Inv, TypeOK, ReceiveCreate
<1>3. \A g \in Handlers : g # h => req'[g] = req[g]
  BY DEF Inv, TypeOK, ReceiveCreate
<1>4. \A row \in rows : row.id \in Nat /\ row.id < requests'
  BY <1>1 DEF Fresh, Inv, TypeOK, Row, Ids
<1>5. \A g \in Handlers : Creating(g) => req[g].id \in Nat /\ req[g].id < requests'
  BY <1>1, CreatesAreCreates DEF Fresh, Creating, Inv, CreateRequest, Ids
<1>6. \A row \in rows' : row.id <= requests'
  BY <1>1, <1>4
<1>7. \A g \in Handlers : Creating(g)' => req'[g].id <= requests'
  BY <1>1, <1>2, <1>3, <1>5 DEF Creating
<1>8. \A g \in Handlers : req'[g].pc \in {"insert", "load"} =>
           \A row \in rows' : row.id # req'[g].id
  BY <1>1, <1>2, <1>3, <1>4 DEF Fresh
<1>9. \A f, g \in Handlers : f # g /\ Creating(f)' /\ Creating(g)' => req'[f].id # req'[g].id
  BY <1>1, <1>2, <1>3, <1>5 DEF Fresh, Creating
<1> QED
  BY <1>6, <1>7, <1>8, <1>9 DEF Fresh

\* An insert gives its id to one row, and to no other create.
LEMMA FreshOnInsert ==
    ASSUME Inv, Fresh, NEW h \in Handlers, Insert(h) \/ InsertFails(h)
    PROVE  Fresh'
<1>1. req[h] \in CreateRequest /\ req[h].pc = "insert" /\ requests' = requests
  BY CreatesAreCreates DEF Inv, Insert, InsertFails
<1>2. rows' = rows \/ rows' = rows \cup {RowOf(req[h])}
  BY DEF Insert, InsertFails
<1>3. \A g \in Handlers : g # h => req'[g] = req[g]
  BY DEF Inv, TypeOK, Insert, InsertFails, Goto, Fail, Done
<1>4. /\ Creating(h)' => req'[h].id = req[h].id
      /\ req'[h].pc \in {"insert", "load"} => rows' = rows
  <2>1. CASE InsertFails(h)
    BY <2>1 DEF Inv, TypeOK, InsertFails, Fail, Done, Idle, Creating
  <2>2. CASE Insert(h)
    <3>1. ASSUME NEW pc, Goto(h, pc) PROVE req'[h].pc = pc /\ req'[h].id = req[h].id
      BY <1>1, <3>1 DEF Goto, Inv, TypeOK, CreateRequest
    <3> QED
      BY <2>2, <3>1 DEF Insert
  <2> QED
    BY <2>1, <2>2
<1>5. RowOf(req[h]).id = req[h].id /\ Creating(h)
  BY <1>1 DEF RowOf, Creating
<1>6. \A row \in rows' : row.id <= requests'
  BY <1>1, <1>2, <1>5 DEF Fresh
<1>7. \A g \in Handlers : Creating(g)' => req'[g].id <= requests'
  BY <1>1, <1>3, <1>4, <1>5 DEF Fresh, Creating
<1>8. \A g \in Handlers : req'[g].pc \in {"insert", "load"} =>
           \A row \in rows' : row.id # req'[g].id
  <2> SUFFICES ASSUME NEW g \in Handlers, req'[g].pc \in {"insert", "load"}, NEW row \in rows'
               PROVE  row.id # req'[g].id
    OBVIOUS
  <2>1. CASE g = h
    BY <1>1, <1>4, <2>1 DEF Fresh, Creating
  <2>2. CASE g # h
    BY <1>2, <1>3, <1>5, <2>2 DEF Fresh, Creating
  <2> QED
    BY <2>1, <2>2
<1>9. \A f, g \in Handlers : f # g /\ Creating(f)' /\ Creating(g)' => req'[f].id # req'[g].id
  BY <1>3, <1>4, <1>5 DEF Fresh, Creating
<1> QED
  BY <1>6, <1>7, <1>8, <1>9 DEF Fresh

LEMMA FreshHolds == Spec => [](Inv /\ Fresh)
<1>1. Init => Fresh
  BY DEF Init, Fresh, Creating, Idle
<1>2. Inv /\ Fresh /\ [Next]_vars => Fresh'
  <2> SUFFICES ASSUME Inv, Fresh, [Next]_vars PROVE Fresh'
    OBVIOUS
  <2>1. requests \in Nat /\ TypeOK
    BY CreateAssumption DEF Inv, TypeOK
  <2>2. CASE UNCHANGED vars
    BY <2>1, <2>2, FreshWhenQuiet DEF vars
  <2>3. ASSUME (\E credential \in Tenants : Rotate(credential)) \/ Sweep PROVE Fresh'
    BY <2>1, <2>3, FreshWhenQuiet DEF Rotate, Sweep
  <2>4. ASSUME NEW h \in Handlers, Serve(h) PROVE Fresh'
    <3>1. ASSUME NEW credential \in Tenants, NEW id \in Ids, ReceiveRead(h, credential, id)
          PROVE  Fresh'
      <4>1. \A g \in Handlers : req'[g] = req[g] \/ ~Creating(g)'
        BY <3>1 DEF ReceiveRead, Inv, TypeOK, Creating
      <4> QED
        BY <2>1, <3>1, <4>1, FreshWhenQuiet DEF ReceiveRead, Authenticated
    <3>2. ASSUME NEW credential \in Presented, Unauthorized(h, credential) PROVE Fresh'
      <4>1. \A g \in Handlers : req'[g] = req[g] \/ ~Creating(g)'
        BY <3>2 DEF Unauthorized, Inv, TypeOK, Creating
      <4> QED
        BY <2>1, <3>2, <4>1, FreshWhenQuiet DEF Unauthorized
    <3>3. ASSUME Refused(h) \/ Load(h) \/ LoadFails(h) \/ StartWorkflow(h) \/ Get(h)
                 \/ GetFails(h) \/ HandlerDies(h)
          PROVE  Fresh'
      <4>1. req' = [req EXCEPT ![h] = Idle] /\ rows' = rows /\ requests' = requests
        BY <3>3 DEF Refused, Load, LoadFails, StartWorkflow, Get, GetFails, HandlerDies, Replay,
                    Succeed, Fail, Done
      <4>2. \A g \in Handlers : req'[g] = req[g] \/ ~Creating(g)'
        BY <4>1 DEF Inv, TypeOK, Creating, Idle
      <4> QED
        BY <2>1, <4>1, <4>2, FreshWhenQuiet
    <3> QED
      BY <2>4, <3>1, <3>2, <3>3, FreshOnArrival, FreshOnInsert
         DEF Serve, Reject, LookupFails, Presented
  <2> QED
    BY <2>2, <2>3, <2>4 DEF Next
<1> QED
  BY <1>1, <1>2, InvHolds, PTL DEF Spec

\* An insert makes a booking under a free key, or nothing.
LEMMA InsertMakes ==
    ASSUME Inv, Fresh, NEW h \in Handlers, Insert(h) \/ InsertFails(h)
    PROVE  (\E b \in Promise!Booking : Promise!Make(b)) \/ UNCHANGED Promise!promiseVars
<1>1. UNCHANGED history /\ req[h].pc = "insert"
  BY DEF Insert, InsertFails, Fail
<1>2. CASE rows' = rows
  BY <1>1, <1>2 DEF Promise!promiseVars, history
<1>3. CASE rows' = rows \cup {RowOf(req[h])} /\ ~ \E row \in rows : SameKey(row, req[h])
  <2> DEFINE b == RowOf(req[h])
  <2>1. b \in Row /\ b.id = req[h].id /\ b.tenant = req[h].tenant /\ b.key = req[h].key
    BY <1>1, CreatesAreCreates DEF Inv, RowOf
  <2>2. \A c \in rows : c.id # b.id /\ (c.tenant = b.tenant => c.key # b.key)
    BY <1>1, <1>3, <2>1 DEF Fresh, SameKey
  <2> HIDE DEF b
  <2>3. b \in Promise!Booking /\ Promise!Make(b)
    BY <1>1, <1>3, <2>1, <2>2 DEF b, Row, Promise!Booking, Promise!Make, history
  <2> QED
    BY <2>3
<1> QED
  BY <1>2, <1>3 DEF Insert, InsertFails

\* The maker of a booking is told 201.
LEMMA StartTells ==
    ASSUME Inv, NEW h \in Handlers, StartWorkflow(h)
    PROVE  \E b \in rows, to \in Ids : Promise!Tell(b, to)
<1> DEFINE b == RowOf(req[h])
<1>1. req[h] \in CreateRequest /\ b \in rows
  BY CreatesAreCreates DEF StartWorkflow, Inv, Inserted
<1>2. /\ b.id = req[h].id /\ b.tenant = req[h].tenant /\ b.key = req[h].key
      /\ b.payload = req[h].payload /\ req[h].id \in Ids
  BY <1>1 DEF RowOf, CreateRequest
<1>3. /\ answers' = answers \cup {[tenant |-> req[h].tenant, key |-> req[h].key,
                                   payload |-> req[h].payload, code |-> "201",
                                   id |-> req[h].id, to |-> req[h].id]}
      /\ rows' = rows /\ reads' = reads
  BY DEF StartWorkflow, Succeed
<1> HIDE DEF b
<1>4. Promise!Tell(b, req[h].id)
  BY <1>2, <1>3 DEF Promise!Tell
<1> QED
  BY <1>1, <1>2, <1>4

\* The loser of an insert is told 200 about the very booking it asked for.
LEMMA LoadTells ==
    ASSUME Inv, Fresh, NEW h \in Handlers, Load(h)
    PROVE  (\E b \in rows, to \in Ids : Promise!Tell(b, to)) \/ UNCHANGED Promise!promiseVars
<1>1. PICK b \in rows : SameKey(b, req[h]) /\ Replay(h, b)
  BY DEF Load
<1>2. req[h] \in CreateRequest /\ rows' = rows /\ b.id # req[h].id
  BY CreatesAreCreates DEF Load, Inv, Fresh
<1>3. CASE b.payload # req[h].payload
  BY <1>1, <1>2, <1>3 DEF Replay, Fail, history, Promise!promiseVars
<1>4. CASE b.payload = req[h].payload
  <2>1. /\ answers' = answers \cup {[tenant |-> req[h].tenant, key |-> req[h].key,
                                     payload |-> req[h].payload, code |-> "200",
                                     id |-> b.id, to |-> req[h].id]}
        /\ reads' = reads
    BY <1>1, <1>4 DEF Replay, Succeed
  <2>2. Promise!Tell(b, req[h].id)
    BY <1>1, <1>2, <1>4, <2>1 DEF Promise!Tell, SameKey
  <2> QED
    BY <1>2, <2>2 DEF CreateRequest
<1> QED
  BY <1>3, <1>4

\* A read sees the table.
LEMMA GetSees ==
    ASSUME Inv, NEW h \in Handlers, Get(h)
    PROVE  \E tenant \in Tenants, id, to \in Ids : Promise!See(tenant, id, to)
<1>1. req[h] \in ReadRequest
  BY DEF Get, Inv, TypeOK, CreateRequest, ReadRequest, RefusedRequest, Idle
<1>2. Promise!See(req[h].tenant, req[h].asked, req[h].id)
  BY DEF Get, VisibleTo, Promise!See
<1> QED
  BY <1>1, <1>2 DEF ReadRequest

\* README.md:119 and docs/RFC.md:482-484.  However many creates, reads and replicas race,
\* and whatever is lost, the API behaves as one table in which bookings are made
\* one at a time: the service implements IdempotentCreate.
THEOREM CreatesHoldTheirPromise == Spec => CreatesAreIdempotent
<1>1. Init => Promise!PromiseInit
  BY DEF Init, Promise!PromiseInit
<1>2. Inv /\ Fresh /\ [Next]_vars => [Promise!PromiseNext]_(Promise!promiseVars)
  <2> SUFFICES ASSUME Inv, Fresh, [Next]_vars
               PROVE  Promise!PromiseNext \/ UNCHANGED Promise!promiseVars
    OBVIOUS
  <2>1. CASE UNCHANGED vars
    BY <2>1 DEF vars, history, Promise!PromiseNext, Promise!promiseVars
  <2>2. ASSUME (\E credential \in Tenants : Rotate(credential)) \/ Sweep
        PROVE  UNCHANGED Promise!promiseVars
    BY <2>2 DEF Rotate, Sweep, history, Promise!promiseVars
  <2>3. ASSUME NEW h \in Handlers, Serve(h)
        PROVE  Promise!PromiseNext \/ UNCHANGED Promise!promiseVars
    <3>1. CASE Insert(h) \/ InsertFails(h)
      BY <3>1, InsertMakes DEF Promise!PromiseNext
    <3>2. CASE StartWorkflow(h)
      BY <3>2, StartTells DEF Promise!PromiseNext
    <3>3. CASE Load(h)
      BY <3>3, LoadTells DEF Promise!PromiseNext
    <3>4. CASE Get(h)
      BY <3>4, GetSees DEF Promise!PromiseNext
    <3>5. CASE ~ (Insert(h) \/ InsertFails(h) \/ StartWorkflow(h) \/ Load(h) \/ Get(h))
      BY <2>3, <3>5 DEF Serve, ReceiveCreate, ReceiveRead, Authenticated, LookupFails, Reject,
         Unauthorized, Refused, LoadFails, GetFails, HandlerDies, Fail, history,
         Promise!PromiseNext, Promise!promiseVars
    <3> QED
      BY <3>1, <3>2, <3>3, <3>4, <3>5
  <2> QED
    BY <2>1, <2>2, <2>3 DEF Next, Promise!PromiseNext
<1> QED
  BY <1>1, <1>2, FreshHolds, PTL DEF Spec, CreatesAreIdempotent, Promise!PromiseSpec
=============================================================================
