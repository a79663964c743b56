---------------------------- MODULE IdempotentCreate ----------------------------
(***************************************************************************)
(* What the API promises distributors about creating and finding bookings, *)
(* with no handler, statement, conflict, lost reply or credential in it:   *)
(*                                                                         *)
(*   - a booking is made at once and for good, under a key nobody used;    *)
(*   - the request that made it is told 201, every other one that asks for *)
(*     the same booking under the same key is told 200, and both are told  *)
(*     its id;                                                             *)
(*   - a read finds a booking exactly if it is made and the reader's own.  *)
(***************************************************************************)
CONSTANTS Tenants, Keys, Payloads, Ids

VARIABLES
    bookings,   \* what was made
    told,       \* the successes of creates, each to one request
    seen        \* the answers to reads

promiseVars == <<bookings, told, seen>>

Booking == [id : Ids, tenant : Tenants, key : Keys, payload : Payloads]

PromiseInit == bookings = {} /\ told = {} /\ seen = {}

Make(b) == /\ \A c \in bookings : c.id # b.id /\ (c.tenant = b.tenant => c.key # b.key)
           /\ bookings' = bookings \cup {b}
           /\ UNCHANGED <<told, seen>>

Tell(b, to) ==
    /\ told' = told \cup {[tenant |-> b.tenant, key |-> b.key, payload |-> b.payload,
                           code |-> IF to = b.id THEN "201" ELSE "200", id |-> b.id, to |-> to]}
    /\ UNCHANGED <<bookings, seen>>

See(tenant, id, to) ==
    /\ seen' = seen \cup {[tenant |-> tenant, asked |-> id, to |-> to,
                           code |-> IF \E b \in bookings : b.id = id /\ b.tenant = tenant
                                    THEN "200" ELSE "404"]}
    /\ UNCHANGED <<bookings, told>>

PromiseNext == \/ \E b \in Booking : Make(b)
               \/ \E b \in bookings, to \in Ids : Tell(b, to)
               \/ \E tenant \in Tenants, id, to \in Ids : See(tenant, id, to)

PromiseSpec == PromiseInit /\ [][PromiseNext]_promiseVars
=============================================================================
