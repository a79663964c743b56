---------------------------- MODULE BookingPromise ----------------------------
(***************************************************************************)
(* What the service promises a distributor about one booking, with no      *)
(* marker, attempt, execution, callback, sweep or failure in it:           *)
(*                                                                         *)
(*   - a booking is untried, being tried, in doubt, or has one outcome,    *)
(*     and the outcome never changes;                                      *)
(*   - doubt ends only in the supplier's own word, never in FAILED;        *)
(*   - FAILED is announced only while no request has reached the supplier, *)
(*     and none reaches it afterwards;                                     *)
(*   - only a confirmed booking has a supplier reference, and that         *)
(*     reference never changes.                                            *)
(***************************************************************************)
CONSTANTS Refs, NoRef

VARIABLES
    phase,      \* untried, trying, doubt, confirmed, rejected or failed
    reference,  \* the supplier reference the distributor sees
    exposed     \* a request may have reached the supplier

promiseVars == <<phase, reference, exposed>>

PromiseInit == phase = "untried" /\ reference = NoRef /\ exposed = FALSE

Try == /\ phase = "untried"
       /\ phase' = "trying"
       /\ UNCHANGED <<reference, exposed>>

Expose == /\ phase \notin {"untried", "failed"}
          /\ exposed' = TRUE
          /\ UNCHANGED <<phase, reference>>

Doubt == /\ phase = "trying"
         /\ phase' = "doubt"
         /\ UNCHANGED <<reference, exposed>>

Confirm == /\ phase \in {"trying", "doubt"}
           /\ phase' = "confirmed"
           /\ reference' \in Refs \cup {NoRef}
           /\ UNCHANGED exposed

Reject == /\ phase \in {"trying", "doubt"}
          /\ phase' = "rejected"
          /\ UNCHANGED <<reference, exposed>>

Fail == /\ phase = "trying"
        /\ ~exposed
        /\ phase' = "failed"
        /\ UNCHANGED <<reference, exposed>>

PromiseNext == Try \/ Expose \/ Doubt \/ Confirm \/ Reject \/ Fail

PromiseSpec == PromiseInit /\ [][PromiseNext]_promiseVars
=============================================================================
