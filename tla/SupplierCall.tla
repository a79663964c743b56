------------------------------ MODULE SupplierCall ------------------------------
(***************************************************************************)
(* What the booking lifecycle takes a supplier call to be, with no socket, *)
(* writer, counter or deadline in it: until the call returns the request   *)
(* may reach the supplier; the call returns once, a proof that nothing was *)
(* received or something that is no such proof; and what was proved stays  *)
(* true.  Expose and Return are the BytesLeave and BookReturns of          *)
(* BookingRun.                                                             *)
(***************************************************************************)
VARIABLES
    outcome,    \* what the call returned
    exposed     \* the supplier may hold the request

callVars == <<outcome, exposed>>

Proofs == {"NOT_SENT", "PRE_SEND_FAILURE"}

Words == {"CONFIRMED", "REJECTED", "AMBIGUOUS"}

CallInit == outcome = "none" /\ exposed = FALSE

Expose == /\ outcome = "none"
          /\ exposed' = TRUE
          /\ UNCHANGED outcome

ReturnProof(o) == /\ outcome = "none"
                  /\ ~exposed
                  /\ outcome' = o
                  /\ UNCHANGED exposed

ReturnWord(o) == /\ outcome = "none"
                 /\ exposed
                 /\ outcome' = o
                 /\ UNCHANGED exposed

CallNext == \/ Expose
            \/ \E o \in Proofs : ReturnProof(o)
            \/ \E o \in Words : ReturnWord(o)

CallSpec == CallInit /\ [][CallNext]_callVars
=============================================================================
