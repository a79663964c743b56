--------------------------- MODULE CallbackService ---------------------------
(***************************************************************************)
(* Supplier callbacks: ApplyCallback of internal/service/booking.  Several *)
(* API replicas handle callbacks for one booking at the same time; each    *)
(* handler decides on a row it read earlier, and between any two of its    *)
(* statements the row may move.  A supplier may deliver any callback any   *)
(* number of times: a handler that is done takes another.                  *)
(*                                                                         *)
(*   idle    no callback in hand                                           *)
(*   apply   the transition, from the status that was read                 *)
(*   reread  the transition lost: read the row that won                    *)
(*   again   the transition, from the status found                         *)
(*   note    AppendRefusal, without flagging afterwards                    *)
(*   refuse  AppendRefusal, then flag                                      *)
(*   flag    Flag after a refusal                                          *)
(*   unref   Flag after applying a confirmation that named no reference    *)
(*   signal  SignalOutcome                                                 *)
(***************************************************************************)
EXTENDS BookingStore

CONSTANTS
    Handlers,   \* callback handlers, on any number of replicas
    Vocabulary   \* the supplierStatus values callbacks carry

ASSUME VocabularyAssumption == Vocabulary \subseteq {"CONFIRMED", "REJECTED", "OTHER"}

VARIABLES
    cb,         \* cb[h]: what handler h is doing, [pc, out, have]
    accepted    \* history: the callbacks that were applied to the row

callbackVars == <<cb, accepted>>

\* A callback body; "OTHER" stands for every status outside the vocabulary.
Callback == [status : Vocabulary, ref : Refs \cup {NoRef}]
NoCallback == [status |-> "OTHER", ref |-> NoRef]

applicableStatus == {"CONFIRMED", "REJECTED"}

IdleHandler == [pc |-> "idle", out |-> NoCallback, have |-> "RECEIVED"]

HandlerPCs == {"idle", "apply", "reread", "again", "note", "refuse", "flag",
               "unref", "signal"}

Handler == [pc : HandlerPCs, out : Callback \cup {NoCallback}, have : Statuses]

CallbackTypeOK == cb \in [Handlers -> Handler] /\ accepted \subseteq Callback

In(h, pc) == cb[h].pc = pc
Done(h) == cb' = [cb EXCEPT ![h] = IdleHandler]
Step(h, pc) == cb' = [cb EXCEPT ![h].pc = pc]

\* A stored NULL matches only a callback that names no reference.
\* Mutant: a stored NULL matches nothing.
sameStoredReference(b, out) == b.ref # NoRef /\ b.ref = out.ref

sameReference(b, out) == b.ref = out.ref

\* A declined booking never gets a reference.
\* Mutant: it does.
outcomeReferenceAlways(out) == out.ref

outcomeReference(out) == IF out.status = "REJECTED" THEN NoRef ELSE out.ref

\* The callback's transition: any marker is superseded and the flag dropped.
callbackTransition(from, out) ==
    [from |-> from, to |-> out.status, rule |-> "supersede", attempt |-> 0,
     ref |-> outcomeReference(out), unflag |-> TRUE]

\* Where ApplyCallback goes with out on the row b it read.
FirstStep(b, out) ==
    IF out.status \notin applicableStatus THEN "refuse"
    ELSE IF b.status = "RECEIVED" THEN "note"
    ELSE IF ~Settled(b.status) THEN "apply"
    ELSE IF b.status = out.status /\ sameReference(b, out) THEN "idle"
    ELSE "refuse"

Receive(h, out) ==
    /\ In(h, "idle")
    /\ LET pc == FirstStep(booking, out)
       IN  /\ pc # "idle"
           /\ cb' = [cb EXCEPT ![h] = [pc |-> pc, out |-> out, have |-> booking.status]]
    /\ UNCHANGED <<booking, noted, faults, accepted>>

\* What follows an applied transition.
\* Mutant: the flag is forgotten.
AfterAppliedUnflagged(h) == Step(h, "signal")

AfterApplied(h) == Step(h, IF cb[h].out = [status |-> "CONFIRMED", ref |-> NoRef]
                           THEN "unref" ELSE "signal")

ApplyOutcome(h) ==
    /\ In(h, "apply")
    /\ LET t == callbackTransition(cb[h].have, cb[h].out)
       IN  /\ booking' = ApplyRow(booking, t)
           /\ \/ /\ ApplyResult(booking, t) = "applied"
                 /\ AfterApplied(h)
                 /\ accepted' = accepted \cup {cb[h].out}
              \/ /\ ApplyResult(booking, t) = "conflict"
                 /\ cb' = [cb EXCEPT ![h].pc = "reread", ![h].have = booking.status]
                 /\ UNCHANGED accepted
    /\ UNCHANGED <<noted, faults>>

\* One re-read: the winner may have said the same; a retry of ours may have
\* moved the row without making the outcome inapplicable.
RereadWinner(h) ==
    LET found == cb[h].have
        out   == cb[h].out
    IN  /\ In(h, "reread")
        /\ \/ /\ found = out.status /\ sameReference(booking, out)
              /\ Done(h)
           \/ /\ ~(found = out.status /\ sameReference(booking, out))
              /\ Settled(found) \/ ~CanMove(found, out.status)
              /\ Step(h, "refuse")
           \/ /\ ~Settled(found) /\ CanMove(found, out.status)
              /\ Step(h, "again")
        /\ UNCHANGED <<booking, noted, faults, accepted>>

\* The second try from the status found; losing twice is a conflict.
ApplyAgain(h) ==
    /\ In(h, "again")
    /\ LET t == callbackTransition(cb[h].have, cb[h].out)
       IN  /\ booking' = ApplyRow(booking, t)
           /\ \/ /\ ApplyResult(booking, t) = "applied"
                 /\ AfterApplied(h)
                 /\ accepted' = accepted \cup {cb[h].out}
              \/ /\ ApplyResult(booking, t) = "conflict"
                 /\ Step(h, "refuse")
                 /\ UNCHANGED accepted
    /\ UNCHANGED <<noted, faults>>

\* recordRefusal: the lineage keeps what was asserted.
RecordRefusal(h) ==
    /\ cb[h].pc \in {"note", "refuse"}
    /\ noted' = noted \cup ({cb[h].out.ref} \ {NoRef})
    /\ IF In(h, "refuse") THEN Step(h, "flag") ELSE Done(h)
    /\ UNCHANGED <<booking, faults, accepted>>

FlagForRecovery(h) ==
    /\ cb[h].pc \in {"flag", "unref"}
    /\ booking' = FlagRow(booking)
    /\ IF In(h, "unref") THEN Step(h, "signal") ELSE Done(h)
    /\ UNCHANGED <<noted, faults, accepted>>

\* A refusal, a flag or a signal that fails is logged and the handler goes on;
\* a failed re-read costs only the duplicate test.
BestEffortFails(h) ==
    /\ Fault
    /\ CASE In(h, "note")   -> Done(h)
         [] In(h, "refuse") -> Step(h, "flag")
         [] In(h, "flag")   -> Done(h)
         [] In(h, "unref")  -> Step(h, "signal")
         [] In(h, "signal") -> Done(h)
         [] In(h, "reread") -> Step(h, IF Settled(cb[h].have) \/ ~CanMove(cb[h].have, cb[h].out.status)
                                       THEN "refuse" ELSE "again")
         [] OTHER           -> FALSE
    /\ UNCHANGED <<booking, noted, accepted>>

\* The replica dies, or a transition fails for another reason than a conflict.
HandlerDies(h) ==
    /\ ~In(h, "idle")
    /\ Fault
    /\ Done(h)
    /\ UNCHANGED <<booking, noted, accepted>>

CallbackInit == /\ cb = [h \in Handlers |-> IdleHandler]
                /\ accepted = {}

\* The statements of a handler that has a callback in hand, except the signal,
\* which reaches into the execution (BookingLifecycle).
CallbackStep(h) ==
    \/ ApplyOutcome(h) \/ RereadWinner(h) \/ ApplyAgain(h)
    \/ RecordRefusal(h) \/ FlagForRecovery(h)

CallbackFault(h) == BestEffortFails(h) \/ HandlerDies(h)
=============================================================================
