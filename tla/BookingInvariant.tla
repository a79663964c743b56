--------------------------- MODULE BookingInvariant ---------------------------
(***************************************************************************)
(* Why a FAILED booking was never sent: the inductive invariant behind     *)
(* HonestFailure, PendingClearMeansUnsent and CountedCalls.  It says what  *)
(* the marker protocol keeps true of the row, of the answers that are on   *)
(* their way to it, and of the attempts that may reach the supplier.       *)
(* BookingInvariantProofs proves it; a run checks it first.  And why the   *)
(* row never contradicts a supplier that tells the truth: the invariant    *)
(* behind SupplierTruth, proved in CallbackProofs.                         *)
(***************************************************************************)
EXTENDS BookingLifecycle

\* The answers that are or may yet be persisted: the open execution's and those
\* of the late statements.
Answers == {run.ans} \cup {s.ans : s \in late}

\* What an answer claims about the attempt it came from.
SaysUnsent(ans) == ans.outcome \in {"NOT_SENT", "PRE_SEND_FAILURE"}

\* A booking that was never authorized counts nothing; a settled one has no
\* call outstanding.
RowShape == /\ booking.status = "RECEIVED" => booking.attempts = 0
            /\ Settled(booking.status) => booking.marker = NoMarker

\* Only counted attempts reach the supplier; while the booking is PENDING, only
\* the marked one; once it is FAILED, none.
ReachIsMarked == /\ MayReach \subseteq 1 .. booking.attempts
                 /\ booking.status = "PENDING" => MayReach \subseteq {booking.marker} \ {NoMarker}
                 /\ booking.status = "FAILED" => MayReach = {}

\* The worker inside supplier.Book has no answer yet, and nobody else sends for
\* its attempt.
CallIsOwn == At("call") => run.ans.outcome = "NONE" /\ run.ans.attempt \notin live

\* An answer that proves its attempt never left is right, for good; an answer
\* authorized in doubt outlives every PENDING.
AnswerHolds(ans) ==
    /\ ans.attempt <= booking.attempts
    /\ SaysUnsent(ans) => ans.attempt \notin MayReach
    /\ ans.from = "UNKNOWN" => booking.status \notin {"RECEIVED", "PENDING"}

AnswersHold == \A ans \in Answers : AnswerHolds(ans)

\* What is persisted is an answer.
PersistsAnAnswer ==
    /\ run.pc \in {"persist", "supersede"} => run.ans.outcome # "NONE"
    /\ \A s \in late : s.kind = "persist" => s.ans.outcome # "NONE"

\* Every budget in use is one that some deploy configured, and the attempts
\* counted never exceed the largest of them.
BudgetHolds ==
    /\ ~At("none") => run.budget \in Budgets
    /\ \A s \in late : s.budget \in Budgets
    /\ booking.attempts > 0 => \E budget \in Budgets : booking.attempts <= budget

\* docs/RFC.md:386-390.  The marker protocol: all of the above, in every state.
\* No step of an execution, of a late statement, of a callback or of the sweep
\* breaks it, so a cleared marker on a PENDING row is a proof of not sent.
MarkerProtocol == /\ RowShape
                  /\ ReachIsMarked
                  /\ CallIsOwn
                  /\ AnswersHold
                  /\ PersistsAnAnswer
                  /\ BudgetHolds

-----------------------------------------------------------------------------
\* What a confirmation or a rejection says, the supplier did, unless it is one
\* that says anything.
TrueWord(status) ==
    /\ status = "CONFIRMED" => decision \in {"reserved", "arbitrary"}
    /\ status = "REJECTED"  => decision \in {"declined", "arbitrary"}

\* The row, every answer on its way to it and every callback in hand repeat what
\* the supplier did, however stale they are; and it does something only once a
\* request of ours may have arrived.
Testimony == /\ TrueWord(booking.status)
             /\ \A ans \in Answers : TrueWord(ans.outcome)
             /\ \A h \in Handlers : TrueWord(cb[h].out.status)
             /\ decision \in {"reserved", "declined"} => sent # {}
=============================================================================
