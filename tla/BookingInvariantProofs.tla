------------------------ MODULE BookingInvariantProofs ------------------------
(***************************************************************************)
(* Proofs about BookingLifecycle: first what each statement does to the    *)
(* row, then the types, then the marker protocol and what follows from it. *)
(***************************************************************************)
EXTENDS BookingInvariant, TLAPS

-----------------------------------------------------------------------------
(* What each statement leaves in the row. *)

\* Apply leaves the row alone or moves it as the guard allows; it never touches
\* the count.
LEMMA ApplyRowEffect ==
    ASSUME NEW b, RowOK(b), NEW t, t.ref \in Refs \cup {NoRef}
    PROVE  /\ RowOK(ApplyRow(b, t))
           /\ ApplyRow(b, t).attempts = b.attempts
           /\ \/ ApplyRow(b, t) = b
              \/ /\ Guarded(b, t)
                 /\ ApplyRow(b, t).status = t.to
                 /\ ApplyRow(b, t).marker = NoMarker
<1>1. CASE ~Guarded(b, t)
  BY <1>1 DEF ApplyRow
<1>2. CASE Guarded(b, t)
  <2>1. t.to \in Statuses
    BY <1>2 DEF Guarded, CanMove, Successors, Statuses
  <2>2. (IF t.ref = NoRef THEN b.ref ELSE t.ref) \in Refs \cup {NoRef}
    BY DEF RowOK, Row
  <2>3. (IF t.unflag THEN FALSE ELSE b.flag) \in BOOLEAN
    BY DEF RowOK, Row
  <2>4. Moved(b, t) \in Row
    BY <2>1, <2>2, <2>3 DEF Moved, RowOK, Row, NoMarker
  <2>5. /\ Moved(b, t).attempts = b.attempts
        /\ Moved(b, t).status = t.to
        /\ Moved(b, t).marker = NoMarker
        /\ b.attempts \in Nat
    BY DEF Moved, RowOK, Row
  <2> QED
    BY <1>2, <2>4, <2>5 DEF ApplyRow, RowOK, NoMarker
<1> QED
  BY <1>1, <1>2

LEMMA ClearMarkerRowEffect ==
    ASSUME NEW b, RowOK(b), NEW attempt
    PROVE  /\ RowOK(ClearMarkerRow(b, attempt))
           /\ ClearMarkerRow(b, attempt).attempts = b.attempts
           /\ ClearMarkerRow(b, attempt).status = b.status
           /\ \/ ClearMarkerRow(b, attempt) = b
              \/ b.marker = attempt /\ ClearMarkerRow(b, attempt).marker = NoMarker
<1>1. CASE b.marker # attempt
  BY <1>1 DEF ClearMarkerRow, Owns
<1>2. CASE b.marker = attempt
  BY <1>2 DEF ClearMarkerRow, Owns, RowOK, Row, NoMarker
<1> QED
  BY <1>1, <1>2

LEMMA ResolveStaleMarkerRowEffect ==
    ASSUME NEW b, RowOK(b)
    PROVE  /\ RowOK(ResolveStaleMarkerRow(b))
           /\ ResolveStaleMarkerRow(b).attempts = b.attempts
           /\ \/ ResolveStaleMarkerRow(b) = b
              \/ /\ b.status \in {"PENDING", "UNKNOWN"}
                 /\ ResolveStaleMarkerRow(b).status = "UNKNOWN"
                 /\ ResolveStaleMarkerRow(b).marker = NoMarker
<1> DEFINE stale == b.marker # NoMarker /\ b.status \in {"PENDING", "UNKNOWN"}
<1>1. CASE ~stale
  BY <1>1 DEF ResolveStaleMarkerRow
<1>2. CASE stale
  <2>1. ResolveStaleMarkerRow(b) = [b EXCEPT !.status = "UNKNOWN", !.marker = NoMarker]
    BY <1>2 DEF ResolveStaleMarkerRow
  <2>2. "UNKNOWN" \in Statuses /\ NoMarker \in Nat
    BY DEF Statuses, NoMarker
  <2>3. ResolveStaleMarkerRow(b) \in Row
    BY <2>1, <2>2 DEF RowOK, Row
  <2> QED
    BY <1>2, <2>1, <2>3 DEF RowOK, Row, NoMarker
<1> QED
  BY <1>1, <1>2

\* An authorization counts the attempt and marks it.
LEMMA AuthorizeRowEffect ==
    ASSUME NEW b, RowOK(b)
    PROVE  /\ RowOK(AuthorizeRow(b))
           /\ AuthorizeRow(b).attempts = b.attempts + 1
           /\ AuthorizeRow(b).marker = b.attempts + 1
           /\ AuthorizeRow(b).status = IF b.status = "RECEIVED" THEN "PENDING" ELSE b.status
<1>1. b.attempts \in Nat /\ b.attempts + 1 \in Nat
  BY DEF RowOK, Row
<1>2. (IF b.status = "RECEIVED" THEN "PENDING" ELSE b.status) \in Statuses
  BY DEF RowOK, Row, Statuses
<1>3. AuthorizeRow(b) \in Row
  BY <1>1, <1>2 DEF AuthorizeRow, RowOK, Row
<1>4. /\ AuthorizeRow(b).attempts = b.attempts + 1
      /\ AuthorizeRow(b).marker = b.attempts + 1
      /\ AuthorizeRow(b).status = IF b.status = "RECEIVED" THEN "PENDING" ELSE b.status
  BY DEF AuthorizeRow, RowOK, Row
<1> QED
  BY <1>1, <1>3, <1>4 DEF RowOK

\* A flag changes nothing else.
LEMMA FlagRowEffect ==
    ASSUME NEW b, RowOK(b)
    PROVE  /\ RowOK(FlagRow(b))
           /\ FlagRow(b).attempts = b.attempts
           /\ FlagRow(b).status = b.status
           /\ FlagRow(b).marker = b.marker
  BY DEF FlagRow, RowOK, Row

LEMMA ParkRowEffect ==
    ASSUME NEW b, RowOK(b)
    PROVE  /\ RowOK(ParkRow(b))
           /\ ParkRow(b).attempts = b.attempts
           /\ ParkRow(b).status = b.status
           /\ ParkRow(b).marker = b.marker
  BY DEF ParkRow, RowOK, Row

\* Calling a booking unreachable needs PENDING and a clear marker.
LEMMA UnreachableEffect ==
    ASSUME NEW b, RowOK(b)
    PROVE  /\ RowOK(ApplyRow(b, Unreachable))
           /\ ApplyRow(b, Unreachable).attempts = b.attempts
           /\ \/ ApplyRow(b, Unreachable) = b
              \/ /\ b.status = "PENDING"
                 /\ b.marker = NoMarker
                 /\ ApplyRow(b, Unreachable).status = "FAILED"
                 /\ ApplyRow(b, Unreachable).marker = NoMarker
<1>1. Unreachable.ref \in Refs \cup {NoRef}
  BY DEF Unreachable
<1>2. Guarded(b, Unreachable) => b.status = "PENDING" /\ b.marker = NoMarker
  BY DEF Guarded, MarkerHolds, Unreachable
<1>3. Unreachable.to = "FAILED"
  BY DEF Unreachable
<1> QED
  BY <1>1, <1>2, <1>3, ApplyRowEffect

\* An answer that is persisted leaves the row alone, settles it by the
\* supplier's word, puts it in doubt, fails it or ends its attempt; it can do
\* any of that only to the attempt it owns.
LEMMA PersistRowEffect ==
    ASSUME NEW b, RowOK(b), NEW ans \in Answer
    PROVE  /\ RowOK(PersistRow(b, ans))
           /\ PersistRow(b, ans).attempts = b.attempts
           /\ \/ PersistRow(b, ans) = b
              \/ /\ b.marker = ans.attempt
                 /\ PersistRow(b, ans).marker = NoMarker
                 /\ ~Settled(b.status)
                 /\ PersistRow(b, ans).status \in {"CONFIRMED", "REJECTED", "UNKNOWN"}
              \/ /\ b.marker = ans.attempt
                 /\ PersistRow(b, ans).marker = NoMarker
                 /\ b.status = "PENDING"
                 /\ PersistRow(b, ans).status = "FAILED"
                 /\ ans.outcome \in {"PRE_SEND_FAILURE", "NONE"}
              \/ /\ b.marker = ans.attempt
                 /\ PersistRow(b, ans).marker = NoMarker
                 /\ PersistRow(b, ans).status = b.status
                 /\ ClearsOnly(ans)
<1>1. CASE ans.outcome \in Refusals
  BY <1>1 DEF PersistRow
<1>2. CASE ans.outcome \notin Refusals /\ ClearsOnly(ans)
  BY <1>2, ClearMarkerRowEffect DEF PersistRow
<1>3. CASE ans.outcome \notin Refusals /\ ~ClearsOnly(ans)
  <2> DEFINE t == AnswerTransition(ans)
  <2>1. t.ref \in Refs \cup {NoRef}
    BY DEF AnswerTransition, Answer
  <2>2. PersistRow(b, ans) = ApplyRow(b, t)
    BY <1>3 DEF PersistRow
  <2>3. Guarded(b, t) => /\ b.marker = ans.attempt
                         /\ b.status = t.from
                         /\ CanMove(t.from, t.to)
    BY DEF Guarded, MarkerHolds, AnswerTransition
  <2>4. CASE ans.outcome \in {"CONFIRMED", "REJECTED"}
    <3>1. t.from = ans.from /\ t.to = ans.outcome
      BY <2>4 DEF AnswerTransition
    <3>2. ~Settled(ans.from)
      BY DEF Answer, Settled, SettledStatuses
    <3> QED
      BY <2>1, <2>2, <2>3, <2>4, <3>1, <3>2, ApplyRowEffect
  <2>5. CASE ans.outcome = "AMBIGUOUS"
    <3>1. t.from = "PENDING" /\ t.to = "UNKNOWN"
      BY <2>5 DEF AnswerTransition
    <3>2. ~Settled("PENDING")
      BY DEF Settled, SettledStatuses
    <3> QED
      BY <2>1, <2>2, <2>3, <3>1, <3>2, ApplyRowEffect
  <2>6. CASE ans.outcome \in {"PRE_SEND_FAILURE", "NONE"}
    <3>1. t.from = "PENDING" /\ t.to = "FAILED"
      BY <2>6 DEF AnswerTransition
    <3> QED
      BY <2>1, <2>2, <2>3, <2>6, <3>1, ApplyRowEffect
  <2>7. ans.outcome # "NOT_SENT"
    BY <1>3 DEF ClearsOnly
  <2> QED
    BY <1>3, <2>4, <2>5, <2>6, <2>7 DEF Answer, CallOutcomes
<1> QED
  BY <1>1, <1>2, <1>3

LEMMA LateRowEffect ==
    ASSUME NEW b, RowOK(b), NEW s \in Statement
    PROVE  RowOK(LateRow(b, s)) /\ LateRow(b, s).attempts >= b.attempts
<1>0. b.attempts \in Nat
  BY DEF RowOK, Row
<1>1. CASE s.kind = "resolve"
  BY <1>0, <1>1, ResolveStaleMarkerRowEffect DEF LateRow
<1>2. CASE s.kind = "authorize"
  BY <1>0, <1>2, AuthorizeRowEffect DEF LateRow
<1>3. CASE s.kind = "persist"
  <2>1. s.ans \in Answer
    BY DEF Statement
  <2> QED
    BY <1>0, <1>3, <2>1, PersistRowEffect DEF LateRow
<1>4. CASE s.kind = "parkFail"
  BY <1>0, <1>4, UnreachableEffect DEF LateRow
<1>5. CASE s.kind = "parkFlag"
  BY <1>0, <1>5, ParkRowEffect DEF LateRow
<1> QED
  BY <1>1, <1>2, <1>3, <1>4, <1>5 DEF Statement

-----------------------------------------------------------------------------
(* Types. *)

LEMMA AnswerTypes ==
    /\ NoAnswer \in Answer
    /\ NoRun \in Execution
    /\ \A budget \in Budgets : Started(budget) \in Execution
    /\ \A why \in Refusals : Refused(why) \in Answer
<1>1. NoAnswer \in Answer
  BY DEF NoAnswer, Answer
<1>2. NoRun \in Execution /\ \A budget \in Budgets : Started(budget) \in Execution
  BY <1>1, BudgetsAssumption DEF NoRun, Started, Execution, PCs
<1>3. \A why \in Refusals : Refused(why) \in Answer
  BY <1>1 DEF Refused, Answer
<1> QED
  BY <1>1, <1>2, <1>3

LEMMA RefusalType ==
    ASSUME NEW b, NEW budget PROVE Refusal(b, budget) \in Refusals
  BY DEF Refusal, Refusals

\* Moving the program counter, with or without another answer.
LEMMA GotoType ==
    ASSUME RunTypeOK, NEW pc \in PCs, NEW ans \in Answer, NEW loop \in Nat
    PROVE  /\ [run EXCEPT !.pc = pc] \in Execution
           /\ [run EXCEPT !.pc = pc, !.ans = ans] \in Execution
           /\ [run EXCEPT !.pc = pc, !.loop = loop] \in Execution
  BY DEF RunTypeOK, Execution

LEMMA ContinueType ==
    ASSUME RunTypeOK, NEW v, Continue(AfterVerdict(v))
    PROVE  run' \in Execution
<1>1. AfterVerdict(v) \in {"none", "supersede", "sleep", "parkRead"}
  BY DEF AfterVerdict
<1>2. CASE AfterVerdict(v) = "none"
  BY <1>2, AnswerTypes DEF Continue
<1>3. CASE AfterVerdict(v) = "supersede"
  BY <1>3, GotoType, AnswerTypes DEF Continue, PCs
<1>4. CASE AfterVerdict(v) \in {"sleep", "parkRead"}
  BY <1>4, GotoType, AnswerTypes DEF Continue, PCs
<1> QED
  BY <1>1, <1>2, <1>3, <1>4

\* What a step of an execution changes besides its own state keeps its type.
LEMMA RunStepTypes ==
    ASSUME TypeOK, Run PROVE StoreTypeOK' /\ RunTypeOK'
<1> USE DEF TypeOK
<1>1. CASE ResolveStaleMarker
  BY <1>1, ResolveStaleMarkerRowEffect, GotoType, AnswerTypes
     DEF ResolveStaleMarker, StoreTypeOK, RunTypeOK, Goto, PCs
<1>2. CASE LoadStatus
  BY <1>2, GotoType, AnswerTypes DEF LoadStatus, StoreTypeOK, RunTypeOK, Close, PCs
<1>3. CASE ReadBeforeAuthorizing
  BY <1>3, GotoType, AnswerTypes
     DEF ReadBeforeAuthorizing, StoreTypeOK, RunTypeOK, Goto, PCs, Refusals
<1>4. CASE Authorize
  <2> DEFINE ans == [NoAnswer EXCEPT !.attempt = booking'.attempts, !.from = booking'.status]
  <2>1. RowOK(booking')
    BY <1>4, AuthorizeRowEffect DEF Authorize, StoreTypeOK
  <2>2. booking'.status \in {"RECEIVED", "PENDING", "UNKNOWN"} /\ booking'.attempts \in Nat
    BY <1>4, <2>1, AuthorizeRowEffect DEF Authorize, StoreTypeOK, MayAuthorize, RowOK, Row
  <2>3. ans \in Answer
    BY <2>2, AnswerTypes DEF Answer
  <2>4. run' = [run EXCEPT !.pc = "call", !.ans = ans]
    BY <1>4 DEF Authorize
  <2> HIDE DEF ans
  <2>5. run' \in Execution
    BY <2>3, <2>4, GotoType, AnswerTypes DEF RunTypeOK, PCs
  <2> QED
    BY <1>4, <2>1, <2>5 DEF Authorize, StoreTypeOK, RunTypeOK
<1>5. CASE AuthorizeRefused
  BY <1>5, GotoType, AnswerTypes, RefusalType
     DEF AuthorizeRefused, StoreTypeOK, RunTypeOK, PCs
<1>6. CASE BytesLeave
  BY <1>6 DEF BytesLeave, StoreTypeOK, RunTypeOK, Execution, Answer
<1>7. CASE Book
  <2>1. PICK o \in CallOutcomes, r \in Refs \cup {NoRef} : BookReturns(o, r)
    BY <1>7 DEF Book
  <2>2. run' \in Execution
    BY <2>1 DEF BookReturns, RunTypeOK, Execution, Answer, PCs
  <2> QED
    BY <2>1, <2>2 DEF BookReturns, StoreTypeOK, RunTypeOK
<1>8. CASE Persist
  <2>1. run.ans \in Answer
    BY DEF RunTypeOK, Execution
  <2> QED
    BY <1>8, <2>1, PersistRowEffect, ContinueType DEF Persist, StoreTypeOK, RunTypeOK
<1>9. CASE RecordSuperseded
  BY <1>9, AnswerTypes
     DEF RecordSuperseded, Evidence, Close, StoreTypeOK, RunTypeOK, Execution, Answer
<1>10. CASE RetryDelayOver
  <2>1. run.loop + 1 \in Nat
    BY DEF RunTypeOK, Execution
  <2> QED
    BY <1>10, <2>1, GotoType, AnswerTypes DEF RetryDelayOver, StoreTypeOK, RunTypeOK, PCs
<1>11. CASE ParkRead
  BY <1>11, GotoType, AnswerTypes DEF ParkRead, StoreTypeOK, RunTypeOK, Goto, PCs
<1>12. CASE ParkFail
  BY <1>12, UnreachableEffect, GotoType, AnswerTypes
     DEF ParkFail, StoreTypeOK, RunTypeOK, Goto, Close, PCs
<1>13. CASE ParkFlag
  BY <1>13, ParkRowEffect, GotoType, AnswerTypes
     DEF ParkFlag, StoreTypeOK, RunTypeOK, Goto, Close, PCs
<1>14. CASE AwaitOutcome
  BY <1>14, GotoType, AnswerTypes DEF AwaitOutcome, Goto, StoreTypeOK, RunTypeOK, PCs
<1>15. CASE WokenBySignal \/ ParkTimerFires
  BY <1>15, AnswerTypes DEF WokenBySignal, ParkTimerFires, StoreTypeOK, RunTypeOK, Close
<1> QED
  BY <1>1, <1>2, <1>3, <1>4, <1>5, <1>6, <1>7, <1>8, <1>9, <1>10, <1>11, <1>12, <1>13, <1>14, <1>15
     DEF Run

LEMMA FaultType == StoreTypeOK /\ Fault => faults' \in 0 .. MaxFaults
  BY MaxFaultsAssumption DEF StoreTypeOK, Fault

LEMMA RunFaultTypes ==
    ASSUME TypeOK, RunFault PROVE StoreTypeOK' /\ RunTypeOK'
<1> USE DEF TypeOK
<1>1. run.ans \in Answer /\ run.ans.attempt \in Nat /\ run.budget \in Nat
  BY DEF RunTypeOK, Execution, Answer
<1>2. CASE RunCloses
  BY <1>1, <1>2, AnswerTypes, FaultType DEF RunCloses, Close, StoreTypeOK, RunTypeOK
<1>3. CASE TryTimesOut
  <2> DEFINE left == [kind |-> run.pc, budget |-> run.budget, ans |-> run.ans]
  <2>1. left \in Statement
    BY <1>1, <1>3 DEF TryTimesOut, Statement
  <2>2. late' = late \cup {left}
    BY <1>3 DEF TryTimesOut
  <2> HIDE DEF left
  <2>3. late' \subseteq Statement
    BY <2>1, <2>2 DEF RunTypeOK
  <2>4. run' \in Execution
    <3>1. CASE At("authorize")
      BY <1>3, <3>1, AnswerTypes DEF TryTimesOut, Close, At
    <3>2. CASE run.pc \in {"parkFail", "parkFlag"}
      BY <1>3, <3>2, GotoType, AnswerTypes DEF TryTimesOut, Goto, At, PCs
    <3>3. CASE run.pc \in {"resolve", "persist"}
      BY <1>3, <3>3 DEF TryTimesOut, At, RunTypeOK
    <3> QED
      BY <1>3, <3>1, <3>2, <3>3 DEF TryTimesOut, At
  <2> QED
    BY <1>3, <2>3, <2>4, FaultType DEF TryTimesOut, StoreTypeOK, RunTypeOK
<1>4. CASE TryFails
  BY <1>4, GotoType, AnswerTypes, FaultType DEF TryFails, Goto, StoreTypeOK, RunTypeOK, PCs
<1>5. ASSUME NEW s \in late, LateCommits(s) PROVE StoreTypeOK' /\ RunTypeOK'
  <2>1. s \in Statement /\ s.ans.ref \in Refs \cup {NoRef}
    BY DEF RunTypeOK, Statement, Answer
  <2>2. RowOK(booking') /\ booking'.attempts \in Nat
    BY <1>5, <2>1, LateRowEffect DEF LateCommits, StoreTypeOK, RowOK, Row
  <2>3. noted' \subseteq Refs
    BY <1>5, <2>1 DEF LateCommits, StoreTypeOK, Evidence
  <2>4. live' \subseteq Nat
    BY <1>5, <2>2 DEF LateCommits, RunTypeOK
  <2> QED
    BY <1>5, <2>2, <2>3, <2>4 DEF LateCommits, StoreTypeOK, RunTypeOK
<1>6. ASSUME NEW attempt \in live, LateSend(attempt) PROVE StoreTypeOK' /\ RunTypeOK'
  BY <1>6 DEF LateSend, StoreTypeOK, RunTypeOK
<1> QED
  BY <1>2, <1>3, <1>4, <1>5, <1>6 DEF RunFault

\* A callback leaves the count and the marker protocol alone: it moves the row
\* to the status it reports, superseding any marker, or flags it.
LEMMA CallbackApplyEffect ==
    ASSUME CallbackTypeOK, NEW b, RowOK(b), NEW h \in Handlers
    PROVE  LET row == ApplyRow(b, callbackTransition(cb[h].have, cb[h].out))
           IN  /\ RowOK(row)
               /\ row.attempts = b.attempts
               /\ \/ row = b
                  \/ /\ row.status \in {"CONFIRMED", "REJECTED"}
                     /\ row.marker = NoMarker
<1> DEFINE t == callbackTransition(cb[h].have, cb[h].out)
<1>1. cb[h].out \in Callback \cup {NoCallback}
  BY DEF CallbackTypeOK, Handler
<1>2. cb[h].out.ref \in Refs \cup {NoRef} /\ cb[h].out.status \in {"CONFIRMED", "REJECTED", "OTHER"}
  <2>1. CASE cb[h].out \in Callback
    BY <2>1, VocabularyAssumption DEF Callback
  <2>2. CASE cb[h].out = NoCallback
    BY <2>2 DEF NoCallback
  <2> QED
    BY <1>1, <2>1, <2>2
<1>3. t.ref \in Refs \cup {NoRef} /\ t.to \in {"CONFIRMED", "REJECTED", "OTHER"}
  BY <1>2 DEF callbackTransition, outcomeReference
<1>4. Guarded(b, t) => t.to \in {"CONFIRMED", "REJECTED"}
  BY <1>3 DEF Guarded, CanMove, Successors
<1> QED
  BY <1>3, <1>4, ApplyRowEffect

\* A handler keeps its type through any of the updates made to it.
LEMMA DoneType ==
    ASSUME CallbackTypeOK, NEW h \in Handlers, Done(h)
    PROVE  cb' \in [Handlers -> Handler]
<1>1. IdleHandler \in Handler
  BY DEF IdleHandler, Handler, HandlerPCs, Statuses
<1> QED
  BY <1>1 DEF CallbackTypeOK, Done

LEMMA StepType ==
    ASSUME CallbackTypeOK, NEW h \in Handlers, NEW pc \in HandlerPCs, Step(h, pc)
    PROVE  cb' \in [Handlers -> Handler]
<1>1. [cb[h] EXCEPT !.pc = pc] \in Handler
  BY DEF CallbackTypeOK, Handler
<1> QED
  BY <1>1 DEF CallbackTypeOK, Step

LEMMA RereadType ==
    ASSUME CallbackTypeOK, NEW h \in Handlers, NEW have \in Statuses,
           cb' = [cb EXCEPT ![h].pc = "reread", ![h].have = have]
    PROVE  cb' \in [Handlers -> Handler]
<1>1. [cb[h] EXCEPT !.pc = "reread", !.have = have] \in Handler
  BY DEF CallbackTypeOK, Handler, HandlerPCs
<1> QED
  BY <1>1 DEF CallbackTypeOK

LEMMA AfterAppliedType ==
    ASSUME CallbackTypeOK, NEW h \in Handlers, AfterApplied(h)
    PROVE  cb' \in [Handlers -> Handler]
<1>1. (IF cb[h].out = [status |-> "CONFIRMED", ref |-> NoRef] THEN "unref" ELSE "signal") \in HandlerPCs
  BY DEF HandlerPCs
<1> QED
  BY <1>1, StepType DEF AfterApplied

\* A callback that arrives keeps the types.
LEMMA DeliverTypes ==
    ASSUME TypeOK, NEW h \in Handlers, Deliver(h)
    PROVE  CallbackTypeOK' /\ UNCHANGED storeVars
<1>1. PICK out \in Callback : Receive(h, out)
  BY DEF Deliver
<1>2. FirstStep(booking, out) \in HandlerPCs
  BY DEF FirstStep, HandlerPCs
<1>3. booking.status \in Statuses
  BY DEF TypeOK, StoreTypeOK, RowOK, Row
<1>4. [pc |-> FirstStep(booking, out), out |-> out, have |-> booking.status] \in Handler
  BY <1>2, <1>3 DEF Handler
<1>5. cb' = [cb EXCEPT ![h] = [pc |-> FirstStep(booking, out), out |-> out, have |-> booking.status]]
  BY <1>1 DEF Receive
<1>6. cb' \in [Handlers -> Handler]
  BY <1>4, <1>5 DEF TypeOK, CallbackTypeOK
<1> QED
  BY <1>1, <1>6 DEF Receive, TypeOK, CallbackTypeOK, storeVars

\* The steps of a handler change the row as a callback may, or flag it.
LEMMA CallbackStepTypes ==
    ASSUME TypeOK, NEW h \in Handlers, CallbackStep(h)
    PROVE  StoreTypeOK' /\ CallbackTypeOK'
<1> USE DEF TypeOK
<1> DEFINE out == cb[h].out
<1>1. out \in Callback \cup {NoCallback} /\ cb[h].have \in Statuses
  BY DEF CallbackTypeOK, Handler
<1>2. out.ref \in Refs \cup {NoRef}
  <2>1. CASE out \in Callback
    BY <2>1 DEF Callback
  <2>2. CASE out = NoCallback
    BY <2>2 DEF NoCallback
  <2> QED
    BY <1>1, <2>1, <2>2
<1>3. booking.status \in Statuses
  BY DEF StoreTypeOK, RowOK, Row
<1>4. ASSUME ApplyResult(booking, callbackTransition(cb[h].have, out)) = "applied"
      PROVE  accepted \cup {out} \subseteq Callback
  <2>1. out # NoCallback
    BY <1>4 DEF ApplyResult, callbackTransition, NoCallback, CanMove, Successors
  <2> QED
    BY <1>1, <2>1 DEF CallbackTypeOK
<1>5. CASE ApplyOutcome(h)
  <2>1. cb' \in [Handlers -> Handler]
    BY <1>3, <1>5, AfterAppliedType, RereadType DEF ApplyOutcome
  <2>2. accepted' \subseteq Callback
    BY <1>4, <1>5 DEF ApplyOutcome, CallbackTypeOK
  <2> QED
    BY <1>5, <2>1, <2>2, CallbackApplyEffect DEF ApplyOutcome, StoreTypeOK, CallbackTypeOK
<1>6. CASE RereadWinner(h)
  <2>1. cb' \in [Handlers -> Handler]
    BY <1>6, DoneType, StepType DEF RereadWinner, HandlerPCs
  <2> QED
    BY <1>6, <2>1 DEF RereadWinner, StoreTypeOK, CallbackTypeOK
<1>7. CASE ApplyAgain(h)
  <2>1. cb' \in [Handlers -> Handler]
    BY <1>7, AfterAppliedType, StepType DEF ApplyAgain, HandlerPCs
  <2>2. accepted' \subseteq Callback
    BY <1>4, <1>7 DEF ApplyAgain, CallbackTypeOK
  <2> QED
    BY <1>7, <2>1, <2>2, CallbackApplyEffect DEF ApplyAgain, StoreTypeOK, CallbackTypeOK
<1>8. CASE RecordRefusal(h)
  <2>1. cb' \in [Handlers -> Handler]
    BY <1>8, DoneType, StepType DEF RecordRefusal, HandlerPCs
  <2> QED
    BY <1>2, <1>8, <2>1 DEF RecordRefusal, StoreTypeOK, CallbackTypeOK
<1>9. CASE FlagForRecovery(h)
  <2>1. cb' \in [Handlers -> Handler]
    BY <1>9, DoneType, StepType DEF FlagForRecovery, HandlerPCs
  <2> QED
    BY <1>9, <2>1, FlagRowEffect DEF FlagForRecovery, StoreTypeOK, CallbackTypeOK
<1> QED
  BY <1>5, <1>6, <1>7, <1>8, <1>9 DEF CallbackStep

LEMMA CallbackFaultTypes ==
    ASSUME TypeOK, NEW h \in Handlers, CallbackFault(h)
    PROVE  StoreTypeOK' /\ CallbackTypeOK'
<1> USE DEF TypeOK
<1>1. cb[h].have \in Statuses
  BY DEF CallbackTypeOK, Handler
<1>2. CASE BestEffortFails(h)
  <2>1. cb' \in [Handlers -> Handler]
    <3>1. \/ Done(h)
          \/ \E pc \in HandlerPCs : Step(h, pc)
      BY <1>2 DEF BestEffortFails, In, HandlerPCs
    <3> QED
      BY <3>1, DoneType, StepType
  <2> QED
    BY <1>2, <2>1, FaultType DEF BestEffortFails, StoreTypeOK, CallbackTypeOK
<1>3. CASE HandlerDies(h)
  <2>1. cb' \in [Handlers -> Handler]
    BY <1>3, DoneType DEF HandlerDies
  <2> QED
    BY <1>3, <2>1, FaultType DEF HandlerDies, StoreTypeOK, CallbackTypeOK
<1> QED
  BY <1>2, <1>3 DEF CallbackFault

LEMMA SignalTypes ==
    ASSUME TypeOK, NEW h \in Handlers, SignalOutcome(h)
    PROVE  RunTypeOK' /\ CallbackTypeOK'
<1>1. cb' \in [Handlers -> Handler]
  BY DoneType DEF SignalOutcome, TypeOK
<1> QED
  BY <1>1 DEF SignalOutcome, TypeOK, RunTypeOK, CallbackTypeOK

LEMMA RestartTypes ==
    ASSUME TypeOK, RestartStale PROVE RunTypeOK'
  BY AnswerTypes DEF RestartStale, StartBooking, TypeOK, RunTypeOK

LEMMA StutterTypes ==
    /\ StoreTypeOK /\ UNCHANGED storeVars => StoreTypeOK'
    /\ RunTypeOK /\ UNCHANGED runVars => RunTypeOK'
    /\ CallbackTypeOK /\ UNCHANGED callbackVars => CallbackTypeOK'
  BY DEF storeVars, runVars, callbackVars, StoreTypeOK, RunTypeOK, CallbackTypeOK

LEMMA InitTypes == Init => TypeOK
<1> SUFFICES ASSUME Init PROVE TypeOK
  OBVIOUS
<1>1. StoreTypeOK
  BY MaxFaultsAssumption DEF Init, StoreTypeOK, RowOK, NewRow, Row, Statuses, NoMarker
<1>2. RunTypeOK
  BY AnswerTypes DEF Init, RunInit, RunTypeOK
<1>3. IdleHandler \in Handler
  BY DEF IdleHandler, Handler, HandlerPCs, Statuses
<1>4. CallbackTypeOK
  BY <1>3 DEF Init, CallbackInit, CallbackTypeOK
<1> QED
  BY <1>1, <1>2, <1>4, SuppliersAssumption DEF Init, TypeOK

LEMMA NextTypes == TypeOK /\ [Next]_vars => TypeOK'
<1> SUFFICES ASSUME TypeOK, [Next]_vars PROVE TypeOK'
  OBVIOUS
<1> USE DEF TypeOK
<1>1. CASE Run
  BY <1>1, RunStepTypes, StutterTypes DEF Run
<1>2. CASE Environment
  BY <1>2, RunFaultTypes, StutterTypes DEF Environment
<1>3. CASE FindStale
  BY <1>3, StutterTypes DEF FindStale
<1>4. CASE RestartStale
  BY <1>4, RestartTypes, StutterTypes DEF RestartStale
<1>5. CASE SweepGivesUp
  BY <1>5, FaultType, StutterTypes DEF SweepGivesUp, StoreTypeOK
<1>6. ASSUME NEW d \in {"reserved", "declined"}, Decide(d) PROVE TypeOK'
  BY <1>6, StutterTypes DEF Decide
<1>7. ASSUME NEW h \in Handlers, Deliver(h) PROVE TypeOK'
  BY <1>7, DeliverTypes, StutterTypes DEF Deliver
<1>8. ASSUME NEW h \in Handlers, Handle(h) PROVE TypeOK'
  <2>1. CASE CallbackStep(h) /\ UNCHANGED <<runVars, picked, decision>>
    BY <2>1, CallbackStepTypes, StutterTypes
  <2>2. CASE SignalOutcome(h)
    <3>1. UNCHANGED <<storeVars, picked, decision>>
      BY <2>2 DEF SignalOutcome
    <3> QED
      BY <2>2, <3>1, SignalTypes, StutterTypes
  <2> QED
    BY <1>8, <2>1, <2>2 DEF Handle
<1>9. ASSUME NEW h \in Handlers, HandlerFails(h) PROVE TypeOK'
  BY <1>9, CallbackFaultTypes, StutterTypes DEF HandlerFails
<1>10. CASE UNCHANGED vars
  BY <1>10, StutterTypes DEF vars
<1> QED
  BY <1>1, <1>2, <1>3, <1>4, <1>5, <1>6, <1>7, <1>8, <1>9, <1>10 DEF Next

\* Every variable keeps its type, and a marker always numbers an attempt the
\* row counts, whatever dies, retries or arrives late.
THEOREM TypesHold == Spec => []TypeOK
  BY InitTypes, NextTypes, PTL DEF Spec

-----------------------------------------------------------------------------
(* The marker protocol.  Seen from the row, every step of the system is one   *)
(* of five: the row keeps its status, count and marker; it goes into doubt or *)
(* settles by the supplier's word; it fails, with nothing out; an attempt     *)
(* ends without moving it; an attempt is authorized.                          *)

Untouched == /\ booking'.status = booking.status
             /\ booking'.attempts = booking.attempts
             /\ booking'.marker = booking.marker
             /\ MayReach' \subseteq MayReach

Answered == /\ booking'.status \in {"UNKNOWN", "CONFIRMED", "REJECTED"}
            /\ booking'.attempts = booking.attempts
            /\ booking'.marker = NoMarker
            /\ MayReach' \subseteq MayReach

Failed == /\ booking'.status = "FAILED"
          /\ booking'.attempts = booking.attempts
          /\ booking'.marker = NoMarker
          /\ MayReach' = {}

Ended == /\ booking'.status = booking.status
         /\ booking'.attempts = booking.attempts
         /\ booking'.marker = NoMarker
         /\ MayReach' \subseteq MayReach
         /\ booking.status = "PENDING" => MayReach' = {}

Authorized == /\ booking.marker = NoMarker
              /\ booking.status \in {"RECEIVED", "PENDING", "UNKNOWN"}
              /\ booking'.status = IF booking.status = "RECEIVED" THEN "PENDING" ELSE booking.status
              /\ booking'.attempts = booking.attempts + 1
              /\ booking'.marker = booking.attempts + 1
              /\ MayReach' \subseteq MayReach \cup {booking.attempts + 1}

RowStep == Untouched \/ Answered \/ Failed \/ Ended \/ Authorized

\* The row's part of the protocol survives each of the five.
LEMMA RowStepKeepsReach ==
    ASSUME TypeOK, TypeOK', RowShape, ReachIsMarked, RowStep
    PROVE  RowShape' /\ ReachIsMarked'
<1>1. /\ booking.attempts \in Nat /\ booking.marker \in Nat /\ booking.status \in Statuses
      /\ booking'.attempts \in Nat /\ booking'.marker \in Nat /\ booking'.status \in Statuses
  BY DEF TypeOK, StoreTypeOK, RowOK, Row
<1> USE DEF RowShape, ReachIsMarked, Settled, SettledStatuses, NoMarker
<1>2. CASE Untouched
  BY <1>1, <1>2 DEF Untouched
<1>3. CASE Answered
  BY <1>1, <1>3 DEF Answered
<1>4. CASE Failed
  BY <1>1, <1>4 DEF Failed
<1>5. CASE Ended
  BY <1>1, <1>5 DEF Ended
<1>6. CASE Authorized
  <2>1. MayReach' \subseteq 1 .. booking'.attempts
    BY <1>1, <1>6 DEF Authorized
  <2>2. booking'.status = "PENDING" => MayReach' \subseteq {booking'.marker}
    BY <1>1, <1>6 DEF Authorized
  <2> QED
    BY <1>1, <1>6, <2>1, <2>2 DEF Authorized
<1> QED
  BY <1>2, <1>3, <1>4, <1>5, <1>6 DEF RowStep

\* An answer that held still holds after each of the five.
LEMMA RowStepKeepsAnswer ==
    ASSUME TypeOK, TypeOK', RowStep, NEW ans \in Answer, AnswerHolds(ans)
    PROVE  AnswerHolds(ans)'
<1>1. /\ booking.attempts \in Nat /\ booking'.attempts \in Nat /\ ans.attempt \in Nat
  BY DEF TypeOK, StoreTypeOK, RowOK, Row, Answer
<1>2. booking'.attempts >= booking.attempts
  BY <1>1 DEF RowStep, Untouched, Answered, Failed, Ended, Authorized
<1>3. MayReach' \subseteq MayReach \cup {booking.attempts + 1}
  BY DEF RowStep, Untouched, Answered, Failed, Ended, Authorized
<1>4. booking.status \notin {"RECEIVED", "PENDING"} => booking'.status \notin {"RECEIVED", "PENDING"}
  BY DEF RowStep, Untouched, Answered, Failed, Ended, Authorized
<1> QED
  BY <1>1, <1>2, <1>3, <1>4 DEF AnswerHolds

\* What a step has to show beyond being one of the five.
NewAnswersHold == \A ans \in Answers' : ans \in Answers \/ AnswerHolds(ans)'

LEMMA ProtocolStep ==
    ASSUME TypeOK, TypeOK', MarkerProtocol, RowStep, NewAnswersHold,
           CallIsOwn', PersistsAnAnswer', BudgetHolds'
    PROVE  MarkerProtocol'
<1>1. Answers \subseteq Answer
  BY DEF Answers, TypeOK, RunTypeOK, Execution, Statement
<1>2. AnswersHold'
  BY <1>1, RowStepKeepsAnswer DEF MarkerProtocol, AnswersHold, NewAnswersHold
<1> QED
  BY <1>2, RowStepKeepsReach DEF MarkerProtocol

\* The empty answer and the refusals claim nothing.
LEMMA EmptyAnswersHold ==
    ASSUME TypeOK', NEW ans \in Answer,
           ans = NoAnswer \/ \E why \in Refusals : ans = Refused(why)
    PROVE  AnswerHolds(ans)'
<1>1. ans.attempt = 0 /\ ans.from = "RECEIVED" /\ ~SaysUnsent(ans)
  BY DEF NoAnswer, Refused, SaysUnsent, Refusals
<1>2. booking'.attempts \in Nat
  BY DEF TypeOK, StoreTypeOK, RowOK, Row
<1> QED
  BY <1>1, <1>2 DEF AnswerHolds

\* Steps of the execution that neither call nor persist, nor touch what other
\* workers may still do.
Quiet == /\ run'.pc \notin {"call", "persist", "supersede"}
         /\ run'.ans = run.ans \/ run'.ans = NoAnswer
         /\ run'.pc # "none" => ~At("none") /\ run'.budget = run.budget
         /\ UNCHANGED <<late, live, sent>>

LEMMA QuietStep ==
    ASSUME TypeOK, TypeOK', MarkerProtocol, Quiet, booking'.attempts = booking.attempts
    PROVE  /\ MayReach' \subseteq MayReach
           /\ NewAnswersHold /\ CallIsOwn' /\ PersistsAnAnswer' /\ BudgetHolds'
<1>1. MayReach' \subseteq MayReach
  BY DEF Quiet, MayReach, At
<1>2. NewAnswersHold
  <2>1. \A ans \in Answers' : ans \in Answers \/ ans = NoAnswer
    BY DEF Quiet, Answers
  <2> QED
    BY <2>1, EmptyAnswersHold, AnswerTypes DEF NewAnswersHold
<1>3. CallIsOwn' /\ PersistsAnAnswer'
  BY DEF Quiet, CallIsOwn, PersistsAnAnswer, MarkerProtocol, At
<1>4. BudgetHolds'
  BY DEF Quiet, BudgetHolds, MarkerProtocol, At
<1> QED
  BY <1>1, <1>2, <1>3, <1>4

LEMMA ResolveStaleMarkerStep ==
    ASSUME TypeOK, TypeOK', MarkerProtocol, ResolveStaleMarker PROVE MarkerProtocol'
<1>1. Quiet
  BY DEF ResolveStaleMarker, Goto, Quiet, At, TypeOK, RunTypeOK, Execution
<1>2. /\ booking'.attempts = booking.attempts
      /\ \/ booking' = booking
         \/ booking'.status = "UNKNOWN" /\ booking'.marker = NoMarker
  BY ResolveStaleMarkerRowEffect DEF ResolveStaleMarker, TypeOK, StoreTypeOK
<1>3. RowStep
  BY <1>1, <1>2, QuietStep DEF RowStep, Untouched, Answered
<1> QED
  BY <1>1, <1>2, <1>3, QuietStep, ProtocolStep

\* Steps of the execution that leave the row alone.
LEMMA QuietOnSameRow ==
    ASSUME TypeOK, TypeOK', MarkerProtocol, Quiet, booking' = booking PROVE MarkerProtocol'
<1>1. RowStep
  BY QuietStep DEF RowStep, Untouched
<1> QED
  BY <1>1, QuietStep, ProtocolStep

LEMMA WaitingSteps ==
    ASSUME TypeOK, TypeOK', MarkerProtocol,
           \/ LoadStatus \/ RecordSuperseded \/ RetryDelayOver \/ ParkRead
           \/ AwaitOutcome \/ WokenBySignal \/ ParkTimerFires
    PROVE  MarkerProtocol'
<1> USE DEF Goto, Close, NoRun, Quiet, At, TypeOK, RunTypeOK, Execution
<1>1. CASE LoadStatus
  <2>1. CASE Settled(booking.status)
    BY <1>1, <2>1, QuietOnSameRow DEF LoadStatus
  <2>2. CASE ~Settled(booking.status)
    <3>1. run' = [run EXCEPT !.pc = "read", !.loop = 1]
      BY <1>1, <2>2 DEF LoadStatus
    <3>2. Quiet
      BY <1>1, <3>1 DEF LoadStatus
    <3> QED
      BY <1>1, <3>2, QuietOnSameRow DEF LoadStatus
  <2> QED
    BY <2>1, <2>2
<1>2. CASE RecordSuperseded
  BY <1>2, QuietOnSameRow DEF RecordSuperseded
<1>3. CASE RetryDelayOver
  BY <1>3, QuietOnSameRow DEF RetryDelayOver
<1>4. CASE ParkRead
  BY <1>4, QuietOnSameRow DEF ParkRead
<1>5. CASE WokenBySignal \/ ParkTimerFires
  BY <1>5, QuietOnSameRow DEF WokenBySignal, ParkTimerFires
<1>6. CASE AwaitOutcome
  BY <1>6, QuietOnSameRow DEF AwaitOutcome
<1> QED
  BY <1>1, <1>2, <1>3, <1>4, <1>5, <1>6

LEMMA ParkSteps ==
    ASSUME TypeOK, TypeOK', MarkerProtocol, ParkFail \/ ParkFlag PROVE MarkerProtocol'
<1> USE DEF Goto, Close, NoRun, Quiet, At, TypeOK, StoreTypeOK, RunTypeOK, Execution
<1>1. CASE ParkFail
  <2>1. Quiet
    BY <1>1 DEF ParkFail
  <2>2. /\ booking'.attempts = booking.attempts
        /\ \/ booking' = booking
           \/ /\ booking.status = "PENDING"
              /\ booking.marker = NoMarker
              /\ booking'.status = "FAILED"
              /\ booking'.marker = NoMarker
    BY <1>1, UnreachableEffect DEF ParkFail
  <2>3. booking.status = "PENDING" /\ booking.marker = NoMarker => MayReach = {}
    BY DEF MarkerProtocol, ReachIsMarked
  <2>4. RowStep
    BY <2>1, <2>2, <2>3, QuietStep DEF RowStep, Untouched, Failed
  <2> QED
    BY <2>1, <2>2, <2>4, QuietStep, ProtocolStep
<1>2. CASE ParkFlag
  <2>1. Quiet
    BY <1>2 DEF ParkFlag
  <2>2. /\ booking'.attempts = booking.attempts
        /\ booking'.status = booking.status
        /\ booking'.marker = booking.marker
    BY <1>2, ParkRowEffect DEF ParkFlag
  <2>3. RowStep
    BY <2>1, <2>2, QuietStep DEF RowStep, Untouched
  <2> QED
    BY <2>1, <2>2, <2>3, QuietStep, ProtocolStep
<1> QED
  BY <1>1, <1>2

LEMMA RefusedStep ==
    ASSUME TypeOK, TypeOK', MarkerProtocol, NEW why \in Refusals, ~At("none"),
           run' = [run EXCEPT !.pc = "persist", !.ans = Refused(why)],
           UNCHANGED <<booking, late, live, sent>>
    PROVE  MarkerProtocol'
<1>1. /\ run'.pc = "persist" /\ run'.ans = Refused(why) /\ run'.budget = run.budget
      /\ Refused(why).outcome # "NONE"
  BY AnswerTypes DEF TypeOK, RunTypeOK, Execution, Refused, NoAnswer, Refusals
<1>2. RowStep
  BY <1>1 DEF RowStep, Untouched, MayReach, At
<1>3. NewAnswersHold
  <2>1. \A ans \in Answers' : ans \in Answers \/ ans = Refused(why)
    BY <1>1 DEF Answers
  <2> QED
    BY <2>1, EmptyAnswersHold, AnswerTypes DEF NewAnswersHold
<1>4. CallIsOwn' /\ PersistsAnAnswer' /\ BudgetHolds'
  BY <1>1 DEF CallIsOwn, PersistsAnAnswer, BudgetHolds, MarkerProtocol, At
<1> QED
  BY <1>2, <1>3, <1>4, ProtocolStep

LEMMA RefusingSteps ==
    ASSUME TypeOK, TypeOK', MarkerProtocol, ReadBeforeAuthorizing \/ AuthorizeRefused
    PROVE  MarkerProtocol'
<1>1. CASE ReadBeforeAuthorizing /\ Settled(booking.status)
  BY <1>1, RefusedStep DEF ReadBeforeAuthorizing, Refusals, At
<1>2. CASE ReadBeforeAuthorizing /\ ~Settled(booking.status)
  <2>1. Quiet /\ booking' = booking
    BY <1>2 DEF ReadBeforeAuthorizing, Goto, Quiet, At, TypeOK, RunTypeOK, Execution
  <2> QED
    BY <2>1, QuietOnSameRow
<1>3. CASE AuthorizeRefused
  BY <1>3, RefusedStep, RefusalType DEF AuthorizeRefused, At
<1> QED
  BY <1>1, <1>2, <1>3

LEMMA AuthorizeStep ==
    ASSUME TypeOK, TypeOK', MarkerProtocol, Authorize PROVE MarkerProtocol'
<1> DEFINE b == booking
<1>1. /\ b.attempts \in Nat /\ run.budget \in Nat
      /\ b.marker = NoMarker /\ b.attempts < run.budget
      /\ b.status \in {"RECEIVED", "PENDING", "UNKNOWN"}
  BY DEF Authorize, MayAuthorize, TypeOK, StoreTypeOK, RunTypeOK, RowOK, Row, Execution
<1>2. /\ booking'.status = IF b.status = "RECEIVED" THEN "PENDING" ELSE b.status
      /\ booking'.attempts = b.attempts + 1
      /\ booking'.marker = b.attempts + 1
  BY AuthorizeRowEffect DEF Authorize, TypeOK, StoreTypeOK
<1>3. run'.pc = "call" /\ run'.budget = run.budget
  BY DEF Authorize, TypeOK, RunTypeOK, Execution
<1>4. /\ run'.ans.attempt = b.attempts + 1
      /\ run'.ans.from = booking'.status
      /\ run'.ans.outcome = "NONE"
  BY <1>2 DEF Authorize, NoAnswer, TypeOK, RunTypeOK, Execution
<1>5. UNCHANGED <<late, live, sent>> /\ run.pc = "authorize"
  BY DEF Authorize, At
<1>6. RowStep
  <2>1. MayReach' \subseteq MayReach \cup {b.attempts + 1}
    BY <1>4, <1>5 DEF MayReach, At
  <2> QED
    BY <1>1, <1>2, <2>1 DEF RowStep, Authorized
<1>7. NewAnswersHold
  <2>1. AnswerHolds(run.ans)'
    BY <1>1, <1>2, <1>4 DEF AnswerHolds, SaysUnsent
  <2> QED
    BY <1>5, <2>1 DEF NewAnswersHold, Answers
<1>8. b.attempts + 1 \notin live
  BY <1>1 DEF MarkerProtocol, ReachIsMarked, MayReach
<1>9. CallIsOwn' /\ PersistsAnAnswer'
  BY <1>3, <1>4, <1>5, <1>8 DEF CallIsOwn, PersistsAnAnswer, MarkerProtocol
<1>10. BudgetHolds'
  BY <1>1, <1>2, <1>3, <1>5 DEF BudgetHolds, MarkerProtocol, At
<1> QED
  BY <1>6, <1>7, <1>9, <1>10, ProtocolStep

LEMMA BytesLeaveStep ==
    ASSUME TypeOK, TypeOK', MarkerProtocol, BytesLeave PROVE MarkerProtocol'
<1>1. RowStep
  BY DEF BytesLeave, RowStep, Untouched, MayReach, At
<1>2. NewAnswersHold /\ CallIsOwn' /\ PersistsAnAnswer' /\ BudgetHolds'
  BY DEF BytesLeave, NewAnswersHold, Answers, CallIsOwn, PersistsAnAnswer, BudgetHolds,
         MarkerProtocol, At
<1> QED
  BY <1>1, <1>2, ProtocolStep

\* What Book returns is true of the attempt it returns for.
LEMMA BookStep ==
    ASSUME TypeOK, TypeOK', MarkerProtocol, Book PROVE MarkerProtocol'
<1>1. PICK o \in CallOutcomes, r \in Refs \cup {NoRef} : BookReturns(o, r)
  BY DEF Book
<1>2. /\ run'.pc = "persist" /\ run'.budget = run.budget
      /\ run'.ans.outcome = o /\ run'.ans.attempt = run.ans.attempt
      /\ run'.ans.from = run.ans.from
  BY <1>1 DEF BookReturns, TypeOK, RunTypeOK, Execution, Answer
<1>3. run.pc = "call" /\ UNCHANGED <<booking, late, live, sent>>
  BY <1>1 DEF BookReturns, At
<1>4. MayReach' = sent \cup live /\ MayReach' \subseteq MayReach
  BY <1>2, <1>3 DEF MayReach, At
<1>5. RowStep
  BY <1>3, <1>4 DEF RowStep, Untouched
<1>6. AnswerHolds(run.ans)'
  <2>1. SaysUnsent(run'.ans) => run.ans.attempt \notin sent
    BY <1>1, <1>2 DEF BookReturns, SaysUnsent
  <2>2. run.ans.attempt \notin live
    BY <1>3 DEF MarkerProtocol, CallIsOwn, At
  <2>3. run.ans.attempt <= booking.attempts /\ (run.ans.from = "UNKNOWN" => booking.status \notin {"RECEIVED", "PENDING"})
    BY DEF MarkerProtocol, AnswersHold, AnswerHolds, Answers
  <2> QED
    BY <1>2, <1>3, <1>4, <2>1, <2>2, <2>3 DEF AnswerHolds
<1>7. NewAnswersHold
  BY <1>3, <1>6 DEF NewAnswersHold, Answers
<1>8. CallIsOwn' /\ PersistsAnAnswer' /\ BudgetHolds'
  BY <1>2, <1>3 DEF CallOutcomes, CallIsOwn, PersistsAnAnswer, BudgetHolds, MarkerProtocol, At
<1> QED
  BY <1>5, <1>7, <1>8, ProtocolStep

\* Persisting an answer that holds is one of the five, whoever persists it.
LEMMA PersistRowStep ==
    ASSUME TypeOK, MarkerProtocol, NEW ans \in Answers, ans.outcome # "NONE",
           booking' = PersistRow(booking, ans), MayReach' \subseteq MayReach
    PROVE  RowStep /\ booking'.attempts = booking.attempts
<1> DEFINE b == booking
<1>1. ans \in Answer
  BY DEF Answers, TypeOK, RunTypeOK, Execution, Statement
<1>2. AnswerHolds(ans)
  BY DEF MarkerProtocol, AnswersHold
<1>3. SaysUnsent(ans) /\ b.status = "PENDING" /\ b.marker = ans.attempt => MayReach = {}
  BY <1>2 DEF AnswerHolds, MarkerProtocol, ReachIsMarked
<1>4. RowOK(b)
  BY DEF TypeOK, StoreTypeOK
<1>5. booking'.attempts = b.attempts
  BY <1>1, <1>4, PersistRowEffect
<1>6. CASE booking' = b
  BY <1>6 DEF RowStep, Untouched
<1>7. CASE booking'.status \in {"CONFIRMED", "REJECTED", "UNKNOWN"} /\ booking'.marker = NoMarker
  BY <1>5, <1>7 DEF RowStep, Answered
<1>8. CASE /\ b.marker = ans.attempt /\ booking'.marker = NoMarker
           /\ b.status = "PENDING" /\ booking'.status = "FAILED"
           /\ ans.outcome \in {"PRE_SEND_FAILURE", "NONE"}
  BY <1>3, <1>5, <1>8 DEF RowStep, Failed, SaysUnsent
<1>9. CASE /\ b.marker = ans.attempt /\ booking'.marker = NoMarker
           /\ booking'.status = b.status /\ ClearsOnly(ans)
  <2>1. b.status = "PENDING" => SaysUnsent(ans)
    BY <1>2, <1>9 DEF ClearsOnly, AnswerHolds, SaysUnsent
  <2> QED
    BY <1>3, <1>5, <1>9, <2>1 DEF RowStep, Ended
<1> QED
  BY <1>1, <1>4, <1>5, <1>6, <1>7, <1>8, <1>9, PersistRowEffect

LEMMA PersistStep ==
    ASSUME TypeOK, TypeOK', MarkerProtocol, Persist PROVE MarkerProtocol'
<1> DEFINE next == AfterVerdict(Verdict(booking, run.ans))
<1>1. run.pc = "persist" /\ UNCHANGED <<late, live, sent>>
  BY DEF Persist, At
<1>2. next \in {"none", "supersede", "sleep", "parkRead"} /\ Continue(next)
  BY DEF Persist, AfterVerdict
<1> HIDE DEF next
<1>3. run'.pc = next /\ (next # "none" => run'.budget = run.budget)
  BY <1>2 DEF Continue, NoRun, TypeOK, RunTypeOK, Execution
<1>4. run'.ans = run.ans \/ run'.ans = NoAnswer
  BY <1>2 DEF Continue, NoRun, TypeOK, RunTypeOK, Execution
<1>5. next = "supersede" => run'.ans = run.ans
  BY <1>2 DEF Continue, TypeOK, RunTypeOK, Execution
<1>6. MayReach' \subseteq MayReach
  BY <1>1, <1>2, <1>3 DEF MayReach, At
<1>7. run.ans \in Answers /\ run.ans.outcome # "NONE"
  BY <1>1 DEF Answers, MarkerProtocol, PersistsAnAnswer
<1>8. RowStep /\ booking'.attempts = booking.attempts
  BY <1>6, <1>7, PersistRowStep DEF Persist
<1>9. NewAnswersHold
  <2>1. \A ans \in Answers' : ans \in Answers \/ ans = NoAnswer
    BY <1>1, <1>4 DEF Answers
  <2> QED
    BY <2>1, EmptyAnswersHold, AnswerTypes DEF NewAnswersHold
<1>10. CallIsOwn' /\ PersistsAnAnswer'
  BY <1>1, <1>2, <1>3, <1>5, <1>7 DEF CallIsOwn, PersistsAnAnswer, MarkerProtocol, At
<1>11. BudgetHolds'
  BY <1>1, <1>3, <1>8 DEF BudgetHolds, MarkerProtocol, At
<1> QED
  BY <1>8, <1>9, <1>10, <1>11, ProtocolStep

LEMMA RunClosesStep ==
    ASSUME TypeOK, TypeOK', MarkerProtocol, RunCloses PROVE MarkerProtocol'
<1>1. run' = NoRun /\ UNCHANGED <<booking, late, sent>>
  BY DEF RunCloses, Close
<1>2. run'.pc = "none" /\ run'.ans = NoAnswer
  BY <1>1 DEF NoRun
<1>3. RowStep
  BY <1>1, <1>2 DEF RunCloses, RowStep, Untouched, MayReach, At
<1>4. NewAnswersHold
  <2>1. \A ans \in Answers' : ans \in Answers \/ ans = NoAnswer
    BY <1>1, <1>2 DEF Answers
  <2> QED
    BY <2>1, EmptyAnswersHold, AnswerTypes DEF NewAnswersHold
<1>5. CallIsOwn' /\ PersistsAnAnswer' /\ BudgetHolds'
  BY <1>1, <1>2 DEF CallIsOwn, PersistsAnAnswer, BudgetHolds, MarkerProtocol, At
<1> QED
  BY <1>3, <1>4, <1>5, ProtocolStep

LEMMA TryTimesOutStep ==
    ASSUME TypeOK, TypeOK', MarkerProtocol, TryTimesOut PROVE MarkerProtocol'
<1> DEFINE left == [kind |-> run.pc, budget |-> run.budget, ans |-> run.ans]
<1>1. /\ late' = late \cup {left} /\ UNCHANGED <<booking, live, sent>>
      /\ run.pc \in {"resolve", "authorize", "persist", "parkFail", "parkFlag"}
  BY DEF TryTimesOut
<1>2. \/ run' = NoRun
      \/ run' = [run EXCEPT !.pc = "parkRead"]
      \/ run' = run
  BY DEF TryTimesOut, Close, Goto, At
<1>3. /\ run'.pc \in {"none", "parkRead", run.pc}
      /\ run'.pc # "none" => run'.budget = run.budget
      /\ run'.ans = run.ans \/ run'.ans = NoAnswer
      /\ run'.pc = "persist" => run' = run
  BY <1>1, <1>2 DEF NoRun, TypeOK, RunTypeOK, Execution
<1>4. left.ans = run.ans /\ left.budget = run.budget /\ left.kind = run.pc
  OBVIOUS
<1> HIDE DEF left
<1>5. RowStep
  BY <1>1, <1>3 DEF RowStep, Untouched, MayReach, At
<1>6. NewAnswersHold
  <2>1. \A ans \in Answers' : ans \in Answers \/ ans = NoAnswer
    BY <1>1, <1>3, <1>4 DEF Answers
  <2> QED
    BY <2>1, EmptyAnswersHold, AnswerTypes DEF NewAnswersHold
<1>7. CallIsOwn' /\ PersistsAnAnswer'
  BY <1>1, <1>3, <1>4 DEF CallIsOwn, PersistsAnAnswer, MarkerProtocol, At
<1>8. BudgetHolds'
  <2>1. run.budget \in Budgets
    BY <1>1 DEF MarkerProtocol, BudgetHolds, At
  <2> QED
    BY <1>1, <1>3, <1>4, <2>1 DEF MarkerProtocol, BudgetHolds, At
<1> QED
  BY <1>5, <1>6, <1>7, <1>8, ProtocolStep

LEMMA TryFailsStep ==
    ASSUME TypeOK, TypeOK', MarkerProtocol, TryFails PROVE MarkerProtocol'
<1>1. CASE At("supersede")
  <2>1. /\ run'.pc = "persist" /\ run'.ans = run.ans /\ run'.budget = run.budget
        /\ run.pc = "supersede" /\ UNCHANGED <<booking, late, live, sent>>
    BY <1>1 DEF TryFails, Goto, At, TypeOK, RunTypeOK, Execution
  <2>2. RowStep /\ NewAnswersHold
    BY <2>1 DEF RowStep, Untouched, MayReach, NewAnswersHold, Answers, At
  <2>3. CallIsOwn' /\ PersistsAnAnswer' /\ BudgetHolds'
    BY <2>1 DEF CallIsOwn, PersistsAnAnswer, BudgetHolds, MarkerProtocol, At
  <2> QED
    BY <2>2, <2>3, ProtocolStep
<1>2. CASE ~At("supersede")
  <2>1. Quiet /\ booking' = booking
    BY <1>2 DEF TryFails, Goto, Quiet, At, TypeOK, RunTypeOK, Execution
  <2> QED
    BY <2>1, QuietOnSameRow
<1> QED
  BY <1>1, <1>2

\* A statement nobody waits for any more: the row it meets may be another one,
\* but what it does to that row is still one of the five.
LEMMA LateCommitsStep ==
    ASSUME TypeOK, TypeOK', MarkerProtocol, NEW s \in late, LateCommits(s)
    PROVE  MarkerProtocol'
<1> DEFINE b == booking
<1>1. /\ late' = late \ {s} /\ UNCHANGED <<run, sent>> /\ booking' = LateRow(b, s)
      /\ live' = IF s.kind = "authorize" /\ MayAuthorize(b, s.budget)
                 THEN live \cup {booking'.attempts} ELSE live
  BY DEF LateCommits
<1>2. s \in Statement /\ RowOK(b) /\ b.attempts \in Nat /\ s.budget \in Nat
  BY DEF TypeOK, StoreTypeOK, RunTypeOK, RowOK, Row, Statement
<1>3. NewAnswersHold
  BY <1>1 DEF NewAnswersHold, Answers
<1>4. PersistsAnAnswer'
  BY <1>1 DEF PersistsAnAnswer, MarkerProtocol
<1>5. CASE s.kind = "authorize" /\ MayAuthorize(b, s.budget)
  <2>1. booking' = AuthorizeRow(b)
    BY <1>1, <1>5 DEF LateRow
  <2>2. /\ booking'.status = IF b.status = "RECEIVED" THEN "PENDING" ELSE b.status
        /\ booking'.attempts = b.attempts + 1
        /\ booking'.marker = b.attempts + 1
    BY <1>2, <2>1, AuthorizeRowEffect
  <2>3. live' = live \cup {b.attempts + 1}
    BY <1>1, <1>5, <2>2
  <2>4. RowStep
    BY <1>1, <1>5, <2>2, <2>3 DEF MayAuthorize, RowStep, Authorized, MayReach, At
  <2>5. run.ans.attempt \in Nat /\ run.ans.attempt <= b.attempts
    BY DEF MarkerProtocol, AnswersHold, AnswerHolds, Answers, TypeOK, RunTypeOK, Execution, Answer
  <2>6. CallIsOwn'
    BY <1>1, <1>2, <2>3, <2>5 DEF CallIsOwn, MarkerProtocol, At
  <2>7. BudgetHolds'
    BY <1>1, <1>2, <1>5, <2>2 DEF BudgetHolds, MarkerProtocol, MayAuthorize, At
  <2> QED
    BY <1>3, <1>4, <2>4, <2>6, <2>7, ProtocolStep
<1>6. CASE ~(s.kind = "authorize" /\ MayAuthorize(b, s.budget))
  <2>1. live' = live /\ MayReach' = MayReach
    BY <1>1, <1>6 DEF MayReach, At
  <2>2. RowStep
    <3>1. CASE s.kind = "resolve"
      BY <1>1, <1>2, <2>1, <3>1, ResolveStaleMarkerRowEffect
         DEF LateRow, RowStep, Untouched, Answered
    <3>2. CASE s.kind = "authorize"
      BY <1>1, <1>6, <2>1, <3>2 DEF LateRow, RowStep, Untouched
    <3>3. CASE s.kind = "persist"
      <4>1. s.ans \in Answers /\ s.ans.outcome # "NONE"
        BY <3>3 DEF Answers, MarkerProtocol, PersistsAnAnswer
      <4>2. booking' = PersistRow(booking, s.ans)
        BY <1>1, <3>3 DEF LateRow
      <4> QED
        BY <2>1, <4>1, <4>2, PersistRowStep
    <3>4. CASE s.kind = "parkFail"
      <4>1. b.status = "PENDING" /\ b.marker = NoMarker => MayReach = {}
        BY DEF MarkerProtocol, ReachIsMarked
      <4>2. booking' = ApplyRow(b, Unreachable)
        BY <1>1, <3>4 DEF LateRow
      <4> QED
        BY <1>2, <2>1, <4>1, <4>2, UnreachableEffect DEF RowStep, Untouched, Failed
    <3>5. CASE s.kind = "parkFlag"
      BY <1>1, <1>2, <2>1, <3>5, ParkRowEffect DEF LateRow, RowStep, Untouched
    <3> QED
      BY <1>2, <3>1, <3>2, <3>3, <3>4, <3>5 DEF Statement
  <2>3. booking'.attempts = b.attempts
    <3>1. s.ans \in Answer
      BY <1>2 DEF Statement
    <3>2. s.kind # "authorize" => LateRow(b, s).attempts = b.attempts
      BY <1>2, <3>1, ResolveStaleMarkerRowEffect, PersistRowEffect, UnreachableEffect, ParkRowEffect
         DEF LateRow, Statement
    <3>3. s.kind = "authorize" => LateRow(b, s) = b
      BY <1>6 DEF LateRow
    <3> QED
      BY <1>1, <3>2, <3>3
  <2>4. CallIsOwn' /\ BudgetHolds'
    BY <1>1, <2>1, <2>3 DEF CallIsOwn, BudgetHolds, MarkerProtocol, At
  <2> QED
    BY <1>3, <1>4, <2>2, <2>4, ProtocolStep
<1> QED
  BY <1>5, <1>6

LEMMA LateSendStep ==
    ASSUME TypeOK, TypeOK', MarkerProtocol, NEW attempt \in live, LateSend(attempt)
    PROVE  MarkerProtocol'
<1>1. RowStep
  BY DEF LateSend, RowStep, Untouched, MayReach, At
<1>2. NewAnswersHold /\ CallIsOwn' /\ PersistsAnAnswer' /\ BudgetHolds'
  BY DEF LateSend, NewAnswersHold, Answers, CallIsOwn, PersistsAnAnswer, BudgetHolds,
         MarkerProtocol, At
<1> QED
  BY <1>1, <1>2, ProtocolStep

\* Whatever leaves the execution, its statements and its workers alone and moves
\* the row as one of the five keeps the protocol.
LEMMA OutsideStep ==
    ASSUME TypeOK, TypeOK', MarkerProtocol, UNCHANGED <<run, late, live, sent>>,
           booking'.attempts = booking.attempts,
           \/ booking'.status = booking.status /\ booking'.marker = booking.marker
           \/ booking'.status \in {"CONFIRMED", "REJECTED"} /\ booking'.marker = NoMarker
    PROVE  MarkerProtocol'
<1>1. MayReach' = MayReach
  BY DEF MayReach, At
<1>2. RowStep
  BY <1>1 DEF RowStep, Untouched, Answered
<1>3. NewAnswersHold /\ CallIsOwn' /\ PersistsAnAnswer' /\ BudgetHolds'
  BY DEF NewAnswersHold, Answers, CallIsOwn, PersistsAnAnswer, BudgetHolds, MarkerProtocol, At
<1> QED
  BY <1>2, <1>3, ProtocolStep

LEMMA HandleStep ==
    ASSUME TypeOK, TypeOK', MarkerProtocol, NEW h \in Handlers,
           Deliver(h) \/ Handle(h) \/ HandlerFails(h)
    PROVE  MarkerProtocol'
<1> USE DEF TypeOK, StoreTypeOK
<1>1. CASE Deliver(h)
  BY <1>1, DeliverTypes, OutsideStep DEF Deliver, runVars, storeVars
<1>2. CASE CallbackStep(h) /\ UNCHANGED runVars
  <2>1. UNCHANGED <<run, late, live, sent>>
    BY <1>2 DEF runVars
  <2>2. CASE ApplyOutcome(h) \/ ApplyAgain(h)
    <3>1. booking' = ApplyRow(booking, callbackTransition(cb[h].have, cb[h].out))
      BY <2>2 DEF ApplyOutcome, ApplyAgain
    <3> QED
      BY <2>1, <3>1, CallbackApplyEffect, OutsideStep
  <2>3. CASE RereadWinner(h) \/ RecordRefusal(h)
    BY <2>1, <2>3, OutsideStep DEF RereadWinner, RecordRefusal
  <2>4. CASE FlagForRecovery(h)
    BY <2>1, <2>4, FlagRowEffect, OutsideStep DEF FlagForRecovery
  <2> QED
    BY <1>2, <2>2, <2>3, <2>4 DEF CallbackStep
<1>3. CASE SignalOutcome(h)
  BY <1>3, OutsideStep DEF SignalOutcome, storeVars
<1>4. CASE HandlerFails(h)
  BY <1>4, OutsideStep DEF HandlerFails, CallbackFault, BestEffortFails, HandlerDies, runVars
<1> QED
  BY <1>1, <1>2, <1>3, <1>4 DEF Handle

LEMMA SweepStep ==
    ASSUME TypeOK, TypeOK', MarkerProtocol, FindStale \/ RestartStale \/ SweepGivesUp
    PROVE  MarkerProtocol'
<1>1. CASE FindStale \/ SweepGivesUp
  BY <1>1, OutsideStep DEF FindStale, SweepGivesUp, storeVars, runVars
<1>2. CASE RestartStale /\ ~At("none")
  BY <1>2, OutsideStep DEF RestartStale, StartBooking, storeVars
<1>3. CASE RestartStale /\ At("none")
  <2>1. PICK budget \in Budgets : run' = Started(budget)
    BY <1>3 DEF RestartStale, StartBooking
  <2>2. run'.pc = "resolve" /\ run'.ans = NoAnswer /\ run'.budget = budget
    BY <2>1 DEF Started
  <2>3. UNCHANGED <<booking, late, live, sent>>
    BY <1>3 DEF RestartStale, storeVars
  <2>4. RowStep
    BY <2>2, <2>3 DEF RowStep, Untouched, MayReach, At
  <2>5. NewAnswersHold
    <3>1. \A ans \in Answers' : ans \in Answers \/ ans = NoAnswer
      BY <2>2, <2>3 DEF Answers
    <3> QED
      BY <3>1, EmptyAnswersHold, AnswerTypes DEF NewAnswersHold
  <2>6. CallIsOwn' /\ PersistsAnAnswer' /\ BudgetHolds'
    BY <2>2, <2>3 DEF CallIsOwn, PersistsAnAnswer, BudgetHolds, MarkerProtocol, At
  <2> QED
    BY <2>4, <2>5, <2>6, ProtocolStep
<1> QED
  BY <1>1, <1>2, <1>3

LEMMA RunStep ==
    ASSUME TypeOK, TypeOK', MarkerProtocol, Run PROVE MarkerProtocol'
  BY ResolveStaleMarkerStep, WaitingSteps, ParkSteps, RefusingSteps, AuthorizeStep,
     BytesLeaveStep, BookStep, PersistStep DEF Run

LEMMA EnvironmentStep ==
    ASSUME TypeOK, TypeOK', MarkerProtocol, Environment PROVE MarkerProtocol'
  BY RunClosesStep, TryTimesOutStep, TryFailsStep, LateCommitsStep, LateSendStep
     DEF Environment, RunFault

LEMMA ProtocolInit == Init => MarkerProtocol
<1> SUFFICES ASSUME Init PROVE MarkerProtocol
  OBVIOUS
<1>1. /\ booking.status = "RECEIVED" /\ booking.attempts = 0 /\ booking.marker = 0
      /\ late = {} /\ live = {} /\ sent = {}
  BY DEF Init, RunInit, NewRow, NoMarker
<1>2. /\ run.pc \in {"none", "resolve"} /\ run.ans = NoAnswer
      /\ run.pc # "none" => run.budget \in Budgets
  BY DEF Init, RunInit, NoRun, Started
<1>3. MayReach = {} /\ Answers = {NoAnswer}
  BY <1>1, <1>2 DEF MayReach, Answers, At
<1>4. RowShape /\ ReachIsMarked
  BY <1>1, <1>3 DEF RowShape, ReachIsMarked, NoMarker
<1>5. AnswersHold
  BY <1>1, <1>3 DEF AnswersHold, AnswerHolds, NoAnswer, SaysUnsent
<1>6. CallIsOwn /\ PersistsAnAnswer /\ BudgetHolds
  BY <1>1, <1>2 DEF CallIsOwn, PersistsAnAnswer, BudgetHolds, At
<1> QED
  BY <1>4, <1>5, <1>6 DEF MarkerProtocol

LEMMA ProtocolNext == TypeOK /\ TypeOK' /\ MarkerProtocol /\ [Next]_vars => MarkerProtocol'
<1> SUFFICES ASSUME TypeOK, TypeOK', MarkerProtocol, [Next]_vars PROVE MarkerProtocol'
  OBVIOUS
<1>1. ASSUME NEW d \in {"reserved", "declined"}, Decide(d) PROVE MarkerProtocol'
  BY <1>1, OutsideStep DEF Decide, storeVars, runVars
<1>2. CASE UNCHANGED vars
  BY <1>2, OutsideStep DEF vars, storeVars, runVars
<1> QED
  BY <1>1, <1>2, RunStep, EnvironmentStep, SweepStep, HandleStep DEF Next

\* docs/RFC.md:386-390.  The marker protocol holds in every state, for every
\* number of handlers, budgets and environment failures.
THEOREM ProtocolHolds == Spec => []MarkerProtocol
<1>1. Spec => []TypeOK
  BY TypesHold
<1> QED
  BY <1>1, ProtocolInit, ProtocolNext, PTL DEF Spec

\* README.md:8.  A FAILED booking has reached no supplier and never will.
THEOREM FailureIsHonest == Spec => []HonestFailure
<1>1. MarkerProtocol => HonestFailure
  BY DEF MarkerProtocol, ReachIsMarked, HonestFailure
<1> QED
  BY <1>1, ProtocolHolds, PTL

\* docs/RFC.md:390.  A clear marker on a PENDING booking proves that no attempt
\* ever left.
THEOREM ClearMarkerIsProof == Spec => []PendingClearMeansUnsent
<1>1. MarkerProtocol => PendingClearMeansUnsent
  BY DEF MarkerProtocol, ReachIsMarked, PendingClearMeansUnsent
<1> QED
  BY <1>1, ProtocolHolds, PTL

\* docs/RFC.md:653.  No call runs uncounted and the count stays within a
\* configured budget.
THEOREM CallsAreCounted == Spec => []CountedCalls
<1>1. MarkerProtocol => CountedCalls
  BY DEF MarkerProtocol, ReachIsMarked, BudgetHolds, CountedCalls
<1> QED
  BY <1>1, ProtocolHolds, PTL
=============================================================================
