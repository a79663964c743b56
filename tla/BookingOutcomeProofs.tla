------------------------- MODULE BookingOutcomeProofs -------------------------
(***************************************************************************)
(* What a distributor can rely on, proved of BookingLifecycle: a settled   *)
(* booking is final, doubt is never withdrawn, a reference means a         *)
(* confirmation, the row implements BookingPromise, and no booking is      *)
(* called unreachable before its budget was spent.                         *)
(***************************************************************************)
EXTENDS BookingInvariantProofs

-----------------------------------------------------------------------------
(* The ways a statement may move a row from b to c.  A settled one may only   *)
(* be flagged.                                                                 *)

Advances(b, c) ==
    \/ c.status = b.status /\ c.ref = b.ref
    \/ b.status = "RECEIVED" /\ c.status = "PENDING" /\ c.ref = b.ref
    \/ b.status = "PENDING" /\ c.status \in {"UNKNOWN", "FAILED"} /\ c.ref = b.ref
    \/ b.status \in {"PENDING", "UNKNOWN"} /\ c.status = "REJECTED" /\ c.ref = b.ref
    \/ /\ b.status \in {"PENDING", "UNKNOWN"} /\ c.status = "CONFIRMED"
       /\ c.ref \in Refs \cup {NoRef}

RowMoves(b, c) == \/ c = b
                  \/ c = FlagRow(b)
                  \/ ~Settled(b.status) /\ Advances(b, c)

\* Only a confirmation names a reference, on its way to the row too.
NamesItsReference(ans) == ans.ref # NoRef => ans.outcome = "CONFIRMED"

ReferencesNamed == \A ans \in Answers : NamesItsReference(ans)

\* A transition that stores a reference only when it confirms, and that fails
\* only what is PENDING.
LEMMA ApplyMoves ==
    ASSUME NEW b, RowOK(b), NEW t, t.ref \in Refs \cup {NoRef},
           t.ref # NoRef => t.to = "CONFIRMED",
           t.to = "FAILED" => t.from = "PENDING"
    PROVE  RowMoves(b, ApplyRow(b, t))
<1>1. CASE ~Guarded(b, t)
  BY <1>1 DEF ApplyRow, RowMoves
<1>2. CASE Guarded(b, t)
  <2> DEFINE c == Moved(b, t)
  <2>1. ApplyRow(b, t) = c /\ b.status = t.from /\ t.to \in Successors(b.status)
    BY <1>2 DEF ApplyRow, Guarded, CanMove
  <2>2. c.status = t.to /\ c.ref = IF t.ref = NoRef THEN b.ref ELSE t.ref
    BY DEF Moved, RowOK, Row
  <2>3. /\ b.ref \in Refs \cup {NoRef}
        /\ b.status \in Statuses
    BY DEF RowOK, Row
  <2> HIDE DEF c
  <2>4. CASE t.to = "CONFIRMED"
    <3>1. b.status \in {"PENDING", "UNKNOWN"}
      BY <2>1, <2>3, <2>4 DEF Successors, Statuses
    <3>2. c.ref \in Refs \cup {NoRef}
      BY <2>2, <2>3
    <3> QED
      BY <2>1, <2>2, <2>4, <3>1, <3>2 DEF RowMoves, Advances, Settled, SettledStatuses
  <2>5. CASE t.to # "CONFIRMED"
    <3>1. c.ref = b.ref
      BY <2>2, <2>5
    <3>2. \/ b.status = "RECEIVED" /\ t.to \in {"PENDING", "FAILED"}
          \/ b.status = "PENDING" /\ t.to \in {"REJECTED", "UNKNOWN", "FAILED"}
          \/ b.status = "UNKNOWN" /\ t.to \in {"REJECTED", "FAILED"}
      BY <2>1, <2>3, <2>5 DEF Successors, Statuses
    <3> QED
      BY <2>1, <2>2, <3>1, <3>2 DEF RowMoves, Advances, Settled, SettledStatuses
  <2> QED
    BY <2>4, <2>5
<1> QED
  BY <1>1, <1>2

LEMMA StatementMoves ==
    ASSUME NEW b, RowOK(b)
    PROVE  /\ RowMoves(b, ResolveStaleMarkerRow(b))
           /\ RowMoves(b, ParkRow(b))
           /\ RowMoves(b, FlagRow(b))
           /\ RowMoves(b, ApplyRow(b, Unreachable))
           /\ \A budget : MayAuthorize(b, budget) => RowMoves(b, AuthorizeRow(b))
<1>1. RowMoves(b, ResolveStaleMarkerRow(b))
  <2>1. CASE b.marker # NoMarker /\ b.status \in {"PENDING", "UNKNOWN"}
    <3> DEFINE c == ResolveStaleMarkerRow(b)
    <3>1. c.status = "UNKNOWN" /\ c.ref = b.ref
      BY <2>1 DEF ResolveStaleMarkerRow, RowOK, Row
    <3> HIDE DEF c
    <3>2. ~Settled(b.status) /\ Advances(b, c)
      BY <2>1, <3>1 DEF Advances, Settled, SettledStatuses
    <3> QED
      BY <3>2 DEF RowMoves, c
  <2>2. CASE ~(b.marker # NoMarker /\ b.status \in {"PENDING", "UNKNOWN"})
    BY <2>2 DEF ResolveStaleMarkerRow, RowMoves
  <2> QED
    BY <2>1, <2>2
<1>2. RowMoves(b, ParkRow(b)) /\ RowMoves(b, FlagRow(b))
  BY DEF ParkRow, FlagRow, RowMoves
<1>3. RowMoves(b, ApplyRow(b, Unreachable))
  <2>1. /\ Unreachable.ref \in Refs \cup {NoRef}
        /\ Unreachable.ref = NoRef /\ Unreachable.from = "PENDING"
    BY DEF Unreachable
  <2> QED
    BY <2>1, ApplyMoves
<1>4. ASSUME NEW budget, MayAuthorize(b, budget) PROVE RowMoves(b, AuthorizeRow(b))
  <2> DEFINE c == AuthorizeRow(b)
  <2>1. /\ c.status = IF b.status = "RECEIVED" THEN "PENDING" ELSE b.status
        /\ c.ref = b.ref
    BY DEF AuthorizeRow, RowOK, Row
  <2> HIDE DEF c
  <2>2. ~Settled(b.status)
    BY <1>4 DEF MayAuthorize, Settled, SettledStatuses
  <2>3. Advances(b, c)
    BY <1>4, <2>1 DEF MayAuthorize, Advances
  <2> QED
    BY <2>2, <2>3 DEF RowMoves, c
<1> QED
  BY <1>1, <1>2, <1>3, <1>4

\* An answer that names a reference only with a confirmation stores it as such.
LEMMA PersistMoves ==
    ASSUME NEW b, RowOK(b), Settled(b.status) => b.marker = NoMarker,
           NEW ans \in Answer, NamesItsReference(ans)
    PROVE  RowMoves(b, PersistRow(b, ans))
<1>1. CASE ans.outcome \in Refusals
  BY <1>1 DEF PersistRow, RowMoves
<1>2. CASE ans.outcome \notin Refusals /\ ClearsOnly(ans)
  <2> DEFINE c == ClearMarkerRow(b, ans.attempt)
  <2>1. PersistRow(b, ans) = c
    BY <1>2 DEF PersistRow
  <2>2. c.status = b.status /\ c.ref = b.ref
    BY DEF ClearMarkerRow, RowOK, Row
  <2>3. Settled(b.status) => c = b
    BY DEF ClearMarkerRow, Owns, RowOK, Row
  <2> HIDE DEF c
  <2> QED
    BY <2>1, <2>2, <2>3 DEF RowMoves, Advances
<1>3. CASE ans.outcome \notin Refusals /\ ~ClearsOnly(ans)
  <2> DEFINE t == AnswerTransition(ans)
  <2>1. PersistRow(b, ans) = ApplyRow(b, t)
    BY <1>3 DEF PersistRow
  <2>2. t.ref = ans.ref /\ t.ref \in Refs \cup {NoRef}
    BY DEF AnswerTransition, Answer
  <2>3. t.ref # NoRef => t.to = "CONFIRMED"
    BY <2>2 DEF AnswerTransition, NamesItsReference
  <2>4. t.to = "FAILED" => t.from = "PENDING"
    BY DEF AnswerTransition
  <2> QED
    BY <2>1, <2>2, <2>3, <2>4, ApplyMoves
<1> QED
  BY <1>1, <1>2, <1>3

\* A callback moves the row as an answer does.
LEMMA CallbackMoves ==
    ASSUME CallbackTypeOK, NEW b, RowOK(b), NEW h \in Handlers
    PROVE  RowMoves(b, ApplyRow(b, callbackTransition(cb[h].have, cb[h].out)))
<1> DEFINE t == callbackTransition(cb[h].have, cb[h].out)
<1>1. cb[h].out \in Callback \cup {NoCallback}
  BY DEF CallbackTypeOK, Handler
<1>2. cb[h].out.ref \in Refs \cup {NoRef} /\ cb[h].out.status \in {"CONFIRMED", "REJECTED", "OTHER"}
  <2>1. CASE cb[h].out \in Callback
    BY <2>1, VocabularyAssumption DEF Callback
  <2>2. CASE cb[h].out = NoCallback
    BY <2>2 DEF NoCallback
  <2> QED
    BY <1>1, <2>1, <2>2
<1>3. t.ref = outcomeReference(cb[h].out) /\ t.to = cb[h].out.status
  BY DEF callbackTransition
<1>4. t.ref \in Refs \cup {NoRef} /\ t.to # "FAILED"
  BY <1>2, <1>3 DEF outcomeReference
<1>5. CASE t.to = "OTHER"
  BY <1>5 DEF ApplyRow, Guarded, CanMove, Successors, RowMoves
<1>6. CASE t.to # "OTHER"
  <2>1. t.ref # NoRef => t.to = "CONFIRMED"
    BY <1>2, <1>3, <1>6 DEF outcomeReference
  <2> QED
    BY <1>4, <2>1, ApplyMoves
<1> QED
  BY <1>5, <1>6

-----------------------------------------------------------------------------
(* Every step of the system moves the row in one of these ways. *)

LEMMA RunMoves ==
    ASSUME TypeOK, MarkerProtocol, ReferencesNamed, Run PROVE RowMoves(booking, booking')
<1>1. RowOK(booking) /\ run.ans \in Answer
  BY DEF TypeOK, StoreTypeOK, RunTypeOK, Execution
<1>2. CASE ResolveStaleMarker
  BY <1>1, <1>2, StatementMoves DEF ResolveStaleMarker
<1>3. CASE Authorize
  BY <1>1, <1>3, StatementMoves DEF Authorize
<1>4. CASE Persist
  <2>1. NamesItsReference(run.ans)
    BY DEF ReferencesNamed, Answers
  <2>2. Settled(booking.status) => booking.marker = NoMarker
    BY DEF MarkerProtocol, RowShape
  <2> QED
    BY <1>1, <1>4, <2>1, <2>2, PersistMoves DEF Persist
<1>5. CASE ParkFail \/ ParkFlag
  BY <1>1, <1>5, StatementMoves DEF ParkFail, ParkFlag
<1>6. CASE \/ LoadStatus \/ ReadBeforeAuthorizing \/ AuthorizeRefused \/ BytesLeave
           \/ RecordSuperseded \/ RetryDelayOver \/ ParkRead \/ AwaitOutcome
           \/ WokenBySignal \/ ParkTimerFires
  BY <1>6 DEF LoadStatus, ReadBeforeAuthorizing, AuthorizeRefused, BytesLeave, RecordSuperseded,
              RetryDelayOver, ParkRead, AwaitOutcome, WokenBySignal, ParkTimerFires, RowMoves
<1>7. CASE Book
  BY <1>7 DEF Book, BookReturns, RowMoves
<1> QED
  BY <1>2, <1>3, <1>4, <1>5, <1>6, <1>7 DEF Run

LEMMA LateMoves ==
    ASSUME TypeOK, MarkerProtocol, ReferencesNamed, NEW s \in late
    PROVE  RowMoves(booking, LateRow(booking, s))
<1>1. RowOK(booking) /\ s \in Statement
  BY DEF TypeOK, StoreTypeOK, RunTypeOK
<1>2. CASE s.kind \in {"resolve", "parkFail", "parkFlag"}
  BY <1>1, <1>2, StatementMoves DEF LateRow
<1>3. CASE s.kind = "authorize"
  BY <1>1, <1>3, StatementMoves DEF LateRow, RowMoves
<1>4. CASE s.kind = "persist"
  <2>1. s.ans \in Answer /\ NamesItsReference(s.ans)
    BY <1>1 DEF Statement, ReferencesNamed, Answers
  <2>2. Settled(booking.status) => booking.marker = NoMarker
    BY DEF MarkerProtocol, RowShape
  <2> QED
    BY <1>1, <1>4, <2>1, <2>2, PersistMoves DEF LateRow
<1> QED
  BY <1>1, <1>2, <1>3, <1>4 DEF Statement

LEMMA EnvironmentMoves ==
    ASSUME TypeOK, MarkerProtocol, ReferencesNamed, Environment
    PROVE  RowMoves(booking, booking')
<1>1. CASE RunCloses \/ TryTimesOut \/ TryFails
  BY <1>1 DEF RunCloses, TryTimesOut, TryFails, RowMoves
<1>2. ASSUME NEW s \in late, LateCommits(s) PROVE RowMoves(booking, booking')
  BY <1>2, LateMoves DEF LateCommits
<1>3. ASSUME NEW attempt \in live, LateSend(attempt) PROVE RowMoves(booking, booking')
  BY <1>3 DEF LateSend, RowMoves
<1> QED
  BY <1>1, <1>2, <1>3 DEF Environment, RunFault

LEMMA HandlerMoves ==
    ASSUME TypeOK, NEW h \in Handlers, Deliver(h) \/ Handle(h) \/ HandlerFails(h)
    PROVE  RowMoves(booking, booking') /\ UNCHANGED <<run, late, live, sent>>
<1>1. RowOK(booking) /\ CallbackTypeOK
  BY DEF TypeOK, StoreTypeOK
<1>2. CASE Deliver(h)
  BY <1>2 DEF Deliver, Receive, RowMoves, runVars
<1>3. CASE CallbackStep(h) /\ UNCHANGED runVars
  <2>1. CASE ApplyOutcome(h) \/ ApplyAgain(h)
    <3>1. booking' = ApplyRow(booking, callbackTransition(cb[h].have, cb[h].out))
      BY <2>1 DEF ApplyOutcome, ApplyAgain
    <3> QED
      BY <1>1, <1>3, <3>1, CallbackMoves DEF runVars
  <2>2. CASE RereadWinner(h) \/ RecordRefusal(h)
    BY <1>3, <2>2 DEF RereadWinner, RecordRefusal, RowMoves, runVars
  <2>3. CASE FlagForRecovery(h)
    BY <1>1, <1>3, <2>3, StatementMoves DEF FlagForRecovery, runVars
  <2> QED
    BY <1>3, <2>1, <2>2, <2>3 DEF CallbackStep
<1>4. CASE SignalOutcome(h)
  BY <1>4 DEF SignalOutcome, storeVars, RowMoves
<1>5. CASE HandlerFails(h)
  BY <1>5 DEF HandlerFails, CallbackFault, BestEffortFails, HandlerDies, RowMoves, runVars
<1> QED
  BY <1>2, <1>3, <1>4, <1>5 DEF Handle

LEMMA EveryStepMoves ==
    TypeOK /\ MarkerProtocol /\ ReferencesNamed /\ [Next]_vars => RowMoves(booking, booking')
<1> SUFFICES ASSUME TypeOK, MarkerProtocol, ReferencesNamed, [Next]_vars
             PROVE  RowMoves(booking, booking')
  OBVIOUS
<1>1. CASE FindStale \/ RestartStale \/ SweepGivesUp
  BY <1>1 DEF FindStale, RestartStale, SweepGivesUp, storeVars, RowMoves
<1>2. ASSUME NEW d \in {"reserved", "declined"}, Decide(d) PROVE RowMoves(booking, booking')
  BY <1>2 DEF Decide, storeVars, RowMoves
<1>3. CASE UNCHANGED vars
  BY <1>3 DEF vars, storeVars, RowMoves
<1> QED
  BY <1>1, <1>2, <1>3, RunMoves, EnvironmentMoves, HandlerMoves DEF Next

-----------------------------------------------------------------------------
(* Where the answers that are on their way to the row come from. *)

\* No answer yet, or a refusal to make a call: nobody said anything.
Blank(ans) == ans.outcome \in Refusals \cup {"NONE"} /\ ans.ref = NoRef

\* What supplier.Book returns in this step.
Returned(ans) ==
    \E o \in CallOutcomes, r \in Refs \cup {NoRef} :
        /\ o \in {"CONFIRMED", "REJECTED"} => Truthful(o)
        /\ BookReturns(o, r)
        /\ ans.outcome = o /\ ans.ref = r

Known(ans) == ans \in Answers \/ Blank(ans) \/ Returned(ans)

LEMMA PlainAnswersAreBlank ==
    /\ Blank(NoAnswer)
    /\ \A why \in Refusals : Blank(Refused(why))
    /\ \A budget : Blank(Started(budget).ans)
  BY DEF Blank, NoAnswer, Refused, Started

\* Moving the program counter keeps the answer.
OnlyMoves == \/ run' = run \/ run' = NoRun
             \/ \E p : run' = [run EXCEPT !.pc = p]
             \/ \E p : run' = [run EXCEPT !.pc = p, !.ans = NoAnswer]
             \/ \E p, n : run' = [run EXCEPT !.pc = p, !.loop = n]

LEMMA MovingKeepsAnswer ==
    ASSUME run \in Execution, OnlyMoves
    PROVE  run'.ans = run.ans \/ run'.ans = NoAnswer
<1>1. CASE run' = run \/ run' = NoRun
  BY <1>1 DEF NoRun
<1>2. ASSUME NEW p, run' = [run EXCEPT !.pc = p] PROVE run'.ans = run.ans
  BY <1>2 DEF Execution
<1>3. ASSUME NEW p, run' = [run EXCEPT !.pc = p, !.ans = NoAnswer] PROVE run'.ans = NoAnswer
  BY <1>3 DEF Execution
<1>4. ASSUME NEW p, NEW n, run' = [run EXCEPT !.pc = p, !.loop = n] PROVE run'.ans = run.ans
  BY <1>4 DEF Execution
<1> QED
  BY <1>1, <1>2, <1>3, <1>4 DEF OnlyMoves

LEMMA RunAnswers ==
    ASSUME TypeOK, Run PROVE late' = late /\ Known(run'.ans)
<1>1. late' = late
  BY DEF Run, ResolveStaleMarker, LoadStatus, ReadBeforeAuthorizing, Authorize, AuthorizeRefused,
         BytesLeave, Book, BookReturns, Persist, RecordSuperseded, RetryDelayOver, ParkRead,
         ParkFail, ParkFlag, AwaitOutcome, WokenBySignal, ParkTimerFires
<1>2. run \in Execution /\ run.ans \in Answers
  BY DEF Answers, TypeOK, RunTypeOK
<1>3. CASE \/ ResolveStaleMarker \/ LoadStatus \/ BytesLeave \/ RecordSuperseded
           \/ RetryDelayOver \/ ParkRead \/ ParkFail \/ ParkFlag \/ AwaitOutcome
           \/ WokenBySignal \/ ParkTimerFires
  <2>1. OnlyMoves
    <3>1. CASE ResolveStaleMarker \/ LoadStatus \/ BytesLeave \/ RecordSuperseded \/ RetryDelayOver
      BY <3>1 DEF ResolveStaleMarker, LoadStatus, BytesLeave, RecordSuperseded, RetryDelayOver,
                  Goto, Close, OnlyMoves
    <3>2. CASE ParkRead \/ ParkFail \/ ParkFlag \/ AwaitOutcome \/ WokenBySignal \/ ParkTimerFires
      BY <3>2 DEF ParkRead, ParkFail, ParkFlag, AwaitOutcome, WokenBySignal, ParkTimerFires,
                  Goto, Close, OnlyMoves
    <3> QED
      BY <1>3, <3>1, <3>2
  <2>2. run'.ans = run.ans \/ run'.ans = NoAnswer
    BY <1>2, <2>1, MovingKeepsAnswer
  <2> QED
    BY <1>1, <1>2, <2>2, PlainAnswersAreBlank DEF Known
<1>4. CASE ReadBeforeAuthorizing \/ AuthorizeRefused
  <2>1. run'.ans = run.ans \/ \E why \in Refusals : run'.ans = Refused(why)
    BY <1>2, <1>4 DEF ReadBeforeAuthorizing, AuthorizeRefused, Goto, Execution, Refusal, Refusals
  <2> QED
    BY <1>1, <1>2, <2>1, PlainAnswersAreBlank DEF Known
<1>5. CASE Authorize
  <2>1. run'.ans = [NoAnswer EXCEPT !.attempt = booking'.attempts, !.from = booking'.status]
    BY <1>2, <1>5 DEF Authorize, Execution
  <2>2. run'.ans.ref = NoRef /\ run'.ans.outcome = "NONE"
    BY <2>1 DEF NoAnswer
  <2> QED
    BY <1>1, <2>2 DEF Known, Blank
<1>6. CASE Book
  <2>1. PICK o \in CallOutcomes, r \in Refs \cup {NoRef} :
            (o \in {"CONFIRMED", "REJECTED"} => Truthful(o)) /\ BookReturns(o, r)
    BY <1>6 DEF Book
  <2>2. run'.ans.ref = r /\ run'.ans.outcome = o
    BY <1>2, <2>1 DEF BookReturns, Execution, Answer
  <2>3. Returned(run'.ans)
    BY <2>1, <2>2 DEF Returned
  <2> QED
    BY <1>1, <2>3 DEF Known
<1>7. CASE Persist
  <2> DEFINE pc == AfterVerdict(Verdict(booking, run.ans))
  <2>1. Continue(pc)
    BY <1>7 DEF Persist
  <2> HIDE DEF pc
  <2>2. OnlyMoves
    BY <2>1 DEF Continue, OnlyMoves
  <2>3. run'.ans = run.ans \/ run'.ans = NoAnswer
    BY <1>2, <2>2, MovingKeepsAnswer
  <2> QED
    BY <1>1, <1>2, <2>3, PlainAnswersAreBlank DEF Known
<1> QED
  BY <1>3, <1>4, <1>5, <1>6, <1>7 DEF Run

LEMMA EnvironmentAnswers ==
    ASSUME TypeOK, Environment
    PROVE  /\ run'.ans \in Answers \/ Blank(run'.ans)
           /\ \A s \in late' : s.ans \in Answers
<1>1. run \in Execution /\ run.ans \in Answers /\ \A s \in late : s.ans \in Answers
  BY DEF Answers, TypeOK, RunTypeOK
<1>2. CASE RunCloses \/ TryTimesOut \/ TryFails
  <2>1. OnlyMoves
    BY <1>2 DEF RunCloses, TryTimesOut, TryFails, Close, Goto, OnlyMoves
  <2>2. \A s \in late' : s \in late \/ s.ans = run.ans
    BY <1>2 DEF RunCloses, TryTimesOut, TryFails
  <2>3. run'.ans = run.ans \/ run'.ans = NoAnswer
    BY <1>1, <2>1, MovingKeepsAnswer
  <2> QED
    BY <1>1, <2>2, <2>3, PlainAnswersAreBlank
<1>3. CASE (\E s \in late : LateCommits(s)) \/ (\E attempt \in live : LateSend(attempt))
  <2>1. run' = run /\ late' \subseteq late
    BY <1>3 DEF LateCommits, LateSend
  <2> QED
    BY <1>1, <2>1
<1> QED
  BY <1>2, <1>3 DEF Environment, RunFault

\* An answer that is on its way was so before, says nothing, or is what
\* supplier.Book returns in this step.
LEMMA AnswersComeFrom ==
    ASSUME TypeOK, [Next]_vars PROVE \A ans \in Answers' : Known(ans)
<1>1. run.ans \in Answers /\ \A s \in late : s.ans \in Answers
  BY DEF Answers
<1>2. SUFFICES Known(run'.ans) /\ \A s \in late' : Known(s.ans)
  BY DEF Answers
<1>3. CASE run' = run /\ late' = late
  BY <1>1, <1>3 DEF Known
<1>4. CASE Run
  BY <1>1, <1>4, RunAnswers DEF Known
<1>5. CASE Environment
  BY <1>5, EnvironmentAnswers DEF Known
<1>6. CASE RestartStale
  <2>1. late' = late /\ (run'.ans = run.ans \/ \E budget : run'.ans = Started(budget).ans)
    BY <1>6 DEF RestartStale, StartBooking
  <2> QED
    BY <1>1, <2>1, PlainAnswersAreBlank DEF Known
<1>7. CASE FindStale \/ SweepGivesUp \/ UNCHANGED vars
  BY <1>3, <1>7 DEF FindStale, SweepGivesUp, vars, runVars
<1>8. ASSUME NEW d \in {"reserved", "declined"}, Decide(d) PROVE run' = run /\ late' = late
  BY <1>8 DEF Decide, runVars
<1>9. ASSUME NEW h \in Handlers, Deliver(h) \/ Handle(h) \/ HandlerFails(h)
      PROVE  run' = run /\ late' = late
  BY <1>9, HandlerMoves
<1> QED
  BY <1>3, <1>4, <1>5, <1>6, <1>7, <1>8, <1>9 DEF Next

LEMMA NamedNext ==
    TypeOK /\ ReferencesNamed /\ [Next]_vars => ReferencesNamed'
<1> SUFFICES ASSUME TypeOK, ReferencesNamed, [Next]_vars, NEW ans \in Answers'
             PROVE  NamesItsReference(ans)
  BY DEF ReferencesNamed, NamesItsReference
<1>1. CASE ans \in Answers
  BY <1>1 DEF ReferencesNamed
<1>2. CASE Blank(ans)
  BY <1>2 DEF Blank, NamesItsReference
<1>3. CASE Returned(ans)
  BY <1>3 DEF Returned, BookReturns, NamesItsReference
<1> QED
  BY <1>1, <1>2, <1>3, AnswersComeFrom DEF Known

-----------------------------------------------------------------------------
(* What follows. *)

\* No statement cancels a booking.
NeverCancelled == booking.status # "CANCELLED"

Certain == /\ TypeOK /\ MarkerProtocol
           /\ ReferencesNamed /\ ReferenceIsConfirmation /\ NeverCancelled

LEMMA CertainHolds == Spec => []Certain
<1>1. Init => ReferencesNamed /\ ReferenceIsConfirmation /\ NeverCancelled
  <2> SUFFICES ASSUME Init PROVE ReferencesNamed /\ ReferenceIsConfirmation /\ NeverCancelled
    OBVIOUS
  <2>1. run.ans = NoAnswer /\ late = {}
    BY DEF Init, RunInit, NoRun, Started
  <2>2. booking.ref = NoRef /\ booking.status = "RECEIVED"
    BY DEF Init, NewRow
  <2>3. NamesItsReference(NoAnswer)
    BY DEF NamesItsReference, NoAnswer
  <2> QED
    BY <2>1, <2>2, <2>3 DEF ReferencesNamed, Answers, ReferenceIsConfirmation, NeverCancelled
<1>2. RowOK(booking) /\ ReferenceIsConfirmation /\ RowMoves(booking, booking')
        => ReferenceIsConfirmation'
  BY DEF ReferenceIsConfirmation, RowMoves, Advances, FlagRow, RowOK, Row, Settled, SettledStatuses
<1>3. Certain /\ TypeOK' /\ [Next]_vars => ReferenceIsConfirmation'
  BY <1>2, EveryStepMoves DEF Certain, TypeOK, StoreTypeOK
<1>4. Certain /\ [Next]_vars => ReferencesNamed'
  BY NamedNext DEF Certain
<1>5. Certain /\ [Next]_vars => NeverCancelled'
  <2> SUFFICES ASSUME Certain, [Next]_vars PROVE NeverCancelled'
    OBVIOUS
  <2>1. RowOK(booking) /\ RowMoves(booking, booking')
    BY EveryStepMoves DEF Certain, TypeOK, StoreTypeOK
  <2> QED
    BY <2>1 DEF Certain, NeverCancelled, RowMoves, Advances, FlagRow, RowOK, Row
<1> QED
  BY <1>1, <1>3, <1>4, <1>5, TypesHold, ProtocolHolds, PTL DEF Spec, Certain

\* service.go:293.  A reference in the row means a confirmed booking, for every
\* order in which answers, callbacks and late statements arrive.
THEOREM ReferencesAreConfirmations == Spec => []ReferenceIsConfirmation
  BY CertainHolds, PTL DEF Certain

\* docs/RFC.md:316, 318.  A settled booking changes in nothing but its flag.
THEOREM SettledStaysSettled == Spec => SettledIsFinal
<1>1. ASSUME Certain, [Next]_vars, Settled(booking.status)
      PROVE  /\ [booking' EXCEPT !.flag = booking.flag] = booking
             /\ booking.flag => booking'.flag
  <2>1. booking \in Row /\ (booking' = booking \/ booking' = FlagRow(booking))
    BY <1>1, EveryStepMoves DEF Certain, RowMoves, TypeOK, StoreTypeOK, RowOK
  <2> QED
    BY <2>1 DEF FlagRow, Row
<1> QED
  BY <1>1, CertainHolds, PTL DEF Spec, SettledIsFinal

\* docs/RFC.md:349.  Only the supplier's word ends doubt.
THEOREM DoubtIsKept == Spec => DoubtStays
<1>1. ASSUME Certain, [Next]_vars, booking.status = "UNKNOWN"
      PROVE  booking'.status \in {"UNKNOWN", "CONFIRMED", "REJECTED"}
  <2>1. booking \in Row /\ RowMoves(booking, booking')
    BY <1>1, EveryStepMoves DEF Certain, TypeOK, StoreTypeOK, RowOK
  <2> QED
    BY <1>1, <2>1 DEF RowMoves, Advances, FlagRow, Row
<1> QED
  BY <1>1, CertainHolds, PTL DEF Spec, DoubtStays

-----------------------------------------------------------------------------
(* The row implements the promise made to the distributor. *)

\* Bytes only leave for a booking that was authorized and has not failed.
Exposes == \/ sent' = sent
           \/ /\ booking' = booking /\ booking.status \notin {"RECEIVED", "FAILED"}
              /\ sent' # {}

LEMMA EveryStepExposes ==
    TypeOK /\ MarkerProtocol /\ [Next]_vars => Exposes
<1> SUFFICES ASSUME TypeOK, MarkerProtocol, [Next]_vars PROVE Exposes
  OBVIOUS
<1>1. MayReach # {} => booking.status \notin {"RECEIVED", "FAILED"}
  <2>1. MayReach \subseteq 1 .. booking.attempts
    BY DEF MarkerProtocol, ReachIsMarked
  <2>2. booking.status = "RECEIVED" => booking.attempts = 0
    BY DEF MarkerProtocol, RowShape
  <2>3. 1 .. 0 = {}
    OBVIOUS
  <2>4. booking.status = "RECEIVED" => MayReach = {}
    BY <2>1, <2>2, <2>3
  <2>5. booking.status = "FAILED" => MayReach = {}
    BY DEF MarkerProtocol, ReachIsMarked
  <2> QED
    BY <2>4, <2>5
<1>2. CASE BytesLeave
  BY <1>1, <1>2 DEF BytesLeave, Exposes, MayReach
<1>3. CASE Run /\ ~BytesLeave
  BY <1>3 DEF Run, ResolveStaleMarker, LoadStatus, ReadBeforeAuthorizing, Authorize,
              AuthorizeRefused, Book, BookReturns, Persist, RecordSuperseded, RetryDelayOver,
              ParkRead, ParkFail, ParkFlag, AwaitOutcome, WokenBySignal, ParkTimerFires, Exposes
<1>4. CASE Environment
  <2>1. CASE RunCloses \/ TryTimesOut \/ TryFails
    BY <2>1 DEF RunCloses, TryTimesOut, TryFails, Exposes
  <2>2. ASSUME NEW s \in late, LateCommits(s) PROVE Exposes
    BY <2>2 DEF LateCommits, Exposes
  <2>3. ASSUME NEW attempt \in live, LateSend(attempt) PROVE Exposes
    BY <1>1, <2>3 DEF LateSend, Exposes, MayReach
  <2> QED
    BY <1>4, <2>1, <2>2, <2>3 DEF Environment, RunFault
<1>5. CASE FindStale \/ RestartStale \/ SweepGivesUp
  BY <1>5 DEF FindStale, RestartStale, SweepGivesUp, runVars, Exposes
<1>6. ASSUME NEW d \in {"reserved", "declined"}, Decide(d) PROVE Exposes
  BY <1>6 DEF Decide, runVars, Exposes
<1>7. ASSUME NEW h \in Handlers, Deliver(h) \/ Handle(h) \/ HandlerFails(h) PROVE Exposes
  BY <1>7, HandlerMoves DEF Exposes
<1>8. CASE UNCHANGED vars
  BY <1>8 DEF vars, runVars, Exposes
<1> QED
  BY <1>2, <1>3, <1>4, <1>5, <1>6, <1>7, <1>8 DEF Next

LEMMA PromiseStep ==
    ASSUME Certain, Certain', [Next]_vars
    PROVE  [Promise!PromiseNext]_(Promise!promiseVars)
<1>1. /\ RowOK(booking) /\ booking.status \in Statuses /\ booking'.status \in Statuses
      /\ RowMoves(booking, booking') /\ Exposes
  BY EveryStepMoves, EveryStepExposes DEF Certain, TypeOK, StoreTypeOK, RowOK, Row
<1>2. CASE booking' = booking /\ sent' = sent
  <2>1. PhaseOf(booking.status)' = PhaseOf(booking.status)
    BY <1>2
  <2> QED
    BY <1>2, <2>1 DEF Promise!promiseVars
<1>3. CASE booking' = booking /\ sent' # sent
  <2>1. booking.status \notin {"RECEIVED", "FAILED"} /\ sent' # {}
    BY <1>1, <1>3 DEF Exposes
  <2>2. PhaseOf(booking.status) \notin {"untried", "failed"}
    <3>1. booking.status \in {"PENDING", "UNKNOWN", "CONFIRMED", "REJECTED"}
      BY <1>1, <2>1 DEF Statuses, Certain, NeverCancelled
    <3> QED
      BY <3>1 DEF PhaseOf
  <2>3. PhaseOf(booking.status)' = PhaseOf(booking.status)
    BY <1>3
  <2> QED
    BY <1>3, <2>1, <2>2, <2>3 DEF Promise!PromiseNext, Promise!Expose
<1>4. CASE booking' # booking
  <2>1. sent' = sent
    BY <1>1, <1>4 DEF Exposes
  <2>2. CASE booking'.status = booking.status /\ booking'.ref = booking.ref
    BY <2>1, <2>2 DEF Promise!promiseVars
  <2>3. CASE ~(booking'.status = booking.status /\ booking'.ref = booking.ref)
    <3>1. Advances(booking, booking')
      BY <1>1, <1>4, <2>3 DEF RowMoves, FlagRow, RowOK, Row
    <3>2. CASE booking.status = "RECEIVED" /\ booking'.status = "PENDING" /\ booking'.ref = booking.ref
      BY <2>1, <3>2 DEF PhaseOf, Promise!PromiseNext, Promise!Try
    <3>3. CASE booking.status = "PENDING" /\ booking'.status = "UNKNOWN" /\ booking'.ref = booking.ref
      BY <2>1, <3>3 DEF PhaseOf, Promise!PromiseNext, Promise!Doubt
    <3>4. CASE booking.status = "PENDING" /\ booking'.status = "FAILED" /\ booking'.ref = booking.ref
      <4>1. sent = {}
        BY <2>1, <3>4 DEF Certain, MarkerProtocol, ReachIsMarked, MayReach
      <4> QED
        BY <2>1, <3>4, <4>1 DEF PhaseOf, Promise!PromiseNext, Promise!Fail
    <3>5. CASE /\ booking.status \in {"PENDING", "UNKNOWN"} /\ booking'.status = "REJECTED"
               /\ booking'.ref = booking.ref
      BY <2>1, <3>5 DEF PhaseOf, Promise!PromiseNext, Promise!Reject
    <3>6. CASE /\ booking.status \in {"PENDING", "UNKNOWN"} /\ booking'.status = "CONFIRMED"
               /\ booking'.ref \in Refs \cup {NoRef}
      BY <2>1, <3>6 DEF PhaseOf, Promise!PromiseNext, Promise!Confirm
    <3> QED
      BY <2>3, <3>1, <3>2, <3>3, <3>4, <3>5, <3>6 DEF Advances
  <2> QED
    BY <2>2, <2>3
<1> QED
  BY <1>2, <1>3, <1>4

\* The whole system, with its executions, late statements, callbacks and sweeps,
\* is an implementation of what the distributor is promised.
THEOREM ThePromiseIsKept == Spec => PromiseKept
<1>1. Init => Promise!PromiseInit
  BY DEF Init, NewRow, RunInit, PhaseOf, Promise!PromiseInit
<1> QED
  BY <1>1, PromiseStep, CertainHolds, PTL DEF Spec, PromiseKept, Promise!PromiseSpec

-----------------------------------------------------------------------------
(* Nobody gives up early: what the loop of an execution counted, the row      *)
(* counted too.                                                                *)

Attempted(ans) == ans.outcome \notin Refusals \cup {"NONE"}

Spent(budget) == budget <= booking.attempts \/ booking.status \notin {"RECEIVED", "PENDING"}

Parking == {"parkRead", "parkFail", "parkFlag", "parked"}

RunAccount ==
    /\ run.pc \in {"read", "authorize"} => run.loop <= booking.attempts + 1
    /\ run.pc \in {"call", "sleep"} => run.loop <= booking.attempts
    /\ run.pc \in {"persist", "supersede"} =>
           /\ Attempted(run.ans) => run.loop <= booking.attempts
           /\ run.ans.outcome = "BUDGET_SPENT" => run.budget <= booking.attempts
    /\ run.pc \in Parking => Spent(run.budget)
    /\ At("call") \/ Attempted(run.ans) => run.ans.attempt # NoMarker

LateAccount ==
    \A s \in late : /\ s.kind = "parkFail" => Spent(s.budget)
                    /\ Attempted(s.ans) => s.ans.attempt # NoMarker

\* The count never falls, and a booking past PENDING stays past it.
RowGoesOn ==
    /\ booking.attempts <= booking'.attempts
    /\ booking.status \notin {"RECEIVED", "PENDING"} => booking'.status \notin {"RECEIVED", "PENDING"}

LEMMA CountGrows ==
    ASSUME TypeOK, [Next]_vars PROVE booking.attempts <= booking'.attempts
<1>1. RowOK(booking) /\ booking.attempts \in Nat /\ run.ans \in Answer
  BY DEF TypeOK, StoreTypeOK, RunTypeOK, Execution, RowOK, Row
<1>2. CASE ResolveStaleMarker \/ Authorize \/ Persist \/ ParkFail \/ ParkFlag
  BY <1>1, <1>2, ResolveStaleMarkerRowEffect, AuthorizeRowEffect, PersistRowEffect,
     UnreachableEffect, ParkRowEffect
     DEF ResolveStaleMarker, Authorize, Persist, ParkFail, ParkFlag
<1>3. CASE \/ LoadStatus \/ ReadBeforeAuthorizing \/ AuthorizeRefused \/ BytesLeave \/ Book
           \/ RecordSuperseded \/ RetryDelayOver \/ ParkRead \/ AwaitOutcome
           \/ WokenBySignal \/ ParkTimerFires
  <2>1. booking' = booking
    BY <1>3 DEF LoadStatus, ReadBeforeAuthorizing, AuthorizeRefused, BytesLeave, Book, BookReturns,
                RecordSuperseded, RetryDelayOver, ParkRead, AwaitOutcome, WokenBySignal,
                ParkTimerFires
  <2> QED
    BY <1>1, <2>1
<1>4. ASSUME NEW s \in late, LateCommits(s) PROVE booking.attempts <= booking'.attempts
  <2>1. s \in Statement
    BY DEF TypeOK, RunTypeOK
  <2> QED
    BY <1>1, <1>4, <2>1, LateRowEffect DEF LateCommits
<1>5. CASE RunCloses \/ TryTimesOut \/ TryFails \/ (\E attempt \in live : LateSend(attempt))
  BY <1>1, <1>5 DEF RunCloses, TryTimesOut, TryFails, LateSend
<1>6. CASE FindStale \/ RestartStale \/ SweepGivesUp \/ UNCHANGED vars
  BY <1>1, <1>6 DEF FindStale, RestartStale, SweepGivesUp, vars, storeVars
<1>7. ASSUME NEW d \in {"reserved", "declined"}, Decide(d) PROVE booking.attempts <= booking'.attempts
  BY <1>1, <1>7 DEF Decide, storeVars
<1>8. ASSUME NEW h \in Handlers, Deliver(h) \/ Handle(h) \/ HandlerFails(h)
      PROVE  booking.attempts <= booking'.attempts
  <2>1. CallbackTypeOK
    BY DEF TypeOK
  <2>2. \/ booking' = booking \/ booking' = FlagRow(booking)
        \/ booking' = ApplyRow(booking, callbackTransition(cb[h].have, cb[h].out))
    BY <1>8 DEF Deliver, Receive, Handle, HandlerFails, CallbackStep, CallbackFault, ApplyOutcome,
                RereadWinner, ApplyAgain, RecordRefusal, FlagForRecovery, BestEffortFails,
                HandlerDies, SignalOutcome, storeVars
  <2>3. ApplyRow(booking, callbackTransition(cb[h].have, cb[h].out)).attempts = booking.attempts
    BY <1>1 DEF ApplyRow, Moved, RowOK, Row
  <2> QED
    BY <1>1, <2>2, <2>3, FlagRowEffect
<1> QED
  BY <1>2, <1>3, <1>4, <1>5, <1>6, <1>7, <1>8 DEF Next, Run, Environment, RunFault

LEMMA EveryStepGoesOn ==
    ASSUME Certain, [Next]_vars PROVE RowGoesOn
<1>1. RowOK(booking) /\ RowMoves(booking, booking')
  BY EveryStepMoves DEF Certain, TypeOK, StoreTypeOK
<1>2. booking.status \notin {"RECEIVED", "PENDING"} => booking'.status \notin {"RECEIVED", "PENDING"}
  BY <1>1 DEF RowMoves, Advances, FlagRow, RowOK, Row
<1> QED
  BY <1>2, CountGrows DEF Certain, RowGoesOn

LEMMA SpentStays ==
    ASSUME TypeOK, TypeOK', RowGoesOn, NEW budget \in Nat, Spent(budget)
    PROVE  Spent(budget)'
<1>1. booking.attempts \in Nat /\ booking'.attempts \in Nat
  BY DEF TypeOK, StoreTypeOK, RowOK, Row
<1> QED
  BY <1>1 DEF Spent, RowGoesOn

\* What was left behind keeps its account, and so does an execution that waits.
LEMMA LateKeepsAccount ==
    ASSUME TypeOK, TypeOK', RowGoesOn, LateAccount, late' \subseteq late PROVE LateAccount'
<1>1. \A s \in late : s.budget \in Nat
  BY DEF TypeOK, RunTypeOK, Statement
<1> QED
  BY <1>1, SpentStays DEF LateAccount

LEMMA RunKeepsAccount ==
    ASSUME TypeOK, TypeOK', RowGoesOn, RunAccount, run' = run PROVE RunAccount'
<1>1. /\ booking.attempts \in Nat /\ booking'.attempts \in Nat
      /\ run.loop \in Nat /\ run.budget \in Nat
  BY DEF TypeOK, StoreTypeOK, RunTypeOK, RowOK, Row, Execution
<1>2. run.pc \in Parking => Spent(run.budget)'
  BY <1>1, SpentStays DEF RunAccount
<1>3. \A n \in Nat : n <= booking.attempts => n <= booking'.attempts
  BY <1>1 DEF RowGoesOn
<1>4. \A n \in Nat : n <= booking.attempts + 1 => n <= booking'.attempts + 1
  BY <1>1 DEF RowGoesOn
<1> QED
  BY <1>1, <1>2, <1>3, <1>4 DEF RunAccount, At

LEMMA ClosedAccount == run' = NoRun => RunAccount'
  BY DEF NoRun, NoAnswer, RunAccount, Attempted, Parking, At

\* An answer that is kept, or dropped, keeps the number of its attempt.
LEMMA KeptAnswerCounts ==
    ASSUME RunAccount, run'.ans = run.ans \/ run'.ans = NoAnswer, run'.pc # "call"
    PROVE  (At("call") \/ Attempted(run.ans))' => run'.ans.attempt # NoMarker
<1>1. ~Attempted(NoAnswer)
  BY DEF Attempted, NoAnswer
<1>2. Attempted(run.ans)' => run'.ans = run.ans /\ Attempted(run.ans)
  BY <1>1 DEF Attempted
<1> QED
  BY <1>2 DEF RunAccount, At

LEMMA ElsewhereAccount ==
    ASSUME RunAccount, run'.ans = run.ans \/ run'.ans = NoAnswer,
           run'.pc \in {"none", "resolve", "load", "waiting"}
    PROVE  RunAccount'
  BY KeptAnswerCounts DEF RunAccount, Parking, At

LEMMA ParkingAccount ==
    ASSUME RunAccount, run'.ans = run.ans \/ run'.ans = NoAnswer, run'.pc \in Parking,
           Spent(run.budget)'
    PROVE  RunAccount'
<1>1. run'.pc \notin {"read", "authorize", "call", "sleep", "persist", "supersede"}
  BY DEF Parking
<1> QED
  BY <1>1, KeptAnswerCounts DEF RunAccount, At

\* What the verdict on an answer says about the answer.
LEMMA VerdictMeans ==
    ASSUME NEW b, NEW ans \in Answer, ans.outcome # "NONE"
    PROVE  \/ Verdict(b, ans) \in {"CONFIRMED", "REJECTED", "SETTLED", "FAILED", "EXIT", "CONFLICT"}
           \/ Verdict(b, ans) \in {"AMBIGUOUS", "NOT_SENT"} /\ ans.outcome = Verdict(b, ans)
           \/ Verdict(b, ans) = "BUDGET_SPENT" /\ ans.outcome = "BUDGET_SPENT"
           \/ Verdict(b, ans) = "IN_DOUBT" /\ ans.from = "UNKNOWN"
<1>1. CASE ans.outcome \in Refusals
  BY <1>1 DEF Verdict, Refusals
<1>2. CASE ans.outcome \in CallOutcomes /\ ClearsOnly(ans)
  BY <1>2 DEF Verdict, CallOutcomes, ClearsOnly
<1>3. CASE ans.outcome \in CallOutcomes /\ ~ClearsOnly(ans)
  BY <1>3 DEF Verdict, CallOutcomes, ClearsOnly
<1> QED
  BY <1>1, <1>2, <1>3 DEF Answer

\* An execution goes on to park only with its budget spent, or in doubt.
LEMMA PersistAccount ==
    ASSUME Certain, TypeOK', RunAccount, RowGoesOn, Persist PROVE RunAccount'
<1> DEFINE v == Verdict(booking, run.ans)
<1>1. /\ run \in Execution /\ run.ans \in Answer /\ run.loop \in Nat /\ run.budget \in Nat
      /\ booking.attempts \in Nat /\ booking'.attempts \in Nat
  BY DEF Certain, TypeOK, StoreTypeOK, RunTypeOK, RowOK, Row, Execution
<1>2. At("persist") /\ run.ans.outcome # "NONE"
  BY DEF Persist, At, Certain, MarkerProtocol, PersistsAnAnswer
<1>3. Continue(AfterVerdict(v))
  BY DEF Persist
<1>4. \/ v \in {"CONFIRMED", "REJECTED", "SETTLED", "FAILED", "EXIT", "CONFLICT"}
      \/ v \in {"AMBIGUOUS", "NOT_SENT"} /\ run.ans.outcome = v
      \/ v = "BUDGET_SPENT" /\ run.ans.outcome = "BUDGET_SPENT"
      \/ v = "IN_DOUBT" /\ run.ans.from = "UNKNOWN"
  BY <1>1, <1>2, VerdictMeans
<1> HIDE DEF v
<1>5. /\ Attempted(run.ans) => run.loop <= booking.attempts
      /\ run.ans.outcome = "BUDGET_SPENT" => run.budget <= booking.attempts
  BY <1>2 DEF RunAccount, At
<1>6. CASE AfterVerdict(v) = "none"
  <2>1. run' = NoRun
    BY <1>3, <1>6 DEF Continue
  <2> QED
    BY <2>1, ClosedAccount
<1>7. CASE AfterVerdict(v) = "supersede"
  <2>1. run' = [run EXCEPT !.pc = "supersede"]
    BY <1>3, <1>7 DEF Continue
  <2>2. /\ run'.pc = "supersede" /\ run'.ans = run.ans
        /\ run'.loop = run.loop /\ run'.budget = run.budget
    BY <1>1, <2>1 DEF Execution
  <2>3. \A n \in Nat : n <= booking.attempts => n <= booking'.attempts
    BY <1>1 DEF RowGoesOn
  <2>4. /\ Attempted(run'.ans) => run'.loop <= booking'.attempts
        /\ run'.ans.outcome = "BUDGET_SPENT" => run'.budget <= booking'.attempts
    BY <1>1, <1>5, <2>2, <2>3 DEF Attempted
  <2>5. Attempted(run.ans)' = Attempted(run'.ans)
    BY DEF Attempted
  <2> QED
    BY <2>2, <2>4, <2>5, KeptAnswerCounts DEF RunAccount, Parking, At
<1>8. CASE AfterVerdict(v) = "sleep"
  <2>1. v \in {"AMBIGUOUS", "NOT_SENT"}
    BY <1>8 DEF AfterVerdict
  <2>2. Attempted(run.ans)
    BY <1>4, <2>1 DEF Attempted, Refusals
  <2>3. run' = [run EXCEPT !.pc = "sleep", !.ans = NoAnswer]
    BY <1>3, <1>8 DEF Continue
  <2>4. run'.pc = "sleep" /\ run'.ans = NoAnswer /\ run'.loop = run.loop
    BY <1>1, <2>3 DEF Execution
  <2>5. run.loop <= booking'.attempts
    BY <1>1, <1>5, <2>2 DEF RowGoesOn
  <2> QED
    BY <2>4, <2>5, KeptAnswerCounts DEF RunAccount, Parking, At
<1>9. CASE AfterVerdict(v) = "parkRead"
  <2>1. run' = [run EXCEPT !.pc = "parkRead", !.ans = NoAnswer]
    BY <1>3, <1>9 DEF Continue
  <2>2. run'.pc = "parkRead" /\ run'.ans = NoAnswer /\ run'.budget = run.budget
    BY <1>1, <2>1 DEF Execution
  <2>3. Spent(run.budget)
    <3>1. CASE v \in {"AMBIGUOUS", "NOT_SENT"} /\ run.ans.outcome = v
      <4>1. Attempted(run.ans)
        BY <3>1 DEF Attempted, Refusals
      <4>2. ~(run.loop < run.budget)
        BY <1>9, <3>1 DEF AfterVerdict
      <4>3. run.budget <= booking.attempts
        BY <1>1, <1>5, <4>1, <4>2
      <4> QED
        BY <4>3 DEF Spent
    <3>2. CASE v = "BUDGET_SPENT" /\ run.ans.outcome = "BUDGET_SPENT"
      BY <1>5, <3>2 DEF Spent
    <3>3. CASE v = "IN_DOUBT" /\ run.ans.from = "UNKNOWN"
      BY <3>3 DEF Spent, Certain, MarkerProtocol, AnswersHold, Answers, AnswerHolds
    <3>4. v \notin {"CONFIRMED", "REJECTED", "SETTLED", "FAILED", "EXIT", "CONFLICT"}
      BY <1>9 DEF AfterVerdict
    <3> QED
      BY <1>4, <3>1, <3>2, <3>3, <3>4
  <2>4. Spent(run.budget)'
    <3>1. booking.attempts <= booking'.attempts
            /\ (booking.status \notin {"RECEIVED", "PENDING"} => booking'.status \notin {"RECEIVED", "PENDING"})
      BY DEF RowGoesOn
    <3>2. run'.budget <= booking'.attempts \/ booking'.status \notin {"RECEIVED", "PENDING"}
      BY <1>1, <2>2, <2>3, <3>1 DEF Spent
    <3> QED
      BY <3>2 DEF Spent
  <2>5. run'.pc \in Parking
    BY <2>2 DEF Parking
  <2> QED
    BY <2>2, <2>4, <2>5, ParkingAccount
<1>10. AfterVerdict(v) \in {"none", "supersede", "sleep", "parkRead"}
  BY DEF AfterVerdict
<1> QED
  BY <1>6, <1>7, <1>8, <1>9, <1>10

\* Spent, of the budget the execution was started with, stays.
LEMMA RunBudgetStaysSpent ==
    ASSUME TypeOK, TypeOK', RowGoesOn, Spent(run.budget), run'.budget = run.budget
    PROVE  Spent(run.budget)'
<1>1. /\ booking.attempts \in Nat /\ booking'.attempts \in Nat /\ run.budget \in Nat
  BY DEF TypeOK, StoreTypeOK, RunTypeOK, RowOK, Row, Execution
<1> QED
  BY <1>1 DEF Spent, RowGoesOn

LEMMA RunAccounts ==
    ASSUME Certain, TypeOK', RunAccount, RowGoesOn, Run PROVE RunAccount'
<1>1. /\ run \in Execution /\ run.ans \in Answer /\ run.loop \in Nat /\ run.budget \in Nat
      /\ booking.attempts \in Nat /\ booking'.attempts \in Nat /\ TypeOK
  BY DEF Certain, TypeOK, StoreTypeOK, RunTypeOK, RowOK, Row, Execution
<1>2. CASE ResolveStaleMarker
  <2>1. run' = [run EXCEPT !.pc = "load"]
    BY <1>2 DEF ResolveStaleMarker, Goto
  <2>2. run'.pc = "load" /\ run'.ans = run.ans
    BY <1>1, <2>1 DEF Execution
  <2> QED
    BY <2>2, ElsewhereAccount
<1>3. CASE LoadStatus
  <2>1. run' = NoRun \/ run' = [run EXCEPT !.pc = "read", !.loop = 1]
    BY <1>3 DEF LoadStatus, Close
  <2>2. CASE run' = [run EXCEPT !.pc = "read", !.loop = 1]
    <3>1. run'.pc = "read" /\ run'.ans = run.ans /\ run'.loop = 1
      BY <1>1, <2>2 DEF Execution
    <3> QED
      BY <1>1, <3>1, KeptAnswerCounts DEF RunAccount, Parking, At
  <2> QED
    BY <2>1, <2>2, ClosedAccount
<1>4. CASE ReadBeforeAuthorizing
  <2>1. \/ run' = [run EXCEPT !.pc = "persist", !.ans = Refused("ALREADY_SETTLED")]
        \/ run' = [run EXCEPT !.pc = "authorize"]
    BY <1>4 DEF ReadBeforeAuthorizing, Goto
  <2>2. CASE run' = [run EXCEPT !.pc = "persist", !.ans = Refused("ALREADY_SETTLED")]
    <3>1. run'.pc = "persist" /\ run'.ans.outcome = "ALREADY_SETTLED"
      BY <1>1, <2>2 DEF Execution, Refused, NoAnswer
    <3> QED
      BY <3>1 DEF RunAccount, Attempted, Refusals, Parking, At
  <2>3. CASE run' = [run EXCEPT !.pc = "authorize"]
    <3>1. run'.pc = "authorize" /\ run'.ans = run.ans /\ run'.loop = run.loop
      BY <1>1, <2>3 DEF Execution
    <3>2. run.loop <= booking.attempts + 1 /\ booking' = booking
      BY <1>4 DEF ReadBeforeAuthorizing, RunAccount, At
    <3> QED
      BY <3>1, <3>2, KeptAnswerCounts DEF RunAccount, Parking, At
  <2> QED
    BY <2>1, <2>2, <2>3
<1>5. CASE Authorize
  <2>1. booking'.attempts = booking.attempts + 1
    BY <1>5, AuthorizeRowEffect DEF Authorize, Certain, TypeOK, StoreTypeOK
  <2>2. /\ run'.pc = "call" /\ run'.loop = run.loop
        /\ run'.ans = [NoAnswer EXCEPT !.attempt = booking'.attempts, !.from = booking'.status]
    BY <1>1, <1>5 DEF Authorize, Execution
  <2>3. run'.ans.attempt = booking'.attempts
    BY <2>2 DEF NoAnswer
  <2>4. run.loop <= booking.attempts + 1
    BY <1>5 DEF Authorize, RunAccount, At
  <2>5. run'.loop <= booking'.attempts /\ run'.ans.attempt # NoMarker
    BY <1>1, <2>1, <2>2, <2>3, <2>4 DEF NoMarker
  <2> QED
    BY <2>2, <2>5 DEF RunAccount, Parking, At
<1>6. CASE AuthorizeRefused
  <2> DEFINE why == Refusal(booking, run.budget)
  <2>1. /\ run'.pc = "persist" /\ run'.ans = Refused(why) /\ run'.budget = run.budget
        /\ booking' = booking
    BY <1>1, <1>6 DEF AuthorizeRefused, Execution
  <2>2. run'.ans.outcome = why
    BY <2>1 DEF Refused, NoAnswer
  <2>3. why \in Refusals
    BY RefusalType
  <2>4. why = "BUDGET_SPENT" => ~(booking.attempts < run.budget)
    BY DEF Refusal
  <2>5. run'.ans.outcome = "BUDGET_SPENT" => run'.budget <= booking'.attempts
    BY <1>1, <2>1, <2>2, <2>4
  <2> HIDE DEF why
  <2> QED
    BY <2>1, <2>2, <2>3, <2>5 DEF RunAccount, Attempted, Parking, At
<1>7. CASE BytesLeave
  <2>1. run' = run
    BY <1>7 DEF BytesLeave
  <2> QED
    BY <1>1, <2>1, RunKeepsAccount
<1>8. CASE Book
  <2>1. PICK o \in CallOutcomes, r \in Refs \cup {NoRef} : BookReturns(o, r)
    BY <1>8 DEF Book
  <2>2. /\ run'.pc = "persist" /\ run'.loop = run.loop /\ run'.ans.outcome = o
        /\ run'.ans.attempt = run.ans.attempt
    BY <1>1, <2>1 DEF BookReturns, Execution, Answer
  <2>3. At("call") /\ booking' = booking
    BY <2>1 DEF BookReturns
  <2>4. run.loop <= booking.attempts /\ run.ans.attempt # NoMarker
    BY <2>3 DEF RunAccount, At
  <2>5. o # "BUDGET_SPENT"
    BY DEF CallOutcomes
  <2> QED
    BY <2>2, <2>3, <2>4, <2>5 DEF RunAccount, Parking, At
<1>9. CASE Persist
  BY <1>9, PersistAccount
<1>10. CASE RetryDelayOver
  <2>1. run'.pc = "read" /\ run'.ans = run.ans /\ run'.loop = run.loop + 1 /\ booking' = booking
    BY <1>1, <1>10 DEF RetryDelayOver, Execution
  <2>2. run.loop <= booking.attempts
    BY <1>10 DEF RetryDelayOver, RunAccount, At
  <2>3. run'.loop <= booking'.attempts + 1
    BY <1>1, <2>1, <2>2
  <2> QED
    BY <2>1, <2>3, KeptAnswerCounts DEF RunAccount, Parking, At
<1>11. CASE ParkRead \/ ParkFail \/ ParkFlag
  <2>1. run.pc \in Parking /\ (run' = NoRun \/ \E p \in Parking : run' = [run EXCEPT !.pc = p])
    BY <1>11 DEF ParkRead, ParkFail, ParkFlag, Goto, Close, At, Parking
  <2>2. ASSUME NEW p \in Parking, run' = [run EXCEPT !.pc = p] PROVE RunAccount'
    <3>1. run'.pc = p /\ run'.ans = run.ans /\ run'.budget = run.budget
      BY <1>1, <2>2 DEF Execution
    <3>2. Spent(run.budget)'
      BY <1>1, <2>1, <3>1, RunBudgetStaysSpent DEF RunAccount
    <3> QED
      BY <3>1, <3>2, ParkingAccount
  <2> QED
    BY <2>1, <2>2, ClosedAccount
<1>12. CASE AwaitOutcome
  <2>1. run'.pc = "waiting" /\ run'.ans = run.ans
    BY <1>1, <1>12 DEF AwaitOutcome, Goto, Execution
  <2> QED
    BY <2>1, ElsewhereAccount
<1>13. CASE RecordSuperseded \/ WokenBySignal \/ ParkTimerFires
  BY <1>13, ClosedAccount DEF RecordSuperseded, WokenBySignal, ParkTimerFires, Close
<1> QED
  BY <1>2, <1>3, <1>4, <1>5, <1>6, <1>7, <1>8, <1>9, <1>10, <1>11, <1>12, <1>13 DEF Run

LEMMA EnvironmentAccounts ==
    ASSUME Certain, TypeOK', RunAccount, LateAccount, RowGoesOn, Environment
    PROVE  RunAccount' /\ LateAccount'
<1>1. /\ run \in Execution /\ TypeOK
  BY DEF Certain, TypeOK, RunTypeOK
<1>2. CASE RunCloses
  BY <1>1, <1>2, ClosedAccount, LateKeepsAccount DEF RunCloses, Close
<1>3. CASE TryTimesOut
  <2> DEFINE left == [kind |-> run.pc, budget |-> run.budget, ans |-> run.ans]
  <2>1. late' = late \cup {left} /\ booking' = booking
    BY <1>3 DEF TryTimesOut
  <2>2. left.kind = "parkFail" => Spent(left.budget)
    BY DEF RunAccount, Parking
  <2>3. Attempted(left.ans) => left.ans.attempt # NoMarker
    BY DEF RunAccount
  <2> HIDE DEF left
  <2>4. LateAccount'
    BY <2>1, <2>2, <2>3 DEF LateAccount, Spent
  <2>5. CASE At("authorize")
    <3>1. run' = NoRun
      BY <1>3, <2>5 DEF TryTimesOut, Close, At
    <3> QED
      BY <2>4, <3>1, ClosedAccount
  <2>6. CASE run.pc \in {"parkFail", "parkFlag"}
    <3>1. run' = [run EXCEPT !.pc = "parkRead"]
      BY <1>3, <2>6 DEF TryTimesOut, Goto, At
    <3>2. run'.pc = "parkRead" /\ run'.ans = run.ans /\ run'.budget = run.budget
      BY <1>1, <3>1 DEF Execution
    <3>3. run.pc \in Parking /\ run'.pc \in Parking
      BY <2>6, <3>2 DEF Parking
    <3>4. Spent(run.budget)'
      BY <1>1, <3>2, <3>3, RunBudgetStaysSpent DEF RunAccount
    <3> QED
      BY <2>4, <3>2, <3>3, <3>4, ParkingAccount
  <2>7. CASE ~At("authorize") /\ run.pc \notin {"parkFail", "parkFlag"}
    <3>1. run' = run
      BY <1>3, <2>7 DEF TryTimesOut
    <3> QED
      BY <1>1, <2>4, <3>1, RunKeepsAccount
  <2> QED
    BY <2>5, <2>6, <2>7
<1>4. CASE TryFails
  <2>1. LateAccount'
    BY <1>1, <1>4, LateKeepsAccount DEF TryFails
  <2>2. CASE At("supersede")
    <3>1. run' = [run EXCEPT !.pc = "persist"] /\ booking' = booking
      BY <1>4, <2>2 DEF TryFails, Goto
    <3>2. /\ run'.pc = "persist" /\ run'.ans = run.ans
          /\ run'.loop = run.loop /\ run'.budget = run.budget
      BY <1>1, <3>1 DEF Execution
    <3>3. /\ Attempted(run.ans) => run.loop <= booking.attempts
          /\ run.ans.outcome = "BUDGET_SPENT" => run.budget <= booking.attempts
      BY <2>2 DEF RunAccount, At
    <3>4. Attempted(run.ans)' = Attempted(run.ans)
      BY <3>2 DEF Attempted
    <3> QED
      BY <2>1, <3>1, <3>2, <3>3, <3>4, KeptAnswerCounts DEF RunAccount, Parking, At
  <2>3. CASE ~At("supersede")
    <3>1. run.pc \in Parking /\ run' = [run EXCEPT !.pc = "parkRead"]
      BY <1>4, <2>3 DEF TryFails, Goto, At, Parking
    <3>2. run'.pc = "parkRead" /\ run'.ans = run.ans /\ run'.budget = run.budget
      BY <1>1, <3>1 DEF Execution
    <3>3. Spent(run.budget)' /\ run'.pc \in Parking
      BY <1>1, <3>1, <3>2, RunBudgetStaysSpent DEF RunAccount, Parking
    <3> QED
      BY <2>1, <3>2, <3>3, ParkingAccount
  <2> QED
    BY <2>2, <2>3
<1>5. CASE (\E s \in late : LateCommits(s)) \/ (\E attempt \in live : LateSend(attempt))
  <2>1. run' = run /\ late' \subseteq late
    BY <1>5 DEF LateCommits, LateSend
  <2> QED
    BY <1>1, <2>1, RunKeepsAccount, LateKeepsAccount
<1> QED
  BY <1>2, <1>3, <1>4, <1>5 DEF Environment, RunFault

LEMMA NextAccounts ==
    Certain /\ TypeOK' /\ RunAccount /\ LateAccount /\ [Next]_vars => RunAccount' /\ LateAccount'
<1> SUFFICES ASSUME Certain, TypeOK', RunAccount, LateAccount, [Next]_vars
             PROVE  RunAccount' /\ LateAccount'
  OBVIOUS
<1>1. RowGoesOn /\ TypeOK
  BY EveryStepGoesOn DEF Certain
<1>2. CASE run' = run /\ late' = late
  BY <1>1, <1>2, RunKeepsAccount, LateKeepsAccount
<1>3. CASE Run
  <2>1. late' = late
    BY <1>3 DEF Run, ResolveStaleMarker, LoadStatus, ReadBeforeAuthorizing, Authorize,
                AuthorizeRefused, BytesLeave, Book, BookReturns, Persist, RecordSuperseded,
                RetryDelayOver, ParkRead, ParkFail, ParkFlag, AwaitOutcome, WokenBySignal,
                ParkTimerFires
  <2> QED
    BY <1>1, <1>3, <2>1, RunAccounts, LateKeepsAccount
<1>4. CASE Environment
  BY <1>1, <1>4, EnvironmentAccounts
<1>5. CASE FindStale \/ SweepGivesUp
  BY <1>2, <1>5 DEF FindStale, SweepGivesUp, runVars
<1>6. CASE RestartStale
  <2>1. late' = late /\ (run' = run \/ \E budget \in Budgets : run' = Started(budget))
    BY <1>6 DEF RestartStale, StartBooking
  <2>2. ASSUME NEW budget \in Budgets, run' = Started(budget) PROVE RunAccount'
    BY <2>2, ElsewhereAccount DEF Started
  <2> QED
    BY <1>1, <1>2, <2>1, <2>2, LateKeepsAccount
<1>7. ASSUME NEW d \in {"reserved", "declined"}, Decide(d) PROVE run' = run /\ late' = late
  BY <1>7 DEF Decide, runVars
<1>8. ASSUME NEW h \in Handlers, Deliver(h) \/ Handle(h) \/ HandlerFails(h)
      PROVE  run' = run /\ late' = late
  BY <1>1, <1>8, HandlerMoves
<1>9. CASE UNCHANGED vars
  BY <1>2, <1>9 DEF vars, runVars
<1> QED
  BY <1>2, <1>3, <1>4, <1>5, <1>6, <1>7, <1>8, <1>9 DEF Next

LEMMA AccountsHold == Spec => [](RunAccount /\ LateAccount)
<1>1. Init => RunAccount /\ LateAccount
  <2> SUFFICES ASSUME Init PROVE RunAccount /\ LateAccount
    OBVIOUS
  <2>1. run.ans = NoAnswer /\ run.pc \in {"none", "resolve"} /\ late = {}
    BY DEF Init, RunInit, NoRun, Started
  <2>2. ~Attempted(run.ans)
    BY <2>1 DEF Attempted, NoAnswer
  <2> QED
    BY <2>1, <2>2 DEF RunAccount, LateAccount, Parking, At
<1>2. Certain /\ Certain' /\ RunAccount /\ LateAccount /\ [Next]_vars => RunAccount' /\ LateAccount'
  BY NextAccounts DEF Certain
<1> QED
  BY <1>1, <1>2, CertainHolds, PTL DEF Spec

\* An answer cannot fail a booking whose marker is clear: it came from an
\* attempt, and that attempt's marker is set while it may write.
LEMMA AnswerNeedsItsMarker ==
    ASSUME RowOK(booking), booking.marker = NoMarker, booking.status = "PENDING",
           NEW ans \in Answer, ans.outcome # "NONE", Attempted(ans) => ans.attempt # NoMarker
    PROVE  PersistRow(booking, ans).status # "FAILED"
<1>1. CASE ans.outcome \in Refusals
  BY <1>1 DEF PersistRow
<1>2. CASE ans.outcome \notin Refusals
  <2>1. booking.marker # ans.attempt
    BY <1>2 DEF Attempted
  <2> QED
    BY <2>1, PersistRowEffect
<1> QED
  BY <1>1, <1>2

\* docs/RFC.md:656.  However executions die and whatever statement commits late,
\* no booking is called unreachable before the budget of the execution that says
\* so was authorized in full.
THEOREM NobodyGivesUpEarly == Spec => UnreachableSpentBudget
<1> DEFINE Unreached == booking.status = "PENDING" /\ booking.marker = NoMarker
<1> DEFINE SaidSpent == \/ At("parkFail") /\ booking.attempts >= run.budget
                        \/ \E s \in late : s.kind = "parkFail" /\ booking.attempts >= s.budget
<1>1. ASSUME Certain, RunAccount, LateAccount, [Next]_vars, Unreached, booking'.status = "FAILED"
      PROVE  SaidSpent
  <2>1. /\ RowOK(booking) /\ booking.attempts \in Nat /\ CallbackTypeOK
        /\ run.budget \in Nat /\ run.ans \in Answer /\ late \subseteq Statement
    BY <1>1 DEF Certain, TypeOK, StoreTypeOK, RunTypeOK, RowOK, Row, Execution
  <2>2. booking'.status # booking.status /\ booking' # booking
    BY <1>1
  <2>3. CASE Run
    <3>1. ~ResolveStaleMarker
      BY <1>1, <2>1, <2>2, ResolveStaleMarkerRowEffect DEF ResolveStaleMarker
    <3>2. ~Authorize
      BY <1>1, <2>1, AuthorizeRowEffect DEF Authorize
    <3>3. ~Persist
      <4>1. Persist => run.ans.outcome # "NONE"
        BY <1>1 DEF Persist, At, Certain, MarkerProtocol, PersistsAnAnswer
      <4> QED
        BY <1>1, <2>1, <4>1, AnswerNeedsItsMarker DEF Persist, RunAccount
    <3>4. ~ParkFlag
      BY <2>1, <2>2, ParkRowEffect DEF ParkFlag
    <3>5. ParkFail => SaidSpent
      <4>1. ParkFail => At("parkFail") /\ Spent(run.budget)
        BY <1>1 DEF ParkFail, RunAccount, Parking, At
      <4> QED
        BY <1>1, <2>1, <4>1 DEF Spent
    <3> QED
      BY <2>2, <2>3, <3>1, <3>2, <3>3, <3>4, <3>5
         DEF Run, LoadStatus, ReadBeforeAuthorizing, AuthorizeRefused, BytesLeave, Book, BookReturns,
             RecordSuperseded, RetryDelayOver, ParkRead, AwaitOutcome, WokenBySignal, ParkTimerFires
  <2>4. CASE Environment
    <3>1. PICK s \in late : LateCommits(s)
      BY <2>2, <2>4 DEF Environment, RunFault, RunCloses, TryTimesOut, TryFails, LateSend
    <3>2. s \in Statement /\ s.ans \in Answer /\ s.budget \in Nat /\ booking' = LateRow(booking, s)
      BY <2>1, <3>1 DEF LateCommits, Statement
    <3>3. s.kind # "resolve"
      BY <1>1, <2>1, <2>2, <3>2, ResolveStaleMarkerRowEffect DEF LateRow
    <3>4. s.kind # "authorize"
      BY <1>1, <2>1, <2>2, <3>2, AuthorizeRowEffect DEF LateRow
    <3>5. s.kind # "parkFlag"
      BY <2>1, <2>2, <3>2, ParkRowEffect DEF LateRow
    <3>6. s.kind # "persist"
      <4>1. s.kind = "persist" => s.ans.outcome # "NONE"
        BY <1>1 DEF Certain, MarkerProtocol, PersistsAnAnswer
      <4> QED
        BY <1>1, <2>1, <3>2, <4>1, AnswerNeedsItsMarker DEF LateRow, LateAccount
    <3>7. s.kind = "parkFail"
      BY <3>2, <3>3, <3>4, <3>5, <3>6 DEF Statement
    <3>8. Spent(s.budget)
      BY <1>1, <3>7 DEF LateAccount
    <3>9. booking.attempts >= s.budget
      BY <1>1, <2>1, <3>2, <3>8 DEF Spent
    <3> QED
      BY <3>7, <3>9
  <2>5. ASSUME NEW h \in Handlers, Deliver(h) \/ Handle(h) \/ HandlerFails(h) PROVE FALSE
    <3>1. \/ booking' = booking \/ booking' = FlagRow(booking)
          \/ booking' = ApplyRow(booking, callbackTransition(cb[h].have, cb[h].out))
      BY <2>5 DEF Deliver, Receive, Handle, HandlerFails, CallbackStep, CallbackFault, ApplyOutcome,
                  RereadWinner, ApplyAgain, RecordRefusal, FlagForRecovery, BestEffortFails,
                  HandlerDies, SignalOutcome, storeVars
    <3> QED
      BY <1>1, <2>1, <2>2, <3>1, FlagRowEffect, CallbackApplyEffect
  <2>6. ~(FindStale \/ RestartStale \/ SweepGivesUp \/ UNCHANGED vars)
    BY <2>2 DEF FindStale, RestartStale, SweepGivesUp, vars, storeVars
  <2>7. \A d \in {"reserved", "declined"} : ~Decide(d)
    BY <2>2 DEF Decide, storeVars
  <2> QED
    BY <1>1, <2>3, <2>4, <2>5, <2>6, <2>7 DEF Next
<1> QED
  BY <1>1, CertainHolds, AccountsHold, PTL DEF Spec, UnreachableSpentBudget

=============================================================================
