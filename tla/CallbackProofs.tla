---------------------------- MODULE CallbackProofs ----------------------------
(***************************************************************************)
(* What answers and racing callback handlers leave behind, proved of       *)
(* BookingLifecycle for any number of handlers: the row never contradicts  *)
(* a supplier that tells the truth, and until something fails              *)
(*                                                                         *)
(*   - no confirmation without a reference goes unflagged,                 *)
(*   - no confirmation that was applied is refused as contradicting the    *)
(*     settled row a handler found,                                        *)
(*   - no execution is parked on a settled row without a signal.           *)
(***************************************************************************)
EXTENDS BookingOutcomeProofs

\* Without a failure no statement is late, and a confirmed answer of the attempt
\* names its reference.
AnswersRefer == late = {} /\ (run.ans.outcome = "CONFIRMED" => run.ans.ref # NoRef)

\* A confirmation that was applied is what the row says.
AcceptedIsStored ==
    \A out \in accepted :
        out.status = "CONFIRMED" => booking.status = "CONFIRMED" /\ booking.ref = out.ref

\* A handler that read a settled row still knows the row; one that is about to
\* apply its callback did not read one.
KnowsTheRow(h) ==
    /\ ~In(h, "idle") /\ Settled(cb[h].have) => booking.status = cb[h].have
    /\ cb[h].pc \in {"apply", "again"} => ~Settled(cb[h].have)

Orderly == /\ AnswersRefer
           /\ UnreferencedIsFlagged
           /\ AcceptedIsStored
           /\ \A h \in Handlers : KnowsTheRow(h)
           /\ DuplicateConfirmation

\* How a step may move the row, as far as a callback sees it.
Stays(b, c) == /\ c.status = b.status /\ c.ref = b.ref
               /\ b.flag => c.flag

LEMMA SettledRowStays ==
    ASSUME Certain, [Next]_vars, Settled(booking.status)
    PROVE  Stays(booking, booking')
<1>1. booking \in Row /\ (booking' = booking \/ booking' = FlagRow(booking))
  BY EveryStepMoves DEF Certain, TypeOK, StoreTypeOK, RowOK, RowMoves
<1> QED
  BY <1>1 DEF FlagRow, Row, Stays

LEMMA OpenRowHasNoReference ==
    ASSUME Certain, ~Settled(booking.status)
    PROVE  booking.ref = NoRef /\ booking.status # "CONFIRMED"
  BY DEF Certain, ReferenceIsConfirmation, Settled, SettledStatuses

-----------------------------------------------------------------------------
(* Whose word settles the row. *)

Words == {"CONFIRMED", "REJECTED"}

\* A statement that is not an answer confirms and rejects nothing.
LEMMA StatementSaysNothing ==
    ASSUME NEW b, RowOK(b), NEW word \in Words, b.status # word
    PROVE  /\ ResolveStaleMarkerRow(b).status # word
           /\ AuthorizeRow(b).status # word
           /\ ParkRow(b).status # word
           /\ FlagRow(b).status # word
           /\ ApplyRow(b, Unreachable).status # word
<1> USE DEF RowOK, Row, Words
<1>1. ResolveStaleMarkerRow(b).status # word
  BY DEF ResolveStaleMarkerRow
<1>2. AuthorizeRow(b).status # word
  BY DEF AuthorizeRow
<1>3. ParkRow(b).status # word /\ FlagRow(b).status # word
  BY DEF ParkRow, FlagRow
<1>4. ApplyRow(b, Unreachable).status # word
  BY DEF ApplyRow, Moved, Unreachable
<1> QED
  BY <1>1, <1>2, <1>3, <1>4

\* What a persisted answer makes of the row is what the answer said, with the
\* reference it named.
LEMMA PersistRepeats ==
    ASSUME NEW b, RowOK(b), NEW word \in Words, b.status # word,
           NEW ans, PersistRow(b, ans).status = word
    PROVE  /\ ans.outcome = word
           /\ ans.ref # NoRef => PersistRow(b, ans).ref = ans.ref
<1>1. CASE ans.outcome \in Refusals
  BY <1>1 DEF PersistRow
<1>2. CASE ans.outcome \notin Refusals /\ ClearsOnly(ans)
  BY <1>2 DEF PersistRow, ClearMarkerRow, RowOK, Row
<1>3. CASE ans.outcome \notin Refusals /\ ~ClearsOnly(ans)
  <2> DEFINE t == AnswerTransition(ans)
  <2>1. PersistRow(b, ans) = ApplyRow(b, t)
    BY <1>3 DEF PersistRow
  <2>2. t.ref = ans.ref /\ (t.to = word => ans.outcome = word)
    BY DEF AnswerTransition, Words
  <2> HIDE DEF t
  <2>3. ApplyRow(b, t) = Moved(b, t)
    BY <2>1 DEF ApplyRow
  <2>4. Moved(b, t).status = t.to /\ Moved(b, t).ref = IF t.ref = NoRef THEN b.ref ELSE t.ref
    BY DEF Moved, RowOK, Row
  <2> QED
    BY <2>1, <2>2, <2>3, <2>4
<1> QED
  BY <1>1, <1>2, <1>3

\* The answer that this step writes into the row, if it does.
Persisted(word) ==
    \E ans \in Answers : /\ ans.outcome = word
                         /\ ans.ref # NoRef => booking'.ref = ans.ref

LEMMA RunSays ==
    ASSUME TypeOK, Run, NEW word \in Words, booking.status # word, booking'.status = word
    PROVE  Persisted(word)
<1>1. RowOK(booking) /\ run.ans \in Answers
  BY DEF TypeOK, StoreTypeOK, Answers
<1>2. ~(ResolveStaleMarker \/ Authorize \/ ParkFail \/ ParkFlag)
  BY <1>1, StatementSaysNothing DEF ResolveStaleMarker, Authorize, ParkFail, ParkFlag
<1>3. CASE Persist
  BY <1>1, <1>3, PersistRepeats DEF Persist, Persisted
<1>4. CASE ~Persist
  BY <1>2, <1>4 DEF Run, LoadStatus, ReadBeforeAuthorizing, AuthorizeRefused, BytesLeave, Book,
                    BookReturns, RecordSuperseded, RetryDelayOver, ParkRead, AwaitOutcome,
                    WokenBySignal, ParkTimerFires
<1> QED
  BY <1>3, <1>4

LEMMA EnvironmentSays ==
    ASSUME TypeOK, Environment, NEW word \in Words, booking.status # word, booking'.status = word
    PROVE  Persisted(word)
<1>1. RowOK(booking)
  BY DEF TypeOK, StoreTypeOK
<1>2. PICK s \in late : LateCommits(s)
  BY DEF Environment, RunFault, RunCloses, TryTimesOut, TryFails, LateSend
<1>3. s \in Statement /\ s.ans \in Answers /\ booking' = LateRow(booking, s)
  BY <1>2 DEF LateCommits, Answers, TypeOK, RunTypeOK
<1>4. s.kind = "persist"
  BY <1>1, <1>3, StatementSaysNothing DEF LateRow, Statement
<1>5. booking' = PersistRow(booking, s.ans)
  BY <1>3, <1>4 DEF LateRow
<1> QED
  BY <1>1, <1>3, <1>5, PersistRepeats DEF Persisted

LEMMA HandlerSays ==
    ASSUME TypeOK, NEW h \in Handlers, Deliver(h) \/ Handle(h) \/ HandlerFails(h),
           NEW word \in Words, booking.status # word, booking'.status = word
    PROVE  cb[h].out.status = word
<1>1. RowOK(booking)
  BY DEF TypeOK, StoreTypeOK
<1>2. booking' # FlagRow(booking)
  BY <1>1, StatementSaysNothing
<1>3. booking' = ApplyRow(booking, callbackTransition(cb[h].have, cb[h].out))
  BY <1>2 DEF Deliver, Receive, Handle, HandlerFails, CallbackStep, CallbackFault, ApplyOutcome,
              RereadWinner, ApplyAgain, RecordRefusal, FlagForRecovery, BestEffortFails,
              HandlerDies, SignalOutcome, storeVars
<1> QED
  BY <1>1, <1>3 DEF ApplyRow, Moved, callbackTransition, RowOK, Row

\* The row is only ever confirmed or rejected on the word of an answer or of a
\* callback.
LEMMA EveryStepRepeats ==
    ASSUME TypeOK, [Next]_vars, NEW word \in Words, booking.status # word, booking'.status = word
    PROVE  Persisted(word) \/ \E h \in Handlers : cb[h].out.status = word
<1>1. ~(FindStale \/ RestartStale \/ SweepGivesUp \/ UNCHANGED vars)
  BY DEF FindStale, RestartStale, SweepGivesUp, vars, storeVars
<1>2. \A d \in {"reserved", "declined"} : ~Decide(d)
  BY DEF Decide, storeVars
<1> QED
  BY <1>1, <1>2, RunSays, EnvironmentSays, HandlerSays DEF Next

-----------------------------------------------------------------------------
(* The supplier's truth reaches the row. *)

\* A callback in hand was in hand before, says nothing, or is being delivered.
LEMMA CallbacksComeFrom ==
    ASSUME TypeOK, [Next]_vars, NEW h \in Handlers, NEW word \in Words, cb'[h].out.status = word
    PROVE  cb[h].out.status = word \/ (Truthful(word) /\ decision' = decision)
<1>1. cb \in [Handlers -> Handler] /\ word # "OTHER"
  BY DEF TypeOK, CallbackTypeOK, Words
<1>2. CASE cb' = cb
  BY <1>2
<1>3. ASSUME NEW g \in Handlers, Deliver(g)
      PROVE  cb[h].out.status = word \/ (Truthful(word) /\ decision' = decision)
  BY <1>1, <1>3 DEF Deliver, Receive
<1>4. ASSUME NEW g \in Handlers, Handle(g) \/ HandlerFails(g)
      PROVE  cb[h].out.status = word
  <2>1. \/ cb' = [cb EXCEPT ![g] = IdleHandler]
        \/ \E pc : cb' = [cb EXCEPT ![g].pc = pc]
        \/ \E have : cb' = [cb EXCEPT ![g].pc = "reread", ![g].have = have]
    BY <1>4 DEF Handle, HandlerFails, CallbackStep, CallbackFault, ApplyOutcome, RereadWinner,
                ApplyAgain, RecordRefusal, FlagForRecovery, BestEffortFails, HandlerDies,
                SignalOutcome, AfterApplied, Done, Step
  <2>2. CASE cb' = [cb EXCEPT ![g] = IdleHandler]
    BY <1>1, <2>2 DEF IdleHandler, NoCallback
  <2>3. ASSUME NEW pc, cb' = [cb EXCEPT ![g].pc = pc] PROVE cb[h].out.status = word
    BY <1>1, <2>3 DEF Handler
  <2>4. ASSUME NEW have, cb' = [cb EXCEPT ![g].pc = "reread", ![g].have = have]
        PROVE  cb[h].out.status = word
    BY <1>1, <2>4 DEF Handler
  <2> QED
    BY <2>1, <2>2, <2>3, <2>4
<1>5. CASE Run \/ Environment \/ FindStale \/ RestartStale \/ SweepGivesUp \/ UNCHANGED vars
  BY <1>2, <1>5 DEF Run, Environment, FindStale, RestartStale, SweepGivesUp, vars, callbackVars
<1>6. ASSUME NEW d \in {"reserved", "declined"}, Decide(d) PROVE cb' = cb
  BY <1>6 DEF Decide, callbackVars
<1> QED
  BY <1>2, <1>3, <1>4, <1>5, <1>6 DEF Next

\* The supplier decides once, after a request may have arrived.
LEMMA DecidesOnce ==
    ASSUME TypeOK, [Next]_vars
    PROVE  /\ decision' = decision \/ (decision = "undecided" /\ sent # {})
           /\ sent \subseteq sent'
<1>1. CASE Run
  BY <1>1 DEF Run, ResolveStaleMarker, LoadStatus, ReadBeforeAuthorizing, Authorize,
              AuthorizeRefused, BytesLeave, Book, BookReturns, Persist, RecordSuperseded,
              RetryDelayOver, ParkRead, ParkFail, ParkFlag, AwaitOutcome, WokenBySignal,
              ParkTimerFires
<1>2. CASE Environment
  BY <1>2 DEF Environment, RunFault, RunCloses, TryTimesOut, TryFails, LateCommits, LateSend
<1>3. CASE FindStale \/ RestartStale \/ SweepGivesUp \/ UNCHANGED vars
  BY <1>3 DEF FindStale, RestartStale, SweepGivesUp, vars, runVars
<1>4. ASSUME NEW d \in {"reserved", "declined"}, Decide(d)
      PROVE  decision = "undecided" /\ sent # {} /\ sent' = sent
  BY <1>4 DEF Decide, runVars
<1>5. ASSUME NEW h \in Handlers, Deliver(h) \/ Handle(h) \/ HandlerFails(h)
      PROVE  decision' = decision /\ sent' = sent
  BY <1>5, HandlerMoves DEF Deliver, Handle, HandlerFails, SignalOutcome
<1> QED
  BY <1>1, <1>2, <1>3, <1>4, <1>5 DEF Next

\* What was true of the supplier stays true: it decides at most once.
LEMMA TrueWordsStayTrue ==
    ASSUME TypeOK, [Next]_vars, NEW word, TrueWord(word)
    PROVE  TrueWord(word)'
  BY DecidesOnce DEF TrueWord

LEMMA TestimonyNext ==
    ASSUME Certain, Testimony, [Next]_vars PROVE Testimony'
<1>1. TypeOK /\ decision \in {"undecided", "arbitrary", "reserved", "declined"}
  BY DEF Certain, TypeOK
<1>2. \A word \in Words : Truthful(word) => TrueWord(word)
  BY <1>1 DEF Truthful, TrueWord, Words
<1>3. \A word : (word \in Words => TrueWord(word)') => TrueWord(word)'
  BY DEF TrueWord, Words
<1>4. ASSUME NEW ans \in Answers' PROVE TrueWord(ans.outcome)'
  <2>1. CASE ans \in Answers
    BY <1>1, <2>1, TrueWordsStayTrue DEF Testimony
  <2>2. CASE Blank(ans)
    BY <1>3, <2>2 DEF Blank, Refusals, Words
  <2>3. CASE Returned(ans)
    <3>1. ans.outcome \in Words => Truthful(ans.outcome)
      BY <2>3 DEF Returned, Words
    <3> QED
      BY <1>1, <1>2, <1>3, <3>1, TrueWordsStayTrue
  <2> QED
    BY <1>1, <2>1, <2>2, <2>3, AnswersComeFrom DEF Known
<1>5. ASSUME NEW h \in Handlers PROVE TrueWord(cb[h].out.status)'
  <2>1. ASSUME NEW word \in Words, cb'[h].out.status = word PROVE TrueWord(word)'
    BY <1>1, <1>2, <2>1, CallbacksComeFrom, TrueWordsStayTrue DEF Testimony
  <2> QED
    BY <1>3, <2>1
<1>6. TrueWord(booking.status)'
  <2>1. ASSUME NEW word \in Words, booking'.status = word PROVE TrueWord(word)
    BY <1>1, <2>1, EveryStepRepeats DEF Persisted, Testimony
  <2> QED
    BY <1>1, <1>3, <2>1, TrueWordsStayTrue
<1>7. (decision \in {"reserved", "declined"} => sent # {})'
  BY <1>1, DecidesOnce DEF Testimony
<1> QED
  BY <1>4, <1>5, <1>6, <1>7 DEF Testimony

\* For every set of handlers, budgets and failures: the row, the answers on
\* their way to it and the callbacks in hand say what the supplier did.
THEOREM TestimonyHolds == Spec => []Testimony
<1>1. Init => Testimony
  <2> SUFFICES ASSUME Init PROVE Testimony
    OBVIOUS
  <2>1. run.ans = NoAnswer /\ late = {} /\ booking.status = "RECEIVED"
    BY DEF Init, NewRow, RunInit, NoRun, Started
  <2>2. decision \in {"undecided", "arbitrary"}
    BY SuppliersAssumption DEF Init
  <2>3. \A h \in Handlers : cb[h].out.status = "OTHER"
    BY DEF Init, CallbackInit, IdleHandler, NoCallback
  <2>4. \A ans \in Answers : ans.outcome = "NONE"
    BY <2>1 DEF Answers, NoAnswer
  <2> QED
    BY <2>1, <2>2, <2>3, <2>4 DEF Testimony, TrueWord
<1>2. Certain /\ Testimony /\ [Next]_vars => Testimony'
  BY TestimonyNext
<1> QED
  BY <1>1, <1>2, CertainHolds, PTL DEF Spec

\* README.md:8.  A supplier that deduplicates and tells the
\* truth is never contradicted by the row: what it reserved is neither rejected
\* nor failed, what it declined is not confirmed.
THEOREM TheTruthIsTold == Spec => []SupplierTruth
<1>1. ASSUME Certain, Testimony PROVE SupplierTruth
  <2>1. booking.status = "FAILED" => sent = {}
    BY <1>1 DEF Certain, MarkerProtocol, ReachIsMarked, MayReach
  <2> QED
    BY <1>1, <2>1 DEF Testimony, TrueWord, SupplierTruth
<1> QED
  BY <1>1, CertainHolds, TestimonyHolds, PTL

-----------------------------------------------------------------------------
(* Steps of the execution, of the sweep and of the supplier. *)

\* The execution confirms with a reference or not at all.
ConfirmsWithReference ==
    booking.status # "CONFIRMED" /\ booking'.status = "CONFIRMED" => booking'.ref # NoRef

LEMMA RunConfirms ==
    ASSUME TypeOK, AnswersRefer, Run PROVE ConfirmsWithReference /\ AnswersRefer'
<1>1. Answers = {run.ans}
  BY DEF Answers, AnswersRefer
<1>2. ConfirmsWithReference
  BY <1>1, RunSays DEF AnswersRefer, ConfirmsWithReference, Persisted, Words
<1>3. late' = late /\ Known(run'.ans)
  BY RunAnswers
<1>4. run'.ans.outcome = "CONFIRMED" => run'.ans.ref # NoRef
  BY <1>1, <1>3 DEF Known, Blank, Refusals, Returned, BookReturns, AnswersRefer
<1> QED
  BY <1>2, <1>3, <1>4 DEF AnswersRefer

-----------------------------------------------------------------------------
(* What a step keeps of the parts it does not touch. *)

LEMMA OthersKnow ==
    ASSUME Certain, [Next]_vars, NEW h \in Handlers, KnowsTheRow(h), cb'[h] = cb[h]
    PROVE  KnowsTheRow(h)'
<1>1. Settled(booking.status) => booking'.status = booking.status
  BY SettledRowStays DEF Stays
<1> QED
  BY <1>1 DEF KnowsTheRow, In

LEMMA AcceptedStaysStored ==
    ASSUME Certain, [Next]_vars, AcceptedIsStored, accepted' = accepted
    PROVE  AcceptedIsStored'
<1>1. booking.status = "CONFIRMED" => booking'.status = "CONFIRMED" /\ booking'.ref = booking.ref
  BY SettledRowStays DEF Stays, Settled, SettledStatuses
<1> QED
  BY <1>1 DEF AcceptedIsStored

\* Steps that are not a handler's.
LEMMA OtherStepsAreOrderly ==
    ASSUME Certain, Orderly, [Next]_vars, UNCHANGED callbackVars,
           ConfirmsWithReference, AnswersRefer'
    PROVE  Orderly'
<1>1. cb' = cb /\ accepted' = accepted
  BY DEF callbackVars
<1>2. (\A h \in Handlers : KnowsTheRow(h))'
  BY <1>1, OthersKnow DEF Orderly
<1>3. AcceptedIsStored'
  BY <1>1, AcceptedStaysStored DEF Orderly
<1>4. DuplicateConfirmation'
  BY <1>1 DEF Orderly, DuplicateConfirmation, In
<1>5. UnreferencedIsFlagged'
  <2> SUFFICES ASSUME booking'.status = "CONFIRMED", booking'.ref = NoRef
               PROVE  booking'.flag \/ \E h \in Handlers : In(h, "unref")'
    BY DEF UnreferencedIsFlagged
  <2>1. booking.status = "CONFIRMED"
    BY DEF ConfirmsWithReference
  <2>2. booking.ref = NoRef /\ (booking.flag => booking'.flag)
    BY <2>1, SettledRowStays DEF Stays, Settled, SettledStatuses
  <2> QED
    BY <1>1, <2>1, <2>2 DEF Orderly, UnreferencedIsFlagged, In
<1> QED
  BY <1>2, <1>3, <1>4, <1>5 DEF Orderly

\* Steps of handler h that leave the row as it is, or raise its flag.
LEMMA QuietHandlerIsOrderly ==
    ASSUME Certain, Orderly, [Next]_vars, NEW h \in Handlers,
           \A g \in Handlers \ {h} : cb'[g] = cb[g],
           UNCHANGED <<run, late, accepted>>,
           (booking' = booking /\ ~In(h, "unref")) \/ booking' = FlagRow(booking),
           KnowsTheRow(h)',
           In(h, "refuse")' /\ Settled(cb'[h].have) /\ cb'[h].out.status = "CONFIRMED"
               => cb'[h].out \notin accepted
    PROVE  Orderly'
<1>1. (\A g \in Handlers : KnowsTheRow(g))'
  <2>1. ASSUME NEW g \in Handlers \ {h} PROVE KnowsTheRow(g)'
    BY OthersKnow DEF Orderly
  <2> QED
    BY <2>1
<1>2. AcceptedIsStored'
  BY AcceptedStaysStored DEF Orderly
<1>3. DuplicateConfirmation'
  BY DEF Orderly, DuplicateConfirmation, In
<1>4. AnswersRefer'
  BY DEF Orderly, AnswersRefer
<1>5. UnreferencedIsFlagged'
  <2>1. CASE booking' = FlagRow(booking)
    BY <2>1 DEF FlagRow, UnreferencedIsFlagged, Certain, TypeOK, StoreTypeOK, RowOK, Row
  <2>2. CASE booking' = booking /\ ~In(h, "unref")
    BY <2>2 DEF Orderly, UnreferencedIsFlagged, In
  <2> QED
    BY <2>1, <2>2
<1> QED
  BY <1>1, <1>2, <1>3, <1>4, <1>5 DEF Orderly

-----------------------------------------------------------------------------
(* Steps of a handler. *)

LEMMA StepEffect ==
    ASSUME CallbackTypeOK, NEW h \in Handlers, NEW pc, Step(h, pc)
    PROVE  /\ cb'[h].pc = pc /\ cb'[h].out = cb[h].out /\ cb'[h].have = cb[h].have
           /\ \A g \in Handlers \ {h} : cb'[g] = cb[g]
  BY DEF CallbackTypeOK, Handler, Step

LEMMA DoneEffect ==
    ASSUME CallbackTypeOK, NEW h \in Handlers, Done(h)
    PROVE  cb'[h].pc = "idle" /\ \A g \in Handlers \ {h} : cb'[g] = cb[g]
  BY DEF CallbackTypeOK, Done, IdleHandler

LEMMA DeliverIsOrderly ==
    ASSUME Certain, Orderly, [Next]_vars, NEW h \in Handlers, Deliver(h)
    PROVE  Orderly'
<1>1. PICK out \in Callback : Receive(h, out)
  BY DEF Deliver
<1>2. cb \in [Handlers -> Handler]
  BY DEF Certain, TypeOK, CallbackTypeOK
<1>3. /\ cb'[h] = [pc |-> FirstStep(booking, out), out |-> out, have |-> booking.status]
      /\ \A g \in Handlers \ {h} : cb'[g] = cb[g]
  BY <1>1, <1>2 DEF Receive
<1>4. booking' = booking /\ ~In(h, "unref") /\ UNCHANGED <<run, late, accepted>>
  BY <1>1 DEF Receive, Deliver, In, runVars
<1>5. KnowsTheRow(h)'
  BY <1>3, <1>4 DEF KnowsTheRow, In, FirstStep
<1>6. ASSUME In(h, "refuse")', Settled(cb'[h].have), cb'[h].out.status = "CONFIRMED",
             cb'[h].out \in accepted
      PROVE  FALSE
  <2>1. FirstStep(booking, out) = "refuse" /\ Settled(booking.status)
        /\ out.status = "CONFIRMED" /\ out \in accepted
    BY <1>3, <1>6 DEF In
  <2>2. booking.status = "CONFIRMED" /\ booking.ref = out.ref
    BY <2>1 DEF Orderly, AcceptedIsStored
  <2> QED
    BY <2>1, <2>2 DEF FirstStep, applicableStatus, sameReference
<1> QED
  BY <1>3, <1>4, <1>5, <1>6, QuietHandlerIsOrderly

LEMMA RereadIsOrderly ==
    ASSUME Certain, Orderly, [Next]_vars, NEW h \in Handlers, RereadWinner(h), UNCHANGED runVars
    PROVE  Orderly'
<1>1. CallbackTypeOK /\ KnowsTheRow(h)
  BY DEF Certain, TypeOK, Orderly
<1>2. /\ booking' = booking /\ In(h, "reread") /\ ~In(h, "unref")
      /\ UNCHANGED <<run, late, accepted>>
  BY DEF RereadWinner, In, runVars
<1>3. CASE Done(h)
  <2>1. cb'[h].pc = "idle" /\ \A g \in Handlers \ {h} : cb'[g] = cb[g]
    BY <1>1, <1>3, DoneEffect
  <2>2. KnowsTheRow(h)' /\ ~In(h, "refuse")'
    BY <2>1 DEF KnowsTheRow, In
  <2> QED
    BY <1>2, <2>1, <2>2, QuietHandlerIsOrderly
<1>4. CASE Step(h, "refuse") /\ ~(cb[h].have = cb[h].out.status /\ sameReference(booking, cb[h].out))
  <2>1. /\ cb'[h].pc = "refuse" /\ cb'[h].out = cb[h].out /\ cb'[h].have = cb[h].have
        /\ \A g \in Handlers \ {h} : cb'[g] = cb[g]
    BY <1>1, <1>4, StepEffect
  <2>2. KnowsTheRow(h)'
    BY <1>1, <1>2, <2>1 DEF KnowsTheRow, In
  <2>3. Settled(cb[h].have) /\ cb[h].out.status = "CONFIRMED" => cb[h].out \notin accepted
    BY <1>1, <1>2, <1>4 DEF KnowsTheRow, In, Orderly, AcceptedIsStored, sameReference
  <2> QED
    BY <1>2, <2>1, <2>2, <2>3, QuietHandlerIsOrderly
<1>5. CASE Step(h, "again") /\ ~Settled(cb[h].have)
  <2>1. /\ cb'[h].pc = "again" /\ cb'[h].have = cb[h].have
        /\ \A g \in Handlers \ {h} : cb'[g] = cb[g]
    BY <1>1, <1>5, StepEffect
  <2>2. KnowsTheRow(h)' /\ ~In(h, "refuse")'
    BY <1>5, <2>1 DEF KnowsTheRow, In
  <2> QED
    BY <1>2, <2>1, <2>2, QuietHandlerIsOrderly
<1> QED
  BY <1>3, <1>4, <1>5 DEF RereadWinner

LEMMA AfterwardsIsOrderly ==
    ASSUME Certain, Orderly, [Next]_vars, NEW h \in Handlers,
           \/ (RecordRefusal(h) \/ FlagForRecovery(h)) /\ UNCHANGED runVars
           \/ SignalOutcome(h)
    PROVE  Orderly'
<1>1. CallbackTypeOK /\ KnowsTheRow(h)
  BY DEF Certain, TypeOK, Orderly
<1>2. UNCHANGED <<run, late, accepted>>
  BY DEF RecordRefusal, FlagForRecovery, SignalOutcome, runVars
<1>3. (booking' = booking /\ ~In(h, "unref")) \/ booking' = FlagRow(booking)
  BY DEF RecordRefusal, FlagForRecovery, SignalOutcome, storeVars, In
<1>4. ~In(h, "idle") /\ (Done(h) \/ Step(h, "flag") \/ Step(h, "signal"))
  BY DEF RecordRefusal, FlagForRecovery, SignalOutcome, In
<1>5. booking'.status = booking.status
  BY <1>3 DEF FlagRow, Certain, TypeOK, StoreTypeOK, RowOK, Row
<1>6. CASE Done(h)
  <2>1. cb'[h].pc = "idle" /\ \A g \in Handlers \ {h} : cb'[g] = cb[g]
    BY <1>1, <1>6, DoneEffect
  <2>2. KnowsTheRow(h)' /\ ~In(h, "refuse")'
    BY <2>1 DEF KnowsTheRow, In
  <2> QED
    BY <1>2, <1>3, <2>1, <2>2, QuietHandlerIsOrderly
<1>7. ASSUME NEW pc \in {"flag", "signal"}, Step(h, pc) PROVE Orderly'
  <2>1. /\ cb'[h].pc = pc /\ cb'[h].have = cb[h].have
        /\ \A g \in Handlers \ {h} : cb'[g] = cb[g]
    BY <1>1, <1>7, StepEffect
  <2>2. KnowsTheRow(h)' /\ ~In(h, "refuse")'
    BY <1>1, <1>4, <1>5, <2>1 DEF KnowsTheRow, In
  <2> QED
    BY <1>2, <1>3, <2>1, <2>2, QuietHandlerIsOrderly
<1> QED
  BY <1>4, <1>6, <1>7

-----------------------------------------------------------------------------
(* The callback's transition. *)

\* The callback wins: the row was open, so nothing else was accepted and nobody
\* knows it as settled.
LEMMA AppliedIsOrderly ==
    ASSUME Certain, Orderly, [Next]_vars, NEW h \in Handlers, UNCHANGED <<run, late>>,
           cb[h].pc \in {"apply", "again"},
           booking' = ApplyRow(booking, callbackTransition(cb[h].have, cb[h].out)),
           ApplyResult(booking, callbackTransition(cb[h].have, cb[h].out)) = "applied",
           AfterApplied(h), accepted' = accepted \cup {cb[h].out}
    PROVE  Orderly'
<1> DEFINE out == cb[h].out
           t == callbackTransition(cb[h].have, out)
           next == IF out = [status |-> "CONFIRMED", ref |-> NoRef] THEN "unref" ELSE "signal"
<1>1. CallbackTypeOK /\ KnowsTheRow(h) /\ RowOK(booking)
  BY DEF Certain, TypeOK, StoreTypeOK, Orderly
<1>2. Guarded(booking, t) /\ booking' = Moved(booking, t)
  BY DEF ApplyRow, ApplyResult
<1>3. booking.status = cb[h].have /\ ~Settled(booking.status)
  BY <1>1, <1>2 DEF Guarded, callbackTransition, KnowsTheRow
<1>4. booking.ref = NoRef /\ booking.status # "CONFIRMED"
  BY <1>3, OpenRowHasNoReference
<1>5. /\ booking'.status = out.status
      /\ booking'.ref = IF outcomeReference(out) = NoRef THEN NoRef ELSE outcomeReference(out)
  BY <1>1, <1>2, <1>4 DEF Moved, callbackTransition, RowOK, Row
<1>6. /\ cb'[h].pc = next /\ cb'[h].out = out /\ cb'[h].have = cb[h].have
      /\ \A g \in Handlers \ {h} : cb'[g] = cb[g]
  BY <1>1, StepEffect DEF AfterApplied
<1>7. out \in Callback \cup {NoCallback}
  BY <1>1 DEF CallbackTypeOK, Handler
<1>8. out.status = "CONFIRMED" /\ out.ref = NoRef
        => out = [status |-> "CONFIRMED", ref |-> NoRef]
  <2>1. CASE out \in Callback
    BY <2>1 DEF Callback
  <2>2. CASE out = NoCallback
    BY <2>2 DEF NoCallback
  <2> QED
    BY <1>7, <2>1, <2>2
<1> HIDE DEF out, t
<1>9. \A c \in accepted : c.status # "CONFIRMED"
  BY <1>4 DEF Orderly, AcceptedIsStored
<1>10. AcceptedIsStored'
  BY <1>5, <1>9 DEF AcceptedIsStored, outcomeReference, out
<1>11. (\A g \in Handlers : KnowsTheRow(g))'
  <2>1. ASSUME NEW g \in Handlers \ {h} PROVE KnowsTheRow(g)'
    BY <1>6, OthersKnow DEF Orderly
  <2>2. KnowsTheRow(h)'
    BY <1>3, <1>6 DEF KnowsTheRow, In
  <2> QED
    BY <2>1, <2>2
<1>12. DuplicateConfirmation'
  <2>1. ASSUME NEW g \in Handlers \ {h}, In(g, "refuse")', Settled(cb'[g].have) PROVE FALSE
    BY <1>3, <1>6, <2>1 DEF Orderly, KnowsTheRow, In
  <2>2. ~In(h, "refuse")'
    BY <1>6 DEF In
  <2> QED
    BY <2>1, <2>2 DEF DuplicateConfirmation
<1>13. UnreferencedIsFlagged'
  <2> SUFFICES ASSUME booking'.status = "CONFIRMED", booking'.ref = NoRef
               PROVE  In(h, "unref")'
    BY DEF UnreferencedIsFlagged
  <2>1. out.status = "CONFIRMED" /\ out.ref = NoRef
    BY <1>5 DEF outcomeReference
  <2> QED
    BY <1>6, <1>8, <2>1 DEF In
<1>14. AnswersRefer'
  BY DEF Orderly, AnswersRefer
<1> QED
  BY <1>10, <1>11, <1>12, <1>13, <1>14 DEF Orderly

LEMMA ApplyingIsOrderly ==
    ASSUME Certain, Orderly, [Next]_vars, NEW h \in Handlers,
           ApplyOutcome(h) \/ ApplyAgain(h), UNCHANGED runVars
    PROVE  Orderly'
<1> DEFINE t == callbackTransition(cb[h].have, cb[h].out)
<1>1. CallbackTypeOK /\ KnowsTheRow(h)
  BY DEF Certain, TypeOK, Orderly
<1>2. UNCHANGED <<run, late>> /\ booking' = ApplyRow(booking, t) /\ cb[h].pc \in {"apply", "again"}
  BY DEF ApplyOutcome, ApplyAgain, runVars, In
<1>3. CASE ApplyResult(booking, t) = "applied"
  <2>1. AfterApplied(h) /\ accepted' = accepted \cup {cb[h].out}
    BY <1>3 DEF ApplyOutcome, ApplyAgain
  <2> QED
    BY <1>2, <1>3, <2>1, AppliedIsOrderly
<1>4. CASE ApplyResult(booking, t) = "conflict"
  <2>1. booking' = booking /\ ~In(h, "unref") /\ UNCHANGED <<run, late, accepted>>
    BY <1>2, <1>4 DEF ApplyOutcome, ApplyAgain, ApplyRow, ApplyResult, In
  <2>2. CASE In(h, "apply")
    <3>1. cb' = [cb EXCEPT ![h].pc = "reread", ![h].have = booking.status]
      BY <1>4, <2>2 DEF ApplyOutcome, ApplyAgain, In
    <3>2. /\ cb'[h].pc = "reread" /\ cb'[h].have = booking.status
          /\ \A g \in Handlers \ {h} : cb'[g] = cb[g]
      BY <1>1, <3>1 DEF CallbackTypeOK, Handler
    <3>3. KnowsTheRow(h)' /\ ~In(h, "refuse")'
      BY <2>1, <3>2 DEF KnowsTheRow, In
    <3> QED
      BY <2>1, <3>2, <3>3, QuietHandlerIsOrderly
  <2>3. CASE In(h, "again")
    <3>1. Step(h, "refuse") /\ ~Settled(cb[h].have)
      BY <1>1, <1>4, <2>3 DEF ApplyOutcome, ApplyAgain, In, KnowsTheRow
    <3>2. /\ cb'[h].pc = "refuse" /\ cb'[h].have = cb[h].have
          /\ \A g \in Handlers \ {h} : cb'[g] = cb[g]
      BY <1>1, <3>1, StepEffect
    <3>3. KnowsTheRow(h)' /\ ~Settled(cb'[h].have)
      BY <3>1, <3>2 DEF KnowsTheRow, In
    <3> QED
      BY <2>1, <3>2, <3>3, QuietHandlerIsOrderly
  <2> QED
    BY <1>2, <2>2, <2>3 DEF In
<1> QED
  BY <1>3, <1>4 DEF ApplyOutcome, ApplyAgain

-----------------------------------------------------------------------------
(* All steps, until something fails. *)

LEMMA OrderlyNext ==
    ASSUME Certain, faults = 0, faults' = 0, Orderly, [Next]_vars
    PROVE  Orderly'
<1>1. CASE Run
  <2>1. TypeOK /\ AnswersRefer /\ UNCHANGED callbackVars
    BY <1>1 DEF Certain, Orderly, Run
  <2> QED
    BY <1>1, <2>1, RunConfirms, OtherStepsAreOrderly
<1>2. CASE Environment
  <2>1. ~Fault /\ late = {} /\ UNCHANGED callbackVars
    BY <1>2 DEF Fault, Orderly, AnswersRefer, Environment
  <2>2. \E attempt \in live : LateSend(attempt)
    BY <1>2, <2>1 DEF Environment, RunFault, RunCloses, TryTimesOut, TryFails
  <2>3. booking' = booking /\ run' = run /\ late' = late
    BY <2>2 DEF LateSend
  <2> QED
    BY <2>1, <2>3, OtherStepsAreOrderly DEF Orderly, AnswersRefer, ConfirmsWithReference
<1>3. CASE FindStale \/ SweepGivesUp \/ (\E d \in {"reserved", "declined"} : Decide(d)) \/ UNCHANGED vars
  <2>1. booking' = booking /\ run' = run /\ late' = late /\ UNCHANGED callbackVars
    BY <1>3 DEF FindStale, SweepGivesUp, Decide, vars, storeVars, runVars, callbackVars
  <2> QED
    BY <2>1, OtherStepsAreOrderly DEF Orderly, AnswersRefer, ConfirmsWithReference
<1>4. CASE RestartStale
  <2>1. booking' = booking /\ late' = late /\ UNCHANGED callbackVars
    BY <1>4 DEF RestartStale, storeVars
  <2>2. run' = run \/ \E budget \in Budgets : run' = Started(budget)
    BY <1>4 DEF RestartStale, StartBooking
  <2>3. run'.ans = run.ans \/ run'.ans = NoAnswer
    BY <2>2 DEF Started
  <2>4. AnswersRefer'
    BY <2>1, <2>3 DEF Orderly, AnswersRefer, NoAnswer
  <2> QED
    BY <2>1, <2>4, OtherStepsAreOrderly DEF ConfirmsWithReference
<1>5. ASSUME NEW h \in Handlers, Deliver(h) PROVE Orderly'
  BY <1>5, DeliverIsOrderly
<1>6. ASSUME NEW h \in Handlers, Handle(h) PROVE Orderly'
  BY <1>6, ApplyingIsOrderly, RereadIsOrderly, AfterwardsIsOrderly DEF Handle, CallbackStep
<1>7. ASSUME NEW h \in Handlers, HandlerFails(h) PROVE FALSE
  BY <1>7 DEF HandlerFails, CallbackFault, BestEffortFails, HandlerDies, Fault
<1> QED
  BY <1>1, <1>2, <1>3, <1>4, <1>5, <1>6, <1>7 DEF Next

-----------------------------------------------------------------------------
(* No wakeup is lost. *)

Waits == run.pc \in {"parked", "waiting"}

WillSignal(h) == cb[h].pc \in {"unref", "signal"}

\* An execution comes to wait with the booking in doubt.
LEMMA RunKeepsSignal ==
    ASSUME Certain, SignalNotLost, faults = 0, Run PROVE SignalNotLost'
<1> SUFFICES ASSUME Waits', Settled(booking'.status), faults' = 0
             PROVE  (signalled \/ \E h \in Handlers : WillSignal(h))'
  BY DEF SignalNotLost, Waits, WillSignal
<1>1. RowOK(booking) /\ run \in Execution
  BY DEF Certain, TypeOK, StoreTypeOK, RunTypeOK
<1>2. CASE ParkFlag
  <2>1. Parkable(booking) /\ booking' = ParkRow(booking)
    BY <1>1, <1>2 DEF ParkFlag, Goto, Close, NoRun, Waits
  <2>2. booking'.status = "UNKNOWN"
    BY <1>1, <2>1 DEF ParkRow, Parkable, RowOK, Row
  <2> QED
    BY <2>2 DEF Settled, SettledStatuses
<1>3. CASE AwaitOutcome
  <2>1. Waits /\ UNCHANGED <<booking, signalled, cb>>
    BY <1>3 DEF AwaitOutcome, Run, callbackVars, At, Waits
  <2> QED
    BY <2>1 DEF SignalNotLost, Waits, WillSignal
<1>4. CASE Persist
  <2> DEFINE pc == AfterVerdict(Verdict(booking, run.ans))
  <2>1. Continue(pc) /\ pc \in {"none", "supersede", "sleep", "parkRead"}
    BY <1>4 DEF Persist, AfterVerdict
  <2> HIDE DEF pc
  <2>2. run'.pc = pc
    BY <1>1, <2>1 DEF Continue, NoRun, Execution
  <2> QED
    BY <2>1, <2>2 DEF Waits
<1>5. CASE Authorize \/ Book
  <2>1. run'.pc \in {"call", "persist"}
    BY <1>1, <1>5 DEF Authorize, Book, BookReturns, Execution
  <2> QED
    BY <2>1 DEF Waits
<1>6. CASE ResolveStaleMarker \/ ReadBeforeAuthorizing \/ AuthorizeRefused \/ BytesLeave \/ ParkRead
  <2>1. run'.pc \in {"load", "persist", "authorize", "call", "parkFail", "parkFlag"}
    BY <1>1, <1>6 DEF ResolveStaleMarker, ReadBeforeAuthorizing, AuthorizeRefused, BytesLeave,
                      ParkRead, Goto, At, Execution
  <2> QED
    BY <2>1 DEF Waits
<1>7. CASE \/ LoadStatus \/ RecordSuperseded \/ RetryDelayOver \/ ParkFail
           \/ WokenBySignal \/ ParkTimerFires
  <2>1. \/ run' = NoRun \/ run' = [run EXCEPT !.pc = "parkFlag"]
        \/ \E n : run' = [run EXCEPT !.pc = "read", !.loop = n]
    BY <1>7 DEF LoadStatus, RecordSuperseded, RetryDelayOver, ParkFail, WokenBySignal,
                ParkTimerFires, Goto, Close
  <2>2. ASSUME NEW n, run' = [run EXCEPT !.pc = "read", !.loop = n] PROVE run'.pc = "read"
    BY <1>1, <2>2 DEF Execution
  <2>3. run' = NoRun \/ run' = [run EXCEPT !.pc = "parkFlag"] => run'.pc \in {"none", "parkFlag"}
    BY <1>1 DEF NoRun, Execution
  <2> QED
    BY <2>1, <2>2, <2>3 DEF Waits
<1> QED
  BY <1>2, <1>3, <1>4, <1>5, <1>6, <1>7 DEF Run

\* A handler that settles the row still has to signal, and its signal reaches
\* the execution that is open.
LEMMA HandlerKeepsSignal ==
    ASSUME Certain, SignalNotLost, faults = 0, NEW h \in Handlers, Deliver(h) \/ Handle(h)
    PROVE  SignalNotLost'
<1> SUFFICES ASSUME Waits, Settled(booking'.status)
             PROVE  (signalled \/ \E g \in Handlers : WillSignal(g))'
  BY HandlerMoves DEF SignalNotLost, Waits, WillSignal, Certain
<1>1. CallbackTypeOK /\ RowOK(booking)
  BY DEF Certain, TypeOK, StoreTypeOK
<1>2. CASE /\ booking'.status = booking.status /\ ~WillSignal(h) /\ signalled' = signalled
           /\ \A g \in Handlers \ {h} : cb'[g] = cb[g]
  BY <1>2 DEF SignalNotLost, Waits, WillSignal
<1>3. CASE WillSignal(h)'
  BY <1>3
<1>4. CASE Deliver(h)
  BY <1>1, <1>2, <1>4 DEF Deliver, Receive, In, WillSignal, runVars, CallbackTypeOK
<1>5. CASE ApplyOutcome(h) \/ ApplyAgain(h)
  <2> DEFINE t == callbackTransition(cb[h].have, cb[h].out)
  <2>1. ~WillSignal(h) /\ booking' = ApplyRow(booking, t)
    BY <1>5 DEF ApplyOutcome, ApplyAgain, In, WillSignal
  <2>2. CASE AfterApplied(h)
    BY <1>1, <1>3, <2>2, StepEffect DEF AfterApplied, WillSignal
  <2>3. CASE ApplyResult(booking, t) = "conflict"
    <3>1. booking' = booking /\ signalled' = signalled
      BY <1>5, <2>1, <2>3 DEF ApplyRow, ApplyResult, Deliver, Receive, Handle, CallbackStep,
                              SignalOutcome, ApplyOutcome, ApplyAgain, In, runVars
    <3>2. \A g \in Handlers \ {h} : cb'[g] = cb[g]
      BY <1>1, <1>5, <2>3 DEF ApplyOutcome, ApplyAgain, Step, CallbackTypeOK
    <3> QED
      BY <1>2, <2>1, <3>1, <3>2
  <2> QED
    BY <1>5, <2>2, <2>3 DEF ApplyOutcome, ApplyAgain
<1>6. CASE (RereadWinner(h) \/ RecordRefusal(h)) /\ signalled' = signalled
  <2>1. booking' = booking /\ ~WillSignal(h)
    BY <1>6 DEF RereadWinner, RecordRefusal, In, WillSignal
  <2>2. \A g \in Handlers \ {h} : cb'[g] = cb[g]
    BY <1>1, <1>6 DEF RereadWinner, RecordRefusal, Step, Done, CallbackTypeOK
  <2> QED
    BY <1>2, <1>6, <2>1, <2>2
<1>7. CASE FlagForRecovery(h) /\ signalled' = signalled
  <2>1. CASE In(h, "unref")
    BY <1>1, <1>3, <1>7, <2>1, StepEffect DEF FlagForRecovery, WillSignal
  <2>2. CASE In(h, "flag")
    <3>1. booking'.status = booking.status /\ ~WillSignal(h)
      BY <1>1, <1>7, <2>2 DEF FlagForRecovery, FlagRow, RowOK, Row, In, WillSignal
    <3>2. \A g \in Handlers \ {h} : cb'[g] = cb[g]
      BY <1>1, <1>7, <2>2, DoneEffect DEF FlagForRecovery, In
    <3> QED
      BY <1>2, <1>7, <3>1, <3>2
  <2> QED
    BY <1>7, <2>1, <2>2 DEF FlagForRecovery, In
<1>8. CASE SignalOutcome(h)
  BY <1>8 DEF SignalOutcome, Waits, At
<1>9. CallbackStep(h) /\ UNCHANGED runVars => signalled' = signalled
  BY DEF runVars
<1> QED
  BY <1>4, <1>5, <1>6, <1>7, <1>8, <1>9 DEF Handle, CallbackStep

LEMMA SignalNext ==
    ASSUME Certain, AnswersRefer, faults = 0, faults' = 0, SignalNotLost, [Next]_vars
    PROVE  SignalNotLost'
<1>1. CASE UNCHANGED <<booking, run, signalled, cb>>
  BY <1>1 DEF SignalNotLost
<1>2. CASE Environment
  <2>1. ~Fault /\ late = {} /\ cb' = cb
    BY <1>2 DEF Fault, AnswersRefer, Environment, callbackVars
  <2>2. \E attempt \in live : LateSend(attempt)
    BY <1>2, <2>1 DEF Environment, RunFault, RunCloses, TryTimesOut, TryFails
  <2> QED
    BY <1>1, <2>1, <2>2 DEF LateSend
<1>3. CASE RestartStale
  <2>1. booking' = booking /\ cb' = cb
    BY <1>3 DEF RestartStale, storeVars, callbackVars
  <2>2. (run' = run /\ signalled' = signalled) \/ run'.pc = "resolve"
    BY <1>3 DEF RestartStale, StartBooking, Started
  <2> QED
    BY <1>1, <2>1, <2>2 DEF SignalNotLost
<1>4. CASE FindStale \/ SweepGivesUp \/ UNCHANGED vars \/ (\E d \in {"reserved", "declined"} : Decide(d))
  BY <1>1, <1>4 DEF FindStale, SweepGivesUp, Decide, vars, storeVars, runVars, callbackVars
<1>5. ASSUME NEW h \in Handlers, HandlerFails(h) PROVE FALSE
  BY <1>5 DEF HandlerFails, CallbackFault, BestEffortFails, HandlerDies, Fault
<1> QED
  BY <1>2, <1>3, <1>4, <1>5, RunKeepsSignal, HandlerKeepsSignal DEF Next

\* Failures are only counted.
LEMMA FaultsOnlyCount ==
    ASSUME [Next]_vars PROVE faults' = faults \/ faults' = faults + 1
<1>1. CASE Run
  BY <1>1 DEF Run, ResolveStaleMarker, LoadStatus, ReadBeforeAuthorizing, Authorize,
              AuthorizeRefused, BytesLeave, Book, BookReturns, Persist, RecordSuperseded,
              RetryDelayOver, ParkRead, ParkFail, ParkFlag, AwaitOutcome, WokenBySignal,
              ParkTimerFires
<1>2. CASE Environment
  BY <1>2 DEF Environment, RunFault, RunCloses, TryTimesOut, TryFails, LateCommits, LateSend, Fault
<1>3. CASE FindStale \/ RestartStale \/ SweepGivesUp \/ UNCHANGED vars
  BY <1>3 DEF FindStale, RestartStale, SweepGivesUp, Fault, vars, storeVars
<1>4. ASSUME NEW d \in {"reserved", "declined"}, Decide(d) PROVE faults' = faults
  BY <1>4 DEF Decide, storeVars
<1>5. ASSUME NEW h \in Handlers, Deliver(h) PROVE faults' = faults
  BY <1>5 DEF Deliver, Receive
<1>6. ASSUME NEW h \in Handlers, Handle(h) PROVE faults' = faults
  BY <1>6 DEF Handle, CallbackStep, ApplyOutcome, RereadWinner, ApplyAgain, RecordRefusal,
              FlagForRecovery, SignalOutcome, storeVars
<1>7. ASSUME NEW h \in Handlers, HandlerFails(h) PROVE faults' = faults + 1
  BY <1>7 DEF HandlerFails, CallbackFault, BestEffortFails, HandlerDies, Fault
<1> QED
  BY <1>1, <1>2, <1>3, <1>4, <1>5, <1>6, <1>7 DEF Next

LEMMA OrderlyUntilFailure == Spec => [](faults = 0 => Orderly)
<1>1. Init => Orderly
  BY DEF Init, NewRow, RunInit, NoRun, Started, NoAnswer, CallbackInit, IdleHandler, Orderly,
         AnswersRefer, UnreferencedIsFlagged, AcceptedIsStored, KnowsTheRow,
         DuplicateConfirmation, In
<1>2. Certain /\ (faults = 0 => Orderly) /\ [Next]_vars => (faults = 0 => Orderly)'
  <2> SUFFICES ASSUME Certain, faults = 0 => Orderly, [Next]_vars, faults' = 0 PROVE Orderly'
    OBVIOUS
  <2>1. faults \in Nat
    BY MaxFaultsAssumption DEF Certain, TypeOK, StoreTypeOK
  <2>2. faults' = faults \/ faults' = faults + 1
    BY FaultsOnlyCount
  <2>3. faults = 0
    BY <2>1, <2>2
  <2> QED
    BY <2>3, OrderlyNext
<1> QED
  BY <1>1, <1>2, CertainHolds, PTL DEF Spec

\* service.go:119-121.  For any number of handlers: until something fails, a
\* confirmation without a reference is flagged or about to be.
THEOREM UnreferencedAreFlagged == Spec => [](faults = 0 => UnreferencedIsFlagged)
  BY OrderlyUntilFailure, PTL DEF Orderly

\* service.go:164-165.  For any number of handlers: until something fails, an
\* applied confirmation is never refused as contradicting the settled row.
THEOREM DuplicatesAreKnown == Spec => [](faults = 0 => DuplicateConfirmation)
  BY OrderlyUntilFailure, PTL DEF Orderly

\* docs/RFC.md:232.  For any number of handlers: until something fails, a parked
\* execution whose booking a callback settled is woken or about to be.
THEOREM NoWakeupIsLost == Spec => []SignalNotLost
<1>1. Init => SignalNotLost
  BY DEF Init, NewRow, SignalNotLost, Settled, SettledStatuses
<1>2. Certain /\ (faults = 0 => Orderly) /\ SignalNotLost /\ [Next]_vars => SignalNotLost'
  <2> SUFFICES ASSUME Certain, faults = 0 => Orderly, SignalNotLost, [Next]_vars
               PROVE  SignalNotLost'
    OBVIOUS
  <2>1. CASE faults' # 0
    BY <2>1 DEF SignalNotLost
  <2>2. CASE faults' = 0
    <3>1. faults \in Nat
      BY MaxFaultsAssumption DEF Certain, TypeOK, StoreTypeOK
    <3>2. faults' = faults \/ faults' = faults + 1
      BY FaultsOnlyCount
    <3>3. faults = 0
      BY <2>2, <3>1, <3>2
    <3> QED
      BY <2>2, <3>3, SignalNext DEF Orderly
  <2> QED
    BY <2>1, <2>2
<1> QED
  BY <1>1, <1>2, CertainHolds, OrderlyUntilFailure, PTL DEF Spec
=============================================================================
