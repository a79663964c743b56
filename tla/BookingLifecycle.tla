--------------------------- MODULE BookingLifecycle ---------------------------
(***************************************************************************)
(* One booking from its committed row to its outcome: the execution that   *)
(* talks to the supplier (BookingRun), the callbacks (CallbackService),    *)
(* the sweep that restarts what has gone quiet (internal/sweep) and the    *)
(* supplier itself, which is outside the repository.  They meet only in    *)
(* the row, in the lineage and in the signal a callback sends.             *)
(***************************************************************************)
EXTENDS BookingRun, CallbackService

CONSTANT
    Suppliers   \* the suppliers a behaviour may meet: an "undecided" one decides
                \* once per key and says what it did, an "arbitrary" one may say
                \* anything

ASSUME SuppliersAssumption == Suppliers \subseteq {"undecided", "arbitrary"}

VARIABLES
    picked,     \* a sweep pass holds this booking's id from FindStale
    decision    \* what the supplier did under our idempotency key

storeVars == <<booking, noted, faults>>
vars == <<storeVars, runVars, callbackVars, picked, decision>>

-----------------------------------------------------------------------------
(* The supplier: one decision per idempotency key, after a request arrived. *)

Decide(d) ==
    /\ sent # {}
    /\ decision = "undecided"
    /\ decision' = d
    /\ UNCHANGED <<storeVars, runVars, callbackVars, picked>>

\* What it may truthfully say.
Truthful(status) ==
    decision # "arbitrary" => CASE status = "CONFIRMED" -> decision = "reserved"
                                [] status = "REJECTED"  -> decision = "declined"
                                [] OTHER                -> sent # {}

-----------------------------------------------------------------------------
(* Sweep: FindStale, then StartBooking on what it found then. *)

FindStale ==
    /\ ~picked
    /\ Sweepable(booking)
    /\ picked' = TRUE
    /\ UNCHANGED <<storeVars, runVars, callbackVars, decision>>

RestartStale ==
    /\ picked
    /\ picked' = FALSE
    /\ StartBooking
    /\ UNCHANGED <<storeVars, late, live, sent, callbackVars, decision>>

\* The pass runs out of time or the start fails: the row is still stale.
SweepGivesUp ==
    /\ picked
    /\ picked' = FALSE
    /\ Fault
    /\ UNCHANGED <<booking, noted, runVars, callbackVars, decision>>

-----------------------------------------------------------------------------
(* SignalOutcome reaches the open execution; with none open it is dropped. *)

\* Mutant: the channel is not buffered.
SignalUnbuffered(h) ==
    /\ In(h, "signal")
    /\ signalled' = (signalled \/ At("waiting"))
    /\ Done(h)
    /\ UNCHANGED <<storeVars, run, late, live, sent, accepted, picked, decision>>

SignalOutcome(h) ==
    /\ In(h, "signal")
    /\ signalled' = (signalled \/ ~At("none"))
    /\ Done(h)
    /\ UNCHANGED <<storeVars, run, late, live, sent, accepted, picked, decision>>

-----------------------------------------------------------------------------
\* Create commits the row and starts the execution if it can (run is chosen in
\* RunInit); if it could not, the sweep does.
Init == /\ booking = NewRow
        /\ noted = {}
        /\ faults = 0
        /\ RunInit
        /\ CallbackInit
        /\ picked = FALSE
        /\ decision \in Suppliers

Book == \E o \in CallOutcomes, r \in Refs \cup {NoRef} :
            /\ o \in {"CONFIRMED", "REJECTED"} => Truthful(o)
            /\ BookReturns(o, r)

Run == /\ \/ ResolveStaleMarker \/ LoadStatus
          \/ ReadBeforeAuthorizing \/ Authorize \/ AuthorizeRefused
          \/ BytesLeave \/ Book
          \/ Persist \/ RecordSuperseded \/ RetryDelayOver
          \/ ParkRead \/ ParkFail \/ ParkFlag \/ AwaitOutcome \/ WokenBySignal \/ ParkTimerFires
       /\ UNCHANGED <<callbackVars, picked, decision>>

Environment == /\ RunFault
               /\ UNCHANGED <<callbackVars, picked, decision>>

Deliver(h) == /\ \E out \in Callback : Truthful(out.status) /\ Receive(h, out)
              /\ UNCHANGED <<runVars, picked, decision>>

Handle(h) == \/ CallbackStep(h) /\ UNCHANGED <<runVars, picked, decision>>
             \/ SignalOutcome(h)

HandlerFails(h) == /\ CallbackFault(h)
                   /\ UNCHANGED <<runVars, picked, decision>>

Next == \/ Run \/ Environment
        \/ FindStale \/ RestartStale \/ SweepGivesUp
        \/ \E d \in {"reserved", "declined"} : Decide(d)
        \/ \E h \in Handlers : Deliver(h) \/ Handle(h) \/ HandlerFails(h)

Spec == Init /\ [][Next]_vars

-----------------------------------------------------------------------------
(* Safety. *)

\* Every variable has its type; in the row, a marker always numbers an attempt
\* that was counted.
TypeOK == /\ StoreTypeOK
          /\ RunTypeOK
          /\ CallbackTypeOK
          /\ picked \in BOOLEAN
          /\ decision \in {"undecided", "arbitrary", "reserved", "declined"}

\* The attempts whose request may have reached the supplier or may still.
MayReach == sent \cup live \cup (IF At("call") THEN {run.ans.attempt} ELSE {})

\* README.md:8.  Nothing reached the supplier of a FAILED booking and nothing
\* still can, whatever was killed, retried or delayed on the way.
HonestFailure == booking.status = "FAILED" => MayReach = {}

\* docs/RFC.md:390.  PENDING with the marker clear is a proof: every attempt so
\* far provably never left.  It is what makes calling it unreachable honest.
PendingClearMeansUnsent ==
    booking.status = "PENDING" /\ booking.marker = NoMarker => MayReach = {}

\* docs/RFC.md:653.  No call runs uncounted: whatever reached or may reach the
\* supplier is one of the attempts the row counts, and the row never counts
\* more than the largest budget any deploy allowed.
CountedCalls == /\ MayReach \subseteq 1 .. booking.attempts
                /\ booking.attempts > 0 => \E budget \in Budgets : booking.attempts <= budget

\* A settled booking is neither moved, nor re-marked, nor given another
\* reference, and a flag raised on it stays (docs/RFC.md:316, 318).
SettledIsFinal ==
    [][Settled(booking.status) =>
         /\ [booking' EXCEPT !.flag = booking.flag] = booking
         /\ booking.flag => booking'.flag]_vars

\* docs/RFC.md:349.  Doubt is never withdrawn by us: only an answer of the
\* supplier ends it (docs/RFC.md:347 leaves FAILED to an operator).
DoubtStays ==
    [][booking.status = "UNKNOWN" =>
         booking'.status \in {"UNKNOWN", "CONFIRMED", "REJECTED"}]_vars

\* service.go:293.  A reference is only ever stored on a confirmed booking.
ReferenceIsConfirmation == booking.ref # NoRef => booking.status = "CONFIRMED"

\* docs/RFC.md:656.  A booking is called unreachable only once the whole budget
\* of the execution that says so was authorized, by it or by earlier ones.
UnreachableSpentBudget ==
    [][booking.status = "PENDING" /\ booking.marker = NoMarker /\ booking'.status = "FAILED"
         => \/ At("parkFail") /\ booking.attempts >= run.budget
            \/ \E s \in late : s.kind = "parkFail" /\ booking.attempts >= s.budget]_vars

\* With a supplier that deduplicates and tells the truth, the row never
\* contradicts what it did, in whatever order answers and callbacks arrive.
SupplierTruth ==
    /\ decision = "reserved" => booking.status \notin {"REJECTED", "FAILED"}
    /\ decision = "declined" => booking.status # "CONFIRMED"

\* service.go:119-121.  A confirmation that named no reference is flagged, or
\* the handler that applied it is about to flag it.
UnreferencedIsFlagged ==
    booking.status = "CONFIRMED" /\ booking.ref = NoRef
        => booking.flag \/ \E h \in Handlers : In(h, "unref")

\* service.go:164-165.  A confirmation that was applied is a duplicate when it
\* arrives again: it is never refused as contradicting the settled row found,
\* not even when the two deliveries race.
DuplicateConfirmation ==
    \A h \in Handlers :
        In(h, "refuse") /\ cb[h].out.status = "CONFIRMED" /\ Settled(cb[h].have)
            => cb[h].out \notin accepted

\* docs/RFC.md:232.  No wakeup is lost: a parked execution whose booking a
\* callback settled, even before it opened its select, finds the signal in the
\* channel or a handler that is still to send it.  Only a failure loses it.
SignalNotLost ==
    run.pc \in {"parked", "waiting"} /\ Settled(booking.status) /\ faults = 0
        => signalled \/ \E h \in Handlers : cb[h].pc \in {"unref", "signal"}

-----------------------------------------------------------------------------
(* What the documentation says and the code does not do; each is checked by   *)
(* a run of its own that finds it violated.                                    *)

\* service.go:164-165 and docs/RFC.md:467.  A confirmation that was applied is
\* never refused when it is delivered again.
RedeliveredConfirmation ==
    \A h \in Handlers : In(h, "refuse") /\ cb[h].out.status = "CONFIRMED"
        => cb[h].out \notin accepted

\* docs/RFC.md:357.  An attempt that lost its marker records whatever the
\* supplier told it: a confirmation it got is in the row or in the lineage.
SupersededRecorded ==
    [][At("persist") /\ run.ans.outcome = "CONFIRMED" /\ run'.pc = "none" /\ faults' = faults
         => booking'.ref = run.ans.ref \/ run.ans.ref \in noted']_vars

-----------------------------------------------------------------------------
\* The promise made to the distributor, kept by the row.
PhaseOf(status) ==
    CASE status = "RECEIVED"  -> "untried"
      [] status = "PENDING"   -> "trying"
      [] status = "UNKNOWN"   -> "doubt"
      [] status = "CONFIRMED" -> "confirmed"
      [] status = "REJECTED"  -> "rejected"
      [] OTHER                -> "failed"

Promise == INSTANCE BookingPromise WITH
    phase     <- PhaseOf(booking.status),
    reference <- booking.ref,
    exposed   <- (sent # {})

\* The whole system implements the promise: every step of an execution, a late
\* statement, a callback or a sweep is a step of it or invisible to it.
PromiseKept == Promise!PromiseSpec

-----------------------------------------------------------------------------
(* Liveness.  Temporal and the workers keep executing an open run, the sweep  *)
(* keeps passing, a handler finishes the callback it has in hand.  Nothing    *)
(* makes the supplier send a callback, and nothing relies on the park timer.  *)

UntimedRun == /\ \/ ResolveStaleMarker \/ LoadStatus
                 \/ ReadBeforeAuthorizing \/ Authorize \/ AuthorizeRefused
                 \/ Book \/ Persist \/ RecordSuperseded \/ RetryDelayOver
                 \/ ParkRead \/ ParkFail \/ ParkFlag \/ AwaitOutcome \/ WokenBySignal
              /\ UNCHANGED <<callbackVars, picked, decision>>

Fairness == /\ WF_vars(UntimedRun)
            /\ WF_vars(FindStale)
            /\ WF_vars(RestartStale)
            /\ \A h \in Handlers : WF_vars(Handle(h))

FairSpec == Spec /\ Fairness

\* docs/RFC.md:654.  However executions die, the booking ends up settled or
\* handed to outcome recovery in doubt, and it stays there.
AccountedFor ==
    <>[](Settled(booking.status) \/ (booking.status = "UNKNOWN" /\ booking.flag))

\* docs/RFC.md:359.  An abandoned attempt never wedges the booking: its marker
\* is cleared in the end.
MarkerNeverWedges == booking.marker # NoMarker ~> booking.marker = NoMarker

\* A parked execution whose booking a callback settled does not sleep until its
\* timer, as long as nothing fails: the signal was sent after the row moved and
\* waits in the channel.
ParkedRunWoken ==
    At("waiting") /\ Settled(booking.status) /\ faults = 0 ~> At("none") \/ faults > 0
=============================================================================
