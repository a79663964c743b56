------------------------------ MODULE BookingRun ------------------------------
(***************************************************************************)
(* The Temporal execution of one booking (internal/workflow): the workflow *)
(* BookingWorkflow, the four activities it schedules, and what Temporal    *)
(* does to them.  The workflow id is the booking id, so at most one        *)
(* execution is open; run.pc is where it is, "none" when none is.          *)
(*                                                                         *)
(*   Dispatch   resolve, load        ResolveStaleMarker, then GetByID      *)
(*   Attempt    read, authorize,     GetByID, Authorize, supplier.Book     *)
(*              call                                                       *)
(*   Apply      persist, supersede   one statement; on a lost guard the    *)
(*                                   lineage event of superseded()         *)
(*   (timer)    sleep                                                      *)
(*   Park       parkRead, parkFail,  GetByID, Apply, ParkIfUnknown         *)
(*              parkFlag, parked     and the activity's reply              *)
(*   (select)   waiting              signal or timer                       *)
(*                                                                         *)
(* An activity is at-least-once: Temporal may give up on a try whose       *)
(* statement the worker has already issued (late) and schedule it again,   *)
(* and it may close the execution under a worker that is still about to    *)
(* call the supplier (live).                                               *)
(***************************************************************************)
EXTENDS BookingStore

CONSTANTS
    Budgets,        \* the values CREATE_ATTEMPTS takes over the deploys
    LateStatements  \* TRUE: a try Temporal gave up on may still commit

ASSUME BudgetsAssumption == Budgets \subseteq Nat \ {0}
ASSUME LateStatementsAssumption == LateStatements \in BOOLEAN

VARIABLES
    run,        \* the open execution: [pc, budget, loop, ans]
    late,       \* statements of tries Temporal gave up on, not yet committed
    live,       \* attempts of abandoned workers whose bytes may yet leave
    sent,       \* attempts whose bytes may have reached the supplier
    signalled   \* the supplier_outcome channel of the open execution

runVars == <<run, late, live, sent, signalled>>

CallOutcomes == {"CONFIRMED", "REJECTED", "AMBIGUOUS", "NOT_SENT", "PRE_SEND_FAILURE"}
Refusals == {"ALREADY_SETTLED", "BUDGET_SPENT", "ATTEMPT_OUTSTANDING"}

\* What the calling activity hands to the persisting one.
Answer == [outcome : CallOutcomes \cup Refusals \cup {"NONE"},
           ref     : Refs \cup {NoRef},
           attempt : Nat,
           from    : {"RECEIVED", "PENDING", "UNKNOWN"}]

NoAnswer == [outcome |-> "NONE", ref |-> NoRef, attempt |-> 0, from |-> "RECEIVED"]

Refused(why) == [NoAnswer EXCEPT !.outcome = why]

PCs == {"none", "resolve", "load", "read", "authorize", "call", "persist",
        "supersede", "sleep", "parkRead", "parkFail", "parkFlag", "parked", "waiting"}

NoRun == [pc |-> "none", budget |-> 0, loop |-> 0, ans |-> NoAnswer]

\* A new execution carries its budget as workflow input.
Started(budget) == [pc |-> "resolve", budget |-> budget, loop |-> 0, ans |-> NoAnswer]

\* The statements an activity can leave behind.
Statement == [kind : {"resolve", "authorize", "persist", "parkFail", "parkFlag"},
              budget : Nat, ans : Answer]

Execution == [pc : PCs, budget : Nat, loop : Nat, ans : Answer]

RunTypeOK == /\ run \in Execution
             /\ late \subseteq Statement
             /\ live \subseteq Nat
             /\ sent \subseteq Nat
             /\ signalled \in BOOLEAN

At(pc) == run.pc = pc
Goto(pc) == run' = [run EXCEPT !.pc = pc]
Close == run' = NoRun

-----------------------------------------------------------------------------
(* Dispatch: resolve whatever marker an earlier execution left, then read. *)

ResolveStaleMarker ==
    /\ At("resolve")
    /\ booking' = ResolveStaleMarkerRow(booking)
    /\ Goto("load")
    /\ UNCHANGED <<noted, faults, late, live, sent, signalled>>

LoadStatus ==
    /\ At("load")
    /\ IF Settled(booking.status)
       THEN Close
       ELSE run' = [run EXCEPT !.pc = "read", !.loop = 1]
    /\ UNCHANGED <<booking, noted, faults, late, live, sent, signalled>>

-----------------------------------------------------------------------------
(* Attempt: authorize one supplier call and make it. *)

ReadBeforeAuthorizing ==
    /\ At("read")
    /\ IF Settled(booking.status)
       THEN run' = [run EXCEPT !.pc = "persist", !.ans = Refused("ALREADY_SETTLED")]
       ELSE Goto("authorize")
    /\ UNCHANGED <<booking, noted, faults, late, live, sent, signalled>>

\* The first attempt moves the booking out of RECEIVED, so its answer writes
\* from PENDING; every later one writes from the status it was authorized in.
Authorize ==
    /\ At("authorize")
    /\ MayAuthorize(booking, run.budget)
    /\ booking' = AuthorizeRow(booking)
    /\ run' = [run EXCEPT !.pc  = "call",
                          !.ans = [NoAnswer EXCEPT !.attempt = booking'.attempts,
                                                   !.from    = booking'.status]]
    /\ UNCHANGED <<noted, faults, late, live, sent, signalled>>

AuthorizeRefused ==
    /\ At("authorize")
    /\ ~MayAuthorize(booking, run.budget)
    /\ run' = [run EXCEPT !.pc = "persist",
                          !.ans = Refused(Refusal(booking, run.budget))]
    /\ UNCHANGED <<booking, noted, faults, late, live, sent, signalled>>

\* supplier.Book: from here on the request may have been received.
BytesLeave ==
    /\ At("call")
    /\ run.ans.attempt \notin sent
    /\ sent' = sent \cup {run.ans.attempt}
    /\ UNCHANGED <<booking, noted, faults, run, late, live, signalled>>

\* supplier.Book returns o: a proof that nothing left, or what an answer (or
\* its absence) says.  A CONFIRMED answer always names its reference.
BookReturns(o, r) ==
    /\ At("call")
    /\ IF run.ans.attempt \in sent
       THEN o \in {"CONFIRMED", "REJECTED", "AMBIGUOUS"}
       ELSE o \in {"NOT_SENT", "PRE_SEND_FAILURE"}
    /\ (o = "CONFIRMED") = (r # NoRef)
    /\ run' = [run EXCEPT !.pc = "persist", !.ans.outcome = o, !.ans.ref = r]
    /\ UNCHANGED <<booking, noted, faults, late, live, sent, signalled>>

-----------------------------------------------------------------------------
(* Apply: persist the answer, once per try. *)

\* Outcomes that only end the attempt when the row was already in doubt.
\* Mutant: an attempt without an answer only ends, whatever the row was.
ClearsAnyAmbiguity(ans) ==
    \/ ans.outcome \in {"NOT_SENT", "AMBIGUOUS"}
    \/ ans.outcome = "PRE_SEND_FAILURE" /\ ans.from = "UNKNOWN"

ClearsOnly(ans) ==
    \/ ans.outcome = "NOT_SENT"
    \/ ans.outcome \in {"AMBIGUOUS", "PRE_SEND_FAILURE"} /\ ans.from = "UNKNOWN"

\* settle, ambiguous and preSendFailure: the transition an answer asks for.
\* Mutant: a call nobody answered is recorded as a failure.
AnswerFails(ans) ==
    LET settles == ans.outcome \in {"CONFIRMED", "REJECTED"}
    IN  [from    |-> IF settles THEN ans.from ELSE "PENDING",
         to      |-> IF settles THEN ans.outcome ELSE "FAILED",
         rule    |-> "owned",
         attempt |-> ans.attempt,
         ref     |-> ans.ref,
         unflag  |-> settles]

AnswerTransition(ans) ==
    LET settles == ans.outcome \in {"CONFIRMED", "REJECTED"}
    IN  [from    |-> IF settles THEN ans.from ELSE "PENDING",
         to      |-> IF settles THEN ans.outcome
                     ELSE IF ans.outcome = "AMBIGUOUS" THEN "UNKNOWN" ELSE "FAILED",
         rule    |-> "owned",
         attempt |-> ans.attempt,
         ref     |-> ans.ref,
         unflag  |-> settles]

PersistRow(b, ans) ==
    IF ans.outcome \in Refusals THEN b
    ELSE IF ClearsOnly(ans) THEN ClearMarkerRow(b, ans.attempt)
    ELSE ApplyRow(b, AnswerTransition(ans))

\* What the activity reports.  CONFLICT: the answer belongs to a state that no
\* longer exists and superseded() has to record it.
Verdict(b, ans) ==
    LET result == ApplyResult(b, AnswerTransition(ans))
    IN  IF ans.outcome = "ALREADY_SETTLED" THEN "SETTLED"
        ELSE IF ans.outcome = "ATTEMPT_OUTSTANDING" THEN "EXIT"
        ELSE IF ans.outcome = "BUDGET_SPENT" THEN "BUDGET_SPENT"
        ELSE IF ClearsOnly(ans)
        THEN IF ~Owns(b, ans.attempt) THEN "CONFLICT"
             ELSE IF ans.outcome = "PRE_SEND_FAILURE" THEN "IN_DOUBT"
             ELSE ans.outcome
        ELSE IF ans.outcome = "AMBIGUOUS" THEN "AMBIGUOUS"
        ELSE IF ans.outcome = "PRE_SEND_FAILURE" THEN "FAILED"
        ELSE IF result = "applied" THEN ans.outcome
        ELSE IF result = "superseded" THEN "SETTLED"
        ELSE "CONFLICT"

\* Where BookingWorkflow goes on an outcome: it ends, parks, retries after a
\* delay, or (still inside Apply) records the superseded answer.
\* Mutant: the loop gives up one attempt early.
AfterVerdictEarly(v) ==
    IF v \in {"CONFIRMED", "REJECTED", "SETTLED", "FAILED", "EXIT"} THEN "none"
    ELSE IF v = "CONFLICT" THEN "supersede"
    ELSE IF v \in {"AMBIGUOUS", "NOT_SENT"} /\ run.loop + 1 < run.budget THEN "sleep"
    ELSE "parkRead"

AfterVerdict(v) ==
    IF v \in {"CONFIRMED", "REJECTED", "SETTLED", "FAILED", "EXIT"} THEN "none"
    ELSE IF v = "CONFLICT" THEN "supersede"
    ELSE IF v \in {"AMBIGUOUS", "NOT_SENT"} /\ run.loop < run.budget THEN "sleep"
    ELSE "parkRead"

\* The execution moves to pc, keeping its answer only while it is needed.
Continue(pc) ==
    run' = CASE pc = "none"      -> NoRun
             [] pc = "supersede" -> [run EXCEPT !.pc = pc]
             [] OTHER            -> [run EXCEPT !.pc = pc, !.ans = NoAnswer]

Persist ==
    /\ At("persist")
    /\ booking' = PersistRow(booking, run.ans)
    /\ Continue(AfterVerdict(Verdict(booking, run.ans)))
    /\ UNCHANGED <<noted, faults, late, live, sent, signalled>>

\* superseded(): the lineage keeps the reference the supplier named.
Evidence(ref) == {ref} \ {NoRef}

RecordSuperseded ==
    /\ At("supersede")
    /\ noted' = noted \cup Evidence(run.ans.ref)
    /\ Close
    /\ UNCHANGED <<booking, faults, late, live, sent, signalled>>

RetryDelayOver ==
    /\ At("sleep")
    /\ run' = [run EXCEPT !.pc = "read", !.loop = @ + 1]
    /\ UNCHANGED <<booking, noted, faults, late, live, sent, signalled>>

-----------------------------------------------------------------------------
(* Park: the budget is spent. *)

ParkRead ==
    /\ At("parkRead")
    /\ Goto(IF booking.status = "PENDING" THEN "parkFail" ELSE "parkFlag")
    /\ UNCHANGED <<booking, noted, faults, late, live, sent, signalled>>

\* PENDING with nothing outstanding: every attempt proved it never left.
Unreachable == [from |-> "PENDING", to |-> "FAILED", rule |-> "clear",
                attempt |-> 0, ref |-> NoRef, unflag |-> FALSE]

ParkFail ==
    /\ At("parkFail")
    /\ booking' = ApplyRow(booking, Unreachable)
    /\ IF Settled(booking'.status) THEN Close ELSE Goto("parkFlag")
    /\ UNCHANGED <<noted, faults, late, live, sent, signalled>>

ParkFlag ==
    /\ At("parkFlag")
    /\ booking' = ParkRow(booking)
    /\ IF Parkable(booking) THEN Goto("parked") ELSE Close
    /\ UNCHANGED <<noted, faults, late, live, sent, signalled>>

\* The flag is committed; only now does the execution open its select.
AwaitOutcome ==
    /\ At("parked")
    /\ Goto("waiting")
    /\ UNCHANGED <<booking, noted, faults, late, live, sent, signalled>>

\* The park await ends on the signal or on the timer; neither writes anything.
WokenBySignal ==
    /\ At("waiting")
    /\ signalled
    /\ Close
    /\ UNCHANGED <<booking, noted, faults, late, live, sent, signalled>>

ParkTimerFires ==
    /\ At("waiting")
    /\ Close
    /\ UNCHANGED <<booking, noted, faults, late, live, sent, signalled>>

-----------------------------------------------------------------------------
(* What Temporal and the workers do to it. *)

\* StartBooking: a second start while one is open is a no-op.
StartBooking ==
    IF At("none")
    THEN /\ \E budget \in Budgets : run' = Started(budget)
         /\ signalled' = FALSE
    ELSE UNCHANGED <<run, signalled>>

\* The execution closes: an activity ran out of retries or of its window, or
\* the execution itself was terminated.  A worker inside supplier.Book does not
\* know and may still send.
RunCloses ==
    /\ ~At("none")
    /\ Fault
    /\ Close
    /\ live' = IF At("call") /\ run.ans.attempt \notin sent
               THEN live \cup {run.ans.attempt} ELSE live
    /\ UNCHANGED <<booking, noted, late, sent, signalled>>

\* Temporal gives up on a try whose statement is still on its way to the
\* database.  It schedules the activity again from its beginning, except for
\* Attempt, which is allowed one try: there the execution closes.
TryTimesOut ==
    /\ LateStatements
    /\ run.pc \in {"resolve", "authorize", "persist", "parkFail", "parkFlag"}
    /\ run.ans.outcome \notin Refusals
    /\ Fault
    /\ late' = late \cup {[kind |-> run.pc, budget |-> run.budget, ans |-> run.ans]}
    /\ CASE At("authorize")                      -> Close
         [] run.pc \in {"parkFail", "parkFlag"}  -> Goto("parkRead")
         [] OTHER                                -> UNCHANGED run
    /\ UNCHANGED <<booking, noted, live, sent, signalled>>

\* The other ways a try of Apply or Park fails part way: it starts again.
TryFails ==
    /\ run.pc \in {"supersede", "parkFail", "parkFlag", "parked"}
    /\ Fault
    /\ Goto(IF At("supersede") THEN "persist" ELSE "parkRead")
    /\ UNCHANGED <<booking, noted, late, live, sent, signalled>>

\* The row after a late statement.
LateRow(b, s) ==
    CASE s.kind = "resolve"   -> ResolveStaleMarkerRow(b)
      [] s.kind = "authorize" -> IF MayAuthorize(b, s.budget) THEN AuthorizeRow(b) ELSE b
      [] s.kind = "persist"   -> PersistRow(b, s.ans)
      [] s.kind = "parkFail"  -> ApplyRow(b, Unreachable)
      [] s.kind = "parkFlag"  -> ParkRow(b)

\* Its worker is still there: a lost guard is recorded as usual, and a late
\* authorization goes on to the supplier.
LateCommits(s) ==
    /\ s \in late
    /\ late' = late \ {s}
    /\ booking' = LateRow(booking, s)
    /\ noted' = IF s.kind = "persist" /\ Verdict(booking, s.ans) = "CONFLICT"
                THEN noted \cup Evidence(s.ans.ref) ELSE noted
    /\ live' = IF s.kind = "authorize" /\ MayAuthorize(booking, s.budget)
               THEN live \cup {booking'.attempts} ELSE live
    /\ UNCHANGED <<faults, run, sent, signalled>>

\* A worker whose execution is gone sends the request it was authorized for.
LateSend(attempt) ==
    /\ attempt \in live
    /\ live' = live \ {attempt}
    /\ sent' = sent \cup {attempt}
    /\ UNCHANGED <<booking, noted, faults, run, late, signalled>>

-----------------------------------------------------------------------------
RunInit == /\ run \in {NoRun} \cup {Started(budget) : budget \in Budgets}
           /\ late = {}
           /\ live = {}
           /\ sent = {}
           /\ signalled = FALSE

RunFault ==
    \/ RunCloses \/ TryTimesOut \/ TryFails
    \/ \E s \in late : LateCommits(s)
    \/ \E attempt \in live : LateSend(attempt)
=============================================================================
