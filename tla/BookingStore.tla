----------------------------- MODULE BookingStore -----------------------------
(***************************************************************************)
(* The bookings table, one row of it, and the statements the repository    *)
(* runs against that row (internal/repository/booking).  Each statement    *)
(* locks the row, tests a guard, updates and appends its lineage event in  *)
(* one SQL statement, so each is ONE step of every process that runs it.   *)
(* The operators below say what such a statement leaves in the row and     *)
(* what it reports; the processes that issue them are in BookingRun,       *)
(* CallbackService and BookingLifecycle.                                   *)
(*                                                                         *)
(* Left out: version (only ever incremented, never read), updated_at       *)
(* (when a row counts as quiet is a free choice of the sweep), and the     *)
(* lineage rows other than the supplier references recorded in them.       *)
(***************************************************************************)
EXTENDS BookingStatus, Naturals

CONSTANTS
    Refs,       \* supplier references (reservation numbers)
    NoRef,      \* the NULL supplier_reference
    MaxFaults   \* bound on the environment failures of one behaviour

ASSUME NoRefAssumption == NoRef \notin Refs
ASSUME MaxFaultsAssumption == MaxFaults \in Nat

VARIABLES
    booking,    \* the row
    noted,      \* references written into the lineage as payload_digest
    faults      \* environment failures so far

NoMarker == 0   \* the NULL in_flight_attempt: attempts are numbered from 1

Row == [status   : Statuses,
        attempts : Nat,
        marker   : Nat,
        flag     : BOOLEAN,               \* needs_recovery
        ref      : Refs \cup {NoRef}]

NewRow == [status |-> "RECEIVED", attempts |-> 0, marker |-> NoMarker,
           flag |-> FALSE, ref |-> NoRef]

\* What a process may do only while the environment may still fail.
Fault == /\ faults < MaxFaults
         /\ faults' = faults + 1

\* In the row, a marker always numbers an attempt that was counted (the CHECK
\* constraint of migrations/0001_bookings.sql).
RowOK(b) == b \in Row /\ b.marker <= b.attempts

StoreTypeOK == /\ RowOK(booking)
               /\ noted \subseteq Refs
               /\ faults \in 0 .. MaxFaults

-----------------------------------------------------------------------------
(* Apply: a guarded transition t = [from, to, rule, attempt, ref, unflag]. *)

\* The three marker rules: nothing outstanding, my own attempt, or whatever.
MarkerHolds(b, t) ==
    \/ t.rule = "clear" /\ b.marker = NoMarker
    \/ t.rule = "owned" /\ b.marker = t.attempt
    \/ t.rule = "supersede"

\* Mutant: the guard on the status is dropped.
GuardedAnyStatus(b, t) == CanMove(t.from, t.to) /\ MarkerHolds(b, t)

Guarded(b, t) == /\ CanMove(t.from, t.to)
                 /\ b.status = t.from
                 /\ MarkerHolds(b, t)

Moved(b, t) == [b EXCEPT !.status = t.to,
                         !.marker = NoMarker,
                         !.ref    = IF t.ref = NoRef THEN @ ELSE t.ref,
                         !.flag   = IF t.unflag THEN FALSE ELSE @]

ApplyRow(b, t) == IF Guarded(b, t) THEN Moved(b, t) ELSE b

\* "superseded": the status was right and the marker was another attempt's.
ApplyResult(b, t) ==
    IF ~CanMove(t.from, t.to) THEN "invalid"
    ELSE IF Guarded(b, t) THEN "applied"
    ELSE IF b.status = t.from /\ t.rule = "owned" THEN "superseded"
    ELSE "conflict"

-----------------------------------------------------------------------------
(* The other statements. *)

\* ClearMarker ends an attempt without moving the booking.
\* Mutant: it clears whatever marker it finds.
OwnsAnyMarker(b, attempt) == b.marker # NoMarker

Owns(b, attempt) == b.marker = attempt

ClearMarkerRow(b, attempt) ==
    IF Owns(b, attempt) THEN [b EXCEPT !.marker = NoMarker] ELSE b

\* ResolveStaleMarker: an attempt nobody completed becomes doubt.
\* Mutants: the marker goes without leaving doubt; a booking already in doubt
\* is skipped.
ResolveWithoutDoubt(b) ==
    IF b.status \in {"PENDING", "UNKNOWN"} THEN [b EXCEPT !.marker = NoMarker] ELSE b
ResolvePendingOnly(b) ==
    IF b.marker # NoMarker /\ b.status = "PENDING"
    THEN [b EXCEPT !.status = "UNKNOWN", !.marker = NoMarker] ELSE b

ResolveStaleMarkerRow(b) ==
    IF b.marker # NoMarker /\ b.status \in {"PENDING", "UNKNOWN"}
    THEN [b EXCEPT !.status = "UNKNOWN", !.marker = NoMarker]
    ELSE b

\* Authorize counts an attempt and marks it outstanding before any byte leaves.
\* Mutant: the durable budget guard is dropped.
MayAuthorizeBeyond(b, budget) == /\ b.marker = NoMarker
                                 /\ b.status \in {"RECEIVED", "PENDING", "UNKNOWN"}

MayAuthorize(b, budget) == /\ b.marker = NoMarker
                           /\ b.attempts < budget
                           /\ b.status \in {"RECEIVED", "PENDING", "UNKNOWN"}

\* Mutants: the attempt is marked but not counted; the status is set to PENDING
\* whatever it was; the booking is left in RECEIVED.
AuthorizeUncounted(b) ==
    [b EXCEPT !.marker = b.attempts + 1, !.status = IF @ = "RECEIVED" THEN "PENDING" ELSE @]
AuthorizeToPending(b) ==
    [b EXCEPT !.attempts = @ + 1, !.marker = b.attempts + 1, !.status = "PENDING"]
AuthorizeInPlace(b) ==
    [b EXCEPT !.attempts = @ + 1, !.marker = b.attempts + 1]

AuthorizeRow(b) ==
    [b EXCEPT !.attempts = @ + 1,
              !.marker   = b.attempts + 1,
              !.status   = IF @ = "RECEIVED" THEN "PENDING" ELSE @]

\* Why an authorization was refused.
Refusal(b, budget) ==
    IF Settled(b.status) THEN "ALREADY_SETTLED"
    ELSE IF b.marker # NoMarker THEN "ATTEMPT_OUTSTANDING"
    ELSE IF b.attempts < budget THEN "ALREADY_SETTLED"
    ELSE "BUDGET_SPENT"

\* ParkIfUnknown flags a booking in doubt that has no call outstanding.
Parkable(b) == b.status = "UNKNOWN" /\ b.marker = NoMarker

ParkRow(b) == IF Parkable(b) THEN [b EXCEPT !.flag = TRUE] ELSE b

\* Flag marks the row for recovery, whatever its status.
FlagRow(b) == [b EXCEPT !.flag = TRUE]

\* FindStale, the part that does not depend on the clock.
\* Mutant: every flagged row is excluded.
SweepableUnflagged(b) == b.status \in {"RECEIVED", "PENDING", "UNKNOWN"} /\ ~b.flag

Sweepable(b) ==
    /\ b.status \in {"RECEIVED", "PENDING", "UNKNOWN"}
    /\ ~(b.flag /\ b.status = "UNKNOWN" /\ b.marker = NoMarker)
=============================================================================
