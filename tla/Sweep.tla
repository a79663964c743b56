-------------------------------- MODULE Sweep --------------------------------
(***************************************************************************)
(* The sweep (internal/sweep) over many bookings, with time: which rows a  *)
(* pass finds stale (FindStale), in which order and how many, and what the *)
(* replicas that sweep do with the ids they hold.                          *)
(*                                                                         *)
(* A booking is its row, with the statements of BookingStore, and an       *)
(* execution reduced to what takes time while it holds the marker:         *)
(*                                                                         *)
(*   call      supplier.Book, ended by the backstop at the latest          *)
(*   handoff   the queue between the call and its persist                  *)
(*   persist   Apply and its retries, for the persist window               *)
(*                                                                         *)
(* Everything else an execution does may take any time, or for ever        *)
(* ("stuck").  The queue is unbounded in principle; it is assumed to stay  *)
(* within the margin the configuration reserves for it.                    *)
(***************************************************************************)
EXTENDS Config, Sequences, FiniteSets

CONSTANTS
    Bookings,       \* the bookings in the table
    Replicas,       \* the processes that sweep
    Environments,   \* the environments deploys may set
    Batches,        \* the values of batchSize
    MaxFaults       \* bound on the failures of one behaviour

ASSUME SweepAssumption == /\ \A env \in Environments : IsEnvironment(env)
                          /\ Batches \subseteq Nat \ {0}
                          /\ IsFiniteSet(Bookings)
                          /\ MaxFaults \in Nat

VARIABLES
    settings,   \* the configuration of the deploy
    batch,      \* its batchSize
    row,        \* row[b]: the row of booking b
    age,        \* age[b]: now - updated_at
    order,      \* the bookings by updated_at, oldest first
    run,        \* run[b]: the open execution and the time it spent at its pc
    orphans,    \* orphans[b]: workers whose execution is gone
    pass,       \* pass[r]: the ids replica r has selected and not started yet
    ticker,     \* ticker[r]: time since its last tick
    faults      \* failures so far

config == <<settings, batch>>
rowVars == <<row, age, order>>
passVars == <<pass, ticker>>
vars == <<config, rowVars, run, orphans, passVars, faults>>

Store == INSTANCE BookingStore WITH
    Refs <- {}, NoRef <- "none", booking <- row, noted <- {}

Settled(b) == Store!Settled(row[b].status)

Fault == faults < MaxFaults /\ faults' = faults + 1

\* Where a booking stands in the order.
Place(b) == CHOOSE i \in DOMAIN order : order[i] = b

\* Every UPDATE moves updated_at (the trigger bookings_set_updated_at): the row
\* becomes the youngest.
Write(b, new) == /\ row' = [row EXCEPT ![b] = new]
                 /\ age' = [age EXCEPT ![b] = 0]
                 /\ LET p == Place(b)
                    IN  order' = [i \in DOMAIN order |->
                                     IF i < p THEN order[i]
                                     ELSE IF i < Len(order) THEN order[i + 1] ELSE b]

\* A guarded statement: nothing matches, or the row is written.
Statement(b, new) == IF new = row[b] THEN UNCHANGED rowVars ELSE Write(b, new)

-----------------------------------------------------------------------------
(* Executions. *)

PCs == {"none", "dispatch", "authorize", "call", "handoff", "persist", "park", "waiting", "stuck"}

\* Where a healthy execution owns the marker, and for how long.
Limit(pc) == CASE pc = "call"    -> settings.backstop
               [] pc = "handoff" -> QueueMargin(settings)
               [] pc = "persist" -> settings.persistWindow

Timed == {"call", "handoff", "persist"}

NoRun == [pc |-> "none", attempt |-> 0, clock |-> 0]

At(b, pc) == run[b].pc = pc
Goto(b, pc) == run' = [run EXCEPT ![b] = [@ EXCEPT !.pc = pc, !.clock = 0]]
Close(b) == run' = [run EXCEPT ![b] = NoRun]

Dispatch(b) ==
    /\ At(b, "dispatch")
    /\ Statement(b, Store!ResolveStaleMarkerRow(row[b]))
    /\ IF Settled(b) THEN Close(b) ELSE Goto(b, "authorize")
    /\ UNCHANGED <<config, orphans, passVars, faults>>

Authorize(b) ==
    /\ At(b, "authorize")
    /\ IF Store!MayAuthorize(row[b], settings.createAttempts)
       THEN /\ Write(b, Store!AuthorizeRow(row[b]))
            /\ run' = [run EXCEPT ![b] = [pc |-> "call", attempt |-> row'[b].attempts,
                                          clock |-> 0]]
       ELSE /\ UNCHANGED rowVars
            /\ IF Store!Refusal(row[b], settings.createAttempts) = "BUDGET_SPENT"
               THEN Goto(b, "park") ELSE Close(b)
    /\ UNCHANGED <<config, orphans, passVars, faults>>

BookReturns(b) ==
    /\ At(b, "call")
    /\ Goto(b, "handoff")
    /\ UNCHANGED <<config, rowVars, orphans, passVars, faults>>

PersistScheduled(b) ==
    /\ At(b, "handoff")
    /\ Goto(b, "persist")
    /\ UNCHANGED <<config, rowVars, orphans, passVars, faults>>

\* What an attempt may have learnt: an answer, doubt, or that nothing left.
Transition(from, to, attempt) ==
    [from |-> from, to |-> to, rule |-> "owned", attempt |-> attempt,
     ref |-> "none", unflag |-> to = "REJECTED"]

Learnt(r, attempt) ==
    {Store!ApplyRow(r, Transition(r.status, "REJECTED", attempt)),
     IF r.status = "PENDING"
     THEN Store!ApplyRow(r, Transition("PENDING", "UNKNOWN", attempt))
     ELSE Store!ClearMarkerRow(r, attempt),
     Store!ClearMarkerRow(r, attempt)}

\* The retry delay is part of "authorize", which takes any time.
Persist(b) ==
    /\ At(b, "persist")
    /\ \E new \in Learnt(row[b], run[b].attempt) :
           /\ Statement(b, new)
           /\ IF Store!Settled(new.status) \/ new = row[b] THEN Close(b)
              ELSE Goto(b, IF new.attempts < settings.createAttempts THEN "authorize" ELSE "park")
    /\ UNCHANGED <<config, orphans, passVars, faults>>

\* Unreachable if every attempt proved it never left; parked if in doubt.
Park(b) ==
    /\ At(b, "park")
    /\ IF row[b].status = "PENDING"
       THEN /\ Statement(b, Store!ApplyRow(row[b],
                   [Transition("PENDING", "FAILED", 0) EXCEPT !.rule = "clear"]))
            /\ Close(b)
       ELSE IF Store!Parkable(row[b])
       THEN Write(b, Store!ParkRow(row[b])) /\ Goto(b, "waiting")
       ELSE UNCHANGED rowVars /\ Close(b)
    /\ UNCHANGED <<config, orphans, passVars, faults>>

ParkTimerFires(b) ==
    /\ At(b, "waiting")
    /\ Close(b)
    /\ UNCHANGED <<config, rowVars, orphans, passVars, faults>>

\* A timed activity ends at its limit: its worker's context ends with it.
TimesOut(b) ==
    /\ run[b].pc \in {"call", "persist"}
    /\ run[b].clock = Limit(run[b].pc)
    /\ Close(b)
    /\ UNCHANGED <<config, rowVars, orphans, passVars, faults>>

\* Somebody ends the execution; the worker inside an activity does not know.
Terminate(b) ==
    /\ ~At(b, "none")
    /\ Fault
    /\ Close(b)
    /\ orphans' = IF run[b].pc \in {"call", "persist"}
                  THEN [orphans EXCEPT ![b] = @ \cup {run[b]}] ELSE orphans
    /\ UNCHANGED <<config, rowVars, passVars>>

\* Its workflow task fails again and again.  Fewer than a batch do.
GetsStuck(b) ==
    /\ run[b].pc \in {"dispatch", "authorize", "handoff", "park"}
    /\ Cardinality({a \in Bookings : At(a, "stuck")}) + 1 < batch
    /\ Goto(b, "stuck")
    /\ UNCHANGED <<config, rowVars, orphans, passVars, faults>>

\* An orphan's answer has no execution to go to; its persist still commits.
OrphanEnds(b, o) ==
    /\ o \in orphans[b]
    /\ orphans' = [orphans EXCEPT ![b] = @ \ {o}]
    /\ IF o.pc = "persist"
       THEN \E new \in Learnt(row[b], o.attempt) : Statement(b, new)
       ELSE UNCHANGED rowVars
    /\ UNCHANGED <<config, run, passVars, faults>>

-----------------------------------------------------------------------------
(* Callbacks: one that settles, and one that is refused and flags the row. *)

CallbackSettles(b) ==
    /\ ~Settled(b)
    /\ Statement(b, Store!ApplyRow(row[b],
           [Transition(row[b].status, "REJECTED", 0) EXCEPT !.rule = "supersede"]))
    /\ UNCHANGED <<config, run, orphans, passVars, faults>>

\* Flag matches no row that is flagged already: a refused callback delivered
\* again and again, as often as it likes, keeps no row young.
CallbackFlags(b) ==
    /\ ~Settled(b)
    /\ IF row[b].flag THEN UNCHANGED faults ELSE Fault
    /\ Statement(b, Store!FlagRow(row[b]))
    /\ UNCHANGED <<config, run, orphans, passVars>>

-----------------------------------------------------------------------------
(* FindStale and the passes. *)

\* The age past which the row counts as quiet.
Marked(b) == row[b].marker # Store!NoMarker

Threshold(b) == IF Marked(b) THEN settings.markerThreshold
                ELSE IF row[b].status = "RECEIVED" THEN settings.receivedThreshold
                ELSE settings.idleThreshold

Stale(b) == Store!Sweepable(row[b]) /\ age[b] > Threshold(b)

\* s lists the n oldest of the bookings in found, oldest first.
ListsOldest(s, n, found) ==
    /\ \A i, j \in 1 .. n : i < j => Place(s[i]) < Place(s[j])
    /\ \A i \in 1 .. n, b \in found \ {s[j] : j \in 1 .. n} : Place(s[i]) < Place(b)

Oldest(n, found) == CHOOSE s \in [1 .. n -> found] : ListsOldest(s, n, found)

Found == {b \in Bookings : Stale(b)}

\* Mutant: the query has no limit.
SelectedAll == Oldest(Cardinality(Found), Found)

Selected == Oldest(IF Cardinality(Found) < batch THEN Cardinality(Found) ELSE batch, Found)

\* The ticker fires; a pass that is over may begin again.
BeginPass(r) ==
    /\ ticker[r] >= settings.sweepInterval
    /\ pass[r] = <<>>
    /\ ticker' = [ticker EXCEPT ![r] = 0]
    /\ pass' = [pass EXCEPT ![r] = Selected]
    /\ UNCHANGED <<config, rowVars, run, orphans, faults>>

QueryFails(r) ==
    /\ ticker[r] >= settings.sweepInterval
    /\ pass[r] = <<>>
    /\ Fault
    /\ ticker' = [ticker EXCEPT ![r] = 0]
    /\ UNCHANGED <<config, rowVars, run, orphans, pass>>

\* StartBooking on the next id; a second start is a no-op.
\* Mutant: an execution that is already open ends the pass.
StartNextUntilOpen(r) ==
    /\ pass[r] # <<>>
    /\ LET b == Head(pass[r])
       IN  IF At(b, "none")
           THEN /\ Goto(b, "dispatch")
                /\ pass' = [pass EXCEPT ![r] = Tail(@)]
           ELSE /\ UNCHANGED run
                /\ pass' = [pass EXCEPT ![r] = <<>>]
    /\ UNCHANGED <<config, rowVars, orphans, ticker, faults>>

StartNext(r) ==
    /\ pass[r] # <<>>
    /\ pass' = [pass EXCEPT ![r] = Tail(@)]
    /\ LET b == Head(pass[r])
       IN  IF At(b, "none") THEN Goto(b, "dispatch") ELSE UNCHANGED run
    /\ UNCHANGED <<config, rowVars, orphans, ticker, faults>>

StartFails(r) ==
    /\ pass[r] # <<>>
    /\ Fault
    /\ pass' = [pass EXCEPT ![r] = Tail(@)]
    /\ UNCHANGED <<config, rowVars, run, orphans, ticker>>

\* The tick's deadline passes with ids left over.
RunsOut(r) ==
    /\ pass[r] # <<>>
    /\ Fault
    /\ pass' = [pass EXCEPT ![r] = <<>>]
    /\ UNCHANGED <<config, rowVars, run, orphans, ticker>>

-----------------------------------------------------------------------------
(* Time.  It does not pass a deadline before what ends there has ended.  An  *)
(* age is counted one past its threshold.                                    *)

MayTick ==
    /\ \A r \in Replicas : ticker[r] < settings.sweepInterval
    /\ \A r \in Replicas : pass[r] # <<>> => ticker[r] + 1 < settings.sweepInterval
    /\ \A b \in Bookings :
           /\ run[b].pc \in Timed => run[b].clock < Limit(run[b].pc)
           /\ \A o \in orphans[b] : o.clock < Limit(o.pc)

Tick ==
    /\ ticker' = [r \in Replicas |-> ticker[r] + 1]
    /\ UNCHANGED <<config, row, order, pass, faults>>
    /\ MayTick
    /\ age' = [b \in Bookings |->
                  IF Store!Sweepable(row[b]) /\ ~Stale(b) THEN age[b] + 1 ELSE age[b]]
    /\ run' = [b \in Bookings |->
                  IF run[b].pc \in Timed THEN [run[b] EXCEPT !.clock = @ + 1] ELSE run[b]]
    /\ orphans' = [b \in Bookings |-> {[o EXCEPT !.clock = @ + 1] : o \in orphans[b]}]

-----------------------------------------------------------------------------
Init == /\ settings \in Configurations(Environments)
        /\ batch \in Batches
        /\ row = [b \in Bookings |-> Store!NewRow]
        /\ age = [b \in Bookings |-> 0]
        /\ order = CHOOSE s \in [1 .. Cardinality(Bookings) -> Bookings] :
                       {s[i] : i \in DOMAIN s} = Bookings
        /\ run \in [Bookings -> {NoRun, [NoRun EXCEPT !.pc = "dispatch"]}]
        /\ orphans = [b \in Bookings |-> {}]
        /\ pass = [r \in Replicas |-> <<>>]
        /\ ticker = [r \in Replicas |-> 0]
        /\ faults = 0

\* What an execution and its worker do by themselves.
Progress(b) ==
    \/ Dispatch(b) \/ Authorize(b) \/ BookReturns(b) \/ PersistScheduled(b) \/ Persist(b)
    \/ Park(b) \/ TimesOut(b)

Next == \/ \E b \in Bookings :
               \/ Progress(b) \/ ParkTimerFires(b) \/ Terminate(b) \/ GetsStuck(b)
               \/ \E o \in orphans[b] : OrphanEnds(b, o)
               \/ CallbackSettles(b) \/ CallbackFlags(b)
        \/ \E r \in Replicas : \/ BeginPass(r) \/ QueryFails(r)
                               \/ StartNext(r) \/ StartFails(r) \/ RunsOut(r)
        \/ Tick

Spec == Init /\ [][Next]_vars

\* Time passes, executions and workers go on, and every replica sweeps.
Fairness == /\ WF_vars(Tick)
            /\ \A b \in Bookings : WF_vars(Progress(b) \/ \E o \in orphans[b] : OrphanEnds(b, o))
            /\ \A r \in Replicas : WF_vars(BeginPass(r)) /\ WF_vars(StartNext(r))

FairSpec == Spec /\ Fairness

-----------------------------------------------------------------------------
Execution == [pc : PCs, attempt : Nat, clock : Nat]
Orphan == [pc : {"call", "persist"}, attempt : Nat, clock : Nat]

RowTypes == /\ settings \in Configurations(Environments)
            /\ row \in [Bookings -> Store!Row]
            /\ age \in [Bookings -> Nat]
            /\ run \in [Bookings -> Execution]
            /\ orphans \in [Bookings -> SUBSET Orphan]

\* Every variable has its type; the order lists every booking once, and no
\* pass holds more ids than a batch.
TypeOK ==
    /\ RowTypes
    /\ batch \in Batches
    /\ Len(order) = Cardinality(Bookings)
    /\ {order[i] : i \in DOMAIN order} = Bookings
    /\ \A r \in Replicas : pass[r] \in Seq(Bookings) /\ Len(pass[r]) <= batch
    /\ ticker \in [Replicas -> Nat]
    /\ faults \in 0 .. MaxFaults

\* What keeps a marker from going stale under its owner: the row was written
\* when the attempt was authorized, so it is no older than the phases since.
SpentBefore(pc) == CASE pc = "call"    -> 0
                     [] pc = "handoff" -> settings.backstop
                     [] pc = "persist" -> settings.backstop + QueueMargin(settings)

InTime(w, a) == w.clock <= Limit(w.pc) /\ a <= SpentBefore(w.pc) + w.clock

HoldsInTime ==
    \A b \in Bookings : /\ run[b].pc \in Timed => InTime(run[b], age[b])
                        /\ \A o \in orphans[b] : InTime(o, age[b])

\* repository.go:113-116, repositories.go:62.  A row that is stale by its marker
\* has no call behind it: no worker is inside the supplier call or the persist
\* that would clear the marker, and no healthy execution is between the two.
StaleMarkerIsAbandoned ==
    \A b \in Bookings :
        Stale(b) /\ Marked(b)
            => orphans[b] = {} /\ run[b].pc \notin Timed

\* A booking that only the sweep can continue.
Abandoned(b) == Store!Sweepable(row[b]) /\ At(b, "none")

\* sweep.go:13-14 and sweep.go:58.  A backlog drains over several passes: no
\* booking stays abandoned for ever.  It is restarted, or settled or parked by
\* somebody, although executions get stuck, starts and queries fail and passes
\* run out of time.
AbandonedIsRestarted == \A b \in Bookings : []<>~Abandoned(b)
=============================================================================
