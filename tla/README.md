# Booking orchestration service: specifications and proofs

This directory holds the TLA+ development kept beside the service: modules that
model it, TLC configurations that check them on small instances, and proofs that
TLAPS checks for every instance. Paths such as `service.go:163` are relative to
the repository; `docs/RFC.md` is the design document the properties quote.

The service promises two things (`README.md:7-8`): PostgreSQL decides what is
true, and a booking becomes `FAILED` only if the supplier provably never received
the request. Everything below is about whether the code keeps that promise when
workers die, statements commit after their caller gave up, callbacks race
answers, the sweep restarts what it thinks is dead, and processes come and go.

## 1. Inventory

| Part | Where | State it keeps | Operations | Modelled in |
|---|---|---|---|---|
| Status machine | `internal/model/status.go` | none | `CanMove`, `Settled` | `BookingStatus` |
| Repository, one row | `internal/repository/booking/transition.go`, `authorize.go` | `bookings` row: status, attempts, marker, flag, reference | `Apply`, `ClearMarker`, `AppendRefusal`, `Authorize`, `ResolveStaleMarker`, `ParkIfUnknown`, `Flag` | `BookingStore` |
| Repository, creation and selection | `internal/repository/booking/repository.go` | `bookings` table, `UNIQUE (distributor, key)`, `updated_at` | `InsertOrLoad`, `GetByKey`, `GetByID`, `FindStale` | `BookingCreate`, `Sweep` |
| Workflow and activities | `internal/workflow` | one Temporal execution per booking id | dispatch, attempt, apply, park, signal | `BookingRun` |
| Temporal adapter | `internal/orchestrator/temporal.go` | none | `StartBooking`, `SignalOutcome` | `BookingRun`, `BookingLifecycle` |
| Callback service | `internal/service/booking/service.go` | none between calls | `ApplyCallback` | `CallbackService` |
| Booking service and REST API | `internal/service/booking/service.go`, `internal/delivery/rest` | none between calls | `Create`, `replay`, `startWorkflow`, `Get`, `Authenticate` | `BookingCreate` |
| API keys | `internal/auth`, `internal/repository/apikey` | `api_keys` table | `FindActive`, `Verify`, issue, revoke | `BookingCreate` |
| Sweep | `internal/sweep/sweep.go` | the ids of one pass, a ticker | `Run`, `pass` | `Sweep`, `BookingLifecycle` |
| Supplier client | `internal/supplier/http.go`, `conn.go` | byte counter, trace, deadline of one call | `Book`, `classify` | `SupplierClient` |
| Supplier | outside the repository | its own decision per idempotency key | answers, callbacks | `BookingLifecycle` (external) |
| Configuration | `config/config.go` | the time windows | `Load`, `validate` | `Config` |
| Process lifecycle | `cmd/serve.go`, `internal/app/app.go` | goroutines, their contexts, pool and client | `Serve`, `RunWorker`, `Close` | `Shutdown` |
| Workflow registration, mock supplier, migrations, logging, generated API documents | `internal/workflow`, `internal/supplier/mock.go`, `migrations`, `internal/observability`, `docs` | | | not modelled, section 8 |

How they meet: the create service commits a row and starts an execution. The
execution's activities and the callback handlers change that row with guarded
statements, each of which locks the row, tests, updates and appends its lineage
event in one SQL statement. A callback that settled the row signals the
execution. The sweep reads the table and starts executions again. A process runs
the listener, the worker and the sweep side by side and ends them together. There
is no lock and no cache above the database.

What is hard about it:

- **Two writers, one row.** The attempt's own answer, a retry of it, a callback
  and the dispatch of a newer execution may all be about to write. The marker
  (`in_flight_attempt`) says who owns the row, and the status guards the rest.
- **Activities are at-least-once.** A try Temporal gave up on may still commit
  (`late` in the model), and a worker whose execution was closed may still send
  its request (`live`, and `orphans` in `Sweep`).
- **A statement is atomic, a handler is not.** Callback handling reads a row,
  applies, re-reads, applies again, flags and signals; the row moves in between.
- **The proof that nothing was sent** rests on a byte counter shared between the
  caller of `Book` and the goroutine of `net/http` that writes.
- **Something must happen in the end** although executions die: the sweep is the
  only thing that guarantees it, and it ignores some rows on purpose and takes
  only a batch of the others.
- **Time stands in for knowledge.** The sweep calls a marker abandoned because it
  is old, and the worker drops an activity because it waited long enough. Whether
  that is right depends on windows that are configured, and derived from each
  other, in another package.

Per part, what makes it correct: the *repository* never moves a settled row and
never lets a marker stand for an uncounted attempt; the *execution* fails a
booking only with proof, never withdraws doubt and never exceeds its budget; the
*callback service* treats what it applied as a duplicate when it comes again and
leaves no unreferenced confirmation unflagged; the *sweep* takes no marker from a
live call and reaches every abandoned booking; the *client* returns NOT_SENT only
when nothing left, and always returns; *creation* makes one booking per key,
and shows it to its own distributor from then on; the *process* finishes the calls
it had in flight before it closes what they need, and ends.

## 2. Modules

```
BookingStatus                    the transition table
  BookingStore                   the row and the statements on it
    BookingRun                   the Temporal execution and its activities
    CallbackService              concurrent callback handlers
      BookingLifecycle           both, with sweep, signal and supplier
        INSTANCE BookingPromise  what the distributor is promised (abstract)
        BookingInvariant         the inductive invariant
          BookingInvariantProofs   the marker protocol
            BookingOutcomeProofs   outcomes, references, the promise
              CallbackProofs       racing callbacks
Config                           the time windows, derived and validated
  ConfigProofs                   what validation guarantees
  Sweep                          many bookings, clocks, passes
    INSTANCE BookingStore        the statements, on each row
    MCSweep, SweepProofs
  Shutdown                       one process from start to exit
    MCShutdown, ShutdownProofs
BookingCreate                    creating and reading bookings
  INSTANCE IdempotentCreate      what the API promises about them (abstract)
  CreateProofs
SupplierClient                   one HTTP call
  INSTANCE SupplierCall          what the lifecycle takes a call to be (abstract)
  ClientProofs
```

**BookingStore.** The row is a record of status, attempt count, marker, flag and
reference. Each SQL statement is an operator from row to row plus an operator for
what it reports, because in PostgreSQL it is one atomic step whoever issues it.
`Guarded` is the `WHERE` clause of `guardedTemplate` with the three marker rules
of `markerPredicate`; `ApplyResult` is what `Apply` returns, "superseded"
included. The `version` column is only ever incremented and never read, so it is
left out. Of the lineage, only the references written into it are kept (`noted`).

**BookingRun.** `run.pc` is the place in `BookingWorkflow` and its activities at
which the next database statement or supplier call happens. An activity that
makes several statements has several places; one that makes one has one. The
answer the attempt hands to `Apply` is `run.ans`. Temporal's retries are
`TryTimesOut` (the try's statement stays in `late` and may commit at any later
moment, against any later row) and `TryFails`; `RunCloses` is an activity out of
retries, a terminated execution or a dead worker. A late authorization goes on to
the supplier, as its worker would, so it becomes `live`. `Book` of the supplier
client is one `BytesLeave` (the moment after which the request may have arrived)
and one `BookReturns`, whose outcomes are those of `SupplierCall`, which `SupplierClient` implements.

**CallbackService.** `cb[h]` is the handler's place in `ApplyCallback`, the
callback in its hand and the status it read. Receiving includes the first read
and every early return. Each further statement is its own step. `BestEffortFails`
is a lineage write, a flag, a re-read or a signal that fails and is only logged.

**BookingLifecycle.** Puts them on one row, adds the sweep (`FindStale` and
`RestartStale` are two steps: the pass holds an id it read earlier), the signal
that reaches into the execution, and the supplier. `Suppliers` says whom a
behaviour may meet: an "arbitrary" one says anything at any time, before any
request too; an "undecided" one decides once per idempotency key, after a request
arrived, and says what it did.

**BookingPromise.** The booking as the distributor sees it, with no marker,
attempt, execution or failure: untried, trying, doubt, confirmed, rejected,
failed, with a reference that only comes with a confirmation. `PromiseKept` states
that `BookingLifecycle` implements it under the mapping of status to phase.

**BookingCreate.** Any number of handlers, on any number of replicas, of creates
and reads. A credential is written as its distributor; two active keys of one
distributor behave alike once looked up, so the keys that are in force are one
bit per distributor (`active`, changed by `Rotate`). A payload is what the
fingerprint distinguishes. `InsertOrLoad` is two steps, insert and load, because
the row of another request may be committed in between; a statement may fail, or
commit and lose its reply. A repeated request is a new `ReceiveCreate` with the
same distributor, key and payload.

**IdempotentCreate.** One table, with no handler, conflict, lost reply or
credential: a booking is made under a free key, its maker is told 201 and every
other request for the same booking 200, and a read finds exactly the reader's own.
`CreatesAreIdempotent` states that `BookingCreate` implements it.

**SupplierClient.** The caller of `Book`, the deadline, and the write loop of
`net/http` with the step between the system call and `written.Add`. What is used
of `net/http` is in the module's header and marked external in the map: in
particular `Do` waits for the write loop before it reports a failed round trip
(without that, the counter could be read before the last write was added), and a
redirect is followed with the same context, so with the same counter.

**SupplierCall.** The `BytesLeave` and `BookReturns` of `BookingRun` by themselves: a
request may reach the supplier until the call returns, and a returned proof stays
true. `KeepsCallContract` states that the client implements it up to its first
redirect (what happens after one is `doc_redirect`, section 7), which joins the
two models: the lifecycle may treat `Book` as those two steps.

**Config.** An environment is a function from the variables that are set to their
values; `Load` fills in the literal fallbacks and the two derived windows,
`Valid` is `validate`. `Configurations` are those a process can start with, and
`Sweep` and `Shutdown` run under any of them.

**Sweep.** The same statements as the lifecycle, on several rows that age. An
execution is reduced to what takes time while it owns the marker: the call, the
queue, the persist. `order` is the table by `updated_at`, because `FindStale`
takes the oldest first; every write moves its row from its `Place` to the end. A
statement that matches no row is no write: a refused callback moves the age of a
row when it flags it, and never again (`CallbackFlags`). `Selected` is the query with its three ages
and its limit. A pass is a list of ids that is worked off one `StartNext` at a
time, while anything else may happen.

**Shutdown.** The goroutines of `Serve`: main, worker, sweep, and the activities
and the request in flight. `Cancelled` is the context: done by the signal itself,
so the worker starts to stop while the listener still drains. When its stop
timeout ends the SDK cancels the contexts of the activities that still run and
returns (`Stopped`); nobody waits for them. They go on beside the join and
`App.Close`, and what they have to report after the client is closed is lost. `Exit`
cuts what is running where it stands. An activity is `early` if its call began
before the cancellation.

## 3. Runs

| Run | Configuration | What it shows |
|---|---|---|
| `lifecycle` | module `BookingInvariant`; 1 handler, all callbacks, arbitrary supplier, budgets 1 and 2, 2 failures | the marker protocol, which is the inductive invariant of the proofs, and what follows from it: FAILED only if nothing reached the supplier, PENDING with a clear marker is a proof, every call counted and within budget; a reference only on a confirmed row; a settled row is final; doubt stays; unreachable only with the budget spent; the promise is implemented |
| `lifecycle_race` | 2 handlers, all callbacks, 2 references, no failure | no unreferenced confirmation goes unflagged; a confirmation that was applied is never refused as contradicting the settled row; no execution is parked on a settled row without a signal waiting or on its way |
| `lifecycle_live` | fair workers and sweep, all callbacks, both kinds of supplier, 1 failure | the row never contradicts what a truthful supplier did; every booking is settled or handed over in doubt in the end; no marker wedges; a parked execution wakes on the callback that settled its booking, without its timer |
| `create` | 2 handlers, 2 distributors, 2 payloads under one key, 3 requests, keys that rotate | one booking per key, answers name it, agree, and belong to the distributor; an id that was given is found from then on; all of it together behaves as the one table of `IdempotentCreate` |
| `sweep` | 2 bookings, 1 sweep, batches 1 and 2, a marker threshold one above the hold and one below it (refused) | a marker that is stale under a validated configuration has no call behind it; every abandoned booking is restarted, settled or parked |
| `shutdown` | 2 activities, a request that may hang, 2 interrupts, shutdown timeout unset, 1, 2 and 4 at a supplier deadline of 2 | a call in flight at the signal is never cancelled or cut, and client and pool stay open while it runs; a process that is told to stop does |
| `client` | 3 request bytes, 2 handshake writes, 2 redirects | NOT_SENT is a proof unless a redirect was followed; a call without a connection is not in doubt; up to a redirect the call is a `SupplierCall`; `Book` returns |
| `doc_*` (five) | small | what a document says and the code does not do, section 7 |

Bounds, and why they suffice:

- **Budget 2** lets a booking be attempted, left in doubt and attempted again;
  what distinguishes attempt 2 from 1 (a retry authorized from UNKNOWN, the last
  of the budget) is there. Budgets {1, 2} is a deploy that changed the setting
  between executions. In `Sweep` the budget is 1: there an attempt only occupies
  the marker, and a restarted execution finds the budget spent and parks, which
  is the longest a booking keeps coming back to the sweep for. The theorems of
  section 6 hold for every budget.
- **Failures** (`MaxFaults`) bound executions that die, tries that time out,
  passes that are cut short and writes that fail, in one behaviour. The shortest
  ways to the hazards listed need one or two (an abandoned authorization, then
  the execution that resolves it). The theorems of section 6 hold for any number.
- **Two handlers** are enough for two deliveries of one callback, or two
  contradicting ones, to race; a handler that is done takes another callback, so
  any number arrive. Two create handlers with three requests are a race, its
  repetition, and a read.
- **One or two references** separate "the same" from "another".
- **Two bookings and a batch of one** are a backlog larger than a batch; a batch
  of two lets an execution be stuck for ever beside the one that must be reached.
  Fewer stuck executions than a batch (100 in the code) are assumed: with a batch of
  them the oldest rows are always the same and the rest is not reached. The run
  meets a stuck execution and a limit that cuts in different behaviours, never in
  one; that takes three bookings, whose clocks have too many states for TLC.
  One sweep is enough for a pass to hold an id that has moved on; `SweepProofs`
  allows any number of replicas.
- **Windows**: intervals of 1, a backstop of 2, a persist window of 3, hence a
  hold of 10: every relation `validate` tests is met with the least margin.
- **Two interrupts**: the second one ends a process that is already stopping.
- **Request bytes** 3 allow an empty, a partial and a complete write, and a
  write that is split.
- Runs that end with nothing left to do say `CHECK_DEADLOCK FALSE`: a settled
  booking with no execution and no callback really is quiet, and an exited
  process is over.

Each property of a passing run has a mutant in `PROJECT.json`: a changed
definition (the `Mutant:` comments above the definitions), standing for a
plausible bug in that code, under which TLC finds the property violated.

## 4. Time, fairness

`BookingStore` to `BookingLifecycle`, `BookingCreate` and `SupplierClient` have no
clocks: a delay that has not passed is a step not taken yet. The retry delay, the
park timer, the staleness thresholds and the supplier deadline may each end at
any moment there, which covers every configuration of them.

`Sweep` and `Shutdown` ask what the configured windows are for, so they have
clocks: `Tick` is one unit of time, and it is not enabled when a deadline is due
and its consequence has not been taken. Two things are assumed and not checked:

- the queue in front of a persist stays within the margin of five sweep intervals
  that `validate` reserves for it (`config.go:177-179`); nothing in the code bounds it;
- handing an outcome to the orchestrator takes no time.

A call that is authorized *after* the signal may be cancelled, and may still run when
client and pool are closed: `validate` compares the shutdown timeout with the
supplier deadline counted from the signal, so `CallsAreFinished` is about the calls
that were in flight at the signal, which is what `config.go:58-59` says. What
becomes of the others is `doc_join` (section 7).

Fairness, and why the code justifies it:

- `BookingLifecycle`: an open execution keeps going (`UntimedRun`), because
  Temporal persists it and worker processes poll; the *park timer* is
  deliberately not in it. The sweep keeps finding and restarting (a ticker per
  process). A handler that has a callback in hand finishes it. The supplier owes
  nothing: neither an answer before the deadline nor a callback. `Book` is fair
  because the client's own deadline ends it, which is `BookEnds` of
  `SupplierClient`.
- `BookingCreate`: none; nothing is claimed there that must happen. That a committed
  booking gets its execution is `AccountedFor` of the lifecycle, which begins with a
  booking nobody started, and `AbandonedIsRestarted` of `Sweep`; here the sweep may
  start any booking at any time.
- `SupplierClient`: the deadline, the caller once the deadline or an error
  released it, and the writer on a closed connection.
- `Sweep`: time passes, an execution and the workers it left behind go on, each
  replica begins its passes and works them off. The park timer and callbacks are
  not in it.
- `Shutdown`: weak fairness of main, worker, activities and time. Two steps are
  strongly fair, `RetryCancelled` and `SweeperStops`: each is one case of a
  `select` in a loop whose other case may be ready as well, and Go picks among
  ready cases uniformly, so a case that is ready again and again is taken. The
  request is not fair: it may hang for ever.

## 5. Hazards

`PROJECT.json` lists every hazard at its line, with the properties that would
notice. In short: markers cleared by somebody else's late statement; an
authorization whose worker died; a marker called stale under a live call; a budget
spanning executions; doubt withdrawn by a retry; a callback racing an answer, a
timeout or its own second delivery; a settled row moved again; a signal sent
before its reader waits; rows that neither an execution nor the sweep works on, or
that a batch never reaches; a counter read while it is written; a reply lost after
its commit; one key used by racing creates; a key rotated between a create and a
read; a stop that cuts a call, closes the client under it, or never ends.

Left without a property, with the reason in `PROJECT.json`: a replica that dies
between applying and flagging an unreferenced confirmation; a booking that fails
while flagged; a dispatch that overlooks the flag; a rejection that is delivered
again; and the early return after a listener failure. All five are in the model as
the code does them. Two hazards are covered in part: `AccountedFor` counts every
flagged booking in doubt as handed over, those with budget left too (section 7),
and stuck executions are met only where the batch has room (section 3).

Considered and not listed, because they cost latency or a log line only: the idle
threshold is not compared with the retry delay (`config.go:158-190`), so the sweep
may start an execution that is open already, which is a no-op; an ambiguous answer
whose write lost the race is dropped without an event (`activity.go:316`); a
refused callback whose lineage write fails is answered as if it had been written
(`service.go:288`).

## 6. What is proved

The proofs hold for every value of the constants: any number of handlers,
references, bookings, replicas, activities, keys and failures, any budgets, any
environment that parses. They rest on the `ASSUME`s of the modules and nothing
else: NULL is not a reference, the table is finite, bounds are naturals, budgets, fallbacks and the
grace period are positive, environments give integers to the variables they set,
and the suppliers and the callback vocabulary are the ones named.

| Module | Theorem | States |
|---|---|---|
| `BookingInvariantProofs` | `TypesHold` | `Spec => []TypeOK` |
| | `ProtocolHolds` | `Spec => []MarkerProtocol` |
| | `FailureIsHonest` | `Spec => []HonestFailure` |
| | `ClearMarkerIsProof` | `Spec => []PendingClearMeansUnsent` |
| | `CallsAreCounted` | `Spec => []CountedCalls` |
| `BookingOutcomeProofs` | `ReferencesAreConfirmations` | `Spec => []ReferenceIsConfirmation` |
| | `SettledStaysSettled` | `Spec => SettledIsFinal` |
| | `DoubtIsKept` | `Spec => DoubtStays` |
| | `ThePromiseIsKept` | `Spec => PromiseKept`: the lifecycle implements `BookingPromise` |
| | `NobodyGivesUpEarly` | `Spec => UnreachableSpentBudget` |
| `CallbackProofs` | `UnreferencedAreFlagged` | `Spec => [](faults = 0 => UnreferencedIsFlagged)` |
| | `DuplicatesAreKnown` | `Spec => [](faults = 0 => DuplicateConfirmation)` |
| | `NoWakeupIsLost` | `Spec => []SignalNotLost` |
| | `TheTruthIsTold` | `Spec => []SupplierTruth` |
| `CreateProofs` | `KeysStandForOneBooking` | `Spec => []OneBookingPerKey` |
| | `TenantsSeeTheirOwn` | `Spec => []AnswersOwnBooking` |
| | `SuccessesAgree` | `Spec => []AnswersAgree` |
| | `GivenIdsAreFound` | `Spec => KnownIsFound` |
| | `CreateTypes` | `Spec => []TypeOK` |
| | `CreatesHoldTheirPromise` | `Spec => CreatesAreIdempotent`: creation implements `IdempotentCreate` |
| `ClientProofs` | `NotSentProves` | `Spec => []NotSentIsProof` |
| | `DoubtNeedsConnection` | `Spec => []SetupIsNotSent` |
| | `ClientTypes` | `Spec => []TypeOK` |
| | `CallContractHolds` | `Spec => KeepsCallContract`: the client implements `SupplierCall` |
| `ConfigProofs` | `DerivedWindowsAreValid` | unset derived windows always validate |
| `SweepProofs` | `StaleMarkersAreAbandoned` | `Spec => []StaleMarkerIsAbandoned` |
| | `SweepTypes` | `Spec => []TypeOK` |
| `ShutdownProofs` | `CallsSurviveShutdown` | `Spec => []CallsAreFinished` |
| | `ShutdownTypes` | `Spec => []TypeOK` |

**What honesty rests on.** `HonestFailure` and `ClearMarkerIsProof` take a call that
says NOT_SENT at its word. `KeepsCallContract` shows that the client keeps it up to
its first redirect, and no further: with a supplier that redirects, `doc_redirect`
(section 7) is a NOT_SENT for a request that left, and a booking may fail although
the supplier got it. The theorems hold up to that.

**The marker protocol.** `HonestFailure` is not inductive. A step that sets FAILED
looks at the row and at the answer it persists, not at what reached the supplier,
so the invariant has to say what the row and the answers *know*. `MarkerProtocol`
says it in six parts:

1. `RowShape`: a row never authorized counts no attempt, a settled row has no
   marker;
2. `ReachIsMarked`: only counted attempts may reach the supplier; while the row
   is PENDING only the marked one may, so with a clear marker none; once it is
   FAILED none;
3. `CallIsOwn`: nobody else sends for the attempt of the open call;
4. `AnswersHold`: every answer on its way to the row, of the open execution or of
   a late statement, numbers a counted attempt; if it says nothing was sent, that
   attempt never reaches the supplier; if it was authorized in doubt, the row is
   past PENDING for good;
5. `PersistsAnAnswer`: what is persisted is an answer;
6. `BudgetHolds`: budgets in use are configured ones, and the count is within one.

The proof has three layers. *What a statement does to the row* (`...RowEffect`
lemmas), with no reference to processes. *Five kinds of step*: seen from the row,
every step of the whole system leaves it untouched, answers it, fails it with
nothing out, ends an attempt, or authorizes one; two lemmas show that the row's
part of the protocol, and any answer that held, survive each of the five. *One
lemma per action* then shows which of the five it is and what it adds to the
answers. The late statements are the interesting case: the row they meet may be
another than the one they were written for, and they are still one of the five,
because every guard is on the attempt number and attempt numbers are never reused.

**Outcomes.** `RowMoves` lists the ways a statement may move a row, and
`EveryStepMoves` shows that every step of the system moves it in one of them;
finality and doubt follow. For references the invariant adds `ReferencesNamed`: an
answer on its way to the row names a reference only with a confirmation. The
refinement needs one thing more, `Exposes`: bytes leave only for a booking that
was authorized and has not failed. Then each way of moving is one step of
`BookingPromise` or invisible to it.

**The budget.** `UnreachableSpentBudget` compares a counter in the workflow's
memory with one in the row. `RunAccount` says, for each place of an execution, how
far its loop counter may be ahead of the row's count, and that an execution on its
way to park has either spent its budget or left PENDING behind; `LateAccount` says
the same of the park statements left behind. Both counts and the status only go
forward (`RowGoesOn`), so the account of whoever waits stays true.

**Callbacks.** `Orderly` relates each handler's place to the row: a handler that
lost a race knows a row the winner wrote, and an accepted confirmation is in the
row. It is proved until the first failure, and not beyond, because the code does not
promise more: a handler that dies between the apply and the flag leaves a
confirmation unflagged (section 5). `DuplicateConfirmation` is about handlers that
found a settled row; the loser that re-read a row still in doubt is
`doc_redelivered_confirmation`. `SignalNotLost` needs no more than that the handler
that settles a row goes on to the signal: every place between the two counts as a
signal on its way.

**The truth.** `SupplierTruth` compares the row with a decision no part of the service
can see, so the invariant follows the supplier's word from where it is spoken:
`Testimony` says that whatever the row, any answer of an attempt or of a late
statement, and any callback in a handler's hand reports, is what the supplier did,
and that an honest supplier has decided nothing before a request could have reached
it. A statement can only repeat one of these words, however late it commits.

**Client.** `FirstHop`: until a redirect is followed, whatever went over the wire
plus the baseline is at most what was counted plus the write not yet added, and the
latter is empty by the time the caller reads the counter. `Stages` says at which
places of the caller there is a connection. For the contract, a request counts as
exposed once a byte left or was counted, or once there is an answer to it
(`Exposed`); what has to be shown is that exposure never ends, which needs that the
counter never falls behind its baseline (`Counting`), and that a proof is returned
only with the counter at the baseline.

**Creation.** The inductive invariant adds two facts to the properties: a handler
about to start an execution has its row in the table, and a 201 names the creator's
own id. The refinement adds `Fresh`: an id belongs to one request, so no row has the
id of a create that has not inserted. Then an insert that wins makes a booking, the
winner's start tells 201, the loser's load tells 200 about the row that stopped it,
a read sees the table, and everything else, every failure included, changes nothing
a distributor is told.

**Windows.** `StaleMarkersAreAbandoned` is proved from `HoldsInTime`: whoever holds a
marker, in an execution or left behind by one, has a clock that is not behind the
age of the row by more than what the earlier phases may have taken; `validate`
makes the threshold larger than all phases together. `ConfigurationFacts` are the
inequalities a validated configuration satisfies, and `DerivedWindowsAreValid` says the
derived defaults meet them. For `Shutdown` the invariant says who may be running
when (`OnlyPolled`, `BootIsIdle`, `StopIsTold`, `FreshUntilCall`, `ClosingIsJoined`,
`ClosedWhileClosing`), and `EarlyInTime`: at the stop, the stop has waited no longer
than any early call has run, so the call's deadline comes first, and no early call
outlives the stop. What outlives it was authorized after the signal, and the proof
says nothing about it.

**The order of the sweep.** `Sweep.TypeOK` says that `order` lists every booking
exactly once and that no pass is longer than a batch. The first is kept because a
write moves one booking and shifts those behind it (`WriteKeepsListed`). The second
needs that the query has an answer at all: for every number up to the size of a set
of bookings there is a list of its oldest (`OldestExists`). That is an induction over
the number; the library's induction theorems take an operator, so `SetInduction`
and `LeastNumber` are proved here for sets of numbers from the well-foundedness of
the naturals.

Only model-checked: all liveness (`AccountedFor`,
`MarkerNeverWedges`, `ParkedRunWoken`, `BookEnds`, `AbandonedIsRestarted`,
`StopsWhenTold`), which is out of this prover's reach, as
is ENABLED.

## 7. Where the documents and the code disagree

Each is a run of its own that finds a short counterexample; `PROJECT.json` quotes
the lines.

| Run | The document says | The code does |
|---|---|---|
| `doc_redelivered_confirmation` | the same confirmation again is a duplicate, 200 (`docs/RFC.md:467`) | if a timeout moves the row between two racing deliveries, the loser loses twice, answers 409 and flags |
| `doc_superseded` | a superseded attempt records whatever the supplier told it (`docs/RFC.md:357`) | the reference of a confirmation that lost its marker is written nowhere |
| `doc_redirect` | NOT_SENT: no request bytes ever left (`supplier.go:19`) | a followed redirect moves the counter's baseline past the bytes of the first connection |
| `doc_unauthorized` | a database fault answers 500, 401 means a bad key (`docs/RFC.md:534`, `524`) | every error of the key lookup answers 401 (`auth.go:33`) |
| `doc_join` | the join comes before the close because an activity still finishing a supplier call needs client and pool (`serve.go:97-98`) | the join waits for the worker, which gives its activities up at the stop timeout: a call authorized after the signal may still run while both are closed |

Smaller ones, without a run:

- the flag hides a row from the sweep only when it is parked (`docs/RFC.md:402`),
  but a refused callback flags a row in doubt between attempts, and if its
  execution dies the sweep ignores it with budget left (`repository.go:125`);
- a repeated create is answered 200 (`README.md:119`), but after the check-in day
  it is answered 400 before the key is looked up (`booking.go:118`);
- a callback delivered twice is a duplicate the second time (`README.md:109`,
  `docs/RFC.md:399`), but a rejection that names a reference stores none, so its
  redelivery is refused as divergent and flags the row (`service.go:150`, `301`);
- the join and the drain come before the pool closes (`serve.go:97-98`), but a
  listener that fails returns past them (`serve.go:84-88`); `Shutdown` models it,
  and `CallsAreFinished` and `JoinedBeforeClose` exclude it by name;
- any resolving transition clears the flag (`docs/RFC.md:731`), but PENDING to
  FAILED keeps it (`activity.go:341`);
- a flagged row exits at the dispatch without side effects (`docs/RFC.md:607`), but
  the dispatch looks at the status only (`workflow.go:75`).

## 8. Not modelled, and why

- **Workflow registration** (`register.go`): wiring.
- **Mock supplier**: a stand-in for demonstrations; the model lets a supplier do
  more than the mock can.
- **Observability**, request ids, health, the generated API documents: no state of
  the system depends on them.
- **REST**: parsing and formatting. The order of the checks in `Create`, `Get` and
  `Authenticate` and the status each outcome gets are in `BookingCreate`; the
  callback handler's body and token checks change nothing.
- **API keys**: hashing, encoding and the decoy that evens out timing are pure
  functions over bytes; which keys are accepted is in `BookingCreate`.
- **Migrations**: I/O. The constraints the schema states are in the models.
- **Lineage**: of the events, only the references they name; their kinds and order
  are written in the same statement as the transition they record.
- **Reads without consequence**: `FindPriorByFingerprint` (the report of a suspected
  duplicate) and `Events`.

## 9. Plan

Done: the modules of section 2, their runs, and the theorems of section 6, which
cover every safety property the passing runs check, three refinements among them.

Left, in this order:

1. the order of a pass: that `Selected` lists the oldest stale rows, as a property of
   the pass over time (an id in hand was stale and among the oldest when selected);
2. `Sweep` against the lifecycle: that its reduced execution is what `BookingRun`
   does while it holds the marker;
3. the lineage as a component: which event each transition, refusal and superseded
   answer leaves, and that a row's history can be told from it;
4. several replicas and overlapping sweeps in TLC (the proofs allow them, the run
   has one of each).
