----------------------------- MODULE SweepProofs -----------------------------
(***************************************************************************)
(* Whatever the configuration, a marker that the sweep finds stale has no  *)
(* call behind it, and the windows derived from the others fit together.   *)
(* The order by updated_at never loses a booking, and what a pass selects  *)
(* of it is defined and no longer than a batch.                            *)
(***************************************************************************)
EXTENDS Sweep, ConfigProofs, FiniteSetTheorems, SequenceTheorems, TLAPS

-----------------------------------------------------------------------------
\* What the proofs below use of a configuration.
LEMMA SettingsAreTimes ==
    ASSUME settings \in Configurations(Environments)
    PROVE  /\ settings.backstop \in Nat
           /\ settings.persistWindow \in Nat
           /\ settings.sweepInterval \in Nat
           /\ settings.markerThreshold \in Int
           /\ settings.createAttempts \in Nat
           /\ QueueMargin(settings) \in Nat
           /\ settings.markerThreshold > MarkerHold(settings)
  BY SweepAssumption, ConfigurationFacts DEF Fields, Valid, QueueMargin

\* The limits and the time spent before each phase are numbers.
LEMMA PhaseTimes ==
    ASSUME settings \in Configurations(Environments), NEW pc \in Timed
    PROVE  /\ Limit(pc) \in Nat
           /\ SpentBefore(pc) \in Nat
           /\ SpentBefore(pc) + Limit(pc) <= MarkerHold(settings)
  BY SettingsAreTimes DEF Timed, Limit, SpentBefore, MarkerHold

-----------------------------------------------------------------------------
(* Statements. *)

\* Every statement leaves a row.
LEMMA StatementTypes ==
    ASSUME NEW r \in Store!Row
    PROVE  /\ Store!ResolveStaleMarkerRow(r) \in Store!Row
           /\ Store!AuthorizeRow(r) \in Store!Row /\ Store!AuthorizeRow(r).attempts \in Nat
           /\ Store!ParkRow(r) \in Store!Row
           /\ Store!FlagRow(r) \in Store!Row
           /\ \A attempt \in Nat : Store!ClearMarkerRow(r, attempt) \in Store!Row
<1>1. r.attempts + 1 \in Nat
  BY DEF Store!Row
<1> QED
  BY <1>1 DEF Store!Row, Store!Statuses, Store!ResolveStaleMarkerRow, Store!AuthorizeRow,
     Store!ParkRow, Store!FlagRow, Store!ClearMarkerRow, Store!NoMarker

LEMMA ApplyTypes ==
    ASSUME NEW r \in Store!Row, NEW to \in Store!Statuses, NEW from, NEW attempt, NEW rule
    PROVE  /\ Store!ApplyRow(r, Transition(from, to, attempt)) \in Store!Row
           /\ Store!ApplyRow(r, [Transition(from, to, attempt) EXCEPT !.rule = rule]) \in Store!Row
  BY DEF Store!Row, Store!ApplyRow, Store!Moved, Transition, Store!NoMarker

LEMMA LearntTypes ==
    ASSUME NEW r \in Store!Row, NEW attempt \in Nat
    PROVE  Learnt(r, attempt) \subseteq Store!Row
<1>1. "REJECTED" \in Store!Statuses /\ "UNKNOWN" \in Store!Statuses
  BY DEF Store!Statuses
<1> QED
  <2>1. Store!ApplyRow(r, Transition(r.status, "REJECTED", attempt)) \in Store!Row
    BY <1>1, ApplyTypes
  <2>2. Store!ApplyRow(r, Transition("PENDING", "UNKNOWN", attempt)) \in Store!Row
    BY <1>1, ApplyTypes
  <2>3. Store!ClearMarkerRow(r, attempt) \in Store!Row
    BY StatementTypes
  <2> QED
    BY <2>1, <2>2, <2>3 DEF Learnt

\* A statement may make rows younger, never older.
LEMMA WriteEffect ==
    ASSUME RowTypes, NEW b \in Bookings, NEW new \in Store!Row,
           Write(b, new) \/ Statement(b, new)
    PROVE  /\ row' \in [Bookings -> Store!Row]
           /\ age' \in [Bookings -> Nat]
           /\ \A a \in Bookings : age'[a] <= age[a]
<1>1. \/ UNCHANGED <<row, age>>
      \/ row' = [row EXCEPT ![b] = new] /\ age' = [age EXCEPT ![b] = 0]
  BY Zenon DEF Write, Statement, rowVars
<1>2. row \in [Bookings -> Store!Row] /\ age \in [Bookings -> Nat]
  BY DEF RowTypes
<1> QED
  BY <1>1, <1>2

-----------------------------------------------------------------------------
(* The invariant: types, and no phase outlives its limit. *)

Inv == RowTypes /\ HoldsInTime

\* A step that leaves the clocks alone keeps it, if no row gets older, no
\* execution enters a phase late, and orphans are workers of the executions.
LEMMA UntimedStep ==
    ASSUME Inv, RowTypes', UNCHANGED config,
           \A b \in Bookings : age'[b] <= age[b],
           \A b \in Bookings : \/ run'[b] = run[b]
                               \/ run'[b].pc \in Timed => InTime(run'[b], age'[b]),
           \A b \in Bookings : \A o \in orphans'[b] : o \in orphans[b] \/ o = run[b]
    PROVE  Inv'
<1>1. settings' = settings
  BY DEF config
<1> SUFFICES ASSUME NEW b \in Bookings
             PROVE  /\ run'[b].pc \in Timed => InTime(run'[b], age'[b])
                    /\ \A o \in orphans'[b] : InTime(o, age'[b])
  BY <1>1 DEF Inv, HoldsInTime, InTime, Limit, SpentBefore, QueueMargin
<1>3. age[b] \in Nat /\ age'[b] \in Nat /\ age'[b] <= age[b]
  BY DEF Inv, RowTypes
<1>4. \A w \in Execution : w.pc \in Timed /\ InTime(w, age[b]) => InTime(w, age'[b])
  BY <1>3, PhaseTimes DEF InTime, Execution, Inv, RowTypes
<1>5. Orphan \subseteq Execution /\ \A o \in Orphan : o.pc \in Timed
  BY DEF Orphan, Execution, PCs, Timed
<1>6. /\ run[b] \in Execution /\ run'[b] \in Execution
      /\ orphans[b] \subseteq Orphan /\ orphans'[b] \subseteq Orphan
  BY DEF Inv, RowTypes
<1>7. /\ run[b].pc \in Timed => InTime(run[b], age[b])
      /\ \A o \in orphans[b] : InTime(o, age[b])
  BY DEF Inv, HoldsInTime
<1>8. run'[b].pc \in Timed => InTime(run'[b], age'[b])
  BY <1>4, <1>6, <1>7
<1>9. ASSUME NEW o \in orphans'[b] PROVE InTime(o, age'[b])
  <2>1. o \in Execution /\ o.pc \in Timed
    BY <1>5, <1>6
  <2>2. InTime(o, age[b])
    BY <1>7, <2>1
  <2> QED
    BY <1>4, <2>1, <2>2
<1> QED
  BY <1>8, <1>9

\* A step of booking b: one statement, a new place for its execution, and
\* possibly its worker orphaned or an orphan gone.
LEMMA BookingStep ==
    ASSUME Inv, UNCHANGED config, NEW b \in Bookings, NEW new \in Store!Row, NEW e \in Execution,
           UNCHANGED rowVars \/ Write(b, new) \/ Statement(b, new),
           UNCHANGED run \/ run' = [run EXCEPT ![b] = e],
           e.pc \in Timed => UNCHANGED run \/ InTime(e, age'[b]),
           \/ UNCHANGED orphans
           \/ \E o : orphans' = [orphans EXCEPT ![b] = @ \ {o}]
           \/ run[b] \in Orphan /\ orphans' = [orphans EXCEPT ![b] = @ \cup {run[b]}]
    PROVE  Inv'
<1>1. /\ row' \in [Bookings -> Store!Row]
      /\ age' \in [Bookings -> Nat]
      /\ \A a \in Bookings : age'[a] <= age[a]
  BY WriteEffect DEF rowVars, Inv, RowTypes
<1>2. run' \in [Bookings -> Execution]
  BY DEF Inv, RowTypes
<1>3. /\ orphans' \in [Bookings -> SUBSET Orphan]
      /\ \A a \in Bookings : \A o \in orphans'[a] : o \in orphans[a] \/ o = run[a]
  BY DEF Inv, RowTypes
<1>4. RowTypes'
  BY <1>1, <1>2, <1>3 DEF Inv, RowTypes, config
<1>5. \A a \in Bookings : \/ run'[a] = run[a]
                          \/ run'[a].pc \in Timed => InTime(run'[a], age'[a])
  BY DEF Inv, RowTypes
<1> QED
  BY <1>1, <1>3, <1>4, <1>5, UntimedStep

-----------------------------------------------------------------------------
(* The actions of a booking. *)

\* Where Goto and Close lead.
LEMMA Places ==
    ASSUME Inv, NEW b \in Bookings, NEW pc \in PCs
    PROVE  /\ NoRun \in Execution /\ NoRun.pc \notin Timed
           /\ [run[b] EXCEPT !.pc = pc, !.clock = 0] \in Execution
           /\ [run[b] EXCEPT !.pc = pc, !.clock = 0].pc = pc
           /\ [run[b] EXCEPT !.pc = pc, !.clock = 0].clock = 0
           /\ Goto(b, pc) => run' = [run EXCEPT ![b] = [run[b] EXCEPT !.pc = pc, !.clock = 0]]
           /\ Close(b) => run' = [run EXCEPT ![b] = NoRun]
  BY DEF Inv, RowTypes, Execution, NoRun, PCs, Timed, Goto, Close

LEMMA DispatchStep == ASSUME Inv, NEW b \in Bookings, Dispatch(b) PROVE Inv'
<1>1. Store!ResolveStaleMarkerRow(row[b]) \in Store!Row
  BY StatementTypes DEF Inv, RowTypes
<1>2. "authorize" \in PCs /\ "authorize" \notin Timed
  BY DEF PCs, Timed
<1> DEFINE e == IF Settled(b) THEN NoRun ELSE [run[b] EXCEPT !.pc = "authorize", !.clock = 0]
<1>3. e \in Execution /\ e.pc \notin Timed /\ run' = [run EXCEPT ![b] = e]
  BY <1>2, Places DEF Dispatch
<1> HIDE DEF e
<1> QED
  BY <1>1, <1>3, BookingStep DEF Dispatch

LEMMA AuthorizeStep == ASSUME Inv, NEW b \in Bookings, Authorize(b) PROVE Inv'
<1>1. Store!AuthorizeRow(row[b]) \in Store!Row /\ Store!AuthorizeRow(row[b]).attempts \in Nat
  BY StatementTypes DEF Inv, RowTypes
<1>2. CASE Store!MayAuthorize(row[b], settings.createAttempts)
  <2> DEFINE e == [pc |-> "call", attempt |-> row'[b].attempts, clock |-> 0]
  <2>1. row'[b] = Store!AuthorizeRow(row[b]) /\ age'[b] = 0
    BY <1>2 DEF Authorize, Write, Inv, RowTypes
  <2>2. e \in Execution
    BY <1>1, <2>1 DEF Execution, PCs
  <2>3. InTime(e, age'[b])
    BY <2>1, PhaseTimes DEF InTime, Timed, SpentBefore, Inv, RowTypes
  <2>4. run' = [run EXCEPT ![b] = e]
    BY <1>2 DEF Authorize
  <2>5. Write(b, Store!AuthorizeRow(row[b])) /\ UNCHANGED config /\ UNCHANGED orphans
    BY <1>2 DEF Authorize
  <2> HIDE DEF e
  <2> QED
    BY <1>1, <2>2, <2>3, <2>4, <2>5, BookingStep
<1>3. CASE ~Store!MayAuthorize(row[b], settings.createAttempts)
  <2> DEFINE e == IF Store!Refusal(row[b], settings.createAttempts) = "BUDGET_SPENT"
                  THEN [run[b] EXCEPT !.pc = "park", !.clock = 0] ELSE NoRun
  <2>1. "park" \in PCs /\ "park" \notin Timed
    BY DEF PCs, Timed
  <2>2. e \in Execution /\ e.pc \notin Timed /\ run' = [run EXCEPT ![b] = e]
    BY <1>3, <2>1, Places DEF Authorize
  <2> HIDE DEF e
  <2> QED
    BY <1>1, <1>3, <2>2, BookingStep DEF Authorize
<1> QED
  BY <1>2, <1>3

\* The call ends within the backstop, and its persist starts within the margin.
LEMMA PhaseEnds ==
    ASSUME Inv, NEW b \in Bookings, BookReturns(b) \/ PersistScheduled(b) PROVE Inv'
<1>1. row[b] \in Store!Row /\ age[b] \in Nat /\ run[b] \in Execution
  BY DEF Inv, RowTypes
<1>2. settings \in Configurations(Environments)
  BY DEF Inv, RowTypes
<1>3. run[b].pc \in Timed /\ InTime(run[b], age[b]) /\ run[b].clock \in Nat
  BY <1>1 DEF BookReturns, PersistScheduled, At, Timed, Inv, HoldsInTime, Execution
<1> DEFINE next == IF At(b, "call") THEN "handoff" ELSE "persist"
           e == [run[b] EXCEPT !.pc = next, !.clock = 0]
<1>4. next \in PCs /\ next \in Timed
  BY DEF PCs, Timed
<1>5. run' = [run EXCEPT ![b] = e] /\ e \in Execution /\ e.pc = next /\ e.clock = 0
  BY <1>1, <1>4 DEF BookReturns, PersistScheduled, At, Goto, Execution
<1>6. age[b] <= SpentBefore(next)
  BY <1>1, <1>2, <1>3, SettingsAreTimes
     DEF BookReturns, PersistScheduled, At, InTime, SpentBefore, Limit
<1>7. InTime(e, age[b])
  BY <1>1, <1>2, <1>4, <1>5, <1>6, PhaseTimes DEF InTime
<1> HIDE DEF next, e
<1>8. UNCHANGED rowVars /\ UNCHANGED config /\ UNCHANGED orphans /\ age'[b] = age[b]
  BY DEF BookReturns, PersistScheduled, rowVars
<1> QED
  BY <1>1, <1>5, <1>7, <1>8, BookingStep

LEMMA PersistStep == ASSUME Inv, NEW b \in Bookings, Persist(b) PROVE Inv'
<1>1. PICK new \in Learnt(row[b], run[b].attempt) :
          /\ Statement(b, new)
          /\ IF Store!Settled(new.status) \/ new = row[b] THEN Close(b)
             ELSE Goto(b, IF new.attempts < settings.createAttempts THEN "authorize" ELSE "park")
  BY Zenon DEF Persist
<1>2. new \in Store!Row
  BY LearntTypes DEF Inv, RowTypes, Execution
<1> DEFINE pc == IF new.attempts < settings.createAttempts THEN "authorize" ELSE "park"
           e == IF Store!Settled(new.status) \/ new = row[b] THEN NoRun
                ELSE [run[b] EXCEPT !.pc = pc, !.clock = 0]
<1>3. pc \in PCs /\ pc \notin Timed
  BY DEF PCs, Timed
<1>4. e \in Execution /\ e.pc \notin Timed /\ run' = [run EXCEPT ![b] = e]
  BY <1>1, <1>3, Places
<1>5. UNCHANGED config /\ UNCHANGED orphans
  BY DEF Persist
<1> HIDE DEF pc, e
<1> QED
  BY <1>1, <1>2, <1>4, <1>5, BookingStep

LEMMA ParkStep == ASSUME Inv, NEW b \in Bookings, Park(b) PROVE Inv'
<1> DEFINE failed == Store!ApplyRow(row[b], [Transition("PENDING", "FAILED", 0) EXCEPT !.rule = "clear"])
           new == IF row[b].status = "PENDING" THEN failed ELSE Store!ParkRow(row[b])
           e == IF row[b].status # "PENDING" /\ Store!Parkable(row[b])
                THEN [run[b] EXCEPT !.pc = "waiting", !.clock = 0] ELSE NoRun
<1>1. new \in Store!Row
  BY StatementTypes, ApplyTypes DEF Inv, RowTypes, Store!Statuses
<1>2. "waiting" \in PCs /\ "waiting" \notin Timed
  BY DEF PCs, Timed
<1>3. e \in Execution /\ e.pc \notin Timed /\ run' = [run EXCEPT ![b] = e]
  BY <1>2, Places DEF Park
<1>4. UNCHANGED config /\ UNCHANGED orphans
      /\ (UNCHANGED rowVars \/ Write(b, new) \/ Statement(b, new))
  BY DEF Park
<1> HIDE DEF failed, new, e
<1> QED
  BY <1>1, <1>3, <1>4, BookingStep

\* The execution closes or gets stuck; its worker may be left behind.
LEMMA CloseStep ==
    ASSUME Inv, NEW b \in Bookings,
           ParkTimerFires(b) \/ TimesOut(b) \/ Terminate(b) \/ GetsStuck(b)
    PROVE  Inv'
<1>1. row[b] \in Store!Row /\ run[b] \in Execution
  BY DEF Inv, RowTypes
<1>2. "stuck" \in PCs /\ "stuck" \notin Timed
  BY DEF PCs, Timed
<1>4. run' = [run EXCEPT ![b] = [run[b] EXCEPT !.pc = "stuck", !.clock = 0]]
         \/ run' = [run EXCEPT ![b] = NoRun]
  BY DEF ParkTimerFires, TimesOut, Terminate, GetsStuck, Goto, Close
<1>5. UNCHANGED rowVars /\ UNCHANGED config
  BY DEF ParkTimerFires, TimesOut, Terminate, GetsStuck
<1>6. \/ UNCHANGED orphans
      \/ run[b] \in Orphan /\ orphans' = [orphans EXCEPT ![b] = @ \cup {run[b]}]
  BY <1>1 DEF ParkTimerFires, TimesOut, Terminate, GetsStuck, Execution, Orphan
<1>7. CASE run' = [run EXCEPT ![b] = NoRun]
  BY <1>1, <1>5, <1>6, <1>7, Places, BookingStep, "none" \in PCs DEF PCs
<1>8. CASE run' = [run EXCEPT ![b] = [run[b] EXCEPT !.pc = "stuck", !.clock = 0]]
  <2> DEFINE stuck == [run[b] EXCEPT !.pc = "stuck", !.clock = 0]
  <2>1. stuck \in Execution /\ stuck.pc \notin Timed
    BY <1>2, Places
  <2> HIDE DEF stuck
  <2> QED
    BY <1>1, <1>5, <1>6, <1>8, <2>1, BookingStep DEF stuck
<1> QED
  BY <1>4, <1>7, <1>8

\* Late workers and callbacks write the row and no execution.
LEMMA OutsideStep ==
    ASSUME Inv, NEW b \in Bookings,
           \/ \E o \in orphans[b] : OrphanEnds(b, o)
           \/ CallbackSettles(b)
           \/ CallbackFlags(b)
    PROVE  Inv'
<1>1. row[b] \in Store!Row /\ run[b] \in Execution /\ orphans[b] \subseteq Orphan
  BY DEF Inv, RowTypes
<1>2. ASSUME NEW o \in orphans[b], OrphanEnds(b, o) PROVE Inv'
  <2>1. o.attempt \in Nat
    BY <1>1 DEF Orphan
  <2>2. \E new \in Store!Row : UNCHANGED rowVars \/ Statement(b, new)
    BY <1>1, <1>2, <2>1, LearntTypes DEF OrphanEnds
  <2>3. UNCHANGED config /\ UNCHANGED run /\ orphans' = [orphans EXCEPT ![b] = @ \ {o}]
    BY <1>2 DEF OrphanEnds
  <2> QED
    BY <1>1, <2>2, <2>3, BookingStep
<1>3. CASE CallbackSettles(b)
  <2>1. "REJECTED" \in Store!Statuses
    BY DEF Store!Statuses
  <2>2. \E new \in Store!Row : Statement(b, new)
    BY <1>1, <1>3, <2>1, ApplyTypes DEF CallbackSettles
  <2>3. UNCHANGED config /\ UNCHANGED run /\ UNCHANGED orphans
    BY <1>3 DEF CallbackSettles
  <2> QED
    BY <1>1, <2>2, <2>3, BookingStep
<1>4. CASE CallbackFlags(b)
  <2>1. \E new \in Store!Row : Statement(b, new)
    BY <1>1, <1>4, StatementTypes DEF CallbackFlags
  <2>2. UNCHANGED config /\ UNCHANGED run /\ UNCHANGED orphans
    BY <1>4 DEF CallbackFlags
  <2> QED
    BY <1>1, <2>1, <2>2, BookingStep
<1> QED
  BY <1>2, <1>3, <1>4

-----------------------------------------------------------------------------
(* The sweep, and time. *)

\* A pass opens executions and writes nothing.
LEMMA PassStep ==
    ASSUME Inv, NEW r \in Replicas,
           \/ BeginPass(r) \/ QueryFails(r) \/ StartNext(r) \/ StartFails(r) \/ RunsOut(r)
    PROVE  Inv'
<1>1. UNCHANGED config /\ UNCHANGED orphans /\ UNCHANGED rowVars
  BY DEF BeginPass, QueryFails, StartNext, StartFails, RunsOut
<1>2. \/ UNCHANGED run
      \/ run' = [run EXCEPT ![Head(pass[r])] =
                     [@ EXCEPT !.pc = "dispatch", !.clock = 0]]
  BY Zenon DEF BeginPass, QueryFails, StartNext, StartFails, RunsOut, Goto
<1>3. \A b \in Bookings : run'[b] = run[b] \/ (run'[b].pc = "dispatch" /\ run'[b] \in Execution)
  <2> SUFFICES ASSUME NEW b \in Bookings
               PROVE  run'[b] = run[b] \/ (run'[b].pc = "dispatch" /\ run'[b] \in Execution)
    OBVIOUS
  <2>1. run \in [Bookings -> Execution] /\ run[b] \in Execution
    BY DEF Inv, RowTypes
  <2> DEFINE started == [run[b] EXCEPT !.pc = "dispatch", !.clock = 0]
  <2>2. started.pc = "dispatch" /\ started \in Execution
    BY <2>1 DEF Execution, PCs
  <2>3. run'[b] = run[b] \/ run'[b] = started
    BY <1>2, <2>1
  <2> QED
    BY <2>2, <2>3
<1>4. run' \in [Bookings -> Execution]
  BY <1>2, <1>3 DEF Inv, RowTypes
<1>5. RowTypes'
  BY <1>1, <1>4 DEF Inv, RowTypes, rowVars, config
<1>6. \A b \in Bookings : age'[b] <= age[b]
  BY <1>1 DEF Inv, RowTypes, rowVars
<1>7. "dispatch" \notin Timed
  BY DEF Timed
<1> QED
  BY <1>1, <1>3, <1>5, <1>6, <1>7, UntimedStep

\* A tick ages the rows and the phases alike, and passes no limit.
LEMMA TickStep == ASSUME Inv, Tick PROVE Inv'
<1>1. settings' = settings /\ row' = row
  BY DEF Tick, config
<1>2. ASSUME NEW b \in Bookings
      PROVE  age'[b] \in Nat /\ age'[b] <= age[b] + 1
  BY <1>2 DEF Tick, Inv, RowTypes
<1>3. ASSUME NEW b \in Bookings
      PROVE  /\ run'[b] \in Execution /\ run'[b].pc = run[b].pc
             /\ run[b].pc \in Timed => run'[b].clock = run[b].clock + 1
  BY <1>3 DEF Tick, Inv, RowTypes, Execution
<1>4. ASSUME NEW b \in Bookings, NEW o \in orphans'[b]
      PROVE  o \in Orphan /\ \E w \in orphans[b] : o.pc = w.pc /\ o.clock = w.clock + 1
  <2>1. PICK w \in orphans[b] : o = [w EXCEPT !.clock = @ + 1]
    BY <1>4 DEF Tick
  <2>2. w \in Orphan
    BY DEF Inv, RowTypes
  <2> QED
    BY <2>1, <2>2 DEF Orphan
<1>5. RowTypes'
  <2>1. age' \in [Bookings -> Nat] /\ run' \in [Bookings -> Execution]
    BY <1>2, <1>3 DEF Tick
  <2>2. orphans' \in [Bookings -> SUBSET Orphan]
    BY <1>4 DEF Tick
  <2> QED
    BY <1>1, <2>1, <2>2 DEF Inv, RowTypes
<1>6. ASSUME NEW b \in Bookings, NEW w, NEW v,
             w.pc \in Timed, w.clock \in Nat, InTime(w, age[b]), w.clock < Limit(w.pc),
             v.pc = w.pc, v.clock = w.clock + 1
      PROVE  InTime(v, age'[b])
  <2>1. age[b] \in Nat /\ SpentBefore(w.pc) \in Nat /\ Limit(w.pc) \in Nat
    BY <1>6, PhaseTimes DEF Inv, RowTypes
  <2> QED
    BY <1>2, <1>6, <2>1 DEF InTime
<1>7. ASSUME NEW b \in Bookings, run'[b].pc \in Timed PROVE InTime(run'[b], age'[b])
  <2>1. run[b].clock \in Nat /\ run[b].pc \in Timed /\ InTime(run[b], age[b])
    BY <1>3, <1>7 DEF Inv, RowTypes, HoldsInTime, Execution
  <2>2. run[b].clock < Limit(run[b].pc)
    BY <2>1 DEF Tick, MayTick
  <2> QED
    BY <1>3, <1>6, <2>1, <2>2
<1>8. ASSUME NEW b \in Bookings, NEW o \in orphans'[b] PROVE InTime(o, age'[b])
  <2>1. PICK w \in orphans[b] : o.pc = w.pc /\ o.clock = w.clock + 1
    BY <1>4, <1>8
  <2>2. w.clock \in Nat /\ w.pc \in Timed /\ InTime(w, age[b])
    BY DEF Inv, RowTypes, HoldsInTime, Orphan, Timed
  <2>3. w.clock < Limit(w.pc)
    BY DEF Tick, MayTick
  <2> QED
    BY <1>6, <2>1, <2>2, <2>3
<1> QED
  BY <1>1, <1>5, <1>7, <1>8 DEF Inv, HoldsInTime, InTime, Limit, SpentBefore, QueueMargin

-----------------------------------------------------------------------------
LEMMA InvInit == Init => Inv
<1> SUFFICES ASSUME Init PROVE Inv
  OBVIOUS
<1>1. Store!NewRow \in Store!Row
  BY DEF Store!NewRow, Store!Row, Store!Statuses, Store!NoMarker
<1>2. NoRun \in Execution /\ [NoRun EXCEPT !.pc = "dispatch"] \in Execution
  BY DEF NoRun, Execution, PCs
<1>3. RowTypes
  BY <1>1, <1>2 DEF Init, RowTypes
<1>4. \A b \in Bookings : run[b].pc \notin Timed /\ orphans[b] = {}
  BY DEF Init, NoRun, Timed
<1> QED
  BY <1>3, <1>4 DEF Inv, HoldsInTime

LEMMA InvStep == Inv /\ [Next]_vars => Inv'
<1> SUFFICES ASSUME Inv, [Next]_vars PROVE Inv'
  OBVIOUS
<1>1. ASSUME NEW b \in Bookings, Progress(b) PROVE Inv'
  <2>1. CASE TimesOut(b)
    BY <2>1, CloseStep
  <2> QED
    BY <1>1, <2>1, DispatchStep, AuthorizeStep, PhaseEnds, PersistStep, ParkStep DEF Progress
<1>2. ASSUME NEW b \in Bookings, ParkTimerFires(b) \/ Terminate(b) \/ GetsStuck(b) PROVE Inv'
  BY <1>2, CloseStep
<1>3. ASSUME NEW b \in Bookings,
             \/ \E o \in orphans[b] : OrphanEnds(b, o)
             \/ CallbackSettles(b) \/ CallbackFlags(b)
      PROVE  Inv'
  BY <1>3, OutsideStep
<1>4. ASSUME NEW r \in Replicas,
             \/ BeginPass(r) \/ QueryFails(r) \/ StartNext(r) \/ StartFails(r) \/ RunsOut(r)
      PROVE  Inv'
  BY <1>4, PassStep
<1>5. CASE Tick
  BY <1>5, TickStep
<1>6. CASE UNCHANGED vars
  BY <1>6 DEF vars, config, rowVars, Inv, RowTypes, HoldsInTime, InTime, Limit, SpentBefore,
     QueueMargin
<1> QED
  BY <1>1, <1>2, <1>3, <1>4, <1>5, <1>6 DEF Next

\* repository.go:113-116.  For every valid configuration, every number of
\* bookings, replicas and failures: a row that is stale by its marker has no
\* worker in the call or the persist and no healthy execution in between.
THEOREM StaleMarkersAreAbandoned == Spec => []StaleMarkerIsAbandoned
<1>1. Inv => StaleMarkerIsAbandoned
  <2> SUFFICES ASSUME Inv, NEW b \in Bookings, Stale(b), Marked(b)
               PROVE  orphans[b] = {} /\ run[b].pc \notin Timed
    BY DEF StaleMarkerIsAbandoned
  <2>1. age[b] > settings.markerThreshold
    BY DEF Stale, Threshold
  <2>2. /\ age[b] \in Nat /\ settings \in Configurations(Environments)
        /\ run[b] \in Execution /\ orphans[b] \subseteq Orphan
    BY DEF Inv, RowTypes
  <2>3. ASSUME NEW w, w.pc \in Timed, w.clock \in Nat, InTime(w, age[b]) PROVE FALSE
    <3>1. age[b] <= MarkerHold(settings) /\ MarkerHold(settings) \in Nat
      BY <2>2, <2>3, PhaseTimes, SettingsAreTimes DEF InTime, MarkerHold
    <3> QED
      BY <2>1, <2>2, <3>1, SettingsAreTimes
  <2>4. run[b].pc \notin Timed
    BY <2>2, <2>3 DEF Inv, HoldsInTime, Execution
  <2>5. orphans[b] = {}
    <3> SUFFICES ASSUME NEW o \in orphans[b] PROVE FALSE
      OBVIOUS
    <3>1. o.pc \in Timed /\ o.clock \in Nat /\ InTime(o, age[b])
      BY <2>2 DEF Orphan, Timed, Inv, HoldsInTime
    <3> QED
      BY <2>3, <3>1
  <2> QED
    BY <2>4, <2>5
<1> QED
  BY <1>1, InvInit, InvStep, PTL DEF Spec

-----------------------------------------------------------------------------
(* Least elements and induction, over sets of numbers: the library's         *)
(* induction theorems take an operator, these take a set.                    *)

LEMMA LeastNumber ==
    ASSUME NEW T, T \subseteq Nat, T # {}
    PROVE  \E x \in T : \A y \in T : x <= y
<1> DEFINE R == OpToRel(<, Nat)
<1>1. IsWellFoundedOn(R, Nat)
  BY NatLessThanWellFounded
<1>2. \A x, y \in Nat : y < x => <<y, x>> \in R
  BY DEF OpToRel
<1> HIDE DEF R
<1>3. PICK x \in T : \A y \in T : ~ (<<y, x>> \in R)
  BY <1>1, WFMin
<1>4. ASSUME NEW y \in T PROVE x <= y
  <2>1. x \in Nat /\ y \in Nat
    OBVIOUS
  <2>2. ~(y < x)
    BY <1>2, <1>3, <2>1
  <2> QED
    BY <2>1, <2>2
<1> QED
  BY <1>3, <1>4

LEMMA SetInduction ==
    ASSUME NEW S, 0 \in S, \A n \in Nat : n \in S => n + 1 \in S
    PROVE  Nat \subseteq S
<1> SUFFICES ASSUME Nat \ S # {} PROVE FALSE
  OBVIOUS
<1>1. PICK x \in Nat \ S : \A y \in Nat \ S : x <= y
  <2>1. Nat \ S \subseteq Nat
    OBVIOUS
  <2> QED
    BY <2>1, LeastNumber
<1>2. x - 1 \in Nat /\ x - 1 \notin S
  BY <1>1
<1> QED
  BY <1>1, <1>2

-----------------------------------------------------------------------------
(* The order of the rows, and what a pass selects of it. *)

Listed == /\ order \in [1 .. Cardinality(Bookings) -> Bookings]
          /\ \A b \in Bookings : \E i \in 1 .. Cardinality(Bookings) : order[i] = b

LEMMA BookingsCount ==
    /\ Cardinality(Bookings) \in Nat
    /\ \A T \in SUBSET Bookings : IsFiniteSet(T) /\ Cardinality(T) \in Nat
  BY SweepAssumption, FS_CardinalityType, FS_Subset

\* Every booking has a place, and no two share one.
LEMMA PlaceOf ==
    ASSUME Listed, NEW b \in Bookings
    PROVE  Place(b) \in 1 .. Cardinality(Bookings) /\ order[Place(b)] = b
  BY DEF Listed, Place

LEMMA LengthOf ==
    ASSUME NEW S, NEW n \in Nat, NEW s \in [1 .. n -> S]
    PROVE  s \in Seq(S) /\ Len(s) = n
<1>1. s \in Seq(S)
  BY SeqDef
<1>2. Len(s) \in Nat /\ DOMAIN s = 1 .. Len(s)
  BY <1>1, LenProperties
<1>3. 1 .. n = 1 .. Len(s)
  BY <1>2
<1> QED
  BY <1>1, <1>2, <1>3

\* A row that is written becomes the youngest; the others keep their order.
LEMMA WriteKeepsListed ==
    ASSUME Listed, NEW b \in Bookings, NEW new, Write(b, new)
    PROVE  Listed'
<1> DEFINE N == Cardinality(Bookings)
           p == Place(b)
<1>1. N \in Nat /\ p \in 1 .. N /\ order[p] = b /\ Len(order) = N /\ DOMAIN order = 1 .. N
  BY BookingsCount, PlaceOf, LengthOf DEF Listed
<1>2. order' = [i \in 1 .. N |-> IF i < p THEN order[i]
                                 ELSE IF i < N THEN order[i + 1] ELSE b]
  BY <1>1 DEF Write
<1> HIDE DEF N, p
<1>3. order \in [1 .. N -> Bookings] /\ \A a \in Bookings : \E i \in 1 .. N : order[i] = a
  BY DEF Listed, N
<1>4. order' \in [1 .. N -> Bookings]
  <2> SUFFICES ASSUME NEW i \in 1 .. N PROVE order'[i] \in Bookings
    BY <1>2
  <2>1. i < N => i + 1 \in 1 .. N
    BY <1>1
  <2> QED
    BY <1>2, <1>3, <2>1
<1>5. ASSUME NEW a \in Bookings PROVE \E i \in 1 .. N : order'[i] = a
  <2>1. PICK i \in 1 .. N : order[i] = a
    BY <1>3
  <2>2. CASE a = b
    <3>1. N \in 1 .. N /\ order'[N] = b
      BY <1>1, <1>2
    <3> QED
      BY <2>2, <3>1
  <2>3. CASE a # b /\ i < p
    BY <1>2, <2>1, <2>3
  <2>4. CASE a # b /\ ~(i < p)
    <3>1. i # p /\ i - 1 \in 1 .. N /\ ~(i - 1 < p) /\ i - 1 < N /\ (i - 1) + 1 = i
      BY <1>1, <2>1, <2>4
    <3>2. order'[i - 1] = order[i]
      BY <1>2, <3>1
    <3> QED
      BY <2>1, <3>1, <3>2
  <2> QED
    BY <2>2, <2>3, <2>4
<1> QED
  BY <1>4, <1>5 DEF Listed, N

LEMMA PlacesDiffer ==
    ASSUME Listed, NEW a \in Bookings, NEW b \in Bookings, a # b
    PROVE  Place(a) # Place(b)
  BY PlaceOf

\* Fewer ids than the set has bookings leave one out.
LEMMA SomeoneIsLeft ==
    ASSUME NEW T \in SUBSET Bookings, NEW n \in Nat, n < Cardinality(T),
           NEW s \in [1 .. n -> T]
    PROVE  T \ {s[j] : j \in 1 .. n} # {}
<1> SUFFICES ASSUME T \ {s[j] : j \in 1 .. n} = {} PROVE FALSE
  OBVIOUS
<1>1. \A t \in T : \E j \in 1 .. n : s[j] = t
  OBVIOUS
<1>2. s \in Surjection(1 .. n, T)
  BY <1>1 DEF Surjection
<1>3. ExistsSurjection(1 .. n, T)
  BY <1>2 DEF ExistsSurjection
<1>4. Cardinality(T) <= n
  BY <1>3, FS_SurjCardinalityBound
<1> QED
  BY <1>4, BookingsCount

\* The next oldest booking extends the list.
LEMMA ListExtends ==
    ASSUME Listed, NEW T \in SUBSET Bookings, NEW n \in Nat, n < Cardinality(T),
           NEW s \in [1 .. n -> T], ListsOldest(s, n, T)
    PROVE  \E t \in [1 .. n + 1 -> T] : ListsOldest(t, n + 1, T)
<1> DEFINE U == T \ {s[j] : j \in 1 .. n}
           P == {Place(u) : u \in U}
<1>1. U # {} /\ U \subseteq Bookings
  BY SomeoneIsLeft
<1>2. P \subseteq Nat /\ P # {}
  BY <1>1, PlaceOf, BookingsCount
<1>3. PICK x \in P : \A y \in P : x <= y
  BY <1>2, LeastNumber
<1>4. PICK u \in U : x = Place(u)
  BY <1>3
<1>5. \A b \in U : b # u => Place(u) < Place(b)
  <2> SUFFICES ASSUME NEW b \in U, b # u PROVE Place(u) < Place(b)
    OBVIOUS
  <2>1. Place(u) <= Place(b)
    BY <1>3, <1>4
  <2>2. Place(u) # Place(b)
    BY <1>1, PlacesDiffer
  <2>3. Place(u) \in Nat /\ Place(b) \in Nat
    BY <1>2
  <2> QED
    BY <2>1, <2>2, <2>3
<1> DEFINE t == [i \in 1 .. n + 1 |-> IF i <= n THEN s[i] ELSE u]
<1>6. /\ t \in [1 .. n + 1 -> T]
      /\ \A i \in 1 .. n : t[i] = s[i]
      /\ t[n + 1] = u
  OBVIOUS
<1>7. \A b \in T \ {t[j] : j \in 1 .. n + 1} : b \in U /\ b # u
  <2> SUFFICES ASSUME NEW b \in T \ {t[j] : j \in 1 .. n + 1} PROVE b \in U /\ b # u
    OBVIOUS
  <2>1. \A j \in 1 .. n + 1 : b # t[j]
    OBVIOUS
  <2>2. \A j \in 1 .. n : b # s[j]
    BY <1>6, <2>1
  <2>3. b # t[n + 1]
    BY <2>1
  <2> QED
    BY <1>6, <2>2, <2>3
<1>8. \A i \in 1 .. n, b \in U : Place(s[i]) < Place(b)
  BY DEF ListsOldest
<1> HIDE DEF t, U, P
<1>9. \A i, j \in 1 .. n + 1 : i < j => Place(t[i]) < Place(t[j])
  <2> SUFFICES ASSUME NEW i \in 1 .. n + 1, NEW j \in 1 .. n + 1, i < j
               PROVE  Place(t[i]) < Place(t[j])
    OBVIOUS
  <2>1. i \in 1 .. n
    OBVIOUS
  <2>2. CASE j \in 1 .. n
    BY <1>6, <2>1, <2>2 DEF ListsOldest
  <2>3. CASE j = n + 1
    BY <1>4, <1>6, <1>8, <2>1, <2>3
  <2> QED
    BY <2>2, <2>3
<1>10. \A i \in 1 .. n + 1, b \in T \ {t[j] : j \in 1 .. n + 1} : Place(t[i]) < Place(b)
  <2> SUFFICES ASSUME NEW i \in 1 .. n + 1, NEW b \in T \ {t[j] : j \in 1 .. n + 1}
               PROVE  Place(t[i]) < Place(b)
    OBVIOUS
  <2>1. b \in U /\ b # u
    BY <1>7
  <2>2. CASE i \in 1 .. n
    BY <1>6, <1>8, <2>1, <2>2
  <2>3. CASE i = n + 1
    BY <1>5, <1>6, <2>1, <2>3
  <2> QED
    BY <2>2, <2>3
<1>11. ListsOldest(t, n + 1, T)
  BY <1>9, <1>10 DEF ListsOldest
<1> QED
  BY <1>6, <1>11

LEMMA OldestExists ==
    ASSUME Listed, NEW T \in SUBSET Bookings, NEW n \in Nat, n <= Cardinality(T)
    PROVE  Oldest(n, T) \in [1 .. n -> T] /\ ListsOldest(Oldest(n, T), n, T)
<1> DEFINE S == {k \in Nat : k <= Cardinality(T) =>
                                  \E s \in [1 .. k -> T] : ListsOldest(s, k, T)}
<1>1. 0 \in S
  <2>1. 1 .. 0 = {}
    OBVIOUS
  <2>2. [i \in 1 .. 0 |-> i] \in [1 .. 0 -> T]
    BY <2>1
  <2>3. ListsOldest([i \in 1 .. 0 |-> i], 0, T)
    BY <2>1 DEF ListsOldest
  <2> QED
    BY <2>2, <2>3
<1>2. ASSUME NEW k \in Nat, k \in S PROVE k + 1 \in S
  <2> SUFFICES ASSUME k + 1 <= Cardinality(T)
               PROVE  \E s \in [1 .. k + 1 -> T] : ListsOldest(s, k + 1, T)
    OBVIOUS
  <2>1. k < Cardinality(T)
    BY BookingsCount
  <2>2. PICK s \in [1 .. k -> T] : ListsOldest(s, k, T)
    BY <1>2, <2>1, BookingsCount
  <2> QED
    BY <2>1, <2>2, ListExtends
<1> HIDE DEF S
<1>3. n \in S
  BY <1>1, <1>2, SetInduction
<1>4. \E s \in [1 .. n -> T] : ListsOldest(s, n, T)
  BY <1>3 DEF S
<1> QED
  BY <1>4 DEF Oldest

\* A pass selects stale bookings, a batch at the most.
LEMMA SelectedIsBatch ==
    ASSUME Listed, batch \in Nat
    PROVE  Selected \in Seq(Bookings) /\ Len(Selected) <= batch
<1> DEFINE n == IF Cardinality(Found) < batch THEN Cardinality(Found) ELSE batch
<1>1. Found \in SUBSET Bookings
  BY DEF Found
<1>2. n \in Nat /\ n <= Cardinality(Found) /\ n <= batch
  BY <1>1, BookingsCount
<1>3. Selected = Oldest(n, Found)
  BY DEF Selected
<1> HIDE DEF n
<1>4. Selected \in [1 .. n -> Found]
  BY <1>1, <1>2, <1>3, OldestExists
<1>5. Selected \in [1 .. n -> Bookings]
  BY <1>1, <1>4
<1> QED
  BY <1>2, <1>5, LengthOf

-----------------------------------------------------------------------------
(* The rest of the types: the order lists every booking, the passes are short. *)

Passes == /\ batch \in Nat
          /\ pass \in [Replicas -> Seq(Bookings)]
          /\ \A r \in Replicas : Len(pass[r]) <= batch

Rest == /\ batch \in Batches
        /\ ticker \in [Replicas -> Nat]
        /\ faults \in 0 .. MaxFaults

TypeInv == Inv /\ Listed /\ Passes /\ Rest

\* A step leaves the order alone or writes one row.
LEMMA OrderStep ==
    ASSUME Listed, [Next]_vars
    PROVE  Listed'
<1>1. \/ order' = order
      \/ \E b \in Bookings : \E new : Write(b, new)
  <2>1. ASSUME NEW b \in Bookings,
               \/ Progress(b) \/ ParkTimerFires(b) \/ Terminate(b) \/ GetsStuck(b)
               \/ \E o \in orphans[b] : OrphanEnds(b, o)
               \/ CallbackSettles(b) \/ CallbackFlags(b)
        PROVE  order' = order \/ \E new : Write(b, new)
    BY <2>1 DEF Progress, Dispatch, Authorize, BookReturns, PersistScheduled, Persist, Park,
       TimesOut, ParkTimerFires, Terminate, GetsStuck, OrphanEnds, CallbackSettles,
       CallbackFlags, Statement, rowVars
  <2>2. ASSUME NEW r \in Replicas,
               \/ BeginPass(r) \/ QueryFails(r) \/ StartNext(r) \/ StartFails(r) \/ RunsOut(r)
        PROVE  order' = order
    BY <2>2 DEF BeginPass, QueryFails, StartNext, StartFails, RunsOut, rowVars
  <2>3. Tick \/ UNCHANGED vars => order' = order
    BY DEF Tick, vars, rowVars
  <2> QED
    BY <2>1, <2>2, <2>3, Zenon DEF Next
<1>2. ASSUME NEW b \in Bookings, NEW new, Write(b, new) PROVE Listed'
  BY <1>2, WriteKeepsListed
<1>3. order' = order => Listed'
  BY DEF Listed
<1> QED
  BY <1>1, <1>2, <1>3

LEMMA PassesStep ==
    ASSUME Listed, Passes, [Next]_vars
    PROVE  Passes'
<1>1. batch' = batch
  BY DEF Next, Progress, Dispatch, Authorize, BookReturns, PersistScheduled, Persist, Park,
     TimesOut, ParkTimerFires, Terminate, GetsStuck, OrphanEnds, CallbackSettles, CallbackFlags,
     BeginPass, QueryFails, StartNext, StartFails, RunsOut, Tick, vars, config
<1>2. \/ pass' = pass
      \/ \E r \in Replicas : pass' = [pass EXCEPT ![r] = Selected]
      \/ \E r \in Replicas : pass[r] # <<>> /\ pass' = [pass EXCEPT ![r] = Tail(@)]
      \/ \E r \in Replicas : pass' = [pass EXCEPT ![r] = <<>>]
  <2>1. ASSUME NEW b \in Bookings,
               \/ Progress(b) \/ ParkTimerFires(b) \/ Terminate(b) \/ GetsStuck(b)
               \/ \E o \in orphans[b] : OrphanEnds(b, o)
               \/ CallbackSettles(b) \/ CallbackFlags(b)
        PROVE  pass' = pass
    BY <2>1 DEF Progress, Dispatch, Authorize, BookReturns, PersistScheduled, Persist, Park,
       TimesOut, ParkTimerFires, Terminate, GetsStuck, OrphanEnds, CallbackSettles,
       CallbackFlags, passVars
  <2>2. ASSUME NEW r \in Replicas,
               \/ BeginPass(r) \/ QueryFails(r) \/ StartNext(r) \/ StartFails(r) \/ RunsOut(r)
        PROVE  \/ pass' = pass
               \/ pass' = [pass EXCEPT ![r] = Selected]
               \/ pass[r] # <<>> /\ pass' = [pass EXCEPT ![r] = Tail(@)]
               \/ pass' = [pass EXCEPT ![r] = <<>>]
    BY <2>2, Zenon DEF BeginPass, QueryFails, StartNext, StartFails, RunsOut
  <2>3. Tick \/ UNCHANGED vars => pass' = pass
    BY DEF Tick, vars, passVars
  <2> QED
    BY <2>1, <2>2, <2>3, Zenon DEF Next
<1>3. ASSUME NEW r \in Replicas, NEW ids \in Seq(Bookings), Len(ids) <= batch,
             pass' = [pass EXCEPT ![r] = ids]
      PROVE  Passes'
  BY <1>1, <1>3 DEF Passes
<1>4. Selected \in Seq(Bookings) /\ Len(Selected) <= batch
  BY SelectedIsBatch DEF Passes
<1>5. ASSUME NEW r \in Replicas, pass[r] # <<>>
      PROVE  Tail(pass[r]) \in Seq(Bookings) /\ Len(Tail(pass[r])) <= batch
  <2>1. pass[r] \in Seq(Bookings) /\ Len(pass[r]) <= batch /\ batch \in Nat
    BY DEF Passes
  <2>2. Len(pass[r]) \in Nat
    BY <2>1, LenProperties
  <2>3. Tail(pass[r]) \in Seq(Bookings) /\ Len(Tail(pass[r])) = Len(pass[r]) - 1
    BY <1>5, <2>1, HeadTailProperties
  <2> QED
    BY <2>1, <2>2, <2>3
<1>6. <<>> \in Seq(Bookings) /\ Len(<<>>) <= batch
  BY EmptySeq DEF Passes
<1>7. pass' = pass => Passes'
  BY <1>1 DEF Passes
<1> QED
  BY <1>2, <1>3, <1>4, <1>5, <1>6, <1>7

LEMMA RestStep ==
    ASSUME Rest, [Next]_vars
    PROVE  Rest'
<1>1. batch' = batch
  BY DEF Next, Progress, Dispatch, Authorize, BookReturns, PersistScheduled, Persist, Park,
     TimesOut, ParkTimerFires, Terminate, GetsStuck, OrphanEnds, CallbackSettles, CallbackFlags,
     BeginPass, QueryFails, StartNext, StartFails, RunsOut, Tick, vars, config
<1>2. faults' = faults \/ Fault
  BY DEF Next, Progress, Dispatch, Authorize, BookReturns, PersistScheduled, Persist, Park,
     TimesOut, ParkTimerFires, Terminate, GetsStuck, OrphanEnds, CallbackSettles, CallbackFlags,
     BeginPass, QueryFails, StartNext, StartFails, RunsOut, Tick, vars
<1>3. \/ ticker' = ticker
      \/ \E r \in Replicas : ticker' = [ticker EXCEPT ![r] = 0]
      \/ ticker' = [r \in Replicas |-> ticker[r] + 1]
  BY DEF Next, Progress, Dispatch, Authorize, BookReturns, PersistScheduled, Persist, Park,
     TimesOut, ParkTimerFires, Terminate, GetsStuck, OrphanEnds, CallbackSettles, CallbackFlags,
     BeginPass, QueryFails, StartNext, StartFails, RunsOut, Tick, vars, passVars
<1>4. faults' \in 0 .. MaxFaults
  BY <1>2, SweepAssumption DEF Rest, Fault
<1>5. ticker' \in [Replicas -> Nat]
  BY <1>3 DEF Rest
<1> QED
  BY <1>1, <1>4, <1>5 DEF Rest

LEMMA TypeInvInit == Init => TypeInv
<1> SUFFICES ASSUME Init PROVE TypeInv
  OBVIOUS
<1>1. Listed
  <2> DEFINE N == Cardinality(Bookings)
  <2>1. ExistsBijection(1 .. N, Bookings)
    BY SweepAssumption, FS_CardinalityType
  <2>2. PICK s \in [1 .. N -> Bookings] : \A b \in Bookings : \E i \in 1 .. N : s[i] = b
    BY <2>1 DEF ExistsBijection, Bijection, Surjection
  <2>3. {s[i] : i \in DOMAIN s} = Bookings
    BY <2>2
  <2>4. \E f \in [1 .. Cardinality(Bookings) -> Bookings] : {f[i] : i \in DOMAIN f} = Bookings
    BY <2>2, <2>3
  <2>5. order = CHOOSE f \in [1 .. Cardinality(Bookings) -> Bookings] :
                    {f[i] : i \in DOMAIN f} = Bookings
    BY DEF Init
  <2>6. order \in [1 .. Cardinality(Bookings) -> Bookings] /\ {order[i] : i \in DOMAIN order} = Bookings
    BY <2>4, <2>5, Zenon
  <2> QED
    BY <2>6 DEF Listed
<1>2. Passes
  BY EmptySeq, SweepAssumption DEF Init, Passes
<1>3. Rest
  BY SweepAssumption DEF Init, Rest
<1> QED
  BY <1>1, <1>2, <1>3, InvInit DEF TypeInv

LEMMA TypeInvStep == TypeInv /\ [Next]_vars => TypeInv'
  BY InvStep, OrderStep, PassesStep, RestStep DEF TypeInv

\* repository.go:113-149.  Every variable has its type, whatever the steps:
\* the order by updated_at lists every booking exactly once, although every
\* statement moves one of them, and no replica holds more ids than batchSize.
THEOREM SweepTypes == Spec => []TypeOK
<1>1. TypeInv => TypeOK
  <2> SUFFICES ASSUME TypeInv PROVE TypeOK
    OBVIOUS
  <2>1. Len(order) = Cardinality(Bookings)
    BY BookingsCount, LengthOf DEF TypeInv, Listed
  <2>2. {order[i] : i \in DOMAIN order} = Bookings
    BY DEF TypeInv, Listed
  <2>3. \A r \in Replicas : pass[r] \in Seq(Bookings) /\ Len(pass[r]) <= batch
    BY DEF TypeInv, Passes
  <2> QED
    BY <2>1, <2>2, <2>3 DEF TypeInv, Inv, Rest, TypeOK
<1> QED
  BY <1>1, TypeInvInit, TypeInvStep, PTL DEF Spec
=============================================================================
