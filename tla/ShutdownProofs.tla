---------------------------- MODULE ShutdownProofs ----------------------------
(***************************************************************************)
(* Whatever the configuration, a process that stops finishes the supplier  *)
(* calls it had in flight, with all they need still open.                  *)
(***************************************************************************)
EXTENDS Shutdown, ConfigProofs, TLAPS

\* What an activity may be while the worker is where it is.
Types == /\ settings \in Configurations(Environments)
         /\ wait \in Nat
         /\ signals \in Nat
         /\ activity \in [Activities -> ActivityType]
         /\ worker \in {"off", "starting", "retrying", "polling", "stopping", "stopped"}

\* Activities run from the first poll; some outlive the stop.
OnlyPolled == worker \in {"off", "starting", "retrying"} => \A a \in Activities : ~Running(a)

\* Nothing is started before the process serves.
BootIsIdle == main = "booting" => worker = "off"

\* The worker stops only when told.
StopIsTold == worker \in {"stopping", "stopped"} => Cancelled

\* Every early call began before the stop did and is in time, so none of them
\* outlives it.
EarlyInTime ==
    \A a \in Activities :
        Running(a) /\ activity[a].early =>
            /\ worker \in {"polling", "stopping"}
            /\ activity[a].pc # "authorize"
            /\ activity[a].clock <= settings.supplierDeadline
            /\ worker = "stopping" => wait <= activity[a].clock

\* Until its call an activity is as it was taken, unless the worker gave it up.
FreshUntilCall ==
    \A a \in Activities : activity[a].pc = "authorize" =>
        activity[a].clock = 0 /\ (activity[a].cancelled => worker = "stopped")

\* The worker is joined before anything is closed.
ClosingIsJoined == main = "closing" /\ ~failed => worker = "stopped"

\* Only App.Close closes, and only the process's end follows it.
ClosedWhileClosing == closed # {} => main \in {"closing", "exited"}

Inv == /\ Types
       /\ OnlyPolled
       /\ BootIsIdle
       /\ StopIsTold
       /\ EarlyInTime
       /\ FreshUntilCall
       /\ ClosingIsJoined
       /\ ClosedWhileClosing
       /\ CallsAreFinished

-----------------------------------------------------------------------------
\* A stop outlasts a call.
LEMMA StopOutlastsCall ==
    ASSUME settings \in Configurations(Environments)
    PROVE  /\ settings.supplierDeadline \in Nat
           /\ settings.shutdownTimeout \in Nat
           /\ settings.shutdownTimeout > settings.supplierDeadline
  BY ShutdownAssumption, ConfigurationFacts DEF Fields, Valid, OutlastsCall

\* What is cut is not running.
LEMMA CutEndsAll ==
    ASSUME Types, activity' = CutAll
    PROVE  /\ activity' \in [Activities -> ActivityType]
           /\ \A a \in Activities : ~Running(a)'
           /\ \A a \in Activities : ~Running(a) => activity'[a] = activity[a]
           /\ \A a \in Activities : activity'[a].early = activity[a].early
                                     /\ activity'[a].cancelled = activity[a].cancelled
  BY DEF Types, CutAll, Cut, Running, ActivityType

\* What is cancelled goes on where it is.
LEMMA CancelGoesOn ==
    ASSUME Types, activity' = CancelAll
    PROVE  /\ activity' \in [Activities -> ActivityType]
           /\ \A a \in Activities : Running(a)' = Running(a)
           /\ \A a \in Activities : ~Running(a) => activity'[a] = activity[a]
           /\ \A a \in Activities : activity'[a].early = activity[a].early
                                     /\ activity'[a].pc = activity[a].pc
                                     /\ activity'[a].clock = activity[a].clock
  BY DEF Types, CancelAll, Running, ActivityType

\* Steps that touch neither the worker nor an activity.
LEMMA QuietStep ==
    ASSUME Inv, settings' = settings, workerVars' = workerVars, activity' = activity,
           failed => failed', killed => killed', signals' \in Nat, Cancelled => Cancelled',
           main' = "booting" => main = "booting",
           main' = "closing" /\ ~failed' => worker = "stopped",
           closed' # {} => main' \in {"closing", "exited"},
           closed' # {} => closed # {} \/ failed \/ worker = "stopped"
    PROVE  Inv'
<1>1. \A a \in Activities : Running(a)' = Running(a)
  BY DEF Running
<1>2. Types' /\ OnlyPolled' /\ BootIsIdle' /\ StopIsTold' /\ EarlyInTime'
  BY <1>1 DEF Inv, Types, OnlyPolled, BootIsIdle, StopIsTold, EarlyInTime, workerVars
<1>3. FreshUntilCall' /\ ClosingIsJoined' /\ ClosedWhileClosing'
  BY DEF Inv, FreshUntilCall, ClosingIsJoined, ClosedWhileClosing, workerVars
<1>4. CallsAreFinished'
  <2> SUFFICES ASSUME ~killed', ~failed', NEW a \in Activities, activity[a].early
               PROVE  /\ activity[a].pc # "cut" /\ ~activity[a].cancelled
                      /\ Running(a) => closed' = {}
    BY <1>1 DEF CallsAreFinished
  <2>1. /\ activity[a].pc # "cut" /\ ~activity[a].cancelled
        /\ Running(a) => closed = {}
    BY DEF Inv, CallsAreFinished
  <2>2. Running(a) => worker # "stopped"
    BY DEF Inv, EarlyInTime
  <2> QED
    BY <2>1, <2>2
<1> QED
  BY <1>2, <1>3, <1>4 DEF Inv

\* The process ends: killed, after a failed listener, or with no early call.
LEMMA ExitStep ==
    ASSUME Inv, Exit, settings' = settings, workerVars' = workerVars, closed' = closed,
           failed' = failed, killed => killed', signals' \in Nat,
           killed' \/ failed \/ worker = "stopped"
    PROVE  Inv'
<1>1. Types /\ activity' = CutAll /\ main' = "exited"
  BY DEF Inv, Exit
<1>2. \A a \in Activities : ~Running(a)'
  BY <1>1, CutEndsAll
<1>3. Types'
  BY <1>1, CutEndsAll DEF Types, workerVars
<1>4. OnlyPolled' /\ EarlyInTime' /\ FreshUntilCall'
  BY <1>2 DEF OnlyPolled, EarlyInTime, FreshUntilCall, Running
<1>5. BootIsIdle' /\ StopIsTold' /\ ClosingIsJoined' /\ ClosedWhileClosing'
  BY <1>1 DEF BootIsIdle, StopIsTold, Cancelled, ClosingIsJoined, ClosedWhileClosing
<1>6. CallsAreFinished'
  <2> SUFFICES ASSUME ~killed', ~failed', NEW a \in Activities, activity'[a].early
               PROVE  activity'[a].pc # "cut" /\ ~activity'[a].cancelled
    BY <1>2 DEF CallsAreFinished
  <2>1. activity[a].early /\ activity'[a].cancelled = activity[a].cancelled
    BY <1>1, CutEndsAll
  <2>2. activity[a].pc # "cut" /\ ~activity[a].cancelled /\ ~Running(a)
    BY <2>1 DEF Inv, CallsAreFinished, EarlyInTime
  <2> QED
    BY <1>1, <2>1, <2>2, CutEndsAll
<1> QED
  BY <1>3, <1>4, <1>5, <1>6 DEF Inv

-----------------------------------------------------------------------------
\* The process begins to serve, with everything still free.
LEMMA BootStep == ASSUME Inv, Boot PROVE Inv'
<1>1. /\ settings' = settings /\ activity' = activity /\ closed' = closed
      /\ failed' = failed /\ wait' = wait /\ killed' = killed /\ signals' = signals
      /\ main = "booting" /\ main' = "serving" /\ worker' = "starting"
  BY DEF Boot, process
<1>2. \A a \in Activities : ~Running(a) /\ ~Running(a)'
  BY <1>1 DEF Inv, OnlyPolled, BootIsIdle, Running
<1>3. Types' /\ OnlyPolled' /\ EarlyInTime' /\ FreshUntilCall'
  BY <1>1, <1>2 DEF Inv, Types, OnlyPolled, EarlyInTime, FreshUntilCall, Running
<1>4. BootIsIdle' /\ StopIsTold' /\ ClosingIsJoined' /\ ClosedWhileClosing'
  BY <1>1 DEF Inv, BootIsIdle, StopIsTold, ClosingIsJoined, ClosedWhileClosing
<1>5. CallsAreFinished'
  BY <1>1, <1>2 DEF Inv, CallsAreFinished
<1> QED
  BY <1>3, <1>4, <1>5 DEF Inv

\* The main goroutine.
LEMMA MainStep == ASSUME Inv, Main \/ ListenerFails PROVE Inv'
<1>1. CASE BootFails \/ Drain \/ ListenerFails
  <2>1. /\ settings' = settings /\ workerVars' = workerVars /\ activity' = activity
        /\ closed' = closed /\ killed' = killed /\ signals' = signals
        /\ (failed => failed') /\ main' \in {"draining", "closing", "exited"}
        /\ (main' = "closing" => failed') /\ main \in {"booting", "serving"}
        /\ Cancelled => Cancelled'
    BY <1>1 DEF BootFails, Drain, ListenerFails, Cancelled, process, Inv
  <2> QED
    BY <2>1, QuietStep DEF Inv, Types, ClosedWhileClosing
<1>2. CASE Drained \/ Join
  <2>1. /\ settings' = settings /\ workerVars' = workerVars /\ activity' = activity
        /\ closed' = closed /\ killed' = killed /\ failed' = failed
        /\ main \in {"draining", "joining"} /\ main' \in {"joining", "closing"}
        /\ main' = "closing" => worker = "stopped"
        /\ signals' = signals /\ Cancelled'
    BY <1>2 DEF Drained, Join, BackgroundDone, Cancelled, process
  <2> QED
    BY <2>1, QuietStep DEF Inv, Types, ClosedWhileClosing
<1>3. CASE CloseClient \/ ClosePool
  <2>1. /\ settings' = settings /\ workerVars' = workerVars /\ activity' = activity
        /\ killed' = killed /\ failed' = failed /\ main' = main /\ main = "closing"
        /\ signals' = signals /\ Cancelled'
    BY <1>3 DEF CloseClient, ClosePool, process, Cancelled
  <2>2. failed \/ worker = "stopped"
    BY <2>1 DEF Inv, ClosingIsJoined
  <2> QED
    BY <2>1, <2>2, QuietStep DEF Inv, Types
<1>4. CASE Return
  <2>1. failed \/ worker = "stopped"
    BY <1>4 DEF Return, Inv, ClosingIsJoined
  <2> QED
    BY <1>4, <2>1, ExitStep DEF Return, process, Inv, Types
<1> QED
  BY <1>1, <1>2, <1>3, <1>4, BootStep DEF Main

\* An interrupt is remembered, or it ends the process.
LEMMA InterruptStep == ASSUME Inv, Interrupt PROVE Inv'
<1>1. CASE main \in {"booting", "serving"}
  <2>1. /\ settings' = settings /\ workerVars' = workerVars /\ activity' = activity
        /\ closed' = closed /\ killed' = killed /\ failed' = failed
        /\ main' = main /\ signals' \in Nat
        /\ Cancelled => Cancelled'
    BY <1>1 DEF Interrupt, Cancelled, Inv, Types
  <2> QED
    BY <1>1, <2>1, QuietStep DEF Inv, ClosedWhileClosing
<1>2. CASE main \notin {"booting", "serving"}
  BY <1>2, ExitStep DEF Interrupt, Inv, Types
<1> QED
  BY <1>1, <1>2

-----------------------------------------------------------------------------
\* The worker alone: it starts, retries, gives up, or begins to stop.
LEMMA WorkerSteps ==
    ASSUME Inv,
           \/ StartSucceeds \/ StartFails \/ RetryElapses \/ RetryCancelled \/ StopBegins
    PROVE  Inv'
<1>1. /\ settings' = settings /\ UNCHANGED mainVars /\ UNCHANGED process
      /\ activity' = activity /\ sweeper' = sweeper
  BY DEF StartSucceeds, StartFails, RetryElapses, RetryCancelled, StopBegins, WorkerStep
<1>2. /\ worker \in {"starting", "retrying", "polling"} /\ wait' \in Nat
      /\ worker' \in {"starting", "retrying", "polling", "stopping", "stopped"}
      /\ worker' = "stopping" => Cancelled /\ wait' = 0 /\ worker = "polling"
      /\ worker' = "stopped" => Cancelled /\ worker = "retrying"
      /\ worker = "polling" => worker' = "stopping"
  BY DEF StartSucceeds, StartFails, RetryElapses, RetryCancelled, StopBegins, Inv, Types
<1>3. \A a \in Activities : Running(a)' = Running(a)
  BY <1>1 DEF Running
<1>4. Types' /\ OnlyPolled' /\ BootIsIdle' /\ StopIsTold'
  BY <1>1, <1>2, <1>3 DEF Inv, Types, OnlyPolled, BootIsIdle, StopIsTold, Cancelled, mainVars,
                          process
<1>5. EarlyInTime'
  <2>1. \A a \in Activities : activity[a].clock \in Nat
    BY DEF Inv, Types, ActivityType
  <2> QED
    BY <1>1, <1>2, <1>3, <2>1 DEF Inv, EarlyInTime
<1>6. FreshUntilCall' /\ ClosingIsJoined' /\ ClosedWhileClosing'
  BY <1>1, <1>2 DEF Inv, FreshUntilCall, ClosingIsJoined, ClosedWhileClosing, mainVars
<1>7. CallsAreFinished'
  BY <1>1, <1>3 DEF Inv, CallsAreFinished, mainVars, process
<1> QED
  BY <1>4, <1>5, <1>6, <1>7 DEF Inv

\* The stop ends when nothing runs, or after a time no early call needs.
LEMMA StoppedStep == ASSUME Inv, Stopped PROVE Inv'
<1>1. /\ settings' = settings /\ UNCHANGED mainVars /\ UNCHANGED process
      /\ worker = "stopping" /\ worker' = "stopped" /\ wait' = wait
      /\ activity' = CancelAll
  BY DEF Stopped, WorkerStep
<1>2. Types'
  BY <1>1, CancelGoesOn DEF Inv, Types, process
<1>3. OnlyPolled' /\ BootIsIdle' /\ StopIsTold'
  BY <1>1 DEF Inv, OnlyPolled, BootIsIdle, StopIsTold, Cancelled, mainVars, process
<1>4. ASSUME NEW a \in Activities, Running(a) PROVE ~activity[a].early
  <2>1. wait = settings.shutdownTimeout
    BY <1>4 DEF Stopped
  <2>2. activity[a].clock \in Nat
    BY DEF Inv, Types, ActivityType
  <2> QED
    BY <1>1, <1>4, <2>1, <2>2, StopOutlastsCall DEF Inv, Types, EarlyInTime
<1>5. EarlyInTime'
  BY <1>1, <1>4, CancelGoesOn DEF Inv, EarlyInTime
<1>6. CallsAreFinished'
  <2>1. ASSUME NEW a \in Activities, activity'[a].early PROVE activity'[a] = activity[a] /\ ~Running(a)'
    BY <1>1, <1>4, <2>1, CancelGoesOn DEF Inv
  <2> QED
    BY <1>1, <2>1 DEF Inv, CallsAreFinished, mainVars, process
<1>7. FreshUntilCall' /\ ClosingIsJoined' /\ ClosedWhileClosing'
  BY <1>1, CancelGoesOn DEF Inv, FreshUntilCall, ClosingIsJoined, ClosedWhileClosing, mainVars
<1> QED
  BY <1>2, <1>3, <1>5, <1>6, <1>7 DEF Inv

\* An activity goes on, its worker polling, stopping or gone.
LEMMA ActivityStep ==
    ASSUME Inv, NEW a \in Activities, Take(a) \/ Activity(a)
    PROVE  Inv'
<1> DEFINE new == activity'[a]
<1>1. /\ settings' = settings /\ UNCHANGED mainVars /\ UNCHANGED process
      /\ worker' = worker /\ wait' = wait
  BY DEF Take, Activity, Authorized, CallReturns, Report, WorkerStep, workerVars
<1>2. worker \in {"polling", "stopping", "stopped"}
  BY DEF Take, Activity, Authorized, CallReturns, Report, Inv, Types, OnlyPolled, Running
<1>3. /\ activity' \in [Activities -> ActivityType]
      /\ \A b \in Activities \ {a} : activity'[b] = activity[b]
      /\ new.pc = "authorize" => new.clock = 0 /\ ~new.cancelled
      /\ \/ ~new.early
         \/ /\ new.early = activity[a].early /\ new.clock = activity[a].clock /\ Running(a)
            /\ new.cancelled = activity[a].cancelled
            /\ new.pc = "report" \/ (new.pc = "cut" /\ closed # {})
         \/ ~Cancelled /\ new.clock = 0 /\ new.pc = "call" /\ ~new.cancelled
  <2>1. activity \in [Activities -> ActivityType] /\ activity[a] \in ActivityType
    BY DEF Inv, Types
  <2>2. Free \in ActivityType /\ Free.pc = "free" /\ ~Free.early
    BY DEF ActivityType, Free
  <2>3. CASE Take(a)
    BY <2>1, <2>3 DEF Take, Free, ActivityType
  <2>4. CASE Authorized(a)
    <3> DEFINE call == [activity[a] EXCEPT !.pc = "call", !.early = ~Cancelled]
    <3>1. /\ call \in ActivityType /\ call.pc = "call" /\ call.clock = activity[a].clock
          /\ call.early => ~Cancelled
          /\ call.cancelled = activity[a].cancelled
      BY <2>1 DEF ActivityType, Cancelled
    <3>2. activity' = [activity EXCEPT ![a] = Free] \/ activity' = [activity EXCEPT ![a] = call]
      BY <2>4 DEF Authorized
    <3>3. ~Cancelled => activity[a].clock = 0 /\ ~activity[a].cancelled
      BY <2>4 DEF Authorized, Inv, FreshUntilCall, StopIsTold
    <3> HIDE DEF call
    <3>4. (new = Free \/ new = call) /\ activity' \in [Activities -> ActivityType]
          /\ \A b \in Activities \ {a} : activity'[b] = activity[b]
      BY <2>1, <2>2, <3>1, <3>2
    <3> QED
      BY <2>2, <3>1, <3>3, <3>4
  <2>5. CASE CallReturns(a)
    BY <2>1, <2>5 DEF CallReturns, ActivityType, Running
  <2>6. CASE Report(a)
    <3>1. CASE closed = {}
      <4>1. activity' = [activity EXCEPT ![a] = Free]
        BY <2>6, <3>1 DEF Report
      <4> QED
        BY <2>1, <2>2, <4>1
    <3>2. CASE closed # {}
      <4>1. activity' = [activity EXCEPT ![a].pc = "cut"] /\ Running(a)
        BY <2>1, <2>6, <3>2 DEF Report, Cut, Running
      <4> QED
        BY <2>1, <3>2, <4>1 DEF ActivityType
    <3> QED
      BY <3>1, <3>2
  <2> QED
    BY <2>3, <2>4, <2>5, <2>6 DEF Activity
<1> HIDE DEF new
<1>4. Types' /\ OnlyPolled' /\ BootIsIdle' /\ StopIsTold'
  BY <1>1, <1>2, <1>3 DEF Inv, Types, OnlyPolled, BootIsIdle, StopIsTold, Cancelled, mainVars, process
<1>5. ASSUME NEW b \in Activities, Running(b)', activity'[b].early
      PROVE  /\ worker \in {"polling", "stopping"}
             /\ activity'[b].pc # "authorize"
             /\ activity'[b].clock <= settings.supplierDeadline
             /\ worker = "stopping" => wait <= activity'[b].clock
  <2>1. CASE b # a
    BY <1>3, <1>5, <2>1 DEF Inv, EarlyInTime, Running
  <2>2. CASE b = a /\ ~Cancelled
    <3>1. worker = "polling"
      BY <1>2, <2>2 DEF Inv, StopIsTold
    <3> QED
      BY <1>3, <1>5, <2>2, <3>1, StopOutlastsCall DEF Inv, Types, EarlyInTime, new
  <2>3. CASE b = a /\ Cancelled
    BY <1>3, <1>5, <2>3 DEF Inv, EarlyInTime, new
  <2> QED
    BY <2>1, <2>2, <2>3
<1>6. EarlyInTime'
  BY <1>1, <1>5 DEF EarlyInTime
<1>7. CallsAreFinished'
  <2> SUFFICES ASSUME ~killed, ~failed, NEW b \in Activities, activity'[b].early
               PROVE  /\ activity'[b].pc # "cut" /\ ~activity'[b].cancelled
                      /\ Running(b)' => closed = {}
    BY <1>1 DEF CallsAreFinished, mainVars, process
  <2>1. CASE b # a
    BY <1>3, <2>1 DEF Inv, CallsAreFinished, Running
  <2>2. CASE b = a /\ activity[a].early /\ Running(a) /\ new.cancelled = activity[a].cancelled
             /\ (new.pc = "report" \/ (new.pc = "cut" /\ closed # {}))
    BY <2>2 DEF Inv, CallsAreFinished, new
  <2>3. CASE b = a /\ ~Cancelled /\ new.pc = "call" /\ ~new.cancelled
    BY <2>3 DEF Inv, ClosedWhileClosing, Cancelled, new
  <2> QED
    BY <1>3, <2>1, <2>2, <2>3 DEF new
<1>8. ClosingIsJoined' /\ ClosedWhileClosing'
  BY <1>1 DEF Inv, ClosingIsJoined, ClosedWhileClosing, mainVars
<1>9. FreshUntilCall'
  BY <1>1, <1>3 DEF Inv, FreshUntilCall, new
<1> QED
  BY <1>4, <1>6, <1>7, <1>8, <1>9 DEF Inv

\* Time: the stop and the calls grow old together.
LEMMA TickStep == ASSUME Inv, Tick PROVE Inv'
<1>1. /\ settings' = settings /\ main' = main /\ failed' = failed /\ closed' = closed
      /\ UNCHANGED process /\ sweeper' = sweeper /\ worker' = worker
  BY DEF Tick
<1>2. wait' \in Nat /\ wait' <= wait + 1
  BY DEF Tick, Inv, Types
<1>3. ASSUME NEW a \in Activities
      PROVE  /\ activity'[a] \in ActivityType
             /\ activity'[a].pc = activity[a].pc /\ activity'[a].early = activity[a].early
             /\ activity'[a].cancelled = activity[a].cancelled
             /\ activity[a].pc = "authorize" => activity'[a].clock = activity[a].clock
             /\ activity[a].pc = "call" => activity'[a].clock = activity[a].clock + 1
                    /\ activity[a].clock < settings.supplierDeadline
             /\ activity[a].pc # "report"
  BY DEF Tick, Inv, Types, ActivityType
<1>4. activity' \in [Activities -> ActivityType]
  BY <1>3 DEF Tick
<1>5. Types'
  BY <1>1, <1>2, <1>4 DEF Inv, Types, process
<1>6. \A a \in Activities : Running(a)' = Running(a)
  BY <1>3 DEF Running
<1>7. EarlyInTime'
  <2> SUFFICES ASSUME NEW a \in Activities, Running(a)', activity'[a].early
               PROVE  /\ worker' \in {"polling", "stopping"}
                      /\ activity'[a].pc # "authorize"
                      /\ activity'[a].clock <= settings'.supplierDeadline
                      /\ worker' = "stopping" => wait' <= activity'[a].clock
    BY DEF EarlyInTime
  <2>1. Running(a) /\ activity[a].early /\ activity[a].pc = "call"
    BY <1>3, <1>6 DEF Running, Inv, EarlyInTime
  <2>2. activity[a].clock \in Nat /\ wait \in Nat
    BY DEF Inv, Types, ActivityType
  <2> QED
    BY <1>1, <1>2, <1>3, <2>1, <2>2, StopOutlastsCall DEF Inv, Types, EarlyInTime
<1>8. OnlyPolled' /\ BootIsIdle' /\ StopIsTold' /\ ClosedWhileClosing'
  BY <1>1, <1>6 DEF Inv, OnlyPolled, BootIsIdle, StopIsTold, ClosedWhileClosing, Cancelled, process
<1>9. FreshUntilCall' /\ ClosingIsJoined'
  BY <1>1, <1>3 DEF Inv, FreshUntilCall, ClosingIsJoined
<1>10. CallsAreFinished'
  BY <1>1, <1>3, <1>6 DEF Inv, CallsAreFinished, process
<1> QED
  BY <1>5, <1>7, <1>8, <1>9, <1>10 DEF Inv

\* The sweeper and the requests touch nothing the invariant speaks of.
LEMMA RestStep ==
    ASSUME Inv, PassBegins \/ PassEnds \/ SweeperStops \/ RequestArrives \/ RequestAnswered
    PROVE  Inv'
<1>1. /\ settings' = settings /\ UNCHANGED mainVars /\ UNCHANGED process
      /\ workerVars' = workerVars /\ activity' = activity
  BY DEF PassBegins, PassEnds, SweeperStops, SweeperStep, RequestArrives, RequestAnswered
<1> QED
  BY <1>1, QuietStep DEF Inv, Types, ClosedWhileClosing, ClosingIsJoined, mainVars, process,
                         Cancelled

-----------------------------------------------------------------------------
\* The invariant is inductive.
THEOREM InvHolds == Spec => []Inv
<1>1. Init => Inv
  BY DEF Init, Inv, Types, OnlyPolled, BootIsIdle, StopIsTold, EarlyInTime, ClosingIsJoined,
         FreshUntilCall, ClosedWhileClosing, CallsAreFinished, Free, Running, ActivityType
<1>2. Inv /\ [Next]_vars => Inv'
  <2> SUFFICES ASSUME Inv, [Next]_vars PROVE Inv'
    OBVIOUS
  <2>1. CASE UNCHANGED vars
    BY <2>1 DEF vars, mainVars, process, workerVars, Inv, Types, OnlyPolled, BootIsIdle,
                StopIsTold, Cancelled, EarlyInTime, ClosingIsJoined, ClosedWhileClosing,
                FreshUntilCall, CallsAreFinished, Running
  <2>2. CASE Next
    BY <2>2, MainStep, InterruptStep, WorkerSteps, StoppedStep, ActivityStep, TickStep, RestStep
       DEF Next, Worker
  <2> QED
    BY <2>1, <2>2
<1> QED
  BY <1>1, <1>2, PTL DEF Spec

\* config.go:58-59 and RFC.md:750.  However long a call may take and however
\* often it happens, a process that is told to stop leaves a call in flight alone
\* and keeps what it needs open.
THEOREM CallsSurviveShutdown == Spec => []CallsAreFinished
<1>1. Inv => CallsAreFinished
  BY DEF Inv
<1> QED
  BY <1>1, InvHolds, PTL

-----------------------------------------------------------------------------
(* Every variable has its type, and no wait of the shutdown outgrows it. *)

\* What Types leaves out: where the rest of the process is, and its waits.
Places == /\ main \in {"booting", "serving", "draining", "joining", "closing", "exited"}
          /\ signals \in 0 .. 2
          /\ failed \in BOOLEAN /\ killed \in BOOLEAN
          /\ sweeper \in {"off", "waiting", "pass", "stopped"}
          /\ request \in {"none", "open", "dropped"}
          /\ closed \in {{}, {"client"}, {"client", "pool"}}

DrainIsShort == drain \in Nat /\ drain <= settings.shutdownTimeout

StopIsShort == worker = "stopping" => wait <= settings.shutdownTimeout

BootIsFirst == /\ worker = "off" => \A a \in Activities : activity[a] = Free
               /\ main = "booting" => worker = "off" /\ sweeper = "off"

LEMMA TypeOKParts == TypeOK <=> Types /\ Places /\ DrainIsShort /\ StopIsShort /\ BootIsFirst
<1>1. \A n \in 0 .. 2 : n \in Nat
  OBVIOUS
<1> QED
  BY <1>1 DEF TypeOK, Types, Places, DrainIsShort, StopIsShort, BootIsFirst

\* Free activities are not touched by what ends, authorizes or ages activities.
LEMMA FreeStaysFree ==
    ASSUME Inv, Next, \A a \in Activities : activity[a] = Free, worker = "off"
    PROVE  activity' = activity
<1>1. \A a \in Activities : activity[a].pc = "free" /\ ~Running(a)
  BY DEF Free, Running
<1>2. CASE UNCHANGED activity
  BY <1>2
<1>3. CASE Exit
  BY <1>1, <1>3, CutEndsAll DEF Exit, Inv, Types
<1>4. CASE Tick
  BY <1>1, <1>4 DEF Tick, Inv, Types
<1>5. ASSUME NEW a \in Activities, Take(a) \/ Activity(a) PROVE activity' = activity
  BY <1>1, <1>5 DEF Take, Activity, Authorized, CallReturns, Report
<1> QED
  BY <1>2, <1>3, <1>4, <1>5
     DEF Next, Main, BootFails, Boot, Drain, ListenerFails, Drained, Join, CloseClient,
         ClosePool, Return, Interrupt, Worker, StartSucceeds, StartFails, RetryElapses,
         RetryCancelled, StopBegins, Stopped, PassBegins, PassEnds, SweeperStops, SweeperStep,
         RequestArrives, RequestAnswered

LEMMA PlacesStep == ASSUME Places, Next PROVE Places'
<1>1. CASE Main \/ ListenerFails
  BY <1>1 DEF Places, Main, BootFails, Boot, Drain, ListenerFails, Drained, Join, CloseClient,
              ClosePool, Return, Exit, process
<1>2. CASE Interrupt
  <2>1. signals' \in 0 .. 2
    BY <1>2 DEF Places, Interrupt
  <2>2. main' \in {main, "exited"} /\ killed' \in {killed, TRUE}
    BY <1>2 DEF Interrupt, Exit
  <2>3. failed' = failed /\ sweeper' = sweeper /\ request' = request /\ closed' = closed
    BY <1>2 DEF Interrupt
  <2> QED
    BY <2>1, <2>2, <2>3 DEF Places
<1>3. CASE Worker
  BY <1>3 DEF Places, Worker, StartSucceeds, StartFails, RetryElapses, RetryCancelled,
              StopBegins, Stopped, WorkerStep, mainVars, process
<1>4. ASSUME NEW a \in Activities, Take(a) \/ Activity(a) PROVE Places'
  BY <1>4 DEF Places, Take, Activity, Authorized, CallReturns, Report, WorkerStep, mainVars,
              process
<1>5. CASE PassBegins \/ PassEnds \/ SweeperStops \/ RequestArrives \/ RequestAnswered
  BY <1>5 DEF Places, PassBegins, PassEnds, SweeperStops, SweeperStep, RequestArrives,
              RequestAnswered, mainVars, process
<1>6. CASE Tick
  BY <1>6 DEF Places, Tick, process
<1> QED
  BY <1>1, <1>2, <1>3, <1>4, <1>5, <1>6 DEF Next

\* The two waits of the shutdown begin at nothing and stop at its timeout.
LEMMA WaitsStep ==
    ASSUME Types, DrainIsShort, StopIsShort, Next
    PROVE  DrainIsShort' /\ StopIsShort' /\ settings' = settings
<1>1. wait \in Nat /\ drain \in Nat /\ settings.shutdownTimeout \in Nat
  BY StopOutlastsCall DEF Types, DrainIsShort
<1>2. CASE Tick
  BY <1>1, <1>2 DEF Tick, DrainIsShort, StopIsShort, Waits, Patience
<1>3. CASE Main \/ ListenerFails \/ Interrupt
  BY <1>1, <1>3 DEF DrainIsShort, StopIsShort, Main, BootFails, Boot, Drain, ListenerFails,
                    Drained, Join, CloseClient, ClosePool, Return, Interrupt, workerVars
<1>4. CASE Worker
  BY <1>1, <1>4 DEF DrainIsShort, StopIsShort, Worker, StartSucceeds, StartFails, RetryElapses,
                    RetryCancelled, StopBegins, Stopped, WorkerStep, mainVars
<1>5. ASSUME NEW a \in Activities, Take(a) \/ Activity(a)
      PROVE  DrainIsShort' /\ StopIsShort' /\ settings' = settings
  BY <1>5 DEF DrainIsShort, StopIsShort, Take, Activity, Authorized, CallReturns, Report,
              WorkerStep, mainVars, workerVars
<1>6. CASE PassBegins \/ PassEnds \/ SweeperStops \/ RequestArrives \/ RequestAnswered
  BY <1>6 DEF DrainIsShort, StopIsShort, PassBegins, PassEnds, SweeperStops, SweeperStep,
              RequestArrives, RequestAnswered, mainVars, workerVars
<1> QED
  BY <1>2, <1>3, <1>4, <1>5, <1>6 DEF Next

LEMMA BootIsFirstStep == ASSUME Inv, BootIsFirst, Next PROVE BootIsFirst'
<1>1. worker' = "off" => worker = "off"
  BY DEF Next, Main, BootFails, Boot, Drain, ListenerFails, Drained, Join, CloseClient,
         ClosePool, Return, Interrupt, Worker, StartSucceeds, StartFails, RetryElapses,
         RetryCancelled, StopBegins, Stopped, Take, Activity, Authorized, CallReturns, Report,
         WorkerStep, PassBegins, PassEnds, SweeperStops, SweeperStep, RequestArrives,
         RequestAnswered, Tick, workerVars
<1>2. main' = "booting" => main = "booting" /\ worker' = worker /\ sweeper' = sweeper
  BY DEF BootIsFirst, Next, Main, BootFails, Boot, Drain, ListenerFails, Drained, Join,
         CloseClient, ClosePool, Return, Exit, Interrupt, Worker, StartSucceeds, StartFails,
         RetryElapses, RetryCancelled, StopBegins, Stopped, Take, Activity, Authorized,
         CallReturns, Report, WorkerStep, PassBegins, PassEnds, SweeperStops, SweeperStep,
         RequestArrives, RequestAnswered, Tick, mainVars, workerVars
<1> QED
  BY <1>1, <1>2, FreeStaysFree DEF BootIsFirst

\* Every variable of the process keeps its type, and neither the drain nor the
\* stop of the worker outlasts the shutdown timeout of any configuration.
THEOREM ShutdownTypes == Spec => []TypeOK
<1>1. Init => TypeOK
  <2> SUFFICES ASSUME Init PROVE TypeOK
    OBVIOUS
  <2>1. 0 \in 0 .. 2 /\ 0 <= settings.shutdownTimeout
    BY StopOutlastsCall DEF Init
  <2> QED
    BY <2>1 DEF Init, TypeOK, Free, ActivityType
<1>2. Inv /\ TypeOK /\ Inv' /\ [Next]_vars => TypeOK'
  <2> SUFFICES ASSUME Inv, TypeOK, Inv', [Next]_vars PROVE TypeOK'
    OBVIOUS
  <2>1. CASE UNCHANGED vars
    BY <2>1 DEF vars, mainVars, process, workerVars, TypeOK
  <2>2. CASE Next
    <3>1. Types /\ Places /\ DrainIsShort /\ StopIsShort /\ BootIsFirst
      BY TypeOKParts
    <3>2. Types' /\ Places' /\ DrainIsShort' /\ StopIsShort' /\ BootIsFirst'
      BY <2>2, <3>1, PlacesStep, WaitsStep, BootIsFirstStep DEF Inv
    <3>3. \A n \in 0 .. 2 : n \in Nat
      OBVIOUS
    <3> QED
      BY <3>2, <3>3 DEF TypeOK, Types, Places, DrainIsShort, StopIsShort, BootIsFirst
  <2> QED
    BY <2>1, <2>2
<1> QED
  BY <1>1, <1>2, InvHolds, PTL DEF Spec
=============================================================================
