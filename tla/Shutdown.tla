------------------------------- MODULE Shutdown -------------------------------
(***************************************************************************)
(* One process from its start to its exit (cmd/serve.go and App): the main *)
(* goroutine, the listener, the workflow worker, the sweeper, and what is  *)
(* in flight when a signal arrives.                                        *)
(*                                                                         *)
(*   booting   migrations, then App.New                                    *)
(*   serving   the select on the signal and on the listener                *)
(*   draining  srv.Shutdown                                                *)
(*   joining   background.Wait                                             *)
(*   closing   the deferred App.Close: the client, then the pool           *)
(*                                                                         *)
(* The context is cancelled by the signal itself, so the worker and the    *)
(* sweeper stop while the listener drains.                                 *)
(***************************************************************************)
EXTENDS Config

CONSTANTS
    Activities,     \* activity slots of the worker
    Environments    \* the environments deploys may set

ASSUME ShutdownAssumption == \A env \in Environments : IsEnvironment(env)

VARIABLES
    settings,   \* the configuration
    main,       \* where the main goroutine is
    drain,      \* time spent in srv.Shutdown
    signals,    \* interrupts that reached the process
    failed,     \* the listener failed
    killed,     \* an interrupt ended the process on the spot
    worker,     \* RunWorker and the SDK worker it owns
    wait,       \* time the worker has spent retrying or stopping
    activity,   \* activity[a]: a call's activity; early: called before the cancel;
                \* cancelled: its context is done
    sweeper,    \* Sweeper.Run
    request,    \* an API request
    closed      \* what App.Close has closed

mainVars == <<main, drain, failed, closed>>
process == <<signals, killed>>
workerVars == <<worker, wait>>
vars == <<settings, mainVars, process, workerVars, activity, sweeper, request>>

Cancelled == signals > 0 \/ main \notin {"booting", "serving"}

Free == [pc |-> "free", early |-> FALSE, clock |-> 0, cancelled |-> FALSE]
Running(a) == activity[a].pc \in {"authorize", "call", "report"}

\* What is running ends where it stands, its outcome told to nobody.
Cut(act) == [act EXCEPT !.pc = "cut"]
CutAll == [a \in Activities |-> IF Running(a) THEN Cut(activity[a]) ELSE activity[a]]

Exit == main' = "exited" /\ activity' = CutAll

\* Its context ends, and it goes on until it notices.
CancelAll == [a \in Activities |-> IF Running(a) THEN [activity[a] EXCEPT !.cancelled = TRUE]
                                   ELSE activity[a]]

-----------------------------------------------------------------------------
(* The main goroutine. *)

\* Migrations or App.New fail: nothing was opened.
BootFails ==
    /\ main = "booting"
    /\ main' = "exited"
    /\ UNCHANGED <<settings, drain, failed, closed, process, workerVars, activity, sweeper, request>>

Boot ==
    /\ main = "booting"
    /\ main' = "serving"
    /\ worker' = "starting"
    /\ sweeper' = "waiting"
    /\ UNCHANGED <<settings, drain, failed, closed, process, wait, activity, request>>

\* <-ctx.Done(): stop, then srv.Shutdown.
Drain ==
    /\ main = "serving"
    /\ signals > 0
    /\ main' = "draining"
    /\ drain' = 0
    /\ UNCHANGED <<settings, failed, closed, process, workerVars, activity, sweeper, request>>

\* <-errCh: the early return, straight to the deferred calls.
ListenerFails ==
    /\ main = "serving"
    /\ failed' = TRUE
    /\ main' = "closing"
    /\ UNCHANGED <<settings, drain, closed, process, workerVars, activity, sweeper, request>>

\* srv.Shutdown returns, or it gives up and srv.Close drops the request.
Drained ==
    /\ main = "draining"
    /\ main' = "joining"
    /\ \/ request = "none" /\ UNCHANGED request
       \/ drain = settings.shutdownTimeout /\ request = "open" /\ request' = "dropped"
    /\ UNCHANGED <<settings, drain, failed, closed, process, workerVars, activity, sweeper>>

BackgroundDone == worker = "stopped" /\ sweeper = "stopped"

Join ==
    /\ main = "joining"
    /\ BackgroundDone
    /\ main' = "closing"
    /\ UNCHANGED <<settings, drain, failed, closed, process, workerVars, activity, sweeper, request>>

CloseClient ==
    /\ main = "closing"
    /\ closed = {}
    /\ closed' = {"client"}
    /\ UNCHANGED <<settings, main, drain, failed, process, workerVars, activity, sweeper, request>>

ClosePool ==
    /\ main = "closing"
    /\ closed = {"client"}
    /\ closed' = {"client", "pool"}
    /\ UNCHANGED <<settings, main, drain, failed, process, workerVars, activity, sweeper, request>>

\* pgxpool's Close waits for the connections in use; then Serve returns.
Return ==
    /\ main = "closing"
    /\ closed = {"client", "pool"}
    /\ \A a \in Activities : activity[a].pc # "authorize"
    /\ Exit
    /\ UNCHANGED <<settings, drain, failed, closed, process, workerVars, sweeper, request>>

\* A second interrupt after stop() is not handled any more.
Interrupt ==
    /\ signals < 2
    /\ main # "exited"
    /\ signals' = signals + 1
    /\ IF main \in {"booting", "serving"} THEN UNCHANGED <<main, killed, activity>>
       ELSE Exit /\ killed' = TRUE
    /\ UNCHANGED <<settings, drain, failed, closed, workerVars, sweeper, request>>

-----------------------------------------------------------------------------
(* The worker and its activities. *)

WorkerStep == /\ main # "exited"
              /\ UNCHANGED <<settings, mainVars, process, sweeper, request>>

StartSucceeds ==
    /\ worker = "starting"
    /\ worker' = "polling"
    /\ UNCHANGED <<wait, activity>>
    /\ WorkerStep

StartFails ==
    /\ worker = "starting"
    /\ worker' = "retrying"
    /\ wait' = 0
    /\ UNCHANGED activity
    /\ WorkerStep

RetryElapses ==
    /\ worker = "retrying"
    /\ wait = settings.workerRetry
    /\ worker' = "starting"
    /\ UNCHANGED <<wait, activity>>
    /\ WorkerStep

\* Mutant: a plain sleep between the attempts.
NeverGivesUp == FALSE

RetryCancelled ==
    /\ worker = "retrying"
    /\ Cancelled
    /\ worker' = "stopped"
    /\ UNCHANGED <<wait, activity>>
    /\ WorkerStep

\* w.Stop: no more polling; the activities have the stop timeout to finish.
StopBegins ==
    /\ worker = "polling"
    /\ Cancelled
    /\ worker' = "stopping"
    /\ wait' = 0
    /\ UNCHANGED activity
    /\ WorkerStep

\* What has not finished by then has its context cancelled; nobody waits for it.
Stopped ==
    /\ worker = "stopping"
    /\ \/ \A a \in Activities : ~Running(a)
       \/ wait = settings.shutdownTimeout
    /\ worker' = "stopped"
    /\ activity' = CancelAll
    /\ UNCHANGED wait
    /\ WorkerStep

Take(a) ==
    /\ worker = "polling"
    /\ closed = {}
    /\ activity[a].pc = "free"
    /\ activity' = [activity EXCEPT ![a] = [Free EXCEPT !.pc = "authorize"]]
    /\ UNCHANGED workerVars
    /\ WorkerStep

\* The authorization commits and the call begins, or it is refused or fails.
Authorized(a) ==
    /\ activity[a].pc = "authorize"
    /\ activity' \in {[activity EXCEPT ![a] = Free],
                      [activity EXCEPT ![a] = [@ EXCEPT !.pc = "call",
                                                        !.early = ~Cancelled]]}
    /\ UNCHANGED workerVars
    /\ WorkerStep

CallReturns(a) ==
    /\ activity[a].pc = "call"
    /\ activity' = [activity EXCEPT ![a].pc = "report"]
    /\ UNCHANGED workerVars
    /\ WorkerStep

\* The outcome is handed to the orchestrator, if its client is still open.
Report(a) ==
    /\ activity[a].pc = "report"
    /\ activity' = [activity EXCEPT ![a] = IF closed = {} THEN Free ELSE Cut(@)]
    /\ UNCHANGED workerVars
    /\ WorkerStep

-----------------------------------------------------------------------------
(* The sweeper, the requests, and time. *)

SweeperStep(from, to) ==
    /\ main # "exited"
    /\ sweeper = from
    /\ sweeper' = to
    /\ UNCHANGED <<settings, mainVars, process, workerVars, activity, request>>

\* Both cases of the select may be ready: a pass may begin after the cancel.
PassBegins == SweeperStep("waiting", "pass")
PassEnds == SweeperStep("pass", "waiting")
SweeperStops == Cancelled /\ SweeperStep("waiting", "stopped")

RequestArrives ==
    /\ main = "serving"
    /\ request = "none"
    /\ request' = "open"
    /\ UNCHANGED <<settings, mainVars, process, workerVars, activity, sweeper>>

RequestAnswered ==
    /\ main # "exited"
    /\ request = "open"
    /\ request' = "none"
    /\ UNCHANGED <<settings, mainVars, process, workerVars, activity, sweeper>>

Waits == worker \in {"retrying", "stopping"}

\* Mutant: an activity that is stopped may use its whole persist window.
PatienceForPersist == IF worker = "retrying" THEN settings.workerRetry ELSE settings.persistWindow

Patience == IF worker = "retrying" THEN settings.workerRetry ELSE settings.shutdownTimeout

\* No deadline is overrun; handing an outcome over takes no time.
Tick ==
    /\ main # "exited"
    /\ main = "draining" => drain < settings.shutdownTimeout
    /\ Waits => wait < Patience
    /\ \A a \in Activities : /\ activity[a].pc # "report"
                             /\ activity[a].pc = "call" =>
                                    activity[a].clock < settings.supplierDeadline
    /\ drain' = IF main = "draining" THEN drain + 1 ELSE drain
    /\ wait' = IF Waits THEN wait + 1 ELSE wait
    /\ activity' = [a \in Activities |->
                       IF activity[a].pc = "call" THEN [activity[a] EXCEPT !.clock = @ + 1]
                       ELSE activity[a]]
    /\ UNCHANGED <<settings, main, failed, closed, process, worker, sweeper, request>>

-----------------------------------------------------------------------------
Init == /\ settings \in Configurations(Environments)
        /\ main = "booting"
        /\ drain = 0
        /\ signals = 0
        /\ failed = FALSE
        /\ killed = FALSE
        /\ worker = "off"
        /\ wait = 0
        /\ activity = [a \in Activities |-> Free]
        /\ sweeper = "off"
        /\ request = "none"
        /\ closed = {}

Main == \/ Boot \/ BootFails \/ Drain \/ Drained \/ Join
        \/ CloseClient \/ ClosePool \/ Return

Worker == \/ StartSucceeds \/ StartFails \/ RetryElapses \/ RetryCancelled
          \/ StopBegins \/ Stopped

Activity(a) == Authorized(a) \/ CallReturns(a) \/ Report(a)

Next == \/ Main \/ ListenerFails \/ Interrupt
        \/ Worker
        \/ \E a \in Activities : Take(a) \/ Activity(a)
        \/ PassBegins \/ PassEnds \/ SweeperStops
        \/ RequestArrives \/ RequestAnswered
        \/ Tick

Spec == Init /\ [][Next]_vars

\* Goroutines run and time passes; a request may hang for ever.  A select that
\* finds the context done again and again takes that case: strong fairness.
Fairness == /\ WF_vars(Main) /\ WF_vars(Worker) /\ WF_vars(Tick)
            /\ \A a \in Activities : WF_vars(Activity(a))
            /\ SF_vars(RetryCancelled)
            /\ WF_vars(PassEnds) /\ SF_vars(SweeperStops)

FairSpec == Spec /\ Fairness

-----------------------------------------------------------------------------
ActivityType == [pc : {"free", "authorize", "call", "report", "cut"},
                 early : BOOLEAN, clock : Nat, cancelled : BOOLEAN]

\* Every variable has its type, no wait of the shutdown is longer than its
\* timeout, and nothing runs in the background before the process serves.
TypeOK ==
    /\ settings \in Configurations(Environments)
    /\ main \in {"booting", "serving", "draining", "joining", "closing", "exited"}
    /\ drain \in Nat /\ wait \in Nat /\ signals \in 0 .. 2
    /\ failed \in BOOLEAN /\ killed \in BOOLEAN
    /\ worker \in {"off", "starting", "retrying", "polling", "stopping", "stopped"}
    /\ activity \in [Activities -> ActivityType]
    /\ sweeper \in {"off", "waiting", "pass", "stopped"}
    /\ request \in {"none", "open", "dropped"}
    /\ closed \in {{}, {"client"}, {"client", "pool"}}
    /\ drain <= settings.shutdownTimeout
    /\ worker = "stopping" => wait <= settings.shutdownTimeout
    /\ worker = "off" => \A a \in Activities : activity[a] = Free
    /\ main = "booting" => worker = "off" /\ sweeper = "off"

\* config.go:58-59 and RFC.md:750.  A supplier call in flight when the process
\* is told to stop is left alone by it: its context is not cancelled, client and
\* pool stay open while it runs, and its outcome is handed to the orchestrator,
\* unless somebody interrupts again or the listener failed.
CallsAreFinished ==
    killed \/ failed \/ \A a \in Activities : activity[a].early =>
        /\ activity[a].pc # "cut"
        /\ ~activity[a].cancelled
        /\ Running(a) => closed = {}

\* serve.go:97-98.  "Joined before the deferred Close tears down the pool and the
\* orchestrator client: an activity still finishing a supplier call needs both."
JoinedBeforeClose ==
    closed # {} /\ ~failed => \A a \in Activities : activity[a].pc \notin {"call", "report"}

\* serve.go:78-81.  A process that is told to stop does, although the
\* orchestrator is out of reach, a request hangs or a pass is under way.
StopsWhenTold == Cancelled ~> main = "exited"
=============================================================================
