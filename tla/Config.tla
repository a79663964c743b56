-------------------------------- MODULE Config --------------------------------
(***************************************************************************)
(* The time windows the process reads from its environment                 *)
(* (config/config.go), the ones it derives from others, and the check that *)
(* refuses to start when they do not fit together.                         *)
(*                                                                         *)
(* An environment is a function from the keys that are set to their        *)
(* values: durations in some unit, and a number of attempts.  The literal  *)
(* fallbacks are constants, because nothing depends on their size but that *)
(* they are positive.                                                      *)
(***************************************************************************)
EXTENDS Integers

CONSTANTS
    Fallback,   \* the value of each setting whose variable is not set
    Grace       \* what a derived window adds to the supplier deadline

\* The settings with a literal fallback, and those derived when unset.
Literal == {"SUPPLIER_DEADLINE", "CREATE_ATTEMPTS", "PARK_TIMEOUT", "CREATE_RETRY_DELAY",
            "SWEEP_INTERVAL", "SWEEP_RECEIVED_THRESHOLD", "SWEEP_IDLE_THRESHOLD",
            "PERSIST_WINDOW", "WORKER_RETRY_INTERVAL"}
Derived == {"SHUTDOWN_TIMEOUT", "SWEEP_MARKER_THRESHOLD"}

ASSUME FallbackAssumption == Fallback \in [Literal -> Nat \ {0}]
ASSUME GraceAssumption == Grace \in Nat \ {0}

\* Any of the variables set, each to something that parses.
IsEnvironment(env) == /\ DOMAIN env \subseteq Literal \cup Derived
                      /\ env \in [DOMAIN env -> Int]

Read(env, key, fallback) == IF key \in DOMAIN env THEN env[key] ELSE fallback

Setting(env, key) == Read(env, key, Fallback[key])

-----------------------------------------------------------------------------
(* Load: the derived windows. *)

\* A backstop for a client deadline that fails to fire; it cannot be set.
Backstop(env) == Setting(env, "SUPPLIER_DEADLINE") + Grace

ShutdownTimeout(env) ==
    Read(env, "SHUTDOWN_TIMEOUT", Setting(env, "SUPPLIER_DEADLINE") + Grace)

MarkerThreshold(env) ==
    Read(env, "SWEEP_MARKER_THRESHOLD",
         Backstop(env) + Setting(env, "PERSIST_WINDOW") + 10 * Setting(env, "SWEEP_INTERVAL"))

Load(env) ==
    [supplierDeadline  |-> Setting(env, "SUPPLIER_DEADLINE"),
     backstop          |-> Backstop(env),
     persistWindow     |-> Setting(env, "PERSIST_WINDOW"),
     shutdownTimeout   |-> ShutdownTimeout(env),
     createAttempts    |-> Setting(env, "CREATE_ATTEMPTS"),
     retryDelay        |-> Setting(env, "CREATE_RETRY_DELAY"),
     parkTimeout       |-> Setting(env, "PARK_TIMEOUT"),
     workerRetry       |-> Setting(env, "WORKER_RETRY_INTERVAL"),
     sweepInterval     |-> Setting(env, "SWEEP_INTERVAL"),
     markerThreshold   |-> MarkerThreshold(env),
     receivedThreshold |-> Setting(env, "SWEEP_RECEIVED_THRESHOLD"),
     idleThreshold     |-> Setting(env, "SWEEP_IDLE_THRESHOLD")]

Fields == {"supplierDeadline", "backstop", "persistWindow", "shutdownTimeout",
           "createAttempts", "retryDelay", "parkTimeout", "workerRetry", "sweepInterval",
           "markerThreshold", "receivedThreshold", "idleThreshold"}

-----------------------------------------------------------------------------
(* validate: what Load refuses. *)

\* Everything but the backstop, which follows from the deadline.
AllPositive(c) == \A f \in Fields \ {"backstop"} : c[f] > 0

\* The longest a healthy attempt may hold its marker: one supplier call, the
\* queue in front of its persist, and the persist's own window.
QueueMargin(c) == 5 * c.sweepInterval

\* Mutant: the hold is one supplier call.
MarkerHoldOfTheCall(c) == c.backstop + QueueMargin(c)

MarkerHold(c) == c.backstop + c.persistWindow + QueueMargin(c)

\* Mutant: a shutdown may be as short as it likes.
OutlastsAnything(c) == c.shutdownTimeout > 0

OutlastsCall(c) == c.shutdownTimeout > c.supplierDeadline

Valid(c) == /\ AllPositive(c)
            /\ OutlastsCall(c)
            /\ c.persistWindow > c.backstop
            /\ c.markerThreshold > MarkerHold(c)

\* The configurations a process can run with.
Configurations(environments) == {c \in {Load(env) : env \in environments} : Valid(c)}
=============================================================================
