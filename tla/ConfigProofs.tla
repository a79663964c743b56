----------------------------- MODULE ConfigProofs -----------------------------
(***************************************************************************)
(* What Load and validate guarantee, whatever the environment sets.        *)
(***************************************************************************)
EXTENDS Config, TLAPS

\* Every setting a process runs with is a number.
LEMMA SettingTypes ==
    ASSUME NEW env, IsEnvironment(env)
    PROVE  \A key \in Literal : Setting(env, key) \in Int
  BY FallbackAssumption DEF Setting, Read, IsEnvironment

LEMMA LoadTypes ==
    ASSUME NEW env, IsEnvironment(env)
    PROVE  /\ Load(env) = [f \in Fields |-> Load(env)[f]]
           /\ \A f \in Fields : Load(env)[f] \in Int
<1>1. \A key \in Literal : Setting(env, key) \in Int
  BY SettingTypes
<1>2. Backstop(env) \in Int
  BY <1>1, GraceAssumption DEF Backstop, Literal
<1>3. ShutdownTimeout(env) \in Int
  BY <1>1, GraceAssumption DEF ShutdownTimeout, Read, IsEnvironment, Literal
<1>4. MarkerThreshold(env) \in Int
  BY <1>1, <1>2 DEF MarkerThreshold, Read, IsEnvironment, Literal
<1> QED
  BY <1>1, <1>2, <1>3, <1>4 DEF Load, Fields, Literal

\* config.go:60, 64, 73.  Whoever sets the base windows alone, to positive
\* values with a persist window that outlasts the backstop, gets a configuration
\* that passes: the derived windows never contradict what validate asks.
THEOREM DerivedWindowsAreValid ==
    ASSUME NEW env, IsEnvironment(env),
           DOMAIN env \cap Derived = {},
           \A key \in DOMAIN env : env[key] > 0,
           Setting(env, "PERSIST_WINDOW") > Backstop(env)
    PROVE  Valid(Load(env))
<1>1. \A key \in Literal : Setting(env, key) \in Int /\ Setting(env, key) > 0
  BY FallbackAssumption DEF Setting, Read, IsEnvironment
<1>2. /\ ShutdownTimeout(env) = Setting(env, "SUPPLIER_DEADLINE") + Grace
      /\ MarkerThreshold(env) = Backstop(env) + Setting(env, "PERSIST_WINDOW")
                                    + 10 * Setting(env, "SWEEP_INTERVAL")
  BY DEF ShutdownTimeout, MarkerThreshold, Read, Derived
<1>3. AllPositive(Load(env))
  BY <1>1, <1>2, GraceAssumption DEF AllPositive, Load, Fields, Backstop, Literal
<1>4. OutlastsCall(Load(env))
  BY <1>1, <1>2, GraceAssumption DEF OutlastsCall, Load, Literal
<1>5. Load(env).markerThreshold > MarkerHold(Load(env))
  BY <1>1, <1>2, GraceAssumption DEF MarkerHold, QueueMargin, Load, Backstop, Literal
<1> QED
  BY <1>3, <1>4, <1>5 DEF Valid, Load

\* What a process may take for granted of its configuration.
LEMMA ConfigurationFacts ==
    ASSUME NEW environments, \A env \in environments : IsEnvironment(env),
           NEW c \in Configurations(environments)
    PROVE  /\ \A f \in Fields : c[f] \in Nat
           /\ Valid(c)
<1>1. PICK env \in environments : c = Load(env) /\ Valid(c)
  BY DEF Configurations
<1>2. IsEnvironment(env)
  BY <1>1
<1>3. \A f \in Fields : c[f] \in Int
  BY <1>1, <1>2, LoadTypes
<1>4. \A f \in Fields \ {"backstop"} : c[f] > 0
  BY <1>1 DEF Valid, AllPositive
<1>5. c.backstop \in Nat
  BY <1>1, <1>3, <1>4, GraceAssumption DEF Load, Backstop, Fields
<1> QED
  BY <1>1, <1>3, <1>4, <1>5 DEF Fields
=============================================================================
