------------------------------- MODULE MCSweep -------------------------------
(***************************************************************************)
(* Instances of Sweep for TLC: short windows, and environments that set    *)
(* the marker threshold as low as it may be, or lower.                     *)
(***************************************************************************)
EXTENDS Sweep

MCFallback == [key \in Literal |-> IF key = "PERSIST_WINDOW" THEN 3 ELSE 1]

\* Backstop 2, window 3 and a margin of 5: the marker may be held for 10.
MCEnvironments == {[key \in {"SWEEP_MARKER_THRESHOLD"} |-> limit] : limit \in {8, 11}}
=============================================================================
