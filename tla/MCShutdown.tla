------------------------------ MODULE MCShutdown ------------------------------
(***************************************************************************)
(* Instances of Shutdown for TLC: a supplier deadline of two, and          *)
(* environments that leave the shutdown timeout alone or set it too low.   *)
(***************************************************************************)
EXTENDS Shutdown

MCFallback == [key \in Literal |-> CASE key = "SUPPLIER_DEADLINE" -> 2
                                     [] key = "PERSIST_WINDOW" -> 4
                                     [] OTHER -> 1]

MCEnvironments ==
    {[key \in {} |-> 0]} \cup {[key \in {"SHUTDOWN_TIMEOUT"} |-> t] : t \in {1, 2, 4}}
=============================================================================
