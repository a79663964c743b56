---------------------------- MODULE BookingStatus ----------------------------
(***************************************************************************)
(* The statuses of a booking and the legal moves between them              *)
(* (internal/model/status.go).  Everything else in the system asks these   *)
(* operators; no other module lists the statuses again.                    *)
(***************************************************************************)

Statuses == {"RECEIVED", "PENDING", "UNKNOWN",
             "CONFIRMED", "REJECTED", "FAILED", "CANCELLED"}

\* A settled status has no successor.
SettledStatuses == {"CONFIRMED", "REJECTED", "FAILED", "CANCELLED"}

Settled(s) == s \in SettledStatuses

\* The transition table.
Successors(s) ==
    CASE s = "RECEIVED" -> {"PENDING", "FAILED"}
      [] s = "PENDING"  -> {"CONFIRMED", "REJECTED", "UNKNOWN", "FAILED"}
      [] s = "UNKNOWN"  -> {"CONFIRMED", "REJECTED", "FAILED"}
      [] OTHER          -> {}

CanMove(from, to) == to \in Successors(from)
=============================================================================
