----------------------------- MODULE RunStatus -----------------------------
(***************************************************************************)
(* The status of a run and the transition table of the server's registry   *)
(* (retrograd-server, runtime/registry.rs).  No state: the modules that    *)
(* keep a status EXTEND this one.                                          *)
(***************************************************************************)

Statuses == {"queued", "resolving", "starting", "running", "pausing", "paused",
             "cancelling", "completed", "failed", "cancelled", "interrupted"}

\* RunStatus::is_terminal
Terminal == {"completed", "failed", "cancelled", "interrupted"}

\* The rows of transition_allowed: what may follow a status, itself excepted.
Successors(from) ==
    CASE from = "queued"     -> {"resolving", "starting", "cancelled", "failed"}
      [] from = "resolving"  -> {"starting", "failed", "cancelled"}
      [] from = "starting"   -> {"running", "pausing", "failed", "cancelled", "cancelling"}
      [] from = "running"    -> {"pausing", "cancelling", "completed", "failed", "cancelled"}
      [] from = "pausing"    -> {"paused", "cancelling", "completed", "failed", "cancelled"}
      [] from = "paused"     -> {"running", "cancelling", "cancelled", "failed"}
      [] from = "cancelling" -> {"cancelled", "completed", "failed"}
      [] OTHER               -> {}

\* A fault: every change of status is allowed.
AllowedAlways(from, to) == TRUE

\* transition_allowed: re-asserting the current status is a no-op, not a conflict.
Allowed(from, to) == from = to \/ to \in Successors(from)

\* A fault: the transition is not checked.
AfterUnchecked(from, to) == to

\* What transition(to) leaves behind in a handle whose status is `from`.
After(from, to) == IF Allowed(from, to) THEN to ELSE from

=============================================================================
