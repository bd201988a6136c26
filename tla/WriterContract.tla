--------------------------- MODULE WriterContract ---------------------------
(***************************************************************************)
(* What one call of Writer.write(batch) promises to SyncRunner about the   *)
(* per-CI abort guard (servicenow/writers/ire.py, class Writer;            *)
(* cmdb_instance.py, _record).  The thread-level writer is checked against *)
(* it, and the run-level model uses it for the writer it calls, so the two *)
(* levels agree on what a call can return.                                 *)
(***************************************************************************)
EXTENDS Naturals, FiniteSets

(***************************************************************************)
(* One returned call, for a guard that trips after `threshold` failures    *)
(* (0: never).  `armed` says that no earlier call of this run had a        *)
(* success, `failed` counts the earlier recorded failures, `ok` and `bad`  *)
(* are the devices of the batch reported written and reported in error;    *)
(* `was` and `now` are the writer's `aborted` before and after.            *)
(***************************************************************************)
CallOutcome(threshold, was, armed, failed, ok, bad, now) ==
  \/ /\ was /\ now                       \* stopped earlier: nothing attempted
     /\ ok = {}
  \/ /\ ~was /\ ~now
     /\ (threshold > 0 /\ armed /\ ok = {}) => failed + Cardinality(bad) < threshold
  \/ /\ ~was /\ now                      \* stopped within this call
     /\ threshold > 0
     /\ armed
     /\ failed + Cardinality(bad) >= threshold
=============================================================================
