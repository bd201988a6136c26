------------------------------ MODULE SyncRunMC ------------------------------
(* Small fleets and configurations for SyncRun. *)
EXTENDS SyncRun, TLC

CONSTANTS d1, d2, d3, c1, c2, c3

(* Three devices, three CIs. *)
OneCiEach == (d1 :> c1) @@ (d2 :> c2) @@ (d3 :> c3)

(* d2 is the enrolment of the machine that was d1, wiped and enrolled again. *)
Reenrolled == (d1 :> c1) @@ (d2 :> c1) @@ (d3 :> c3)

(* IRE, batches of two, retirement of up to half the known devices. *)
Ire == [mode |-> "identify_reconcile", batch |-> 2, abort |-> 0, retire |-> TRUE,
        num |-> 1, den |-> 2, limit |-> 0, reactivate |-> TRUE,
        failOnError |-> TRUE, dryRun |-> FALSE]

(* The per-CI writer, which stops at two failures: its guard outlives a batch. *)
PerCi == [Ire EXCEPT !.mode = "cmdb_instance", !.batch = 1, !.abort = 2,
                     !.failOnError = FALSE]

(* The same with the whole fleet in a batch: a success may come after the stop. *)
PerCiWide == [PerCi EXCEPT !.batch = 3]

(* What a person runs by hand in between. *)
DryIre == [Ire EXCEPT !.dryRun = TRUE]
DryPerCi == [PerCi EXCEPT !.dryRun = TRUE]
Limited == [Ire EXCEPT !.limit = 2]

Scheduled == {Ire}
Mixed == {Ire, PerCi, PerCiWide, DryIre, DryPerCi, Limited}
=============================================================================
