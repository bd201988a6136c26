------------------------- MODULE CmdbInstanceWriter -------------------------
(***************************************************************************)
(* CmdbInstanceWriter (servicenow/writers/cmdb_instance.py): one POST per  *)
(* device, issued by a thread pool that one call of write() opens and      *)
(* joins, with a guard that stops the run while every write is failing.    *)
(* One writer object serves every batch of a run, so the guard's counters  *)
(* outlive a batch.                                                        *)
(*                                                                         *)
(* A device is its position 1..N in the run's payload list.  A POST stands *)
(* for RetryingClient.request with all its retries: it ends in a result,   *)
(* an error (a refused write, or an exception of the request, which        *)
(* _write_one catches), or an exception raised after the request (a 2xx    *)
(* whose body is not JSON), which _write_one does not catch.               *)
(***************************************************************************)
EXTENDS Naturals, FiniteSets

CONSTANTS
  N,                 \* devices with a payload in this run
  BatchSize,         \* SNOW_BATCH_SIZE
  Concurrency,       \* SNOW_CONCURRENCY
  AbortAfterErrors,  \* SNOW_ABORT_AFTER_ERRORS, 0 for "never"
  BadBodies          \* whether a 2xx answer may carry a body that is not JSON

ASSUME SizesAssumption ==
  /\ N \in Nat
  /\ BatchSize \in Nat \ {0}
  /\ Concurrency \in Nat \ {0}
  /\ AbortAfterErrors \in Nat
  /\ BadBodies \in BOOLEAN

Item == 1..N

VARIABLES
  st,         \* what became of each device's write
  submitted,  \* devices handed to a pool so far
  returned,   \* devices whose call of write() has returned
  raised,     \* an exception has left write()
  aborted,    \* self.aborted is not None
  failures,   \* self._failures
  successes   \* self._successes

vars == <<st, submitted, returned, raised, aborted, failures, successes>>

(***************************************************************************)
(* "waiting": not handed to a pool.  "queued": in the pool's queue.        *)
(* "picked": a worker has entered _write_one and has not read `aborted`.   *)
(* "posting": it read None and its POST is under way.  "ok", "error",      *)
(* "unattempted": the WriteResult it returned.  "badbody": it raised.      *)
(* "cancelled": its future was cancelled.                                  *)
(***************************************************************************)
Status == {"waiting", "queued", "picked", "posting", "ok", "error",
           "unattempted", "badbody", "cancelled"}
Final == {"ok", "error", "unattempted", "badbody", "cancelled"}

In(S) == {i \in Item : st[i] \in S}
Busy == In({"picked", "posting"})
Batch == {i \in Item : returned < i /\ i <= submitted}

-----------------------------------------------------------------------------
Init ==
  /\ st = [i \in Item |-> "waiting"]
  /\ submitted = 0
  /\ returned = 0
  /\ raised = FALSE
  /\ aborted = FALSE
  /\ failures = 0
  /\ successes = 0

(* Where the next batch of the payload list ends. *)
BatchEnd == IF submitted + BatchSize < N THEN submitted + BatchSize ELSE N

(* write() opens a pool and pool.map submits the whole batch, in order. *)
Submit ==
  /\ ~raised
  /\ returned = submitted
  /\ submitted < N
  /\ submitted' = BatchEnd
  /\ st' = [i \in Item |-> IF submitted < i /\ i <= submitted' THEN "queued" ELSE st[i]]
  /\ UNCHANGED <<returned, raised, aborted, failures, successes>>

(* A free worker takes the oldest queued device. *)
Pick(i) ==
  /\ st[i] = "queued"
  /\ \A j \in Item : j < i => st[j] # "queued"
  /\ Cardinality(Busy) < Concurrency
  /\ st' = [st EXCEPT ![i] = "picked"]
  /\ UNCHANGED <<submitted, returned, raised, aborted, failures, successes>>

(* _write_one reads `aborted`, without the lock: set, the device is an error... *)
Refuse(i) ==
  /\ st[i] = "picked"
  /\ aborted
  /\ st' = [st EXCEPT ![i] = "unattempted"]
  /\ UNCHANGED <<submitted, returned, raised, aborted, failures, successes>>

(* A bug of that kind: `aborted` is looked at once per batch only. *)
SendUnchecked(i) ==
  /\ st[i] = "picked"
  /\ st' = [st EXCEPT ![i] = "posting"]
  /\ UNCHANGED <<submitted, returned, raised, aborted, failures, successes>>

(* ...and None, the POST goes out; it is not looked at again before the answer. *)
Send(i) ==
  /\ st[i] = "picked"
  /\ ~aborted
  /\ st' = [st EXCEPT ![i] = "posting"]
  /\ UNCHANGED <<submitted, returned, raised, aborted, failures, successes>>

(* _record, under the lock, of a result that carries a sys_id. *)
RecordSuccess(i) ==
  /\ st[i] = "posting"
  /\ st' = [st EXCEPT ![i] = "ok"]
  /\ successes' = successes + 1
  /\ UNCHANGED <<submitted, returned, raised, aborted, failures>>

(* Bugs of that kind: an off-by-one, successes that do not count. *)
TripsLate(count) == AbortAfterErrors > 0 /\ successes = 0 /\ count > AbortAfterErrors

TripsAlways(count) == AbortAfterErrors > 0 /\ count >= AbortAfterErrors

(* The condition of the guard, for the number of failures counted so far. *)
Trips(count) == AbortAfterErrors > 0 /\ successes = 0 /\ count >= AbortAfterErrors

(* _record of an error; it trips the guard while nothing has succeeded. *)
RecordFailure(i) ==
  /\ st[i] = "posting"
  /\ st' = [st EXCEPT ![i] = "error"]
  /\ failures' = failures + 1
  /\ aborted' = (aborted \/ Trips(failures + 1))
  /\ UNCHANGED <<submitted, returned, raised, successes>>

(* response.json() raises on a 2xx body that is not JSON: nothing is recorded. *)
BodyRaises(i) ==
  /\ BadBodies
  /\ st[i] = "posting"
  /\ st' = [st EXCEPT ![i] = "badbody"]
  /\ UNCHANGED <<submitted, returned, raised, aborted, failures, successes>>

(***************************************************************************)
(* list(pool.map(...)) collects in order.  At the first future that raised *)
(* it cancels those still queued and the exception leaves write() once the *)
(* pool has been joined.                                                   *)
(***************************************************************************)
CollectException ==
  /\ \E r \in Batch :
       /\ st[r] = "badbody"
       /\ \A j \in Batch : j < r => st[j] \in Final
  /\ st' = [i \in Item |-> IF st[i] = "queued" THEN "cancelled" ELSE st[i]]
  /\ raised' = TRUE
  /\ ~raised
  /\ UNCHANGED <<submitted, returned, aborted, failures, successes>>

(* A bug of that kind: a device left unattempted has no result. *)
ReturnAttempted ==
  /\ Batch # {}
  /\ \A i \in Batch : st[i] \in {"ok", "error"}
  /\ ~raised
  /\ returned' = submitted
  /\ UNCHANGED <<st, submitted, raised, aborted, failures, successes>>

(* No future raised: one result for each device. *)
Return ==
  /\ Batch # {}
  /\ \A i \in Batch : st[i] \in Final \ {"badbody"}
  /\ ~raised
  /\ returned' = submitted
  /\ UNCHANGED <<st, submitted, raised, aborted, failures, successes>>

Worker(i) ==
  \/ Pick(i)
  \/ Refuse(i)
  \/ Send(i)
  \/ RecordSuccess(i)
  \/ RecordFailure(i)
  \/ BodyRaises(i)

Next ==
  \/ Submit
  \/ \E i \in Item : Worker(i)
  \/ CollectException
  \/ Return

Spec == Init /\ [][Next]_vars

(* Workers and the collecting thread run; a POST ends, its retries are bounded. *)
FairSpec == Spec /\ WF_vars(Next)
-----------------------------------------------------------------------------
(* Every variable keeps its type: the writer's counters never pass N. *)
TypeOK ==
  /\ st \in [Item -> Status]
  /\ submitted \in 0..N
  /\ returned \in 0..submitted
  /\ raised \in BOOLEAN
  /\ aborted \in BOOLEAN
  /\ failures \in 0..N
  /\ successes \in 0..N

(***************************************************************************)
(* What the guard relies on, of which PostBudget is a consequence: the     *)
(* counters, which are updated under the lock, agree with the results the  *)
(* threads returned, whatever the order in which they recorded; a guard    *)
(* that has not tripped is below its threshold; and once it has, the POSTs *)
(* that were already out leave room for those of the other workers only.   *)
(***************************************************************************)
CountersAgree ==
  /\ failures = Cardinality(In({"error"}))
  /\ successes = Cardinality(In({"ok"}))

GuardInv ==
  /\ CountersAgree
  /\ Cardinality(Busy) <= Concurrency
  /\ aborted => AbortAfterErrors > 0
  /\ (~aborted /\ AbortAfterErrors > 0 /\ successes = 0) => failures < AbortAfterErrors
  /\ (aborted /\ successes = 0) =>
        failures + Cardinality(In({"posting"})) <= AbortAfterErrors + Concurrency - 1

(* The devices not yet handed to a pool are exactly those untouched. *)
InOrder == \A i \in Item : st[i] = "waiting" <=> submitted < i

(* The invariant the proofs carry; it is inductive. *)
IInv == TypeOK /\ InOrder /\ GuardInv

(***************************************************************************)
(* A run in which nothing is ever written stops soon: at most the          *)
(* threshold, and one POST per other worker already past its check of      *)
(* `aborted`, reach ServiceNow as failures, over all batches of the run    *)
(* (the comment above _lock in cmdb_instance.py: not 200 of them).         *)
(***************************************************************************)
PostBudget ==
  (AbortAfterErrors > 0 /\ successes = 0) =>
    Cardinality(In({"posting", "error"})) <= AbortAfterErrors + Concurrency - 1

(***************************************************************************)
(* A fleet with a handful of bad devices still runs to completion: once a  *)
(* success is recorded with the guard not yet tripped, no later failure,   *)
(* in this batch or a later one, trips it and no device is left            *)
(* unattempted.                                                            *)
(***************************************************************************)
SuccessDisarms ==
  [][(successes > 0 /\ ~aborted) =>
        /\ ~aborted'
        /\ \A i \in Item : st'[i] # "unattempted"]_vars

(***************************************************************************)
(* Every call of write() ends, in a result for each of its devices or in   *)
(* an exception that waited for the pool: nobody waits for a worker that   *)
(* is gone or for a future that was cancelled.                             *)
(***************************************************************************)
CallEnds ==
  (returned < submitted) ~> (returned = submitted \/ (raised /\ Busy = {}))

(***************************************************************************)
(* What the comment on _write_one's handler says: one failing device must  *)
(* not sink the whole run.  An exception out of write() does.              *)
(***************************************************************************)
OneFailureDoesNotSinkTheRun == ~raised
=============================================================================
