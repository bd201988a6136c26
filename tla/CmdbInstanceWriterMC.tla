------------------------ MODULE CmdbInstanceWriterMC ------------------------
(* CmdbInstanceWriter for TLC, with a history of what the guard held when   *)
(* the call of write() under way began.                                    *)
EXTENDS CmdbInstanceWriter

VARIABLE call   \* history: the guard when the last call of write() began

Contract == INSTANCE WriterContract

MCInit == Init /\ call = [aborted |-> FALSE, failures |-> 0, successes |-> 0]

MCNext ==
  /\ Next
  /\ call' = IF submitted' # submitted
             THEN [aborted |-> aborted, failures |-> failures, successes |-> successes]
             ELSE call

MCSpec == MCInit /\ [][MCNext]_<<vars, call>>

MCFairSpec == MCSpec /\ WF_<<vars, call>>(MCNext)

(***************************************************************************)
(* When a call returns, its results and the guard are an outcome that      *)
(* WriterContract allows, however the threads interleaved: what SyncRunner *)
(* may assume of the writer is what the pool delivers.                     *)
(***************************************************************************)
CallsKeepContract ==
  [][returned' # returned =>
       Contract!CallOutcome(AbortAfterErrors, call.aborted, call.successes = 0,
                            call.failures,
                            {i \in Batch : st[i] = "ok"},
                            {i \in Batch : st[i] \in {"error", "unattempted"}},
                            aborted)]_<<vars, call>>
=============================================================================
