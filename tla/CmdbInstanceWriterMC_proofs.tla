---------------------- MODULE CmdbInstanceWriterMC_proofs ----------------------
(***************************************************************************)
(* Proof that the thread pool of CmdbInstanceWriter keeps WriterContract,  *)
(* which the run-level model assumes of it, for every fleet, batch size,   *)
(* pool size and threshold.                                                *)
(***************************************************************************)
EXTENDS CmdbInstanceWriterMC, CmdbInstanceWriter_proofs

(* The devices of the calls that have returned, with a status in S. *)
Before(S) == {i \in Item : i <= returned /\ st[i] \in S}

(* The devices of the call under way, with a status in S. *)
Now(S) == {i \in Batch : st[i] \in S}

CallTypeOK == call \in [aborted : BOOLEAN, failures : Nat, successes : Nat]

(* No worker holds a device of a call that has returned. *)
Settled == \A i \in Item : i <= returned => st[i] \in Final

(***************************************************************************)
(* What the guard held when the call under way began is what the devices   *)
(* before it left; a guard tripped since lets no POST out, and one tripped *)
(* within the call had its reason within the counts.                       *)
(***************************************************************************)
CallBooks ==
  returned < submitted =>
    /\ call.failures = Cardinality(Before({"error"}))
    /\ call.successes = 0 <=> Before({"ok"}) = {}
    /\ call.aborted => aborted /\ Now({"posting", "ok", "error", "badbody"}) = {}
    /\ (aborted /\ ~call.aborted) =>
         /\ AbortAfterErrors > 0
         /\ call.successes = 0
         /\ failures >= AbortAfterErrors

CallInv == IInv /\ CallTypeOK /\ Settled /\ OnlyAbortRefuses /\ CallBooks

-----------------------------------------------------------------------------
(* The failures counted are those before the call and those within it. *)
LEMMA Split ==
  ASSUME TypeOK, InOrder, CountersAgree
  PROVE  /\ failures = Cardinality(Before({"error"})) + Cardinality(Now({"error"}))
         /\ IsFiniteSet(Before({"error"})) /\ IsFiniteSet(Now({"error", "unattempted"}))
         /\ Cardinality(Before({"error"})) \in Nat /\ Cardinality(Now({"error"})) \in Nat
         /\ successes = 0 <=> Before({"ok"}) = {} /\ Now({"ok"}) = {}
<1>1. /\ In({"error"}) = Before({"error"}) \cup Now({"error"})
      /\ Before({"error"}) \cap Now({"error"}) = {}
      /\ In({"ok"}) = Before({"ok"}) \cup Now({"ok"})
  BY SizesAssumption DEF In, Before, Now, Batch, TypeOK, InOrder, Item
<1>2. IsFiniteSet(Item)
  BY FS_Interval, SizesAssumption DEF Item
<1>3. /\ IsFiniteSet(Before({"error"})) /\ IsFiniteSet(Now({"error"}))
      /\ IsFiniteSet(Now({"error", "unattempted"}))
  <2>1. /\ Before({"error"}) \in SUBSET Item /\ Now({"error"}) \in SUBSET Item
        /\ Now({"error", "unattempted"}) \in SUBSET Item
    BY DEF Before, Now, Batch
  <2> QED BY <2>1, <1>2, FS_Subset
<1>4. Cardinality(Before({"error"})) \in Nat /\ Cardinality(Now({"error"})) \in Nat
  BY <1>3, FS_CardinalityType
<1>5. Cardinality(In({"error"})) = Cardinality(Before({"error"})) + Cardinality(Now({"error"}))
  <2>1. Cardinality(Before({"error"}) \cup Now({"error"}))
          = Cardinality(Before({"error"})) + Cardinality(Now({"error"}))
            - Cardinality(Before({"error"}) \cap Now({"error"}))
    BY <1>3, FS_Union
  <2>2. Cardinality(Before({"error"}) \cap Now({"error"})) = 0
    BY <1>1, FS_EmptySet
  <2>3. Cardinality(In({"error"}))
          = Cardinality(Before({"error"})) + Cardinality(Now({"error"})) - 0
    BY <1>1, <2>1, <2>2, Zenon
  <2> QED BY <2>3, <1>4
<1>6. successes = 0 <=> In({"ok"}) = {}
  <2>1. IsFiniteSet(In({"ok"}))
    BY InFinite
  <2> QED BY <2>1, FS_EmptySet DEF CountersAgree
<1> QED BY <1>1, <1>3, <1>4, <1>5, <1>6 DEF CountersAgree

(* Nothing is counted before the first call. *)
LEMMA InitCallInv == MCInit => CallInv
<1> SUFFICES ASSUME MCInit PROVE CallInv
  OBVIOUS
<1>1. Init /\ call = [aborted |-> FALSE, failures |-> 0, successes |-> 0]
  BY DEF MCInit
<1>2. IInv
  BY <1>1, InitIInv
<1>3. CallTypeOK
  BY <1>1 DEF CallTypeOK
<1>4. Settled /\ OnlyAbortRefuses /\ CallBooks
  BY <1>1, SizesAssumption DEF Init, Settled, OnlyAbortRefuses, CallBooks, Item
<1> QED BY <1>2, <1>3, <1>4 DEF CallInv

(* A step that opens no call keeps what was noted of the guard. *)
LEMMA CallStays ==
  ASSUME CallTypeOK, MCNext, submitted' = submitted
  PROVE  call' = call
BY DEF MCNext

(* A worker touches only devices of the call under way. *)
LEMMA WorkerWithinCall ==
  ASSUME CallInv, NEW i \in Item, st[i] \in {"queued", "picked", "posting"}
  PROVE  i \in Batch
<1>1. ~ (i <= returned)
  BY DEF CallInv, Settled, Final
<1>2. st[i] # "waiting"
  OBVIOUS
<1>3. ~ (submitted < i)
  BY <1>2 DEF CallInv, IInv, InOrder
<1> QED BY <1>1, <1>3, SizesAssumption DEF Batch, CallInv, IInv, TypeOK, Item

(* What came before the call stands while its devices move. *)
LEMMA BeforeStands ==
  ASSUME CallInv, NEW i \in Item, NEW s \in Status,
         st[i] \in {"queued", "picked", "posting"}, st' = [st EXCEPT ![i] = s],
         UNCHANGED <<submitted, returned>>
  PROVE  /\ Settled'
         /\ \A S : Before(S)' = Before(S)
         /\ \A S : s \notin S => (Now(S) = {} => Now(S)' = {})
         /\ Batch' = Batch
<1>1. i \in Batch
  BY WorkerWithinCall
<1>2. ~ (i <= returned)
  BY <1>1, SizesAssumption DEF Batch, CallInv, IInv, TypeOK, Item
<1>3. \A j \in Item : st'[j] = IF j = i THEN s ELSE st[j]
  BY DEF CallInv, IInv, TypeOK
<1> QED BY <1>2, <1>3 DEF CallInv, Settled, Before, Now, Batch

(* A worker's step keeps the books of the call. *)
LEMMA WorkerKeepsCall ==
  ASSUME CallInv, IInv', MCNext, NEW i \in Item, Worker(i)
  PROVE  CallInv'
<1>1. UNCHANGED <<submitted, returned>>
  BY DEF Worker, Pick, Refuse, Send, RecordSuccess, RecordFailure, BodyRaises
<1>2. call' = call
  BY <1>1, CallStays DEF CallInv
<1>3. CASE RecordFailure(i)
  <2>1. /\ st[i] = "posting" /\ st' = [st EXCEPT ![i] = "error"]
        /\ failures' = failures + 1
        /\ successes' = successes
        /\ (aborted' <=> aborted \/ Trips(failures + 1))
    BY <1>3, Zenon DEF RecordFailure, CallInv, IInv, TypeOK
  <2>2. i \in Batch
    BY <2>1, WorkerWithinCall
  <2>3. /\ Settled' /\ Before({"error"})' = Before({"error"}) /\ Before({"ok"})' = Before({"ok"})
    BY <2>1, <1>1, BeforeStands DEF Status
  <2>4. OnlyAbortRefuses'
    BY <2>1 DEF CallInv, OnlyAbortRefuses, IInv, TypeOK
  <2>5. CASE call.aborted /\ returned < submitted
    BY <2>5, <2>1, <2>2 DEF CallInv, CallBooks, Now
  <2>6. CASE ~call.aborted
    <3>1. ASSUME aborted', returned < submitted
          PROVE  AbortAfterErrors > 0 /\ call.successes = 0 /\ failures' >= AbortAfterErrors
      <4>1. CASE aborted
        BY <4>1, <3>1, <2>6, <2>1, SizesAssumption DEF CallInv, CallBooks, IInv, TypeOK
      <4>2. CASE Trips(failures + 1)
        <5>1. Before({"ok"}) = {}
          BY <4>2, Split DEF Trips, CallInv, IInv, GuardInv
        <5> QED BY <5>1, <4>2, <3>1, <2>1 DEF Trips, CallInv, CallBooks
      <4> QED BY <4>1, <4>2, <3>1, <2>1
    <3>2. CallBooks'
      BY <3>1, <2>3, <2>6, <1>1, <1>2 DEF CallInv, CallBooks
    <3> QED BY <3>2, <2>3, <2>4, <1>2 DEF CallInv, CallTypeOK
  <2>7. CASE ~(returned < submitted)
    BY <2>7, <2>2, SizesAssumption DEF Batch, CallInv, IInv, TypeOK, Item
  <2> QED BY <2>5, <2>6, <2>7
<1>4. ASSUME Pick(i) \/ Refuse(i) \/ Send(i) \/ RecordSuccess(i) \/ BodyRaises(i)
      PROVE  CallInv'
  <2>1. /\ aborted' = aborted /\ failures' = failures
    BY <1>4 DEF Pick, Refuse, Send, RecordSuccess, BodyRaises
  <2>2. PICK s \in {"picked", "unattempted", "posting", "ok", "badbody"} :
          /\ st[i] \in {"queued", "picked", "posting"}
          /\ st' = [st EXCEPT ![i] = s]
          /\ s = "unattempted" => aborted
          /\ s = "posting" => ~aborted
          /\ s \in {"ok", "badbody"} => st[i] = "posting"
    BY <1>4, Zenon DEF Pick, Refuse, Send, RecordSuccess, BodyRaises
  <2>3. /\ Settled' /\ Before({"error"})' = Before({"error"}) /\ Before({"ok"})' = Before({"ok"})
        /\ s \notin {"posting", "ok", "error", "badbody"} =>
             (Now({"posting", "ok", "error", "badbody"}) = {} =>
                Now({"posting", "ok", "error", "badbody"})' = {})
    BY <2>2, <1>1, BeforeStands DEF Status
  <2>4. OnlyAbortRefuses'
    BY <2>1, <2>2 DEF CallInv, OnlyAbortRefuses, IInv, TypeOK
  <2>5. i \in Batch
    BY <2>2, WorkerWithinCall
  <2>6. ASSUME returned < submitted, call.aborted
        PROVE  Now({"posting", "ok", "error", "badbody"})' = {}
    <3>1. aborted /\ Now({"posting", "ok", "error", "badbody"}) = {}
      BY <2>6 DEF CallInv, CallBooks
    <3>2. s \notin {"posting", "ok", "error", "badbody"}
      BY <3>1, <2>2, <2>5 DEF Now
    <3> QED BY <3>1, <3>2, <2>3
  <2>7. CallBooks'
    BY <2>1, <2>3, <2>6, <1>1, <1>2 DEF CallInv, CallBooks
  <2> QED BY <2>3, <2>4, <2>7, <1>2 DEF CallInv, CallTypeOK
<1> QED BY <1>3, <1>4 DEF Worker

(* A call that begins finds the counters as the devices before it left them. *)
LEMMA SubmitKeepsCall ==
  ASSUME CallInv, IInv', MCNext, Submit
  PROVE  CallInv'
<1>1. /\ returned = submitted /\ returned' = returned /\ submitted < submitted'
      /\ UNCHANGED <<aborted, failures, successes>>
  BY SizesAssumption DEF Submit, BatchEnd, CallInv, IInv, TypeOK
<1>2. \A j \in Item : st'[j] = IF submitted < j /\ j <= submitted' THEN "queued" ELSE st[j]
  BY DEF Submit, BatchEnd
<1>3. call' = [aborted |-> aborted, failures |-> failures, successes |-> successes]
  <2>1. submitted' # submitted
    BY <1>1 DEF CallInv, IInv, TypeOK
  <2> QED BY <2>1 DEF MCNext
<1>4. CallTypeOK'
  BY <1>3 DEF CallTypeOK, CallInv, IInv, TypeOK
<1>5. \A j \in Item : j <= returned => st'[j] = st[j]
  BY <1>1, <1>2 DEF CallInv, IInv, TypeOK, Item
<1>6. Settled' /\ OnlyAbortRefuses'
  BY <1>1, <1>2, <1>5 DEF CallInv, Settled, OnlyAbortRefuses
<1>7. Batch = {} /\ Now({"error"}) = {} /\ Now({"ok"}) = {}
  BY <1>1 DEF Batch, Now, CallInv, IInv, TypeOK, Item
<1>8. \A S : Before(S)' = Before(S)
  BY <1>1, <1>5 DEF Before
<1>9. /\ failures = Cardinality(Before({"error"}))
      /\ successes = 0 <=> Before({"ok"}) = {}
  <2>1. Cardinality(Now({"error"})) = 0
    BY <1>7, FS_EmptySet
  <2>2. /\ failures = Cardinality(Before({"error"})) + Cardinality(Now({"error"}))
        /\ Cardinality(Before({"error"})) \in Nat
        /\ successes = 0 <=> Before({"ok"}) = {} /\ Now({"ok"}) = {}
    BY Split DEF CallInv, IInv, GuardInv
  <2> QED BY <2>1, <2>2, <1>7
<1>10. ASSUME NEW j \in Batch' PROVE st'[j] = "queued"
  BY <1>1, <1>2, <1>10 DEF Batch, CallInv, IInv, TypeOK, Item
<1>11. Now({"posting", "ok", "error", "badbody"})' = {}
  BY <1>10 DEF Now
<1>12. CallBooks'
  <2>1. /\ call'.failures = failures /\ call'.successes = successes /\ call'.aborted = aborted
    BY <1>3
  <2> QED BY <2>1, <1>1, <1>8, <1>9, <1>11 DEF CallBooks
<1> QED BY <1>4, <1>6, <1>12 DEF CallInv

(* A future that raised cancels only devices nobody has taken. *)
LEMMA CollectExceptionKeepsCall ==
  ASSUME CallInv, IInv', MCNext, CollectException
  PROVE  CallInv'
<1>1. UNCHANGED <<submitted, returned, aborted, failures, successes>>
  BY DEF CollectException
<1>2. \A j \in Item : st'[j] = IF st[j] = "queued" THEN "cancelled" ELSE st[j]
  BY DEF CollectException
<1>3. call' = call
  BY <1>1, CallStays DEF CallInv
<1>4. /\ Before({"error"})' = Before({"error"}) /\ Before({"ok"})' = Before({"ok"})
      /\ Now({"posting", "ok", "error", "badbody"})' = Now({"posting", "ok", "error", "badbody"})
  BY <1>1, <1>2 DEF Before, Now, Batch
<1>5. Settled' /\ OnlyAbortRefuses'
  BY <1>1, <1>2 DEF CallInv, Settled, OnlyAbortRefuses, Final
<1>6. CallBooks'
  BY <1>1, <1>3, <1>4 DEF CallInv, CallBooks
<1> QED BY <1>3, <1>5, <1>6 DEF CallInv, CallTypeOK

(* A call that returned has settled all its devices, and none is under way. *)
LEMMA ReturnKeepsCall ==
  ASSUME CallInv, IInv', MCNext, Return
  PROVE  CallInv'
<1>1. /\ returned' = submitted
      /\ UNCHANGED <<st, submitted, raised, aborted, failures, successes>>
      /\ \A i \in Batch : st[i] \in Final
  BY DEF Return
<1>2. call' = call
  BY <1>1, CallStays DEF CallInv
<1>3. Settled'
  BY <1>1 DEF CallInv, Settled, Batch, IInv, TypeOK, Item
<1>4. OnlyAbortRefuses' /\ CallBooks'
  BY <1>1 DEF CallInv, OnlyAbortRefuses, CallBooks, IInv, TypeOK
<1> QED BY <1>2, <1>3, <1>4 DEF CallInv, CallTypeOK

LEMMA StepKeepsCallInv == CallInv /\ [MCNext]_<<vars, call>> => CallInv'
<1> SUFFICES ASSUME CallInv, [MCNext]_<<vars, call>> PROVE CallInv'
  OBVIOUS
<1>1. IInv'
  <2>1. IInv /\ [Next]_vars
    BY DEF CallInv, MCNext
  <2> QED BY <2>1, StepKeepsIInv
<1>2. CASE MCNext
  <2>1. \/ Submit \/ CollectException \/ Return
        \/ \E i \in Item : Worker(i)
    BY <1>2 DEF MCNext, Next
  <2> QED BY <1>1, <1>2, <2>1, SubmitKeepsCall, CollectExceptionKeepsCall, ReturnKeepsCall,
             WorkerKeepsCall
<1>3. CASE UNCHANGED <<vars, call>>
  BY <1>1, <1>3 DEF vars, CallInv, CallTypeOK, Settled, OnlyAbortRefuses, CallBooks, Before, Now,
     Batch
<1> QED BY <1>2, <1>3

(* What a call returns is an outcome of the contract. *)
LEMMA ReturnKeepsContract ==
  ASSUME CallInv, Return
  PROVE  Contract!CallOutcome(AbortAfterErrors, call.aborted, call.successes = 0, call.failures,
                              Now({"ok"}), Now({"error", "unattempted"}), aborted)
<1>1. returned < submitted
  BY SizesAssumption DEF Return, Batch, CallInv, IInv, TypeOK, Item
<1>2. /\ call.failures = Cardinality(Before({"error"}))
      /\ call.successes = 0 <=> Before({"ok"}) = {}
      /\ call.aborted => aborted /\ Now({"posting", "ok", "error", "badbody"}) = {}
      /\ (aborted /\ ~call.aborted) =>
           AbortAfterErrors > 0 /\ call.successes = 0 /\ failures >= AbortAfterErrors
  BY <1>1 DEF CallInv, CallBooks
<1>3. /\ failures = call.failures + Cardinality(Now({"error"}))
      /\ IsFiniteSet(Now({"error", "unattempted"}))
      /\ call.failures \in Nat /\ Cardinality(Now({"error"})) \in Nat
      /\ successes = 0 <=> Before({"ok"}) = {} /\ Now({"ok"}) = {}
  BY <1>2, Split DEF CallInv, IInv, GuardInv
<1>4. CASE call.aborted
  <2>1. Now({"ok"}) = {}
    BY <1>2, <1>4 DEF Now
  <2> QED BY <2>1, <1>2, <1>4 DEF Contract!CallOutcome
<1>5. CASE ~call.aborted /\ ~aborted
  <2>1. Now({"error", "unattempted"}) = Now({"error"})
    BY <1>5 DEF Now, Batch, CallInv, OnlyAbortRefuses
  <2>2. AbortAfterErrors > 0 /\ successes = 0 => failures < AbortAfterErrors
    BY <1>5 DEF CallInv, IInv, GuardInv
  <2>3. (AbortAfterErrors > 0 /\ call.successes = 0 /\ Now({"ok"}) = {}) =>
          call.failures + Cardinality(Now({"error", "unattempted"})) < AbortAfterErrors
    BY <2>1, <2>2, <1>2, <1>3
  <2> QED BY <2>3, <1>5 DEF Contract!CallOutcome, Contract!Cardinality, Cardinality
<1>6. CASE ~call.aborted /\ aborted
  <2>1. Now({"error"}) \subseteq Now({"error", "unattempted"})
    BY DEF Now
  <2>2. /\ Cardinality(Now({"error"})) <= Cardinality(Now({"error", "unattempted"}))
        /\ Cardinality(Now({"error", "unattempted"})) \in Nat
    BY <2>1, <1>3, FS_Subset, FS_CardinalityType
  <2>3. call.failures + Cardinality(Now({"error", "unattempted"})) >= AbortAfterErrors
    BY <2>2, <1>2, <1>3, <1>6, SizesAssumption
  <2> QED BY <2>3, <1>2, <1>6 DEF Contract!CallOutcome, Contract!Cardinality, Cardinality
<1>7. call.aborted \in BOOLEAN /\ aborted \in BOOLEAN
  BY DEF CallInv, CallTypeOK, IInv, TypeOK
<1> QED BY <1>4, <1>5, <1>6, <1>7

-----------------------------------------------------------------------------
(***************************************************************************)
(* However the threads interleave, every call of write() that returns does *)
(* so with results and a guard that WriterContract allows, for every       *)
(* fleet, batch size, pool size and threshold: what SyncRun assumes of the *)
(* per-CI writer holds of the pool.                                        *)
(***************************************************************************)
THEOREM WriterCallsKeepContract == MCSpec => CallsKeepContract
<1>1. MCInit => CallInv
  BY InitCallInv
<1>2. CallInv /\ [MCNext]_<<vars, call>> => CallInv'
  BY StepKeepsCallInv
<1> DEFINE Kept == returned' # returned =>
       Contract!CallOutcome(AbortAfterErrors, call.aborted, call.successes = 0,
                            call.failures,
                            {i \in Batch : st[i] = "ok"},
                            {i \in Batch : st[i] \in {"error", "unattempted"}},
                            aborted)
<1>3. CallInv /\ [MCNext]_<<vars, call>> => [Kept]_<<vars, call>>
  <2> SUFFICES ASSUME CallInv, [MCNext]_<<vars, call>>, returned' # returned PROVE Kept
    OBVIOUS
  <2>1. Return
    <3>1. Next
      BY DEF MCNext, vars
    <3> QED BY <3>1 DEF Next, Worker, Submit, Pick, Refuse, Send, RecordSuccess, RecordFailure,
              BodyRaises, CollectException
  <2>2. Now({"ok"}) = {i \in Batch : st[i] = "ok"}
    BY DEF Now
  <2> QED BY <2>1, <2>2, ReturnKeepsContract DEF Now
<1> QED BY <1>1, <1>2, <1>3, PTL DEF MCSpec, CallsKeepContract
=============================================================================
