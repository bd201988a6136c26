----------------------- MODULE CmdbInstanceWriter_proofs -----------------------
(***************************************************************************)
(* Proofs about CmdbInstanceWriter for every fleet, batch size, pool size  *)
(* and threshold, all from the inductive invariant IInv: type correctness, *)
(* PostBudget and SuccessDisarms; what alone can make write() raise; that  *)
(* every step leaves less work and that no thread waits in vain.           *)
(***************************************************************************)
EXTENDS CmdbInstanceWriter, FiniteSetTheorems, TLAPS

(* A set of devices by status is finite and no larger than the fleet, before *)
(* and after a step.                                                        *)
LEMMA InFinite ==
  ASSUME NEW S
  PROVE  /\ IsFiniteSet(In(S))
         /\ Cardinality(In(S)) \in 0..N
         /\ Cardinality(In(S))' \in 0..N
<1>1. IsFiniteSet(Item) /\ Cardinality(Item) = N
  BY FS_Interval, SizesAssumption DEF Item
<1>2. ASSUME NEW T \in SUBSET Item
      PROVE  IsFiniteSet(T) /\ Cardinality(T) \in 0..N
  <2>1. IsFiniteSet(T) /\ Cardinality(T) <= N
    BY <1>1, FS_Subset
  <2>2. Cardinality(T) \in Nat
    BY <2>1, FS_CardinalityType
  <2> QED BY <2>1, <2>2, SizesAssumption
<1>3. In(S) \in SUBSET Item /\ In(S)' \in SUBSET Item
  BY DEF In
<1> QED BY <1>2, <1>3

(* How the number of devices with a status in S changes when one moves. *)
LEMMA InMove ==
  ASSUME st \in [Item -> Status], NEW i \in Item, NEW s \in Status,
         st' = [st EXCEPT ![i] = s], NEW S
  PROVE  Cardinality(In(S))' =
           IF s \in S
           THEN IF st[i] \in S THEN Cardinality(In(S)) ELSE Cardinality(In(S)) + 1
           ELSE IF st[i] \in S THEN Cardinality(In(S)) - 1 ELSE Cardinality(In(S))
<1>1. IsFiniteSet(In(S))
  BY InFinite
<1>2. i \in In(S) <=> st[i] \in S
  BY DEF In
<1>3. CASE s \in S
  <2>1. In(S)' = In(S) \cup {i}
    BY <1>3 DEF In
  <2> QED BY <2>1, <1>1, <1>2, <1>3, FS_AddElement
<1>4. CASE s \notin S
  <2>1. In(S)' = In(S) \ {i}
    BY <1>4 DEF In
  <2> QED BY <2>1, <1>1, <1>2, <1>4, FS_RemoveElement
<1> QED BY <1>3, <1>4

(* The counts the guard is about, when one device moves. *)
Moved(count, was, now) ==
  IF now THEN IF was THEN count ELSE count + 1 ELSE IF was THEN count - 1 ELSE count

LEMMA CountsMove ==
  ASSUME st \in [Item -> Status], NEW i \in Item, NEW s \in Status,
         st' = [st EXCEPT ![i] = s]
  PROVE  /\ Cardinality(In({"error"}))' =
                Moved(Cardinality(In({"error"})), st[i] = "error", s = "error")
         /\ Cardinality(In({"ok"}))' = Moved(Cardinality(In({"ok"})), st[i] = "ok", s = "ok")
         /\ Cardinality(In({"posting"}))' =
                Moved(Cardinality(In({"posting"})), st[i] = "posting", s = "posting")
         /\ Cardinality(Busy)' = Moved(Cardinality(Busy), st[i] \in {"picked", "posting"},
                                       s \in {"picked", "posting"})
<1>1. ASSUME NEW S
      PROVE  Cardinality(In(S))' = Moved(Cardinality(In(S)), st[i] \in S, s \in S)
  BY InMove DEF Moved
<1>2. Cardinality(In({"error"}))' = Moved(Cardinality(In({"error"})), st[i] = "error", s = "error")
  <2>1. Cardinality(In({"error"}))' =
          Moved(Cardinality(In({"error"})), st[i] \in {"error"}, s \in {"error"})
    BY <1>1
  <2> QED BY <2>1 DEF Moved
<1>3. Cardinality(In({"ok"}))' = Moved(Cardinality(In({"ok"})), st[i] = "ok", s = "ok")
  <2>1. Cardinality(In({"ok"}))' = Moved(Cardinality(In({"ok"})), st[i] \in {"ok"}, s \in {"ok"})
    BY <1>1
  <2> QED BY <2>1 DEF Moved
<1>4. Cardinality(In({"posting"}))' =
        Moved(Cardinality(In({"posting"})), st[i] = "posting", s = "posting")
  <2>1. Cardinality(In({"posting"}))' =
          Moved(Cardinality(In({"posting"})), st[i] \in {"posting"}, s \in {"posting"})
    BY <1>1
  <2> QED BY <2>1 DEF Moved
<1>5. Cardinality(Busy)' = Moved(Cardinality(Busy), st[i] \in {"picked", "posting"},
                                 s \in {"picked", "posting"})
  BY <1>1 DEF Busy
<1> QED BY <1>2, <1>3, <1>4, <1>5

LEMMA InitIInv == Init => IInv
<1> SUFFICES ASSUME Init PROVE IInv
  OBVIOUS
<1>1. \A S : "waiting" \notin S => In(S) = {}
  BY DEF Init, In
<1>2. /\ Cardinality(In({"error"})) = 0
      /\ Cardinality(In({"ok"})) = 0
      /\ Cardinality(Busy) = 0
      /\ Cardinality(In({"posting"})) = 0
  BY <1>1, FS_EmptySet DEF Busy
<1>3. TypeOK
  <2>1. st \in [Item -> Status]
    BY DEF Init, Status
  <2>2. raised \in BOOLEAN /\ aborted \in BOOLEAN
    BY DEF Init
  <2>3. submitted \in 0..N /\ returned \in 0..submitted /\ failures \in 0..N /\ successes \in 0..N
    BY SizesAssumption DEF Init
  <2> QED BY <2>1, <2>2, <2>3 DEF TypeOK
<1>4. InOrder
  BY DEF Init, InOrder, Item
<1>5. GuardInv
  BY <1>2, SizesAssumption DEF Init, GuardInv, CountersAgree
<1> QED BY <1>3, <1>4, <1>5 DEF IInv

(* Every step of a worker keeps the part of IInv that is not the guard's. *)
LEMMA WorkerKeepsRest ==
  ASSUME IInv, NEW i \in Item, NEW s \in Status \ {"waiting"},
         st[i] # "waiting", st' = [st EXCEPT ![i] = s],
         UNCHANGED <<submitted, returned, raised>>
  PROVE  /\ st' \in [Item -> Status]
         /\ submitted' \in 0..N /\ returned' \in 0..submitted'
         /\ raised' \in BOOLEAN
         /\ InOrder'
<1>1. st' \in [Item -> Status]
  BY DEF IInv, TypeOK
<1>2. submitted' \in 0..N /\ returned' \in 0..submitted' /\ raised' \in BOOLEAN
  BY DEF IInv, TypeOK
<1>3. InOrder'
  BY DEF IInv, TypeOK, InOrder
<1> QED BY <1>1, <1>2, <1>3

(* The counts IInv speaks of are numbers. *)
LEMMA Counts ==
  /\ Cardinality(In({"error"})) \in 0..N
  /\ Cardinality(In({"ok"})) \in 0..N
  /\ Cardinality(In({"posting"})) \in 0..N
  /\ Cardinality(Busy) \in 0..N
  /\ Cardinality(In({"error"}))' \in 0..N
  /\ Cardinality(In({"ok"}))' \in 0..N
  /\ Cardinality(In({"posting"})) <= Cardinality(Busy)
<1>1. /\ Cardinality(In({"error"})) \in 0..N
      /\ Cardinality(In({"ok"})) \in 0..N
      /\ Cardinality(In({"posting"})) \in 0..N
      /\ Cardinality(Busy) \in 0..N
  BY InFinite DEF Busy
<1>2. /\ Cardinality(In({"error"}))' \in 0..N
      /\ Cardinality(In({"ok"}))' \in 0..N
  BY InFinite
<1>3. In({"posting"}) \in SUBSET Busy
  BY DEF In, Busy
<1>4. Cardinality(In({"posting"})) <= Cardinality(Busy)
  BY <1>3, InFinite, FS_Subset DEF Busy
<1> QED BY <1>1, <1>2, <1>4

LEMMA PickKeeps ==
  ASSUME IInv, NEW i \in Item, Pick(i)
  PROVE  IInv'
<1>1. /\ st \in [Item -> Status]
      /\ st[i] = "queued"
      /\ st' = [st EXCEPT ![i] = "picked"]
      /\ Cardinality(Busy) < Concurrency
      /\ UNCHANGED <<submitted, returned, raised, aborted, failures, successes>>
  BY DEF IInv, TypeOK, Pick
<1>2. /\ Cardinality(In({"error"}))' = Cardinality(In({"error"}))
      /\ Cardinality(In({"ok"}))' = Cardinality(In({"ok"}))
      /\ Cardinality(In({"posting"}))' = Cardinality(In({"posting"}))
      /\ Cardinality(Busy)' = Cardinality(Busy) + 1
  BY <1>1, CountsMove DEF Status, Moved
<1>3. TypeOK' /\ InOrder'
  BY <1>1, WorkerKeepsRest DEF Status, IInv, TypeOK
<1>4. GuardInv'
  BY <1>1, <1>2, Counts, SizesAssumption DEF IInv, GuardInv, CountersAgree
<1> QED BY <1>3, <1>4 DEF IInv

LEMMA RefuseKeeps ==
  ASSUME IInv, NEW i \in Item, Refuse(i)
  PROVE  IInv'
<1>1. /\ st \in [Item -> Status]
      /\ st[i] = "picked"
      /\ st' = [st EXCEPT ![i] = "unattempted"]
      /\ UNCHANGED <<submitted, returned, raised, aborted, failures, successes>>
  BY DEF IInv, TypeOK, Refuse
<1>2. /\ Cardinality(In({"error"}))' = Cardinality(In({"error"}))
      /\ Cardinality(In({"ok"}))' = Cardinality(In({"ok"}))
      /\ Cardinality(In({"posting"}))' = Cardinality(In({"posting"}))
      /\ Cardinality(Busy)' = Cardinality(Busy) - 1
  BY <1>1, CountsMove DEF Status, Moved
<1>3. TypeOK' /\ InOrder'
  BY <1>1, WorkerKeepsRest DEF Status, IInv, TypeOK
<1>4. GuardInv'
  BY <1>1, <1>2, Counts, SizesAssumption DEF IInv, GuardInv, CountersAgree
<1> QED BY <1>3, <1>4 DEF IInv

LEMMA SendKeeps ==
  ASSUME IInv, NEW i \in Item, Send(i)
  PROVE  IInv'
<1>1. /\ st \in [Item -> Status]
      /\ st[i] = "picked"
      /\ ~aborted
      /\ st' = [st EXCEPT ![i] = "posting"]
      /\ UNCHANGED <<submitted, returned, raised, aborted, failures, successes>>
  BY DEF IInv, TypeOK, Send
<1>2. /\ Cardinality(In({"error"}))' = Cardinality(In({"error"}))
      /\ Cardinality(In({"ok"}))' = Cardinality(In({"ok"}))
      /\ Cardinality(Busy)' = Cardinality(Busy)
  BY <1>1, CountsMove DEF Status, Moved
<1>3. TypeOK' /\ InOrder'
  BY <1>1, WorkerKeepsRest DEF Status, IInv, TypeOK
<1>4. GuardInv'
  BY <1>1, <1>2, Counts, SizesAssumption DEF IInv, GuardInv, CountersAgree
<1> QED BY <1>3, <1>4 DEF IInv

LEMMA RecordSuccessKeeps ==
  ASSUME IInv, NEW i \in Item, RecordSuccess(i)
  PROVE  IInv'
<1>1. /\ st \in [Item -> Status]
      /\ st[i] = "posting"
      /\ st' = [st EXCEPT ![i] = "ok"]
      /\ successes' = successes + 1
      /\ UNCHANGED <<submitted, returned, raised, aborted, failures>>
  BY DEF IInv, TypeOK, RecordSuccess
<1>2. /\ Cardinality(In({"error"}))' = Cardinality(In({"error"}))
      /\ Cardinality(In({"ok"}))' = Cardinality(In({"ok"})) + 1
      /\ Cardinality(Busy)' = Cardinality(Busy) - 1
  BY <1>1, CountsMove DEF Status, Moved
<1>3. successes' \in 0..N /\ successes' # 0
  BY <1>1, <1>2, Counts, SizesAssumption DEF IInv, GuardInv, CountersAgree
<1>4. TypeOK' /\ InOrder'
  BY <1>1, <1>3, WorkerKeepsRest DEF Status, IInv, TypeOK
<1>5. GuardInv'
  BY <1>1, <1>2, <1>3, Counts, SizesAssumption DEF IInv, GuardInv, CountersAgree
<1> QED BY <1>4, <1>5 DEF IInv

LEMMA RecordFailureKeeps ==
  ASSUME IInv, NEW i \in Item, RecordFailure(i)
  PROVE  IInv'
<1> DEFINE Tripped == AbortAfterErrors > 0 /\ successes = 0 /\ failures + 1 >= AbortAfterErrors
<1>1. /\ st \in [Item -> Status]
      /\ st[i] = "posting"
      /\ st' = [st EXCEPT ![i] = "error"]
      /\ failures' = failures + 1
      /\ aborted' = (aborted \/ Tripped)
      /\ UNCHANGED <<submitted, returned, raised, successes>>
  BY DEF IInv, TypeOK, RecordFailure, Trips
<1>2. /\ Cardinality(In({"error"}))' = Cardinality(In({"error"})) + 1
      /\ Cardinality(In({"ok"}))' = Cardinality(In({"ok"}))
      /\ Cardinality(In({"posting"}))' = Cardinality(In({"posting"})) - 1
      /\ Cardinality(Busy)' = Cardinality(Busy) - 1
  BY <1>1, CountsMove DEF Status, Moved
<1>3. /\ failures' \in 0..N
      /\ CountersAgree'
      /\ (Cardinality(Busy) <= Concurrency)'
  BY <1>1, <1>2, Counts, SizesAssumption DEF IInv, GuardInv, CountersAgree
<1>4. aborted' \in BOOLEAN /\ (aborted' <=> aborted \/ Tripped)
  BY <1>1, Zenon DEF IInv, TypeOK
<1>5. TypeOK' /\ InOrder'
  BY <1>1, <1>3, <1>4, WorkerKeepsRest DEF Status, IInv, TypeOK
<1>6. aborted' => AbortAfterErrors > 0
  BY <1>4 DEF IInv, GuardInv
<1>7. ~aborted' /\ AbortAfterErrors > 0 /\ successes' = 0 => failures' < AbortAfterErrors
  <2> SUFFICES ASSUME ~Tripped, AbortAfterErrors > 0, successes = 0
               PROVE  failures' < AbortAfterErrors
    BY <1>1, <1>4
  <2> QED BY <1>1, <1>3, SizesAssumption
<1>8. aborted' /\ successes' = 0 =>
        failures' + Cardinality(In({"posting"}))' <= AbortAfterErrors + Concurrency - 1
  <2> SUFFICES ASSUME aborted \/ Tripped, successes = 0
               PROVE  failures + Cardinality(In({"posting"})) <= AbortAfterErrors + Concurrency - 1
    <3>1. /\ failures \in Nat
          /\ Cardinality(In({"posting"})) \in Nat
      BY Counts, SizesAssumption DEF IInv, TypeOK
    <3> QED BY <1>1, <1>2, <1>4, <3>1
  <2>1. CASE aborted
    BY <2>1 DEF IInv, GuardInv
  <2>2. CASE ~aborted /\ Tripped
    <3>1. failures < AbortAfterErrors
      BY <2>2 DEF IInv, GuardInv
    <3>2. failures + 1 = AbortAfterErrors
      BY <3>1, <2>2, <1>1, SizesAssumption DEF IInv, TypeOK
    <3>3. Cardinality(In({"posting"})) <= Concurrency
      BY Counts, SizesAssumption DEF IInv, GuardInv
    <3> QED BY <3>2, <3>3, Counts, SizesAssumption DEF IInv, TypeOK
  <2> QED BY <2>1, <2>2
<1>9. GuardInv'
  BY <1>3, <1>6, <1>7, <1>8 DEF GuardInv
<1> QED BY <1>5, <1>9 DEF IInv

LEMMA BodyRaisesKeeps ==
  ASSUME IInv, NEW i \in Item, BodyRaises(i)
  PROVE  IInv'
<1>1. /\ st \in [Item -> Status]
      /\ st[i] = "posting"
      /\ st' = [st EXCEPT ![i] = "badbody"]
      /\ UNCHANGED <<submitted, returned, raised, aborted, failures, successes>>
  BY DEF IInv, TypeOK, BodyRaises
<1>2. /\ Cardinality(In({"error"}))' = Cardinality(In({"error"}))
      /\ Cardinality(In({"ok"}))' = Cardinality(In({"ok"}))
      /\ Cardinality(In({"posting"}))' = Cardinality(In({"posting"})) - 1
      /\ Cardinality(Busy)' = Cardinality(Busy) - 1
  BY <1>1, CountsMove DEF Status, Moved
<1>3. TypeOK' /\ InOrder'
  BY <1>1, WorkerKeepsRest DEF Status, IInv, TypeOK
<1>4. GuardInv'
  BY <1>1, <1>2, Counts, SizesAssumption DEF IInv, GuardInv, CountersAgree, TypeOK
<1> QED BY <1>3, <1>4 DEF IInv

(* Submit, CollectException and Return move no device in or out of the sets *)
(* the guard counts.                                                        *)
LEMMA MainKeepsGuard ==
  ASSUME IInv, UNCHANGED <<aborted, failures, successes>>,
         \A i \in Item : st'[i] # st[i] =>
            {st[i], st'[i]} \cap {"ok", "error", "picked", "posting"} = {}
  PROVE  GuardInv'
<1>1. /\ In({"error"})' = In({"error"})
      /\ In({"ok"})' = In({"ok"})
      /\ In({"posting"})' = In({"posting"})
      /\ Busy' = Busy
  BY DEF In, Busy
<1> QED BY <1>1 DEF IInv, GuardInv, CountersAgree

LEMMA SubmitKeeps ==
  ASSUME IInv, Submit
  PROVE  IInv'
<1>1. /\ submitted' \in 0..N
      /\ submitted <= submitted'
      /\ returned' \in 0..submitted'
  BY SizesAssumption DEF Submit, BatchEnd, IInv, TypeOK
<1>2. \A i \in Item : st'[i] = IF submitted < i /\ i <= submitted' THEN "queued" ELSE st[i]
  BY DEF Submit, BatchEnd
<1>3. st' \in [Item -> Status]
  BY DEF Submit, BatchEnd, IInv, TypeOK, Status
<1>4. TypeOK'
  BY <1>1, <1>3 DEF Submit, BatchEnd, IInv, TypeOK
<1>5. InOrder'
  BY <1>1, <1>2 DEF IInv, InOrder, TypeOK, Item
<1>6. \A i \in Item : st'[i] # st[i] => st[i] = "waiting" /\ st'[i] = "queued"
  BY <1>2 DEF IInv, InOrder
<1>7. GuardInv'
  BY <1>6, MainKeepsGuard DEF Submit, BatchEnd
<1> QED BY <1>4, <1>5, <1>7 DEF IInv

LEMMA CollectExceptionKeeps ==
  ASSUME IInv, CollectException
  PROVE  IInv'
<1>1. \A i \in Item : st'[i] = IF st[i] = "queued" THEN "cancelled" ELSE st[i]
  BY DEF CollectException
<1>2. st' \in [Item -> Status]
  BY DEF CollectException, IInv, TypeOK, Status
<1>3. TypeOK'
  BY <1>2 DEF CollectException, IInv, TypeOK
<1>4. InOrder'
  BY <1>1 DEF CollectException, IInv, InOrder
<1>5. GuardInv'
  BY <1>1, MainKeepsGuard DEF CollectException
<1> QED BY <1>3, <1>4, <1>5 DEF IInv

LEMMA ReturnKeeps ==
  ASSUME IInv, Return
  PROVE  IInv'
<1>1. TypeOK'
  BY DEF Return, IInv, TypeOK
<1>2. InOrder'
  BY DEF Return, IInv, InOrder
<1>3. GuardInv'
  BY MainKeepsGuard DEF Return
<1> QED BY <1>1, <1>2, <1>3 DEF IInv

LEMMA StepKeepsIInv == IInv /\ [Next]_vars => IInv'
<1> SUFFICES ASSUME IInv, [Next]_vars PROVE IInv'
  OBVIOUS
<1>1. CASE Submit
  BY <1>1, SubmitKeeps
<1>2. ASSUME NEW i \in Item, Worker(i)
      PROVE  IInv'
  BY <1>2, PickKeeps, RefuseKeeps, SendKeeps, RecordSuccessKeeps, RecordFailureKeeps,
     BodyRaisesKeeps DEF Worker
<1>3. CASE CollectException
  BY <1>3, CollectExceptionKeeps
<1>4. CASE Return
  BY <1>4, ReturnKeeps
<1>5. CASE UNCHANGED vars
  BY <1>5 DEF vars, IInv, TypeOK, InOrder, GuardInv, CountersAgree, In, Busy
<1> QED BY <1>1, <1>2, <1>3, <1>4, <1>5 DEF Next

-----------------------------------------------------------------------------
(***************************************************************************)
(* In every reachable state the variables have their types, the devices    *)
(* not submitted are untouched and the guard's counters agree with the     *)
(* results of the threads.                                                 *)
(***************************************************************************)
THEOREM WriterInvariant == Spec => []IInv
<1>1. Init => IInv
  BY InitIInv
<1>2. IInv /\ [Next]_vars => IInv'
  BY StepKeepsIInv
<1> QED BY <1>1, <1>2, PTL DEF Spec

(* Type correctness of the writer, for every fleet and every configuration. *)
THEOREM WriterTypeOK == Spec => []TypeOK
<1>1. IInv => TypeOK
  BY DEF IInv
<1> QED BY <1>1, WriterInvariant, PTL

(***************************************************************************)
(* The bound on failing POSTs of a run in which nothing is written, for    *)
(* every number of devices, batch size, pool size and threshold.           *)
(***************************************************************************)
THEOREM WriterPostBudget == Spec => []PostBudget
<1>1. IInv => PostBudget
  <2> SUFFICES ASSUME IInv, AbortAfterErrors > 0, successes = 0
               PROVE  Cardinality(In({"posting", "error"})) <= AbortAfterErrors + Concurrency - 1
    BY DEF PostBudget
  <2>1. /\ IsFiniteSet(In({"posting"})) /\ IsFiniteSet(In({"error"}))
        /\ In({"posting", "error"}) = In({"posting"}) \cup In({"error"})
        /\ In({"posting"}) \cap In({"error"}) = {}
    BY InFinite DEF In
  <2>2. Cardinality(In({"posting", "error"})) = Cardinality(In({"posting"})) + failures
    <3>1. Cardinality(In({"posting"}) \cup In({"error"}))
            = Cardinality(In({"posting"})) + Cardinality(In({"error"})) - Cardinality({})
      BY <2>1, FS_Union
    <3>2. Cardinality({}) = 0
      BY FS_EmptySet
    <3>3. Cardinality(In({"posting", "error"}))
            = Cardinality(In({"posting"})) + Cardinality(In({"error"})) - 0
      BY <2>1, <3>1, <3>2, Zenon
    <3>4. failures = Cardinality(In({"error"}))
      BY DEF IInv, GuardInv, CountersAgree
    <3> QED BY <3>3, <3>4, Counts, SizesAssumption
  <2>3. CASE aborted
    BY <2>2, <2>3, Counts, SizesAssumption DEF IInv, GuardInv, TypeOK
  <2>4. CASE ~aborted
    <3>1. failures < AbortAfterErrors /\ Cardinality(In({"posting"})) <= Concurrency
      BY <2>4, Counts, SizesAssumption DEF IInv, GuardInv
    <3> QED BY <3>1, <2>2, Counts, SizesAssumption DEF IInv, TypeOK
  <2> QED BY <2>3, <2>4
<1> QED BY <1>1, WriterInvariant, PTL

-----------------------------------------------------------------------------
(* Only a tripped guard leaves a device unattempted. *)
OnlyAbortRefuses == \A i \in Item : st[i] = "unattempted" => aborted

(***************************************************************************)
(* A recorded success disarms the guard for the rest of the run.           *)
(***************************************************************************)
THEOREM WriterSuccessDisarms == Spec => SuccessDisarms
<1>1. Init => OnlyAbortRefuses
  BY DEF Init, OnlyAbortRefuses
<1>2. ASSUME IInv, OnlyAbortRefuses, [Next]_vars
      PROVE  /\ OnlyAbortRefuses'
             /\ (successes > 0 /\ ~aborted) => ~aborted' /\ \A i \in Item : st'[i] # "unattempted"
  <2>1. ASSUME NEW i \in Item, RecordFailure(i)
        PROVE  /\ aborted => aborted'
               /\ (successes > 0 /\ ~aborted) => ~aborted'
               /\ \A j \in Item : st'[j] = "unattempted" => st[j] = "unattempted"
    <3>1. aborted' <=> \/ aborted
                       \/ AbortAfterErrors > 0 /\ successes = 0 /\ failures' >= AbortAfterErrors
      BY <2>1, Zenon DEF RecordFailure, Trips, IInv, TypeOK
    <3>2. successes > 0 => successes # 0
      OBVIOUS
    <3>3. \A j \in Item : st'[j] = "unattempted" => st[j] = "unattempted"
      BY <2>1 DEF RecordFailure, Trips, IInv, TypeOK
    <3> QED BY <3>1, <3>2, <3>3
  <2>2. ASSUME NEW i \in Item, Refuse(i)
        PROVE  aborted /\ aborted'
    BY <2>2 DEF Refuse
  <2>3. ASSUME \/ UNCHANGED vars \/ Submit \/ CollectException \/ Return
               \/ \E i \in Item : Pick(i) \/ Send(i) \/ RecordSuccess(i) \/ BodyRaises(i)
        PROVE  /\ UNCHANGED aborted
               /\ \A j \in Item : st'[j] = "unattempted" => st[j] = "unattempted"
    <3>1. CASE UNCHANGED vars \/ Return
      BY <3>1 DEF vars, Return
    <3>2. CASE Submit \/ CollectException
      BY <3>2 DEF Submit, BatchEnd, CollectException
    <3>3. CASE \E i \in Item : Pick(i) \/ Send(i) \/ RecordSuccess(i) \/ BodyRaises(i)
      <4>1. PICK i \in Item : Pick(i) \/ Send(i) \/ RecordSuccess(i) \/ BodyRaises(i)
        BY <3>3
      <4>2. \E s \in {"picked", "posting", "ok", "badbody"} : st' = [st EXCEPT ![i] = s]
        BY <4>1, Zenon DEF Pick, Send, RecordSuccess, BodyRaises
      <4>3. UNCHANGED aborted
        BY <4>1 DEF Pick, Send, RecordSuccess, BodyRaises
      <4> QED BY <4>2, <4>3 DEF IInv, TypeOK
    <3> QED BY <2>3, <3>1, <3>2, <3>3
  <2>4. \/ \E i \in Item : RecordFailure(i)
        \/ \E i \in Item : Refuse(i)
        \/ UNCHANGED vars \/ Submit \/ CollectException \/ Return
        \/ \E i \in Item : Pick(i) \/ Send(i) \/ RecordSuccess(i) \/ BodyRaises(i)
    BY <1>2 DEF Next, Worker
  <2> QED BY <1>2, <2>1, <2>2, <2>3, <2>4 DEF OnlyAbortRefuses
<1>3. OnlyAbortRefuses /\ IInv /\ [Next]_vars => OnlyAbortRefuses'
  BY <1>2
<1>4. OnlyAbortRefuses /\ IInv /\ [Next]_vars =>
        [(successes > 0 /\ ~aborted) =>
            /\ ~aborted'
            /\ \A i \in Item : st'[i] # "unattempted"]_vars
  BY <1>2
<1> QED BY <1>1, <1>3, <1>4, WriterInvariant, PTL DEF Spec, SuccessDisarms

-----------------------------------------------------------------------------
(* A failing device: what lets an exception out of write().                *)

(* Only a body that was no JSON raises, and only where there are such bodies. *)
RaisedByBody ==
  /\ raised => \E i \in Item : st[i] = "badbody"
  /\ (\E i \in Item : st[i] = "badbody") => BadBodies

LEMMA StepKeepsRaisedByBody == IInv /\ RaisedByBody /\ [Next]_vars => RaisedByBody'
<1> SUFFICES ASSUME IInv, RaisedByBody, [Next]_vars PROVE RaisedByBody'
  OBVIOUS
<1>1. ASSUME NEW i \in Item, Worker(i) PROVE RaisedByBody'
  <2>1. PICK s \in Status :
          /\ st' = [st EXCEPT ![i] = s] /\ UNCHANGED raised
          /\ st[i] \in {"queued", "picked", "posting"}
          /\ s = "badbody" => BadBodies
    BY <1>1, Zenon
       DEF Worker, Pick, Refuse, Send, RecordSuccess, RecordFailure, BodyRaises, Status
  <2>2. \A j \in Item : st'[j] = IF j = i THEN s ELSE st[j]
    BY <2>1 DEF IInv, TypeOK
  <2>3. \A j \in Item : st[j] = "badbody" => st'[j] = "badbody"
    BY <2>1, <2>2
  <2> QED BY <2>1, <2>2, <2>3 DEF RaisedByBody
<1>2. CASE Submit
  <2>1. \A i \in Item : st[i] = "badbody" <=> st'[i] = "badbody"
    BY <1>2 DEF Submit, BatchEnd, IInv, InOrder
  <2> QED BY <1>2, <2>1 DEF Submit, RaisedByBody
<1>3. CASE CollectException
  <2>1. \A i \in Item : st[i] = "badbody" <=> st'[i] = "badbody"
    BY <1>3 DEF CollectException
  <2>2. \E i \in Item : st[i] = "badbody"
    BY <1>3 DEF CollectException, Batch
  <2> QED BY <2>1, <2>2 DEF RaisedByBody
<1>4. CASE Return \/ UNCHANGED vars
  BY <1>4 DEF Return, vars, RaisedByBody
<1> QED BY <1>1, <1>2, <1>3, <1>4 DEF Next

(***************************************************************************)
(* write() raises only where the answer to one of its devices had a body   *)
(* that is no JSON (_write_one catches everything else): the one case in   *)
(* which a failing device sinks the run.                                   *)
(***************************************************************************)
THEOREM WriterRaisedByBody == Spec => []RaisedByBody
<1>1. Init => RaisedByBody
  BY DEF Init, RaisedByBody
<1> QED BY <1>1, WriterInvariant, StepKeepsRaisedByBody, PTL DEF Spec

(***************************************************************************)
(* Where every 2xx answer has a JSON body, the comment on _write_one holds *)
(* as it stands: no device's failure ends the run.                         *)
(***************************************************************************)
THEOREM WriterOneFailureDoesNotSinkTheRun ==
  ASSUME BadBodies = FALSE PROVE Spec => []OneFailureDoesNotSinkTheRun
<1>1. RaisedByBody => OneFailureDoesNotSinkTheRun
  BY DEF RaisedByBody, OneFailureDoesNotSinkTheRun
<1> QED BY <1>1, WriterRaisedByBody, PTL

-----------------------------------------------------------------------------
(***************************************************************************)
(* That a call ends, short of fairness: the work left is a number that     *)
(* every step of any thread makes smaller, and until the call is over some *)
(* thread can take its next step.  Each device counts once for each of the *)
(* steps it has before it.                                                 *)
(***************************************************************************)
Untouched == {"waiting"}
Unpicked  == Untouched \cup {"queued"}
Unsent    == Unpicked \cup {"picked"}
Unsettled == Unsent \cup {"posting"}

WorkLeft ==
  Cardinality(In(Untouched)) + Cardinality(In(Unpicked)) + Cardinality(In(Unsent))
    + Cardinality(In(Unsettled)) + (N - returned) + (IF raised THEN 0 ELSE 1)

(* Some worker, or the thread that collects the results, can go on. *)
SomebodyCanStep ==
  \/ Busy # {}
  \/ In({"queued"}) # {} /\ Cardinality(Busy) < Concurrency
  \/ ~raised /\ Batch # {} /\ \A i \in Batch : st[i] \in Final \ {"badbody"}
  \/ ~raised /\ \E r \in Batch : st[r] = "badbody" /\ \A j \in Batch : j < r => st[j] \in Final

(* Nobody waits for a worker that is gone or a device nobody will settle. *)
NobodyWaitsForNobody ==
  (returned < submitted /\ ~(raised /\ Busy = {})) => SomebodyCanStep

LEMMA Stages ==
  ASSUME IInv
  PROVE  \A S : Cardinality(In(S)) \in Nat /\ Cardinality(In(S))' \in Nat
BY InFinite, SizesAssumption

(* A set of devices that does not grow, or that shrinks. *)
LEMMA InShrinks ==
  ASSUME NEW S, In(S)' \subseteq In(S)
  PROVE  /\ Cardinality(In(S))' <= Cardinality(In(S))
         /\ In(S)' # In(S) => Cardinality(In(S))' < Cardinality(In(S))
<1>1. IsFiniteSet(In(S)) BY InFinite
<1>2. \A T \in SUBSET In(S) : Cardinality(T) <= Cardinality(In(S))
                              /\ (Cardinality(T) = Cardinality(In(S)) => T = In(S))
  BY <1>1, FS_Subset
<1>3. Cardinality(In(S)') <= Cardinality(In(S)) BY <1>2
<1>4. In(S)' # In(S) => Cardinality(In(S)') # Cardinality(In(S)) BY <1>2
<1>5. Cardinality(In(S)) \in Nat /\ Cardinality(In(S))' \in Nat
  BY InFinite, SizesAssumption
<1> QED BY <1>3, <1>4, <1>5

(* Terms of which none grows and one shrinks. *)
LEMMA SumLess ==
  ASSUME NEW a \in Nat, NEW b \in Nat, NEW c \in Nat, NEW d \in Nat, NEW e \in Nat,
         NEW f \in Nat, NEW p \in Nat, NEW q \in Nat, NEW r \in Nat, NEW s \in Nat,
         NEW t \in Nat, NEW u \in Nat,
         p <= a, q <= b, r <= c, s <= d, t >= e, u <= f,
         p < a \/ q < b \/ r < c \/ s < d \/ t > e \/ u < f
  PROVE  p + q + r + s + (N - t) + u < a + b + c + d + (N - e) + f
BY SizesAssumption

(* A step by which no device goes back, and one goes on or a call is over. *)
LEMMA LessLeft ==
  ASSUME IInv, IInv',
         In(Untouched)' \subseteq In(Untouched), In(Unpicked)' \subseteq In(Unpicked),
         In(Unsent)' \subseteq In(Unsent), In(Unsettled)' \subseteq In(Unsettled),
         returned <= returned', raised => raised',
         \/ In(Untouched)' # In(Untouched) \/ In(Unpicked)' # In(Unpicked)
         \/ In(Unsent)' # In(Unsent) \/ In(Unsettled)' # In(Unsettled)
         \/ returned < returned' \/ (raised' /\ ~raised)
  PROVE  WorkLeft' < WorkLeft
<1>1. /\ returned \in Nat /\ returned' \in Nat /\ N \in Nat
      /\ raised \in BOOLEAN /\ raised' \in BOOLEAN
  BY SizesAssumption DEF IInv, TypeOK
<1> DEFINE a == Cardinality(In(Untouched))
           b == Cardinality(In(Unpicked))
           c == Cardinality(In(Unsent))
           d == Cardinality(In(Unsettled))
           e == IF raised THEN 0 ELSE 1
<1>2. /\ a \in Nat /\ b \in Nat /\ c \in Nat /\ d \in Nat
      /\ a' \in Nat /\ b' \in Nat /\ c' \in Nat /\ d' \in Nat
  BY Stages
<1>3. a' <= a /\ b' <= b /\ c' <= c /\ d' <= d
  BY InShrinks
<1>4. e' <= e /\ e \in Nat /\ e' \in Nat OBVIOUS
<1>5. a' < a \/ b' < b \/ c' < c \/ d' < d \/ returned < returned' \/ e' < e
  BY InShrinks
<1>6. WorkLeft = a + b + c + d + (N - returned) + e
  BY DEF WorkLeft
<1>7. WorkLeft' = a' + b' + c' + d' + (N - returned') + e'
  BY DEF WorkLeft
<1>8. returned <= returned' OBVIOUS
<1> HIDE DEF a, b, c, d, e
<1>9. a' + b' + c' + d' + (N - returned') + e' < a + b + c + d + (N - returned) + e
  BY <1>1, <1>2, <1>3, <1>4, <1>5, <1>8, SumLess
<1> QED BY <1>6, <1>7, <1>9

LEMMA StepLeavesLess == ASSUME IInv, IInv', Next PROVE WorkLeft' < WorkLeft
<1> USE DEF Untouched, Unpicked, Unsent, Unsettled
<1>1. ASSUME NEW i \in Item, Worker(i) PROVE WorkLeft' < WorkLeft
  <2>1. PICK s \in Status :
          /\ st' = [st EXCEPT ![i] = s] /\ UNCHANGED <<returned, raised>>
          /\ \/ st[i] = "queued" /\ s = "picked"
             \/ st[i] = "picked" /\ s \in {"unattempted", "posting"}
             \/ st[i] = "posting" /\ s \in {"ok", "error", "badbody"}
    BY <1>1, Zenon
       DEF Worker, Pick, Refuse, Send, RecordSuccess, RecordFailure, BodyRaises, Status
  <2>2. \A j \in Item : st'[j] = IF j = i THEN s ELSE st[j]
    BY <2>1 DEF IInv, TypeOK
  <2>3. /\ In(Untouched)' \subseteq In(Untouched) /\ In(Unpicked)' \subseteq In(Unpicked)
        /\ In(Unsent)' \subseteq In(Unsent) /\ In(Unsettled)' \subseteq In(Unsettled)
    BY <2>1, <2>2 DEF In
  <2>4. CASE st[i] = "queued"
    <3>1. i \in In(Unpicked) /\ i \notin In(Unpicked)' BY <2>1, <2>2, <2>4 DEF In
    <3> QED BY <2>1, <2>3, <3>1, LessLeft DEF IInv, TypeOK
  <2>5. CASE st[i] = "picked"
    <3>1. i \in In(Unsent) /\ i \notin In(Unsent)' BY <2>1, <2>2, <2>5 DEF In
    <3> QED BY <2>1, <2>3, <3>1, LessLeft DEF IInv, TypeOK
  <2>6. CASE st[i] = "posting"
    <3>1. i \in In(Unsettled) /\ i \notin In(Unsettled)' BY <2>1, <2>2, <2>6 DEF In
    <3> QED BY <2>1, <2>3, <3>1, LessLeft DEF IInv, TypeOK
  <2> QED BY <2>1, <2>4, <2>5, <2>6
<1>2. CASE Submit
  <2>1. submitted < submitted' /\ submitted' \in 0..N /\ submitted \in 0..N
    BY <1>2, SizesAssumption DEF Submit, BatchEnd, IInv, TypeOK
  <2>2. \A i \in Item : st'[i] = IF submitted < i /\ i <= submitted' THEN "queued" ELSE st[i]
    BY <1>2 DEF Submit, BatchEnd
  <2>3. \A i \in Item : submitted < i => st[i] = "waiting"
    BY DEF IInv, InOrder
  <2>4. /\ In(Untouched)' \subseteq In(Untouched) /\ In(Unpicked)' \subseteq In(Unpicked)
        /\ In(Unsent)' \subseteq In(Unsent) /\ In(Unsettled)' \subseteq In(Unsettled)
    BY <2>2, <2>3 DEF In
  <2>5. submitted' \in Item /\ submitted' \in In(Untouched) /\ submitted' \notin In(Untouched)'
    BY <2>1, <2>2, <2>3, SizesAssumption DEF In, Item
  <2> QED BY <1>2, <2>4, <2>5, LessLeft DEF Submit, IInv, TypeOK
<1>3. CASE CollectException
  <2>1. \A i \in Item : st'[i] = IF st[i] = "queued" THEN "cancelled" ELSE st[i]
    BY <1>3 DEF CollectException
  <2>2. /\ In(Untouched)' \subseteq In(Untouched) /\ In(Unpicked)' \subseteq In(Unpicked)
        /\ In(Unsent)' \subseteq In(Unsent) /\ In(Unsettled)' \subseteq In(Unsettled)
    BY <2>1 DEF In
  <2> QED BY <1>3, <2>2, LessLeft DEF CollectException, IInv, TypeOK
<1>4. CASE Return
  <2>1. returned < returned'
    BY <1>4, SizesAssumption DEF Return, Batch, IInv, TypeOK, Item
  <2>2. UNCHANGED <<st, raised>> BY <1>4 DEF Return
  <2> QED BY <2>1, <2>2, LessLeft DEF In, IInv, TypeOK
<1> QED BY <1>1, <1>2, <1>3, <1>4 DEF Next

LEMMA NobodyWaits == IInv => NobodyWaitsForNobody
<1> SUFFICES ASSUME IInv, returned < submitted, ~(raised /\ Busy = {}), Busy = {},
                    In({"queued"}) = {}
             PROVE  /\ ~raised
                    /\ \/ Batch # {} /\ \A i \in Batch : st[i] \in Final \ {"badbody"}
                       \/ \E r \in Batch : /\ st[r] = "badbody"
                                           /\ \A j \in Batch : j < r => st[j] \in Final
  <2>1. Cardinality({}) = 0 BY FS_EmptySet
  <2> QED BY <2>1, SizesAssumption DEF NobodyWaitsForNobody, SomebodyCanStep
<1>1. ~raised OBVIOUS
<1>2. Batch # {}
  <2>1. submitted \in Item /\ submitted \in Batch
    BY SizesAssumption DEF Batch, IInv, TypeOK, Item
  <2> QED BY <2>1
<1>3. ASSUME NEW i \in Batch PROVE st[i] \in Final
  <2>1. i \in Item /\ ~(submitted < i)
    BY SizesAssumption DEF Batch, IInv, TypeOK, Item
  <2>2. st[i] # "waiting" BY <2>1 DEF IInv, InOrder
  <2>3. st[i] \notin {"queued", "picked", "posting"} BY <2>1 DEF Busy, In
  <2> QED BY <2>1, <2>2, <2>3 DEF IInv, TypeOK, Status, Final
<1> QED BY <1>1, <1>2, <1>3

(***************************************************************************)
(* However the threads interleave, every step leaves less work, and a run  *)
(* has no more than 5N + 1 of them.                                        *)
(***************************************************************************)
THEOREM WriterWorkShrinks ==
  Spec => [](WorkLeft \in 0..(5 * N + 1)) /\ [][WorkLeft' < WorkLeft]_vars
<1>1. IInv => WorkLeft \in 0..(5 * N + 1)
  <2> SUFFICES ASSUME IInv PROVE WorkLeft \in 0..(5 * N + 1) OBVIOUS
  <2>1. \A S : Cardinality(In(S)) \in 0..N BY InFinite
  <2>2. returned \in 0..N /\ N \in Nat BY SizesAssumption DEF IInv, TypeOK
  <2>3. (IF raised THEN 0 ELSE 1) \in 0..1 OBVIOUS
  <2> QED BY <2>1, <2>2, <2>3 DEF WorkLeft
<1>2. IInv /\ IInv' /\ [Next]_vars => [WorkLeft' < WorkLeft]_vars
  BY StepLeavesLess
<1> QED BY <1>1, <1>2, WriterInvariant, PTL DEF Spec

(***************************************************************************)
(* No call of write() hangs: until it has returned, or raised with the     *)
(* pool joined, one of the threads can go on; the pool is never full of    *)
(* devices nobody works on, and no future waits for a cancelled one.       *)
(***************************************************************************)
THEOREM WriterNobodyWaitsForNobody == Spec => []NobodyWaitsForNobody
<1> QED BY WriterInvariant, NobodyWaits, PTL
=============================================================================
