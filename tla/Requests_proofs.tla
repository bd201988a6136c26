-------------------------- MODULE Requests_proofs --------------------------
(***************************************************************************)
(* What holds of Requests for any number of threads, retries and requests  *)
(* and any times: who refreshes the token, how fresh it is when used, how  *)
(* long a request may take, and that none is stuck.                        *)
(*                                                                         *)
(* TypeOK is proved in two parts, locked \in BOOLEAN apart from the rest,  *)
(* because the two need different provers.                                 *)
(***************************************************************************)
EXTENDS Requests, FiniteSetTheorems, TLAPS

NumbersOK ==
  /\ now \in Nat
  /\ token \in Nat
  /\ expiresAt \in Nat
  /\ pc \in [Thread -> Pcs]
  /\ header \in [Thread -> Nat]
  /\ attempt \in [Thread -> 0..(MaxRetries + 1)]
  /\ due \in [Thread -> Nat]
  /\ made \in [Thread -> Nat]
  /\ started \in [Thread -> Nat]

-----------------------------------------------------------------------------
LEMMA TypeSplits == TypeOK <=> NumbersOK /\ locked \in BOOLEAN
BY Zenon DEF TypeOK, NumbersOK

LEMMA InitStateInv == Init => StateInv
<1> SUFFICES ASSUME Init PROVE StateInv
  OBVIOUS
<1>1. NumbersOK
  BY TimesAssumption DEF Init, NumbersOK, Pcs
<1>2. locked \in BOOLEAN
  BY Zenon DEF Init
<1>3. LockInv
  <2>1. ~locked
    BY Zenon DEF Init
  <2> QED BY <2>1 DEF Init, LockInv
<1>4. FreshInv
  BY DEF Init, FreshInv
<1> QED BY <1>1, <1>2, <1>3, <1>4, TypeSplits DEF StateInv

(* What a thread leaves alone while the lock and the token stay as they are. *)
LEMMA LocalKeepsLock ==
  ASSUME StateInv, NEW t \in Thread, UNCHANGED <<now, token, expiresAt, locked>>,
         NEW s \in Pcs \ {"fetching"}, pc' = [pc EXCEPT ![t] = s]
  PROVE  LockInv' /\ locked' \in BOOLEAN
<1>1. LockInv'
  BY DEF StateInv, TypeOK, LockInv, Cached
<1>2. locked' \in BOOLEAN
  BY Zenon DEF StateInv, TypeOK
<1> QED BY <1>1, <1>2

(* A request that ends and gives back the lock if it held it. *)
LEMMA EndsKeeps ==
  ASSUME StateInv, NEW t \in Thread, Ends(t), UNCHANGED <<now, token, expiresAt, made>>,
         \/ UNCHANGED locked
         \/ pc[t] = "fetching" /\ ~locked' /\ locked' \in BOOLEAN
  PROVE  StateInv'
<1>1. NumbersOK'
  BY TimesAssumption DEF StateInv, TypeOK, NumbersOK, Ends, Pcs
<1>2. locked' \in BOOLEAN
  BY Zenon DEF StateInv, TypeOK
<1>3. LockInv'
  BY DEF StateInv, TypeOK, LockInv, Ends, Cached
<1>4. FreshInv'
  BY DEF StateInv, TypeOK, FreshInv, Ends
<1> QED BY <1>1, <1>2, <1>3, <1>4, TypeSplits DEF StateInv, TypeOK, NumbersOK

LEMMA StartKeeps ==
  ASSUME StateInv, NEW t \in Thread, Start(t)
  PROVE  StateInv'
<1>1. NumbersOK'
  BY DEF StateInv, TypeOK, NumbersOK, Start, Pcs
<1>2. LockInv' /\ locked' \in BOOLEAN
  BY LocalKeepsLock DEF Start, Pcs
<1>3. FreshInv'
  BY DEF StateInv, TypeOK, FreshInv, Start
<1> QED BY <1>1, <1>2, <1>3 DEF StateInv, TypeOK, NumbersOK

LEMMA UseCachedKeeps ==
  ASSUME StateInv, NEW t \in Thread, UseCached(t)
  PROVE  StateInv'
<1>1. NumbersOK'
  BY TimesAssumption DEF StateInv, TypeOK, NumbersOK, UseCached, Attempts, Pcs
<1>2. LockInv' /\ locked' \in BOOLEAN
  BY LocalKeepsLock DEF UseCached, Attempts, Pcs
<1>3. FreshInv'
  <2>1. LongLived => now + Skew <= token
    BY TimesAssumption DEF StateInv, TypeOK, FreshInv, UseCached, Cached
  <2> QED BY <2>1 DEF StateInv, TypeOK, FreshInv, UseCached, Attempts
<1> QED BY <1>1, <1>2, <1>3 DEF StateInv, TypeOK, NumbersOK

LEMMA BeginFetchKeeps ==
  ASSUME StateInv, NEW t \in Thread, BeginFetch(t)
  PROVE  StateInv'
<1>1. NumbersOK'
  BY TimesAssumption DEF StateInv, TypeOK, NumbersOK, BeginFetch, Pcs
<1>2. locked' \in BOOLEAN
  BY Zenon DEF BeginFetch
<1>3. LockInv'
  BY DEF StateInv, TypeOK, LockInv, BeginFetch, Cached
<1>4. FreshInv'
  BY DEF StateInv, TypeOK, FreshInv, BeginFetch
<1> QED BY <1>1, <1>2, <1>3, <1>4 DEF StateInv, TypeOK, NumbersOK

(* The token just fetched is due Skew before it expires. *)
LEMMA FetchedKeeps ==
  ASSUME StateInv, NEW t \in Thread, Fetched(t)
  PROVE  StateInv'
<1>1. PICK life \in Lifetimes :
        /\ token' = now + life
        /\ expiresAt' = RefreshAt(life)
        /\ Attempts(t, now + life)
  BY DEF Fetched
<1>2. /\ life \in Nat
      /\ expiresAt' \in Nat
      /\ LongLived => expiresAt' + Skew <= token' /\ now + Skew <= token'
  BY <1>1, TimesAssumption DEF RefreshAt, Most, LongLived, StateInv, TypeOK
<1>3. NumbersOK'
  BY <1>1, <1>2, TimesAssumption DEF StateInv, TypeOK, NumbersOK, Fetched, Attempts, Pcs
<1>4. locked' \in BOOLEAN /\ ~locked' /\ pc[t] = "fetching"
  BY Zenon DEF Fetched
<1>5. LockInv'
  <2>1. pc' = [pc EXCEPT ![t] = "ready"]
    BY <1>1 DEF Attempts
  <2>2. \A u \in Thread : pc'[u] # "fetching"
    BY <1>4, <2>1 DEF StateInv, TypeOK, LockInv
  <2> QED BY <1>4, <2>2 DEF LockInv
<1>6. FreshInv'
  <2>1. \A u \in Thread \ {t} :
          pc'[u] = pc[u] /\ attempt'[u] = attempt[u] /\ header'[u] = header[u]
    BY <1>1 DEF Attempts, StateInv, TypeOK
  <2>2. pc'[t] = "ready" /\ attempt'[t] = 1 /\ header'[t] = token'
    BY <1>1 DEF Attempts, StateInv, TypeOK
  <2>3. now' = now
    BY DEF Fetched
  <2> QED BY <1>2, <2>1, <2>2, <2>3 DEF StateInv, TypeOK, FreshInv
<1> QED BY <1>3, <1>4, <1>5, <1>6 DEF StateInv, TypeOK, NumbersOK

LEMMA FetchFailsKeeps ==
  ASSUME StateInv, NEW t \in Thread, FetchFails(t)
  PROVE  StateInv'
<1>1. pc[t] = "fetching" /\ ~locked' /\ locked' \in BOOLEAN
  BY Zenon DEF FetchFails
<1>2. Ends(t) /\ UNCHANGED <<now, token, expiresAt, made>>
  BY DEF FetchFails
<1> QED BY <1>1, <1>2, EndsKeeps

LEMMA SendKeeps ==
  ASSUME StateInv, NEW t \in Thread, Send(t)
  PROVE  StateInv'
<1>1. NumbersOK'
  BY TimesAssumption DEF StateInv, TypeOK, NumbersOK, Send, Pcs
<1>2. LockInv' /\ locked' \in BOOLEAN
  BY LocalKeepsLock DEF Send, Pcs
<1>3. FreshInv'
  BY DEF StateInv, TypeOK, FreshInv, Send
<1> QED BY <1>1, <1>2, <1>3 DEF StateInv, TypeOK, NumbersOK

(* Every delay is capped, so the end of the sleep is an instant. *)
LEMMA ThrottledKeeps ==
  ASSUME StateInv, NEW t \in Thread, Throttled(t)
  PROVE  StateInv'
<1>1. PICK delay \in Hinted \cup Jittered(attempt[t]) : due' = [due EXCEPT ![t] = now + delay]
  BY DEF Throttled
<1>2. delay \in Nat
  <2>1. CASE delay \in Hinted
    BY <2>1, TimesAssumption DEF Hinted, Least
  <2>2. CASE delay \in Jittered(attempt[t])
    BY <2>2 DEF Jittered
  <2> QED BY <1>1, <2>1, <2>2
<1>3. NumbersOK'
  BY <1>1, <1>2 DEF StateInv, TypeOK, NumbersOK, Throttled, Pcs
<1>4. LockInv' /\ locked' \in BOOLEAN
  BY LocalKeepsLock DEF Throttled, Pcs
<1>5. FreshInv'
  BY TimesAssumption DEF StateInv, TypeOK, FreshInv, Throttled, RetryLeft
<1> QED BY <1>3, <1>4, <1>5 DEF StateInv, TypeOK, NumbersOK

LEMMA WakeKeeps ==
  ASSUME StateInv, NEW t \in Thread, Wake(t)
  PROVE  StateInv'
<1>1. attempt[t] \in 1..MaxRetries
  BY DEF StateInv, FreshInv, Wake
<1>2. NumbersOK'
  BY <1>1, TimesAssumption DEF StateInv, TypeOK, NumbersOK, Wake, Pcs
<1>3. LockInv' /\ locked' \in BOOLEAN
  BY LocalKeepsLock DEF Wake, Pcs
<1>4. FreshInv'
  BY <1>1, TimesAssumption DEF StateInv, TypeOK, FreshInv, Wake
<1> QED BY <1>2, <1>3, <1>4 DEF StateInv, TypeOK, NumbersOK

(* Time passes only while no thread is about to send. *)
LEMMA TickKeeps ==
  ASSUME StateInv, Tick
  PROVE  StateInv'
<1>1. /\ now' = now + 1
      /\ UNCHANGED <<token, expiresAt, pc, header, attempt, due, made, started>>
      /\ \A t \in Thread : pc[t] # "ready"
  BY DEF Tick, Waits
<1>2. locked' = locked
  BY Zenon DEF Tick
<1>3. NumbersOK'
  BY <1>1 DEF StateInv, TypeOK, NumbersOK
<1>4. locked' \in BOOLEAN
  BY <1>2, Zenon DEF StateInv, TypeOK
<1>5. LockInv'
  BY <1>1, <1>2 DEF StateInv, TypeOK, LockInv, Cached
<1>6. FreshInv'
  BY <1>1 DEF StateInv, TypeOK, FreshInv
<1> QED BY <1>3, <1>4, <1>5, <1>6 DEF StateInv, TypeOK, NumbersOK

-----------------------------------------------------------------------------
LEMMA ActKeeps ==
  ASSUME StateInv, NEW t \in Thread, Act(t)
  PROVE  StateInv'
<1>1. CASE UseCached(t)   BY <1>1, UseCachedKeeps
<1>2. CASE BeginFetch(t)  BY <1>2, BeginFetchKeeps
<1>3. CASE Fetched(t)     BY <1>3, FetchedKeeps
<1>4. CASE FetchFails(t)  BY <1>4, FetchFailsKeeps
<1>5. CASE Send(t)        BY <1>5, SendKeeps
<1>6. CASE Answered(t)    BY <1>6, EndsKeeps DEF Answered
<1>7. CASE Throttled(t)   BY <1>7, ThrottledKeeps
<1>8. CASE GivesUp(t)     BY <1>8, EndsKeeps DEF GivesUp
<1>9. CASE Wake(t)        BY <1>9, WakeKeeps
<1> QED BY <1>1, <1>2, <1>3, <1>4, <1>5, <1>6, <1>7, <1>8, <1>9 DEF Act

LEMMA StepKeepsStateInv == StateInv /\ [Next]_vars => StateInv'
<1> SUFFICES ASSUME StateInv, [Next]_vars PROVE StateInv'
  OBVIOUS
<1>1. CASE Tick
  BY <1>1, TickKeeps
<1>2. ASSUME NEW t \in Thread, Start(t) \/ Act(t) PROVE StateInv'
  BY <1>2, StartKeeps, ActKeeps
<1>3. CASE UNCHANGED vars
  BY <1>3 DEF vars, StateInv, TypeOK, LockInv, FreshInv, Cached
<1> QED BY <1>1, <1>2, <1>3 DEF Next

(* The threads agree on who refreshes the token, and none sends its first *)
(* attempt with one about to expire: ServiceNowAuth.token() and request(). *)
LEMMA RequestsStateInv == Spec => []StateInv
BY InitStateInv, StepKeepsStateInv, PTL DEF Spec

(* Every variable keeps its type; `attempt` never passes _max_retries + 1. *)
THEOREM RequestsTypeOK == Spec => []TypeOK
<1>1. StateInv => TypeOK
  BY DEF StateInv
<1> QED BY RequestsStateInv, <1>1, PTL

(* A token that is not due is never replaced, however many threads ask. *)
THEOREM RequestsRefreshOnlyWhenDue == Spec => RefreshOnlyWhenDue
<1>1. StateInv /\ [Next]_vars => [token' # token => ~Cached]_vars
  <2> SUFFICES ASSUME StateInv, Next, token' # token PROVE ~Cached
    OBVIOUS
  <2>1. PICK t \in Thread : Fetched(t)
    BY DEF Next, Tick, Start, Act, UseCached, BeginFetch, FetchFails, Send, Answered,
           Throttled, GivesUp, Wake
  <2> QED BY <2>1 DEF StateInv, LockInv, Fetched
<1> QED BY RequestsStateInv, <1>1, PTL DEF Spec, RefreshOnlyWhenDue

(* The first attempt carries a token good for EXPIRY_SKEW_SECONDS more. *)
THEOREM RequestsFirstAttemptFresh == Spec => FirstAttemptFresh
<1>1. StateInv => \A t \in Thread :
        (LongLived /\ pc[t] = "ready" /\ attempt[t] = 1) => now + Skew <= header[t]
  BY DEF StateInv, FreshInv
<1>2. StateInv /\ [Next]_vars =>
        [\A t \in Thread :
           (LongLived /\ pc[t] = "ready" /\ pc'[t] = "sent" /\ attempt[t] = 1) =>
             now + Skew <= header[t]]_vars
  BY <1>1
<1> QED BY RequestsStateInv, <1>2, PTL DEF Spec, FirstAttemptFresh
-----------------------------------------------------------------------------
(* How long things take.  The products are compared once, here. *)
LEMMA Times ==
  /\ \A n \in Nat : Spent(n) \in Nat /\ Spent(n + 1) = Spent(n) + AttemptTime + Cap
  /\ \A m, n \in Nat : m <= n => Spent(m) <= Spent(n)
  /\ Longest = Spent(MaxRetries) + AttemptTime
<1> DEFINE queue == PerThread * Cardinality(Thread) * AttemptTime
<1>1. queue \in Nat
  BY TimesAssumption, FS_CardinalityType
<1>2. \A n \in Nat : n * (AttemptTime + Cap) \in Nat
                    /\ (n + 1) * (AttemptTime + Cap) = n * (AttemptTime + Cap) + AttemptTime + Cap
  BY TimesAssumption
<1>3. \A m, n \in Nat : m <= n => m * (AttemptTime + Cap) <= n * (AttemptTime + Cap)
  BY TimesAssumption
<1>4. (MaxRetries + 1) * AttemptTime + MaxRetries * Cap
        = MaxRetries * (AttemptTime + Cap) + AttemptTime
  BY TimesAssumption
<1>5. /\ MaxRetries * (AttemptTime + Cap) \in Nat
      /\ (MaxRetries + 1) * AttemptTime \in Nat
      /\ MaxRetries * Cap \in Nat
  BY TimesAssumption
<1>6. Longest = queue + (MaxRetries + 1) * AttemptTime + MaxRetries * Cap
  BY DEF Longest
<1>7. \A n : Spent(n) = queue + n * (AttemptTime + Cap)
  BY DEF Spent
<1> HIDE DEF queue
<1>8. Longest = Spent(MaxRetries) + AttemptTime
  BY <1>1, <1>4, <1>5, <1>6, <1>7, TimesAssumption
<1>9. \A n \in Nat : Spent(n) \in Nat /\ Spent(n + 1) = Spent(n) + AttemptTime + Cap
  BY <1>1, <1>2, <1>7, TimesAssumption
<1>10. \A m, n \in Nat : m <= n => Spent(m) <= Spent(n)
  BY <1>1, <1>2, <1>3, <1>7, TimesAssumption
<1> QED BY <1>8, <1>9, <1>10

LEMMA SpentWithin ==
  ASSUME NEW n \in 0..MaxRetries
  PROVE  Spent(n) \in Nat /\ Spent(n) <= Spent(MaxRetries)
<1>1. n \in Nat /\ MaxRetries \in Nat /\ n <= MaxRetries
  BY TimesAssumption
<1>2. \A i \in Nat : Spent(i) \in Nat
  BY Times
<1>3. \A i, j \in Nat : i <= j => Spent(i) <= Spent(j)
  BY Times
<1>4. Spent(n) \in Nat
  BY <1>1, <1>2
<1>5. Spent(n) <= Spent(MaxRetries)
  BY <1>1, <1>3, Zenon
<1> QED BY <1>4, <1>5

(* The requests served are among all that are made. *)
LEMMA ServedBound ==
  /\ IsFiniteSet(Served)
  /\ Cardinality(Served) \in Nat
  /\ Queued \in Nat
  /\ Queued <= Spent(0)
<1>1. IsFiniteSet(1..PerThread) /\ Cardinality(1..PerThread) = PerThread
  BY FS_Interval, TimesAssumption
<1>2. /\ IsFiniteSet(Thread \X (1..PerThread))
      /\ Cardinality(Thread \X (1..PerThread)) = Cardinality(Thread) * PerThread
  BY <1>1, FS_Product, TimesAssumption
<1>3. Served \in SUBSET (Thread \X (1..PerThread))
  BY DEF Served
<1>4. IsFiniteSet(Served) /\ Cardinality(Served) <= Cardinality(Thread) * PerThread
  BY <1>2, <1>3, FS_Subset
<1>5. Cardinality(Served) \in Nat /\ Cardinality(Thread) \in Nat
  BY <1>4, FS_CardinalityType, TimesAssumption
<1> DEFINE served == Cardinality(Served)
           threads == Cardinality(Thread)
<1>6. served \in Nat /\ threads \in Nat /\ served <= threads * PerThread
  BY <1>4, <1>5
<1>7. Queued = served * AttemptTime
  BY DEF Queued
<1>8. Spent(0) = PerThread * threads * AttemptTime + 0 * (AttemptTime + Cap)
  BY DEF Spent
<1> HIDE DEF served, threads
<1>9. threads * PerThread = PerThread * threads /\ PerThread * threads \in Nat
  BY <1>6, TimesAssumption
<1>10. \A m, n \in Nat : m <= n => m * AttemptTime <= n * AttemptTime
  BY TimesAssumption
<1>11. served * AttemptTime <= PerThread * threads * AttemptTime
  BY <1>6, <1>9, <1>10
<1>12. served * AttemptTime \in Nat /\ PerThread * threads * AttemptTime \in Nat
  BY <1>6, <1>9, TimesAssumption
<1>13. 0 * (AttemptTime + Cap) = 0
  BY TimesAssumption
<1> QED BY <1>4, <1>5, <1>7, <1>8, <1>11, <1>12, <1>13

(* A thread whose turn has come is served; the others stay as they were. *)
LEMMA TurnComes ==
  ASSUME StateInv, TimeInv, NEW t \in Thread, pc[t] = "token", NEW s \in Pcs \ {"token"},
         pc' = [pc EXCEPT ![t] = s], UNCHANGED made
  PROVE  Queued' = Queued + AttemptTime
<1>1. pc \in [Thread -> Pcs] /\ made \in [Thread -> Nat] /\ made[t] \in 1..PerThread
  BY TimesAssumption DEF StateInv, TypeOK, TimeInv
<1>2. <<t, made[t]>> \notin Served
  BY DEF Served
<1>3. Served' = Served \cup {<<t, made[t]>>}
  <2>1. ASSUME NEW r \in Thread \X (1..PerThread)
        PROVE  r \in Served' <=> r \in Served \/ r = <<t, made[t]>>
    <3>1. r = <<r[1], r[2]>> /\ r[1] \in Thread
      OBVIOUS
    <3>2. CASE r[1] = t
      BY <1>1, <3>1, <3>2 DEF Served
    <3>3. CASE r[1] # t
      BY <1>1, <3>1, <3>3 DEF Served
    <3> QED BY <3>2, <3>3
  <2> QED BY <1>1, <2>1 DEF Served
<1>4. Cardinality(Served') = Cardinality(Served) + 1
  BY <1>2, <1>3, ServedBound, FS_AddElement
<1>5. (Cardinality(Served) + 1) * AttemptTime = Cardinality(Served) * AttemptTime + AttemptTime
  BY ServedBound, TimesAssumption
<1> QED BY <1>4, <1>5 DEF Queued

(* No other step serves a request. *)
LEMMA TurnsStay ==
  ASSUME StateInv, TimeInv, NEW t \in Thread, NEW s \in Pcs, pc' = [pc EXCEPT ![t] = s],
         \/ pc[t] # "token" /\ s # "token" /\ UNCHANGED made
         \/ pc[t] = "idle" /\ s = "token" /\ made' = [made EXCEPT ![t] = @ + 1]
  PROVE  Queued' = Queued
<1>1. pc \in [Thread -> Pcs] /\ made \in [Thread -> Nat]
  BY DEF StateInv, TypeOK
<1>2. ASSUME NEW r \in Thread \X (1..PerThread)
      PROVE  r \in Served' <=> r \in Served
  <2>1. r[1] \in Thread /\ r[2] \in Nat /\ made[t] \in Nat
    BY <1>1, TimesAssumption
  <2>2. CASE r[1] = t
    BY <1>1, <2>1, <2>2 DEF Served
  <2>3. CASE r[1] # t
    BY <1>1, <2>1, <2>3 DEF Served
  <2> QED BY <2>2, <2>3
<1>3. Served' = Served
  BY <1>2 DEF Served
<1> QED BY <1>3 DEF Queued

(* Whoever fetches has been served: its own request counts. *)
LEMMA FetcherServed ==
  ASSUME StateInv, TimeInv, NEW t \in Thread, pc[t] = "fetching"
  PROVE  AttemptTime <= Queued
<1>1. <<t, made[t]>> \in Served
  BY TimesAssumption DEF Served, StateInv, TypeOK, TimeInv
<1>2. Cardinality(Served) >= 1
  BY <1>1, ServedBound, FS_EmptySet
<1>3. \A n \in Nat : n >= 1 => AttemptTime <= n * AttemptTime
  BY TimesAssumption
<1> QED BY <1>2, <1>3, ServedBound DEF Queued
LEMMA InitTime == Init => TimeInv
<1> SUFFICES ASSUME Init PROVE TimeInv
  OBVIOUS
<1>1. ~locked
  BY Zenon DEF Init
<1> QED BY <1>1, TimesAssumption DEF Init, TimeInv

(* A new request may find another in the token endpoint: it has been served. *)
LEMMA StartTime ==
  ASSUME StateInv, TimeInv, NEW t \in Thread, Start(t)
  PROVE  TimeInv'
<1>1. Queued' = Queued
  BY TurnsStay DEF Start, Pcs
<1>2. \A u \in Thread : pc[u] = "fetching" => due[u] <= now + Queued
  BY FetcherServed, ServedBound, TimesAssumption DEF StateInv, TypeOK, TimeInv
<1>3. locked' => \E u \in Thread : pc'[u] = "fetching"
  BY DEF Start, TimeInv, StateInv, TypeOK
<1> QED BY <1>1, <1>2, <1>3, ServedBound, TimesAssumption DEF Start, TimeInv, StateInv, TypeOK

(* The wait for the lock is over, within what all requests may take there. *)
LEMMA UseCachedTime ==
  ASSUME StateInv, TimeInv, NEW t \in Thread, UseCached(t)
  PROVE  TimeInv'
<1>1. /\ pc[t] = "token" /\ ~locked /\ ~locked'
      /\ pc' = [pc EXCEPT ![t] = "ready"] /\ attempt' = [attempt EXCEPT ![t] = 1]
      /\ UNCHANGED <<now, due, made, started>>
  BY Zenon DEF UseCached, Attempts
<1>2. Queued' = Queued + AttemptTime
  BY <1>1, TurnComes DEF Pcs
<1>3. now <= started[t] + Spent(0)
  BY <1>1, ServedBound, Times DEF TimeInv, StateInv, TypeOK
<1>4. \A u \in Thread : pc[u] # "fetching"
  BY <1>1 DEF StateInv, LockInv
<1> QED BY <1>1, <1>2, <1>3, <1>4, ServedBound, TimesAssumption DEF TimeInv, StateInv, TypeOK

LEMMA BeginFetchTime ==
  ASSUME StateInv, TimeInv, NEW t \in Thread, BeginFetch(t)
  PROVE  TimeInv'
<1>1. /\ pc[t] = "token" /\ ~locked
      /\ pc' = [pc EXCEPT ![t] = "fetching"] /\ due' = [due EXCEPT ![t] = now + AttemptTime]
      /\ UNCHANGED <<now, attempt, made, started>>
  BY DEF BeginFetch
<1>2. Queued' = Queued + AttemptTime
  BY <1>1, TurnComes DEF Pcs
<1>3. \A u \in Thread : pc[u] # "fetching"
  BY <1>1 DEF StateInv, LockInv
<1>4. \E u \in Thread : pc'[u] = "fetching"
  BY <1>1 DEF StateInv, TypeOK
<1> QED BY <1>1, <1>2, <1>3, <1>4, ServedBound, TimesAssumption DEF TimeInv, StateInv, TypeOK

(* The lock is given back in time for whoever waits for it. *)
LEMMA FetchedTime ==
  ASSUME StateInv, TimeInv, NEW t \in Thread, Fetched(t)
  PROVE  TimeInv'
<1>1. /\ pc[t] = "fetching" /\ ~locked'
      /\ pc' = [pc EXCEPT ![t] = "ready"] /\ attempt' = [attempt EXCEPT ![t] = 1]
      /\ due' = [due EXCEPT ![t] = 0]
      /\ UNCHANGED <<now, made, started>>
  BY Zenon DEF Fetched, Attempts
<1>2. Queued' = Queued
  BY <1>1, TurnsStay DEF Pcs
<1>3. \A u \in Thread : pc[u] = "fetching" => u = t
  BY <1>1 DEF StateInv, LockInv
<1>4. now <= started[t] + Spent(0)
  BY <1>1, ServedBound, Times DEF TimeInv, StateInv, TypeOK
<1> QED BY <1>1, <1>2, <1>3, <1>4, ServedBound, TimesAssumption DEF TimeInv, StateInv, TypeOK

(* A request that is over leaves the others as they were. *)
LEMMA EndsTime ==
  ASSUME StateInv, TimeInv, NEW t \in Thread, pc[t] \in {"fetching", "sent"}, Ends(t),
         UNCHANGED <<now, made>>,
         pc[t] = "fetching" => ~locked', pc[t] = "sent" => UNCHANGED locked
  PROVE  TimeInv'
<1>1. Queued' = Queued
  BY TurnsStay DEF Ends, Pcs
<1>2. locked' => \E u \in Thread : pc'[u] = "fetching"
  <2>1. CASE pc[t] = "fetching"
    BY <2>1
  <2>2. CASE pc[t] = "sent"
    BY <2>2 DEF Ends, TimeInv, StateInv, TypeOK
  <2> QED BY <2>1, <2>2
<1> QED BY <1>1, <1>2, ServedBound, TimesAssumption DEF Ends, TimeInv, StateInv, TypeOK

LEMMA SendTime ==
  ASSUME StateInv, TimeInv, NEW t \in Thread, Send(t)
  PROVE  TimeInv'
<1>1. Queued' = Queued
  BY TurnsStay DEF Send, Pcs
<1>2. locked' => \E u \in Thread : pc'[u] = "fetching"
  BY DEF Send, TimeInv, StateInv, TypeOK
<1>3. attempt[t] \in Nat /\ attempt[t] - 1 \in Nat /\ Spent(attempt[t] - 1) \in Nat
  <2>1. attempt[t] \in Nat /\ attempt[t] - 1 \in Nat
    BY TimesAssumption DEF Send, StateInv, TypeOK, FreshInv
  <2> QED BY <2>1, Times
<1>4. /\ pc[t] = "ready"
      /\ pc' = [pc EXCEPT ![t] = "sent"] /\ due' = [due EXCEPT ![t] = now + AttemptTime]
      /\ UNCHANGED <<now, attempt, made, started>>
  BY DEF Send
<1>5. now <= started[t] + Spent(attempt[t] - 1)
  BY <1>4 DEF TimeInv
<1>6. /\ pc'[t] = "sent" /\ due'[t] = now + AttemptTime
      /\ \A u \in Thread : u # t => pc'[u] = pc[u] /\ due'[u] = due[u]
  BY <1>4 DEF StateInv, TypeOK
<1>7. now <= due'[t] /\ due'[t] <= started[t] + Spent(attempt[t] - 1) + AttemptTime
  BY <1>3, <1>5, <1>6, TimesAssumption DEF StateInv, TypeOK
<1> QED BY <1>1, <1>2, <1>4, <1>6, <1>7 DEF TimeInv

(* Whatever the server asks for, and however the jitter falls. *)
LEMMA DelayCapped ==
  ASSUME StateInv, NEW t \in Thread, Throttled(t)
  PROVE  \E delay \in Nat : delay <= Cap /\ due' = [due EXCEPT ![t] = now + delay]
<1>1. PICK delay \in Hinted \cup Jittered(attempt[t]) : due' = [due EXCEPT ![t] = now + delay]
  BY DEF Throttled
<1>2. delay \in Nat /\ delay <= Cap
  <2>1. CASE delay \in Hinted
    <3>1. PICK hint \in Hints : delay = Least(hint, Cap)
      BY <2>1 DEF Hinted
    <3> QED BY <3>1, TimesAssumption DEF Least
  <2>2. CASE delay \in Jittered(attempt[t])
    <3> DEFINE most == Base * 2^(attempt[t] - 1)
    <3>1. most \in Nat
      <4>1. attempt[t] - 1 \in 0..MaxRetries
        BY TimesAssumption DEF Throttled, StateInv, TypeOK, FreshInv
      <4> QED BY <4>1, PowersAssumption, Zenon
    <3>2. delay \in 0..Least(most, Cap)
      BY <2>2 DEF Jittered
    <3> HIDE DEF most
    <3> QED BY <3>1, <3>2, TimesAssumption DEF Least
  <2> QED BY <1>1, <2>1, <2>2
<1> QED BY <1>1, <1>2

LEMMA ThrottledTime ==
  ASSUME StateInv, TimeInv, NEW t \in Thread, Throttled(t)
  PROVE  TimeInv'
<1>1. PICK delay \in Nat : delay <= Cap /\ due' = [due EXCEPT ![t] = now + delay]
  BY DelayCapped
<1>2. delay \in Nat /\ delay <= Cap
  BY <1>1
<1>3. Queued' = Queued
  BY TurnsStay DEF Throttled, Pcs
<1>4. locked' => \E u \in Thread : pc'[u] = "fetching"
  BY DEF Throttled, TimeInv, StateInv, TypeOK
<1>5. /\ attempt[t] - 1 \in Nat
      /\ Spent(attempt[t]) = Spent(attempt[t] - 1) + AttemptTime + Cap
      /\ Spent(attempt[t] - 1) \in Nat
  <2>1. attempt[t] - 1 \in Nat /\ (attempt[t] - 1) + 1 = attempt[t]
    BY TimesAssumption DEF Throttled, StateInv, TypeOK, FreshInv
  <2> QED BY <2>1, Times
<1>6. now <= started[t] + Spent(attempt[t] - 1) + AttemptTime
  BY <1>5, TimesAssumption DEF Throttled, TimeInv, StateInv, TypeOK
<1> QED BY <1>1, <1>2, <1>3, <1>4, <1>5, <1>6, ServedBound, TimesAssumption
        DEF Throttled, TimeInv, StateInv, TypeOK

LEMMA WakeTime ==
  ASSUME StateInv, TimeInv, NEW t \in Thread, Wake(t)
  PROVE  TimeInv'
<1>1. Queued' = Queued
  BY TurnsStay DEF Wake, Pcs
<1>2. locked' => \E u \in Thread : pc'[u] = "fetching"
  BY DEF Wake, TimeInv, StateInv, TypeOK
<1>3. attempt[t] \in Nat /\ (attempt[t] + 1) - 1 = attempt[t] /\ Spent(attempt[t]) \in Nat
  BY Times, TimesAssumption DEF StateInv, TypeOK
<1>4. now <= started[t] + Spent(attempt[t])
  BY <1>3 DEF Wake, TimeInv, StateInv, TypeOK
<1> QED BY <1>1, <1>2, <1>3, <1>4, ServedBound, TimesAssumption
        DEF Wake, TimeInv, StateInv, TypeOK

(* Time passes only while nobody's wait is over. *)
LEMMA TickTime ==
  ASSUME StateInv, TimeInv, Tick
  PROVE  TimeInv'
<1>1. /\ now' = now + 1 /\ UNCHANGED <<pc, attempt, due, made, started>>
      /\ \A t \in Thread : Waits(t)
  BY DEF Tick
<1>2. locked' = locked
  BY Zenon DEF Tick
<1>3. Queued' = Queued
  BY <1>1 DEF Queued, Served
<1>4. \A t \in Thread : pc[t] = "token" => \E u \in Thread : pc[u] = "fetching"
  BY <1>1 DEF Waits, TimeInv
<1>5. \A t \in Thread :
        /\ pc[t] # "ready"
        /\ pc[t] \in {"fetching", "sent", "sleeping"} => now + 1 <= due[t]
  BY <1>1 DEF Waits, StateInv, TypeOK
<1>6. \A t \in Thread : pc[t] = "token" => now + 1 <= started[t] + Queued
  BY <1>4, <1>5, ServedBound DEF TimeInv, StateInv, TypeOK
<1>7. locked' => \E u \in Thread : pc'[u] = "fetching"
  BY <1>1, <1>2 DEF TimeInv
<1> QED BY <1>1, <1>3, <1>5, <1>6, <1>7, ServedBound, TimesAssumption DEF TimeInv, StateInv, TypeOK

LEMMA StepKeepsTime == StateInv /\ TimeInv /\ [Next]_vars => TimeInv'
<1> SUFFICES ASSUME StateInv, TimeInv, [Next]_vars PROVE TimeInv'
  OBVIOUS
<1>1. CASE Tick
  BY <1>1, TickTime
<1>2. ASSUME NEW t \in Thread, Start(t) \/ Act(t) PROVE TimeInv'
  <2>1. CASE Start(t)       BY <2>1, StartTime
  <2>2. CASE UseCached(t)   BY <2>2, UseCachedTime
  <2>3. CASE BeginFetch(t)  BY <2>3, BeginFetchTime
  <2>4. CASE Fetched(t)     BY <2>4, FetchedTime
  <2>5. CASE FetchFails(t)  BY <2>5, EndsTime DEF FetchFails
  <2>6. CASE Send(t)        BY <2>6, SendTime
  <2>7. CASE Answered(t) \/ GivesUp(t)
    BY <2>7, EndsTime DEF Answered, GivesUp
  <2>8. CASE Throttled(t)   BY <2>8, ThrottledTime
  <2>9. CASE Wake(t)        BY <2>9, WakeTime
  <2> QED BY <1>2, <2>1, <2>2, <2>3, <2>4, <2>5, <2>6, <2>7, <2>8, <2>9 DEF Act
<1>3. CASE UNCHANGED vars
  <2>1. locked' = locked
    BY <1>3, Zenon DEF vars
  <2>2. Queued' = Queued
    BY <1>3 DEF vars, Queued, Served
  <2>3. UNCHANGED <<now, pc, attempt, due, made, started>>
    BY <1>3 DEF vars
  <2> QED BY <2>1, <2>2, <2>3 DEF TimeInv
<1> QED BY <1>1, <1>2, <1>3 DEF Next

(***************************************************************************)
(* The inductive invariant: one thread at a time refreshes the token, only *)
(* when it is due, first attempts hold a fresh one, and every wait of      *)
(* every thread ends in time.                                              *)
(***************************************************************************)
THEOREM RequestsInvariant == Spec => []IInv
<1>1. Init => IInv
  BY InitStateInv, InitTime DEF IInv
<1>2. IInv /\ [Next]_vars => IInv'
  BY StepKeepsStateInv, StepKeepsTime DEF IInv
<1> QED BY <1>1, <1>2, PTL DEF Spec

(***************************************************************************)
(* Every request is over within its retries, capped sleeps and the token   *)
(* requests that may be ahead of it, whatever Retry-After says, for any    *)
(* number of threads and any times (http.py request, backoff_seconds).     *)
(***************************************************************************)
THEOREM RequestsEndsInTime == Spec => []EndsInTime
<1>1. IInv => EndsInTime
  <2> SUFFICES ASSUME IInv, NEW t \in Thread, pc[t] # "idle"
               PROVE  now <= started[t] + Longest
    BY DEF EndsInTime
  <2>1. /\ StateInv /\ TimeInv
        /\ now \in Nat /\ started[t] \in Nat /\ due[t] \in Nat
        /\ attempt[t] \in 0..(MaxRetries + 1) /\ pc[t] \in Pcs
    BY DEF IInv, StateInv, TypeOK
  <2>2. Queued \in Nat /\ Spent(0) \in Nat /\ Queued <= Spent(0) /\ Spent(0) <= Spent(MaxRetries)
        /\ Spent(MaxRetries) \in Nat /\ Longest = Spent(MaxRetries) + AttemptTime
    BY ServedBound, SpentWithin, Times, TimesAssumption
  <2>3. CASE pc[t] \in {"token", "fetching"}
    <3>1. now <= started[t] + Queued
      BY <2>1, <2>2, <2>3 DEF TimeInv
    <3> QED BY <2>1, <2>2, <3>1, TimesAssumption
  <2>4. CASE pc[t] \in {"ready", "sent"}
    <3>1. attempt[t] - 1 \in 0..MaxRetries
      BY <2>1, <2>4, TimesAssumption DEF StateInv, FreshInv
    <3>2. Spent(attempt[t] - 1) \in Nat /\ Spent(attempt[t] - 1) <= Spent(MaxRetries)
      BY <3>1, SpentWithin
    <3>3. now <= started[t] + Spent(attempt[t] - 1) + AttemptTime
      BY <2>1, <2>4, <3>2, TimesAssumption DEF TimeInv
    <3> QED BY <2>1, <2>2, <3>2, <3>3, TimesAssumption
  <2>5. CASE pc[t] = "sleeping"
    <3>1. attempt[t] \in 1..MaxRetries
      BY <2>1, <2>5 DEF StateInv, FreshInv
    <3>2. Spent(attempt[t]) \in Nat /\ Spent(attempt[t]) <= Spent(MaxRetries)
      BY <3>1, SpentWithin, TimesAssumption
    <3>3. now <= started[t] + Spent(attempt[t])
      BY <2>1, <2>5, <3>2 DEF TimeInv
    <3> QED BY <2>1, <2>2, <3>2, <3>3, TimesAssumption
  <2> QED BY <2>1, <2>3, <2>4, <2>5 DEF Pcs
<1> QED BY <1>1, RequestsInvariant, PTL

-----------------------------------------------------------------------------
(* How old a token can be when an attempt carries it.                      *)

(* What n attempts with their sleeps take at most. *)
Slack(n) == n * (AttemptTime + Cap)

LEMMA Slacks ==
  /\ Slack(0) = 0
  /\ \A n \in Nat : Slack(n) \in Nat /\ Slack(n + 1) = Slack(n) + AttemptTime + Cap
  /\ \A m, n \in Nat : m <= n => Slack(m) <= Slack(n)
<1>1. Slack(0) = 0
  BY TimesAssumption DEF Slack
<1>2. \A n \in Nat : Slack(n) \in Nat /\ Slack(n + 1) = Slack(n) + AttemptTime + Cap
  BY TimesAssumption DEF Slack
<1>3. \A m, n \in Nat : m <= n => Slack(m) <= Slack(n)
  BY TimesAssumption DEF Slack
<1> QED BY <1>1, <1>2, <1>3

(***************************************************************************)
(* A header is built once: the token in it was good for Skew more at the   *)
(* first attempt, and every attempt and sleep since has eaten into that.   *)
(***************************************************************************)
Aged(t) ==
  /\ pc[t] = "ready" => now + Skew <= header[t] + Slack(attempt[t] - 1)
  /\ pc[t] = "sent" => due[t] + Skew <= header[t] + Slack(attempt[t] - 1) + AttemptTime
  /\ pc[t] = "sleeping" => due[t] + Skew <= header[t] + Slack(attempt[t])

AgeInv == \A t \in Thread : Aged(t)

(* What a thread leaves alone has aged no further, while no time passes. *)
LEMMA OthersAged ==
  ASSUME AgeInv, now' = now, NEW t \in Thread, Aged(t)',
         \A u \in Thread \ {t} : /\ pc'[u] = pc[u] /\ header'[u] = header[u]
                                 /\ attempt'[u] = attempt[u] /\ due'[u] = due[u]
  PROVE  AgeInv'
BY DEF AgeInv, Aged

(* The first attempt of a request has the skew to spare. *)
LEMMA FirstAged ==
  ASSUME StateInv, StateInv', LongLived, AgeInv, NEW t \in Thread, UseCached(t) \/ Fetched(t)
  PROVE  AgeInv'
<1>1. PICK bearer : Attempts(t, bearer)
  BY DEF UseCached, Fetched
<1>2. /\ pc'[t] = "ready" /\ attempt'[t] = 1 /\ now' = now
      /\ \A u \in Thread \ {t} : /\ pc'[u] = pc[u] /\ header'[u] = header[u]
                                 /\ attempt'[u] = attempt[u] /\ due'[u] = due[u]
  BY <1>1 DEF Attempts, StateInv, TypeOK, UseCached, Fetched
<1>3. now' + Skew <= header'[t]
  BY <1>2 DEF StateInv, FreshInv, LongLived
<1>4. Slack(attempt'[t] - 1) = 0
  BY <1>2, Slacks
<1>5. Aged(t)'
  BY <1>2, <1>3, <1>4 DEF Aged, StateInv, TypeOK
<1> QED BY <1>2, <1>5, OthersAged

LEMMA SendAged ==
  ASSUME StateInv, AgeInv, NEW t \in Thread, Send(t)
  PROVE  AgeInv'
<1>1. /\ pc[t] = "ready" /\ pc'[t] = "sent" /\ due'[t] = now + AttemptTime
      /\ attempt'[t] = attempt[t] /\ header'[t] = header[t] /\ now' = now
      /\ \A u \in Thread \ {t} : /\ pc'[u] = pc[u] /\ header'[u] = header[u]
                                 /\ attempt'[u] = attempt[u] /\ due'[u] = due[u]
  BY DEF Send, StateInv, TypeOK
<1>2. now + Skew <= header[t] + Slack(attempt[t] - 1)
  BY <1>1 DEF AgeInv, Aged
<1>3. Slack(attempt[t] - 1) \in Nat
  <2>1. attempt[t] - 1 \in Nat
    BY <1>1, TimesAssumption DEF StateInv, TypeOK, FreshInv
  <2> QED BY <2>1, Slacks
<1>4. due'[t] + Skew <= header'[t] + Slack(attempt'[t] - 1) + AttemptTime
  BY <1>1, <1>2, <1>3, TimesAssumption DEF StateInv, TypeOK
<1> QED BY <1>1, <1>4, OthersAged DEF Aged

(* The attempt is over in time, and its sleep is capped. *)
LEMMA ThrottledAged ==
  ASSUME StateInv, TimeInv, AgeInv, NEW t \in Thread, Throttled(t)
  PROVE  AgeInv'
<1>1. PICK delay \in Nat : delay <= Cap /\ due' = [due EXCEPT ![t] = now + delay]
  BY DelayCapped
<1>2. /\ pc[t] = "sent" /\ pc'[t] = "sleeping" /\ due'[t] = now + delay
      /\ attempt'[t] = attempt[t] /\ header'[t] = header[t] /\ now' = now
      /\ \A u \in Thread \ {t} : /\ pc'[u] = pc[u] /\ header'[u] = header[u]
                                 /\ attempt'[u] = attempt[u] /\ due'[u] = due[u]
  BY <1>1 DEF Throttled, StateInv, TypeOK
<1>3. /\ now <= due[t]
      /\ due[t] + Skew <= header[t] + Slack(attempt[t] - 1) + AttemptTime
  BY <1>2 DEF TimeInv, AgeInv, Aged
<1>4. /\ Slack(attempt[t] - 1) \in Nat
      /\ Slack(attempt[t]) = Slack(attempt[t] - 1) + AttemptTime + Cap
  <2>1. attempt[t] - 1 \in Nat /\ (attempt[t] - 1) + 1 = attempt[t]
    BY <1>2, TimesAssumption DEF StateInv, TypeOK, FreshInv
  <2> QED BY <2>1, Slacks
<1>5. due'[t] + Skew <= header'[t] + Slack(attempt'[t])
  BY <1>1, <1>2, <1>3, <1>4, TimesAssumption DEF StateInv, TypeOK
<1> QED BY <1>2, <1>5, OthersAged DEF Aged

LEMMA WakeAged ==
  ASSUME StateInv, TimeInv, AgeInv, NEW t \in Thread, Wake(t)
  PROVE  AgeInv'
<1>1. /\ pc[t] = "sleeping" /\ pc'[t] = "ready"
      /\ attempt'[t] = attempt[t] + 1 /\ header'[t] = header[t] /\ now' = now
      /\ \A u \in Thread \ {t} : /\ pc'[u] = pc[u] /\ header'[u] = header[u]
                                 /\ attempt'[u] = attempt[u] /\ due'[u] = due[u]
  BY DEF Wake, StateInv, TypeOK
<1>2. now <= due[t] /\ due[t] + Skew <= header[t] + Slack(attempt[t])
  BY <1>1 DEF TimeInv, AgeInv, Aged
<1>3. attempt[t] \in Nat /\ attempt'[t] - 1 = attempt[t] /\ Slack(attempt[t]) \in Nat
  BY <1>1, Slacks, TimesAssumption DEF StateInv, TypeOK
<1>4. now' + Skew <= header'[t] + Slack(attempt'[t] - 1)
  BY <1>1, <1>2, <1>3, TimesAssumption DEF StateInv, TypeOK
<1> QED BY <1>1, <1>4, OthersAged DEF Aged

(* A step to a state in which the thread has no attempt under way. *)
LEMMA NoneAged ==
  ASSUME StateInv, AgeInv, NEW t \in Thread,
         Start(t) \/ BeginFetch(t) \/ FetchFails(t) \/ Answered(t) \/ GivesUp(t)
  PROVE  AgeInv'
<1>1. /\ pc'[t] \in {"idle", "token", "fetching"} /\ now' = now
      /\ \A u \in Thread \ {t} : /\ pc'[u] = pc[u] /\ header'[u] = header[u]
                                 /\ attempt'[u] = attempt[u] /\ due'[u] = due[u]
  BY DEF Start, BeginFetch, FetchFails, Answered, GivesUp, Ends, StateInv, TypeOK
<1> QED BY <1>1, OthersAged DEF Aged

LEMMA StepKeepsAge == LongLived /\ IInv /\ IInv' /\ AgeInv /\ [Next]_vars => AgeInv'
<1> SUFFICES ASSUME LongLived, IInv, IInv', AgeInv, [Next]_vars PROVE AgeInv'
  OBVIOUS
<1> USE DEF IInv
<1>1. CASE Tick
  <2>1. /\ \A t \in Thread : pc[t] # "ready"
        /\ UNCHANGED <<pc, header, attempt, due>>
    BY <1>1 DEF Tick, Waits
  <2> QED BY <2>1 DEF AgeInv, Aged
<1>2. ASSUME NEW t \in Thread, Start(t) \/ Act(t) PROVE AgeInv'
  <2>1. CASE UseCached(t) \/ Fetched(t) BY <2>1, FirstAged
  <2>2. CASE Send(t)      BY <2>2, SendAged
  <2>3. CASE Throttled(t) BY <2>3, ThrottledAged
  <2>4. CASE Wake(t)      BY <2>4, WakeAged
  <2> QED BY <1>2, <2>1, <2>2, <2>3, <2>4, NoneAged DEF Act
<1>3. CASE UNCHANGED vars
  BY <1>3 DEF vars, AgeInv, Aged
<1> QED BY <1>1, <1>2, <1>3 DEF Next

(* What an attempt carries when it goes out. *)
StaleAtMost ==
  [][\A t \in Thread : (pc[t] = "ready" /\ pc'[t] = "sent") =>
       now + Skew <= header[t] + MaxRetries * (AttemptTime + Cap)]_vars

(***************************************************************************)
(* How stale a bearer token can get: an attempt never carries one that     *)
(* expired longer ago than the retries before it can take, less the skew   *)
(* (the header is built once, before the retry loop of request()).         *)
(***************************************************************************)
THEOREM RequestsStaleAtMost == ASSUME LongLived PROVE Spec => StaleAtMost
<1>1. Init => AgeInv
  BY DEF Init, AgeInv, Aged
<1>2. IInv /\ IInv' /\ AgeInv /\ [Next]_vars => AgeInv'
  BY StepKeepsAge
<1>3. IInv /\ AgeInv /\ [Next]_vars =>
        [\A t \in Thread : (pc[t] = "ready" /\ pc'[t] = "sent") =>
           now + Skew <= header[t] + MaxRetries * (AttemptTime + Cap)]_vars
  <2> SUFFICES ASSUME IInv, AgeInv, NEW t \in Thread, pc[t] = "ready"
               PROVE  now + Skew <= header[t] + MaxRetries * (AttemptTime + Cap)
    OBVIOUS
  <2>1. now + Skew <= header[t] + Slack(attempt[t] - 1)
    BY DEF AgeInv, Aged
  <2>2. attempt[t] - 1 \in Nat /\ attempt[t] - 1 <= MaxRetries
    BY TimesAssumption DEF IInv, StateInv, TypeOK, FreshInv
  <2>3. Slack(attempt[t] - 1) \in Nat /\ Slack(MaxRetries) \in Nat
        /\ Slack(attempt[t] - 1) <= Slack(MaxRetries)
    <3>1. \A m, n \in Nat : m <= n => Slack(m) <= Slack(n)
      BY Slacks
    <3>2. Slack(attempt[t] - 1) <= Slack(MaxRetries)
      BY <2>2, <3>1, TimesAssumption
    <3> QED BY <2>2, <3>2, Slacks, TimesAssumption
  <2>4. now + Skew <= header[t] + Slack(MaxRetries)
    BY <2>1, <2>3, TimesAssumption DEF IInv, StateInv, TypeOK
  <2> QED BY <2>4 DEF Slack
<1> QED BY <1>1, <1>2, <1>3, RequestsInvariant, PTL DEF Spec, StaleAtMost

(***************************************************************************)
(* The comment on EXPIRY_SKEW_SECONDS holds under settings with which the  *)
(* retries of a request fit into the skew: what the defaults would have to *)
(* be for "a long-running batch never hands a just-expired token to        *)
(* ServiceNow" to be true.                                                 *)
(***************************************************************************)
THEOREM RequestsNoExpiredTokenSent ==
  ASSUME LongLived, Skew > MaxRetries * (AttemptTime + Cap)
  PROVE  Spec => NoExpiredTokenSent
<1>1. IInv /\ [\A t \in Thread : (pc[t] = "ready" /\ pc'[t] = "sent") =>
                 now + Skew <= header[t] + MaxRetries * (AttemptTime + Cap)]_vars
        => [\A t \in Thread : (pc[t] = "ready" /\ pc'[t] = "sent") => now < header[t]]_vars
  <2> SUFFICES ASSUME IInv, NEW t \in Thread,
                      now + Skew <= header[t] + MaxRetries * (AttemptTime + Cap)
               PROVE  now < header[t]
    OBVIOUS
  <2>1. MaxRetries * (AttemptTime + Cap) \in Nat
    BY TimesAssumption
  <2> QED BY <2>1, TimesAssumption DEF IInv, StateInv, TypeOK
<1> QED
  BY <1>1, RequestsInvariant, RequestsStaleAtMost, PTL DEF StaleAtMost, NoExpiredTokenSent

-----------------------------------------------------------------------------
(* That no request is stuck: somebody can act, or time can pass.           *)

(* A request begins early enough for the clock to see its end. *)
StartInv == \A t \in Thread : pc[t] # "idle" => started[t] + Longest <= Horizon

LEMMA StepKeepsStart == IInv /\ StartInv /\ [Next]_vars => StartInv'
<1> SUFFICES ASSUME IInv, StartInv, [Next]_vars PROVE StartInv'
  OBVIOUS
<1>1. Longest' = Longest
  BY DEF Longest
<1>2. CASE Tick \/ UNCHANGED vars
  BY <1>1, <1>2 DEF Tick, vars, StartInv
<1>3. ASSUME NEW t \in Thread, Start(t) PROVE StartInv'
  BY <1>1, <1>3 DEF Start, StartInv, IInv, StateInv, TypeOK
<1>4. ASSUME NEW t \in Thread, FetchFails(t) \/ Answered(t) \/ GivesUp(t) PROVE StartInv'
  BY <1>1, <1>4 DEF FetchFails, Answered, GivesUp, Ends, StartInv, IInv, StateInv, TypeOK
<1>5. ASSUME NEW t \in Thread,
             \/ UseCached(t) \/ BeginFetch(t) \/ Fetched(t)
             \/ Send(t) \/ Throttled(t) \/ Wake(t)
      PROVE  StartInv'
  <2>1. started' = started /\ pc[t] # "idle" /\ \A u \in Thread \ {t} : pc'[u] = pc[u]
    BY <1>5 DEF UseCached, BeginFetch, Fetched, Attempts, Send, Throttled, Wake,
                IInv, StateInv, TypeOK
  <2> QED BY <1>1, <2>1 DEF StartInv
<1> QED BY <1>2, <1>3, <1>4, <1>5 DEF Next, Act

(* What a thread waits for comes before its request must be over. *)
LEMMA DueInTime ==
  ASSUME IInv, NEW t \in Thread, pc[t] \in {"fetching", "sent", "sleeping"}
  PROVE  due[t] <= started[t] + Longest
<1>1. /\ StateInv /\ TimeInv
      /\ started[t] \in Nat /\ due[t] \in Nat
      /\ attempt[t] \in 0..(MaxRetries + 1)
  BY DEF IInv, StateInv, TypeOK
<1>2. /\ Queued \in Nat /\ Spent(0) \in Nat /\ Queued <= Spent(0)
      /\ Spent(0) <= Spent(MaxRetries) /\ Spent(MaxRetries) \in Nat
      /\ Longest = Spent(MaxRetries) + AttemptTime
  BY ServedBound, SpentWithin, Times, TimesAssumption
<1>3. CASE pc[t] = "fetching"
  <2>1. due[t] <= started[t] + Queued
    BY <1>1, <1>3 DEF TimeInv
  <2> QED BY <1>1, <1>2, <2>1, TimesAssumption
<1>4. CASE pc[t] = "sent"
  <2>1. attempt[t] - 1 \in 0..MaxRetries
    BY <1>1, <1>4, TimesAssumption DEF StateInv, FreshInv
  <2>2. Spent(attempt[t] - 1) \in Nat /\ Spent(attempt[t] - 1) <= Spent(MaxRetries)
    BY <2>1, SpentWithin
  <2>3. due[t] <= started[t] + Spent(attempt[t] - 1) + AttemptTime
    BY <1>1, <1>4 DEF TimeInv
  <2> QED BY <1>1, <1>2, <2>2, <2>3, TimesAssumption
<1>5. CASE pc[t] = "sleeping"
  <2>1. attempt[t] \in 0..MaxRetries
    BY <1>1, <1>5, TimesAssumption DEF StateInv, FreshInv
  <2>2. Spent(attempt[t]) \in Nat /\ Spent(attempt[t]) <= Spent(MaxRetries)
    BY <2>1, SpentWithin
  <2>3. due[t] <= started[t] + Spent(attempt[t])
    BY <1>1, <1>5 DEF TimeInv
  <2> QED BY <1>1, <1>2, <2>2, <2>3, TimesAssumption
<1> QED BY <1>3, <1>4, <1>5

(* The guards of the steps by which a thread gets on. *)
CanAct(t) ==
  \/ pc[t] = "token" /\ ~locked
  \/ pc[t] \in {"fetching", "ready", "sent"}
  \/ pc[t] = "sleeping" /\ now >= due[t]

(* While a request is under way, a thread can act, or time passes for all. *)
NobodyStuck ==
  (\E t \in Thread : pc[t] # "idle") =>
    \/ \E t \in Thread : CanAct(t) /\ ~Waits(t)
    \/ now < Horizon /\ \A t \in Thread : Waits(t)

(***************************************************************************)
(* No request waits for something that cannot come: not for a lock nobody  *)
(* holds, a thread that failed included, nor for an instant past the last  *)
(* one of the model.  With EndsInTime, this is why every request ends as   *)
(* long as threads run and time passes (token, request).                   *)
(***************************************************************************)
THEOREM RequestsNobodyStuck == Spec => []NobodyStuck
<1>1. Init => StartInv
  BY DEF Init, StartInv
<1>2. IInv /\ StartInv => NobodyStuck
  <2> SUFFICES ASSUME IInv, StartInv, NEW t \in Thread, pc[t] # "idle"
               PROVE  \/ \E u \in Thread : CanAct(u) /\ ~Waits(u)
                      \/ now < Horizon /\ \A u \in Thread : Waits(u)
    BY DEF NobodyStuck
  <2>1. /\ pc \in [Thread -> Pcs] /\ now \in Nat /\ due \in [Thread -> Nat]
        /\ started \in [Thread -> Nat] /\ TimeInv
    BY DEF IInv, StateInv, TypeOK
  <2>2. ASSUME NEW u \in Thread, ~Waits(u) PROVE CanAct(u)
    BY <2>1, <2>2 DEF Waits, CanAct, Pcs
  <2>3. ASSUME NEW u \in Thread, pc[u] \in {"fetching", "sent", "sleeping"}, Waits(u)
        PROVE  now < Horizon
    <3>1. now < due[u] /\ due[u] <= started[u] + Longest /\ started[u] + Longest <= Horizon
      BY <2>3, DueInTime DEF Waits, StartInv
    <3>2. Longest \in Nat
      <4>1. MaxRetries \in 0..MaxRetries
        BY TimesAssumption
      <4>2. Spent(MaxRetries) \in Nat
        BY <4>1, SpentWithin
      <4>3. Longest = Spent(MaxRetries) + AttemptTime
        BY Times, Zenon
      <4> QED BY <4>2, <4>3, TimesAssumption
    <3> QED BY <2>1, <3>1, <3>2, TimesAssumption
  <2>4. ASSUME \A u \in Thread : Waits(u) PROVE now < Horizon
    <3>1. CASE pc[t] = "token"
      <4>1. PICK u \in Thread : pc[u] = "fetching"
        BY <2>1, <2>4, <3>1 DEF Waits, TimeInv
      <4> QED BY <2>3, <2>4, <4>1
    <3>2. CASE pc[t] = "ready"
      BY <2>4, <3>2 DEF Waits
    <3> QED BY <2>1, <2>3, <2>4, <3>1, <3>2 DEF Pcs
  <2> QED BY <2>2, <2>4
<1> QED BY <1>1, <1>2, StepKeepsStart, RequestsInvariant, PTL DEF Spec
=============================================================================
