------------------------------ MODULE Requests ------------------------------
(***************************************************************************)
(* Requests of a thread pool to ServiceNow: RetryingClient.request         *)
(* (http.py) with the bearer token of ServiceNowAuth (servicenow/auth.py), *)
(* which all threads share and which one of them fetches under a lock.     *)
(*                                                                         *)
(* Time is a clock in a unit of some tens of seconds.  A thread that can act    *)
(* does so before the clock advances; time passes while every thread waits *)
(* for an answer, for its backoff to end or for the lock.                  *)
(***************************************************************************)
EXTENDS Naturals, FiniteSets

CONSTANTS
  Thread,       \* threads of the pool
  PerThread,    \* requests a thread makes, one after the other (a bound)
  MaxRetries,   \* SNOW_MAX_RETRIES
  Cap,          \* MAX_SINGLE_BACKOFF_SECONDS
  Base,         \* `base` of backoff_seconds
  Skew,         \* EXPIRY_SKEW_SECONDS
  Floor,        \* the 30 seconds a token is used at least
  AttemptTime,  \* the longest an attempt, or a token request, takes
  Lifetimes,    \* values of expires_in
  Hints,        \* values of Retry-After and X-RateLimit-Reset
  Horizon       \* the last instant (a bound)

ASSUME TimesAssumption ==
  /\ IsFiniteSet(Thread)
  /\ PerThread \in Nat
  /\ MaxRetries \in Nat
  /\ Cap \in Nat
  /\ Base \in Nat
  /\ Skew \in Nat
  /\ Floor \in Nat \ {0}
  /\ AttemptTime \in Nat
  /\ Lifetimes \subseteq Nat
  /\ Hints \subseteq Nat
  /\ Horizon \in Nat

(* Powers of two are numbers: the proofs have nothing else to know it from. *)
ASSUME PowersAssumption == \A n \in 0..MaxRetries : Base * 2^n \in Nat

(* No token is so short-lived that it is used for Floor regardless of Skew. *)
LongLived == \A life \in Lifetimes : life >= Skew + Floor

VARIABLES
  now,        \* time.monotonic
  token,      \* self._token, as the instant it expires at the server; 0: None
  expiresAt,  \* self._expires_at
  locked,     \* self._lock is held
  pc,         \* what each thread is doing
  header,     \* the token in each thread's Authorization header
  attempt,    \* `attempt` of each thread's retry loop
  due,        \* when each thread's wait is over at the latest, or its sleep ends
  made,       \* history: requests each thread has begun
  started     \* history: when each thread's request began

vars == <<now, token, expiresAt, locked, pc, header, attempt, due, made, started>>

(***************************************************************************)
(* "token": about to enter token().  "fetching": in _fetch_token, holding  *)
(* the lock.  "ready": about to send an attempt.  "sent": waiting for its  *)
(* answer.  "sleeping": in its backoff.  "idle": no request, yet or any    *)
(* more.                                                                   *)
(***************************************************************************)
Pcs == {"idle", "token", "fetching", "ready", "sent", "sleeping"}

Least(m, n) == IF m <= n THEN m ELSE n
Most(m, n) == IF m >= n THEN m ELSE n

(* The longest a request takes: its own attempts and sleeps, and the token  *)
(* requests of every other request that may have taken the lock before it.  *)
Longest ==
  PerThread * Cardinality(Thread) * AttemptTime
    + (MaxRetries + 1) * AttemptTime + MaxRetries * Cap

-----------------------------------------------------------------------------
Init ==
  /\ now = 0
  /\ token = 0
  /\ expiresAt = 0
  /\ locked = FALSE
  /\ pc = [t \in Thread |-> "idle"]
  /\ header = [t \in Thread |-> 0]
  /\ attempt = [t \in Thread |-> 0]
  /\ due = [t \in Thread |-> 0]
  /\ made = [t \in Thread |-> 0]
  /\ started = [t \in Thread |-> 0]

(* A thread calls request(). *)
Start(t) ==
  /\ pc[t] = "idle"
  /\ made[t] < PerThread
  /\ now + Longest <= Horizon
  /\ pc' = [pc EXCEPT ![t] = "token"]
  /\ made' = [made EXCEPT ![t] = @ + 1]
  /\ started' = [started EXCEPT ![t] = now]
  /\ UNCHANGED <<now, token, expiresAt, locked, header, attempt, due>>

(* The cached token is there and not due for refresh. *)
Cached == token # 0 /\ now < expiresAt

(* The header is built once, before the loop; the first attempt is next. *)
Attempts(t, bearer) ==
  /\ header' = [header EXCEPT ![t] = bearer]
  /\ attempt' = [attempt EXCEPT ![t] = 1]
  /\ pc' = [pc EXCEPT ![t] = "ready"]

(* token() under the lock, with a token at hand... *)
UseCached(t) ==
  /\ pc[t] = "token"
  /\ ~locked
  /\ Cached
  /\ Attempts(t, token)
  /\ UNCHANGED <<now, token, expiresAt, locked, due, made, started>>

(* A bug of that kind: the lock protects the variables, not the refresh. *)
BeginFetchUnlocked(t) ==
  /\ pc[t] = "token"
  /\ ~Cached
  /\ pc' = [pc EXCEPT ![t] = "fetching"]
  /\ due' = [due EXCEPT ![t] = now + AttemptTime]
  /\ UNCHANGED <<now, token, expiresAt, locked, header, attempt, made, started>>

(* ...and without, keeping the lock while the token endpoint is asked. *)
BeginFetch(t) ==
  /\ pc[t] = "token"
  /\ ~locked
  /\ ~Cached
  /\ locked' = TRUE
  /\ pc' = [pc EXCEPT ![t] = "fetching"]
  /\ due' = [due EXCEPT ![t] = now + AttemptTime]
  /\ UNCHANGED <<now, token, expiresAt, header, attempt, made, started>>

(* A bug of that kind: the token is used up to the second it expires. *)
RefreshAtExpiry(life) == now + life

(* When a token that lives that long is to be refreshed. *)
RefreshAt(life) == now + Most(life - Skew, Floor)

Fetched(t) ==
  /\ pc[t] = "fetching"
  /\ \E life \in Lifetimes :
       /\ token' = now + life
       /\ expiresAt' = RefreshAt(life)
       /\ Attempts(t, now + life)
  /\ locked' = FALSE
  /\ due' = [due EXCEPT ![t] = 0]
  /\ UNCHANGED <<now, made, started>>

(* request() returns or raises; its locals are gone. *)
Ends(t) ==
  /\ pc' = [pc EXCEPT ![t] = "idle"]
  /\ header' = [header EXCEPT ![t] = 0]
  /\ attempt' = [attempt EXCEPT ![t] = 0]
  /\ due' = [due EXCEPT ![t] = 0]
  /\ started' = [started EXCEPT ![t] = 0]

(* A bug of that kind: an exception leaves the lock behind. *)
FetchFailsLocked(t) ==
  /\ pc[t] = "fetching"
  /\ Ends(t)
  /\ UNCHANGED <<now, token, expiresAt, locked, made>>

(* AuthError: the old token stays as it is, the lock is released. *)
FetchFails(t) ==
  /\ pc[t] = "fetching"
  /\ locked' = FALSE
  /\ Ends(t)
  /\ UNCHANGED <<now, token, expiresAt, made>>

Send(t) ==
  /\ pc[t] = "ready"
  /\ pc' = [pc EXCEPT ![t] = "sent"]
  /\ due' = [due EXCEPT ![t] = now + AttemptTime]
  /\ UNCHANGED <<now, token, expiresAt, locked, header, attempt, made, started>>

(* A response that is not to be retried, a 401 included, is returned. *)
Answered(t) ==
  /\ pc[t] = "sent"
  /\ Ends(t)
  /\ UNCHANGED <<now, token, expiresAt, locked, made>>

(* A bug of that kind: the server may ask for any delay. *)
HintedUncapped == Hints

(* backoff_seconds: the server's hint, capped, or exponential with full jitter. *)
Hinted == {Least(hint, Cap) : hint \in Hints}
Jittered(n) == 0..Least(Base * 2^(n - 1), Cap)

RetryLeft(t) == attempt[t] <= MaxRetries

(* A retryable status or a transport error, with a retry left... *)
Throttled(t) ==
  /\ pc[t] = "sent"
  /\ RetryLeft(t)
  /\ \E delay \in Hinted \cup Jittered(attempt[t]) : due' = [due EXCEPT ![t] = now + delay]
  /\ pc' = [pc EXCEPT ![t] = "sleeping"]
  /\ UNCHANGED <<now, token, expiresAt, locked, header, attempt, made, started>>

(* ...and with none: RetryableHTTPError. *)
GivesUp(t) ==
  /\ pc[t] = "sent"
  /\ ~RetryLeft(t)
  /\ Ends(t)
  /\ UNCHANGED <<now, token, expiresAt, locked, made>>

(* The sleep is over: the next attempt, with the same headers. *)
Wake(t) ==
  /\ pc[t] = "sleeping"
  /\ now >= due[t]
  /\ attempt' = [attempt EXCEPT ![t] = @ + 1]
  /\ pc' = [pc EXCEPT ![t] = "ready"]
  /\ due' = [due EXCEPT ![t] = 0]
  /\ UNCHANGED <<now, token, expiresAt, locked, header, made, started>>

(* Whether a thread waits for something only time brings. *)
Waits(t) ==
  \/ pc[t] = "idle"
  \/ pc[t] = "token" /\ locked
  \/ pc[t] \in {"fetching", "sent", "sleeping"} /\ now < due[t]

Tick ==
  /\ now < Horizon
  /\ \A t \in Thread : Waits(t)
  /\ now' = now + 1
  /\ UNCHANGED <<token, expiresAt, locked, pc, header, attempt, due, made, started>>

-----------------------------------------------------------------------------
Act(t) ==
  \/ UseCached(t)
  \/ BeginFetch(t)
  \/ Fetched(t)
  \/ FetchFails(t)
  \/ Send(t)
  \/ Answered(t)
  \/ Throttled(t)
  \/ GivesUp(t)
  \/ Wake(t)

Next ==
  \/ \E t \in Thread : Start(t) \/ Act(t)
  \/ Tick

Spec == Init /\ [][Next]_vars

(* Threads that can act do, and time passes. *)
FairSpec ==
  /\ Spec
  /\ \A t \in Thread : WF_vars(Act(t))
  /\ WF_vars(Tick)

-----------------------------------------------------------------------------
(* Every variable keeps its type: a retry loop never exceeds its attempts. *)
TypeOK ==
  /\ now \in Nat
  /\ token \in Nat
  /\ expiresAt \in Nat
  /\ locked \in BOOLEAN
  /\ pc \in [Thread -> Pcs]
  /\ header \in [Thread -> Nat]
  /\ attempt \in [Thread -> 0..(MaxRetries + 1)]
  /\ due \in [Thread -> Nat]
  /\ made \in [Thread -> Nat]
  /\ started \in [Thread -> Nat]

(***************************************************************************)
(* The threads agree on who refreshes: the lock is held exactly while one  *)
(* thread fetches, and only because the token was due.  A token is due for *)
(* refresh Skew before the server drops it, and whoever is about to make   *)
(* the first attempt holds one that is not.                                *)
(***************************************************************************)
LockInv ==
  /\ locked => ~Cached
  /\ \A t \in Thread : pc[t] = "fetching" => locked
  /\ \A t, u \in Thread : pc[t] = "fetching" /\ pc[u] = "fetching" => t = u

FreshInv ==
  /\ (LongLived /\ token # 0) => expiresAt + Skew <= token
  /\ \A t \in Thread :
        (LongLived /\ pc[t] = "ready" /\ attempt[t] = 1) => now + Skew <= header[t]
  /\ \A t \in Thread : pc[t] = "sleeping" => attempt[t] \in 1..MaxRetries
  /\ \A t \in Thread : pc[t] \in {"ready", "sent"} => attempt[t] >= 1

StateInv == TypeOK /\ LockInv /\ FreshInv

(* Requests whose turn at the lock, if they needed one, has come. *)
Served ==
  {r \in Thread \X (1..PerThread) :
     /\ r[2] <= made[r[1]]
     /\ ~(pc[r[1]] = "token" /\ r[2] = made[r[1]])}

(* The time their token requests may have taken, and then some attempts. *)
Queued == Cardinality(Served) * AttemptTime
Spent(n) == PerThread * Cardinality(Thread) * AttemptTime + n * (AttemptTime + Cap)

(***************************************************************************)
(* Nobody waits past the end of what it waits for, and each wait ends in   *)
(* time: the wait for the lock after the token requests served so far, the *)
(* waits of an attempt after that and the attempts before it.              *)
(***************************************************************************)
TimeInv ==
  /\ locked => \E t \in Thread : pc[t] = "fetching"
  /\ \A t \in Thread :
       /\ made[t] <= PerThread
       /\ pc[t] # "idle" => made[t] >= 1
       /\ pc[t] = "token" => now <= started[t] + Queued
       /\ pc[t] \in {"fetching", "sent", "sleeping"} => now <= due[t]
       /\ pc[t] = "fetching" => due[t] <= now + AttemptTime
       /\ pc[t] = "fetching" =>
            \A u \in Thread : pc[u] \in {"token", "fetching"} => due[t] <= started[u] + Queued
       /\ pc[t] = "ready" => now <= started[t] + Spent(attempt[t] - 1)
       /\ pc[t] = "sent" => due[t] <= started[t] + Spent(attempt[t] - 1) + AttemptTime
       /\ pc[t] = "sleeping" => due[t] <= started[t] + Spent(attempt[t])

(* The invariant the proofs carry; it is inductive. *)
IInv == StateInv /\ TimeInv

(***************************************************************************)
(* However many threads find the token due at once, one of them refreshes  *)
(* it and the others use what it got: a token that is not due is never     *)
(* replaced.                                                               *)
(***************************************************************************)
RefreshOnlyWhenDue == [][token' # token => ~Cached]_vars

(***************************************************************************)
(* The first attempt of every request goes out with the skew to spare, so  *)
(* long as no token is shorter-lived than the skew and the floor allow.    *)
(***************************************************************************)
FirstAttemptFresh ==
  [][\A t \in Thread :
       (LongLived /\ pc[t] = "ready" /\ pc'[t] = "sent" /\ attempt[t] = 1) =>
         now + Skew <= header[t]]_vars

(***************************************************************************)
(* A request is over within the time its retries, its capped sleeps and    *)
(* the token requests ahead of it add up to, whatever delay the server     *)
(* asks for.                                                               *)
(***************************************************************************)
EndsInTime == \A t \in Thread : pc[t] # "idle" => now <= started[t] + Longest

(* Every request ends, also when the thread that held the lock failed. *)
EveryRequestEnds == \A t \in Thread : pc[t] = "token" ~> pc[t] = "idle"

(***************************************************************************)
(* What the comment on EXPIRY_SKEW_SECONDS says: a long-running batch      *)
(* never hands a just-expired token to ServiceNow.                         *)
(***************************************************************************)
NoExpiredTokenSent ==
  [][\A t \in Thread : (pc[t] = "ready" /\ pc'[t] = "sent") => now < header[t]]_vars
=============================================================================
