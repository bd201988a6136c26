----------------------------- MODULE GraphBatch -----------------------------
(***************************************************************************)
(* GraphClient._batch_get: GET a set of keys through $batch, in chunks,    *)
(* with sub-requests that are throttled tried again in later rounds.       *)
(***************************************************************************)
EXTENDS Naturals, FiniteSets

CONSTANTS
  Key,         \* what can be asked for: ids of devices and of users
  BatchLimit,  \* GRAPH_BATCH_LIMIT
  MaxRetries   \* GraphConfig.max_retries

ASSUME BatchAssumption ==
  /\ IsFiniteSet(Key)
  /\ BatchLimit \in Nat \ {0}
  /\ MaxRetries \in Nat

(***************************************************************************)
(* Of a sub-request: "ok" 2xx; "throttled" 429, 503, 504; "gone" anything  *)
(* that leaves the key without a body for good: 404, another status, or no *)
(* sub-response at all.  "skipped": its whole chunk failed.                *)
(***************************************************************************)
Verdict == {"ok", "throttled", "gone"}

VARIABLES
  round,      \* `attempt`; 0 when no call is under way
  toAsk,      \* keys of this round that no chunk has carried yet
  throttled,  \* `throttled`: keys for the next round
  resolved,   \* keys with a body
  verdict,    \* history: what last came of a key
  tries       \* history: how often a key was asked for

batchVars == <<round, toAsk, throttled, resolved, verdict, tries>>

BatchIdle ==
  /\ round = 0
  /\ toAsk = {} /\ throttled = {} /\ resolved = {}
  /\ verdict = [k \in Key |-> "none"]
  /\ tries = [k \in Key |-> 0]

BatchStart(keys) ==
  /\ round = 0
  /\ round' = 1
  /\ toAsk' = keys
  /\ UNCHANGED <<throttled, resolved, verdict, tries>>

(* _chunks: BatchLimit of the keys to come, or the rest. *)
Chunk(B) ==
  /\ B \subseteq toAsk /\ B # {}
  /\ Cardinality(B) = BatchLimit \/ (Cardinality(B) < BatchLimit /\ B = toAsk)

Asked(B) == tries' = [k \in Key |-> IF k \in B THEN tries[k] + 1 ELSE tries[k]]

(* A bug of that kind: one throttled part sends the whole chunk again. *)
ThrottledChunk(B, ans) == IF \E k \in B : ans[k] = "throttled" THEN B ELSE {}

(* The keys of a chunk that are asked for again. *)
ThrottledIn(B, ans) == {k \in B : ans[k] = "throttled"}

ChunkAnswered(B, ans) ==
  /\ Chunk(B)
  /\ toAsk' = toAsk \ B
  /\ resolved' = resolved \cup {k \in B : ans[k] = "ok"}
  /\ throttled' = throttled \cup ThrottledIn(B, ans)
  /\ verdict' = [k \in Key |-> IF k \in B THEN ans[k] ELSE verdict[k]]
  /\ Asked(B)
  /\ UNCHANGED round

(* The $batch request itself fails for good where its answer is optional. *)
ChunkSkipped(B) ==
  /\ Chunk(B)
  /\ toAsk' = toAsk \ B
  /\ verdict' = [k \in Key |-> IF k \in B THEN "skipped" ELSE verdict[k]]
  /\ Asked(B)
  /\ UNCHANGED <<round, throttled, resolved>>

(* A bug of that kind: the retries stop one round early. *)
RoundsLeftLess == round < MaxRetries

(* A bug of that kind: nothing counts the rounds. *)
RoundsLeftAlways == TRUE

RoundsLeft == round <= MaxRetries

NextRound ==
  /\ round > 0 /\ toAsk = {} /\ throttled # {}
  /\ RoundsLeft
  /\ round' = round + 1
  /\ toAsk' = throttled
  /\ throttled' = {}
  /\ UNCHANGED <<resolved, verdict, tries>>

(* The loop is over, for want of throttled keys or of rounds. *)
BatchOver == round > 0 /\ toAsk = {} /\ (throttled = {} \/ ~RoundsLeft)

BatchReset ==
  /\ round' = 0
  /\ toAsk' = {} /\ throttled' = {} /\ resolved' = {}
  /\ verdict' = [k \in Key |-> "none"]
  /\ tries' = [k \in Key |-> 0]

-----------------------------------------------------------------------------
BatchTypeOK ==
  /\ round \in 0..(MaxRetries + 1)
  /\ toAsk \subseteq Key /\ throttled \subseteq Key /\ resolved \subseteq Key
  /\ verdict \in [Key -> Verdict \cup {"none", "skipped"}]
  /\ tries \in [Key -> 0..(MaxRetries + 1)]

(***************************************************************************)
(* The rounds never mix up their keys: what has a body is what was         *)
(* answered, what is to be asked again is what was throttled, and each key *)
(* was asked once in every round that carried it.                          *)
(***************************************************************************)
BatchBooks ==
  /\ resolved = {k \in Key : verdict[k] = "ok"}
  /\ {k \in Key : verdict[k] = "throttled"} = throttled \cup {k \in toAsk : tries[k] > 0}
  /\ \A k \in Key :
       /\ verdict[k] = "none" <=> tries[k] = 0
       /\ tries[k] <= round
       /\ k \in toAsk => tries[k] = round - 1 /\ k \notin throttled
       /\ k \in throttled => tries[k] = round

(***************************************************************************)
(* A key goes without a body only if Graph refused it, its chunk failed,   *)
(* or it was throttled in every round there is: throttling of one          *)
(* sub-request costs none of the others theirs, and none of its own tries. *)
(***************************************************************************)
ThrottledGetsAllTries ==
  BatchOver => \A k \in Key : verdict[k] = "throttled" => tries[k] = MaxRetries + 1

(***************************************************************************)
(* No key is asked for again once it has an answer: each sub-request       *)
(* counts against the tenant's throttling limits.                          *)
(***************************************************************************)
AnsweredOnce ==
  [][\A k \in Key : tries'[k] > tries[k] => verdict[k] \in {"none", "throttled"}]_batchVars
=============================================================================
