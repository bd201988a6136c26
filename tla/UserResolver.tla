---------------------------- MODULE UserResolver ----------------------------
(***************************************************************************)
(* UserResolver.resolve_many: Entra users to sys_user rows, key by key in  *)
(* the configured order, all users that are still unmatched at once.       *)
(***************************************************************************)
EXTENDS RunSettings

CONSTANTS
  UserOrder,     \* the order resolve_many is given the users in
  MatchOrder,    \* SNOW_USER_MATCH_ORDER, without keys that have no field
  ValuesOf,      \* [key -> [user -> the values to look for, lowercased, in order]]
  UnsafeValue,        \* values that cannot go into an encoded query
  Row,           \* sys_user rows there may be: [sys_id, active, and a field per key]
  ActiveOnly,    \* SNOW_USER_ACTIVE_ONLY
  ChunkSize,     \* LOOKUP_CHUNK_SIZE
  RowsPerValue,  \* rows a query may return for each value it asks for
  NoRow, NoValue

ASSUME UserAssumption ==
  /\ UserOrder \in Seq(User) /\ \A u \in User : \E i \in DOMAIN UserOrder : UserOrder[i] = u
  /\ MatchOrder \in Seq(DOMAIN ValuesOf)
  /\ \A k \in DOMAIN ValuesOf : \A u \in User : DOMAIN ValuesOf[k][u] \subseteq 1..2
  /\ IsFiniteSet(Row)
  /\ NoRow \notin Row
  /\ ChunkSize \in Nat \ {0}
  /\ RowsPerValue \in Nat \ {0}

VARIABLES
  table,      \* the sys_user rows of the instance
  keyAt,      \* position of the key being tried in MatchOrder; 0: not called
  unmatched,  \* `unresolved`
  owner,      \* `_cache`: the row of a user, or NoRow
  cut         \* history: some query had more rows to return than its limit

userVars == <<table, keyAt, unmatched, owner, cut>>

UsersIdle ==
  /\ table = {}
  /\ keyAt = 0
  /\ unmatched = {}
  /\ owner = [u \in User |-> NoRow]
  /\ cut = FALSE

MatchKey == MatchOrder[keyAt]

SafeValue(v) == v # NoValue /\ v \notin UnsafeValue

(* The values of a user under the current key that can be asked for. *)
Sought(u) == {s \in DOMAIN ValuesOf[MatchKey][u] : SafeValue(ValuesOf[MatchKey][u][s])}

(* _candidate_values: the values of all users still unmatched, in order. *)
Wanted(u) == {ValuesOf[MatchKey][u][s] : s \in Sought(u)}
Candidates == UNION {Wanted(u) : u \in unmatched}

(***************************************************************************)
(* The place of a value in that dict: by the first user who has it, then   *)
(* by slot; a key gives a user two values at most.                         *)
(***************************************************************************)
Place(v) ==
  LET places == UNION {{2 * i + s : s \in {t \in Sought(UserOrder[i]) :
                                             ValuesOf[MatchKey][UserOrder[i]][t] = v}} :
                       i \in {j \in DOMAIN UserOrder : UserOrder[j] \in unmatched}}
  IN  CHOOSE p \in places : \A q \in places : p <= q

(* chunked: ChunkSize of the values to a query, in the order of their places. *)
Chunks(C, place) ==
  LET rank == [v \in C |-> Cardinality({w \in C : place[w] < place[v]})]
  IN  {{v \in C : rank[v] \div ChunkSize = n} : n \in {rank[v] \div ChunkSize : v \in C}}

Visible == {r \in table : r.active \/ ~ActiveOnly}

Matching(V) == {r \in Visible : r[MatchKey] \in V}

(* What _query_users can get: each chunk's rows, or as many as its limit. *)
Returned(chunks, rows) ==
  \A V \in chunks :
    IF Cardinality(Matching(V)) <= RowsPerValue * Cardinality(V)
    THEN Matching(V) \subseteq rows
    ELSE Cardinality(rows \cap Matching(V)) = RowsPerValue * Cardinality(V)

(* A bug of that kind: the first of several rows is taken. *)
MatchesFirst(rows, v) == {r \in rows : r[MatchKey] = v} # {}

(* Exactly one row has the value: more are ambiguous and match nobody. *)
Matches(rows, v) == Cardinality({r \in rows : r[MatchKey] = v}) = 1

RowWith(rows, v) == CHOOSE r \in rows : r[MatchKey] = v

(* A bug of that kind: a later value overwrites an earlier match. *)
MatchLatest(place, rows, u) ==
  LET hits == {v \in Wanted(u) : Matches(rows, v)}
  IN  IF hits = {} THEN NoRow
      ELSE RowWith(rows, CHOOSE v \in hits : \A w \in hits : place[w] <= place[v])

(* matched.setdefault: the earliest of the user's values that matches. *)
Match(place, rows, u) ==
  LET hits == {v \in Wanted(u) : Matches(rows, v)}
  IN  IF hits = {} THEN NoRow
      ELSE RowWith(rows, CHOOSE v \in hits : \A w \in hits : place[v] <= place[w])

ResolveMany(users, rows) ==
  /\ keyAt = 0
  /\ keyAt' = 1
  /\ unmatched' = users
  /\ table' = rows
  /\ UNCHANGED <<owner, cut>>

(* _resolve_by_key for the key at hand. *)
ResolveByKey ==
  /\ keyAt \in DOMAIN MatchOrder /\ unmatched # {}
  /\ LET C      == Candidates
         place  == [v \in C |-> Place(v)]
         chunks == Chunks(C, place)
         hits   == Matching(C)
     IN  \E rows \in SUBSET hits :
           /\ Returned(chunks, rows)
           /\ owner' = [u \in User |->
                          IF u \in unmatched THEN Match(place, rows, u) ELSE owner[u]]
           /\ cut' = (cut \/ rows # hits)
  /\ unmatched' = {u \in unmatched : owner'[u] = NoRow}
  /\ keyAt' = keyAt + 1
  /\ UNCHANGED table

UsersDone == keyAt > 0 /\ (keyAt \notin DOMAIN MatchOrder \/ unmatched = {})

(* The table is the instance's again; the cache is kept for the payloads. *)
UsersReturn ==
  /\ UsersDone
  /\ keyAt' = 0
  /\ table' = {}
  /\ unmatched' = {}
  /\ cut' = FALSE
  /\ UNCHANGED owner

-----------------------------------------------------------------------------
(* The row a single value stands for, if it stands for one only. *)
Stands(key, v) ==
  LET rows == {r \in Visible : r[key] = v}
  IN  IF Cardinality(rows) = 1 THEN CHOOSE r \in rows : TRUE ELSE NoRow

(***************************************************************************)
(* No device goes to the wrong person: the row a user is given is the only *)
(* one of the instance that has one of the user's own values under one of  *)
(* the keys, unless the row limit hid another.                             *)
(***************************************************************************)
AssignedIsUnique ==
  (keyAt > 0 /\ ~cut) =>
    \A u \in User : owner[u] # NoRow =>
      \E k \in DOMAIN MatchOrder : \E i \in DOMAIN ValuesOf[MatchOrder[k]][u] :
        /\ SafeValue(ValuesOf[MatchOrder[k]][u][i])
        /\ Stands(MatchOrder[k], ValuesOf[MatchOrder[k]][u][i]) = owner[u]

(* Two users with a value in common under some key: john@a and john@b. *)
Shares(u) ==
  \E w \in User \ {u} : \E k \in DOMAIN ValuesOf :
    \E i \in DOMAIN ValuesOf[k][u] : \E j \in DOMAIN ValuesOf[k][w] :
      ValuesOf[k][u][i] = ValuesOf[k][w][j] /\ ValuesOf[k][u][i] # NoValue

(* The values of a user that stand for a row, as <<position of key, slot>>. *)
Hits(u) ==
  {p \in (1..(keyAt - 1)) \X (1..2) :
     LET values == ValuesOf[MatchOrder[p[1]]][u]
     IN  /\ p[2] \in DOMAIN values
         /\ SafeValue(values[p[2]])
         /\ Stands(MatchOrder[p[1]], values[p[2]]) # NoRow}

(* One user looked up alone, as the module's docstring describes it. *)
FirstHit(u) ==
  LET hits == Hits(u)
      h == CHOOSE p \in hits : \A q \in hits : p[1] < q[1] \/ (p[1] = q[1] /\ p[2] <= q[2])
  IN  IF hits = {} THEN NoRow ELSE Stands(MatchOrder[h[1]], ValuesOf[MatchOrder[h[1]]][u][h[2]])

(***************************************************************************)
(* Looking users up together gives each the row he would be given alone    *)
(* ("stops at the first unambiguous hit"), when no value is another's too. *)
(***************************************************************************)
BatchIsPerUser ==
  (keyAt > 0 /\ ~cut) =>
    \A u \in User :
      ((u \in unmatched \/ owner[u] # NoRow) /\ ~Shares(u)) => owner[u] = FirstHit(u)

(***************************************************************************)
(* The docstring of user_resolver.py, for every user: "user_name:          *)
(* sys_user.user_name == UPN, then the UPN local part".                    *)
(***************************************************************************)
DocumentedMatch ==
  (keyAt > 0 /\ ~cut) => \A u \in User : owner[u] # NoRow => owner[u] = FirstHit(u)
=============================================================================
