------------------------- MODULE ReferenceResolver -------------------------
(***************************************************************************)
(* ReferenceResolver: the names of manufacturers and models to records of  *)
(* core_company and cmdb_model, looked up once per run, created on demand. *)
(* A Name is the name of a record of one of the two tables, TableOf says   *)
(* of which; `books` is the state of the resolver and of the tables.       *)
(***************************************************************************)
EXTENDS RunSettings, SequencesExt

CONSTANTS
  Catalogue,      \* records there may be before the run: [sys_id, name]
  TableOf,        \* the table a name is looked up in
  AliasOf,        \* manufacturer_aliases and model_aliases: the name looked for
  UnsafeName,     \* names that cannot go into an encoded query
  NamesPerQuery,  \* LOOKUP_CHUNK_SIZE
  RowsPerName     \* rows a query may return for each name it asks for

ASSUME ReferenceAssumption ==
  /\ IsFiniteSet(Catalogue) /\ \A r \in Catalogue : r.name \in Name
  /\ TableOf \in [Name -> {"core_company", "cmdb_model"}]
  /\ AliasOf \in [Name -> Name]
  /\ \A d \in Device : MakerOf[d] # NoName => TableOf[AliasOf[MakerOf[d]]] = "core_company"
  /\ \A d \in Device : ModelOf[d] # NoName => TableOf[AliasOf[ModelOf[d]]] = "cmdb_model"
  /\ NamesPerQuery \in Nat \ {0} /\ RowsPerName \in Nat \ {0}

VARIABLE books

(***************************************************************************)
(* cache: names with a sys_id; missing, awaiting, blanks: as in the class; *)
(* posts: history, how often a create was asked for; rows: the names that  *)
(* have a record in ServiceNow; stock: history, the records there were at  *)
(* prime.                                                                  *)
(***************************************************************************)
NoBooks == [cache |-> {}, missing |-> {}, awaiting |-> {}, blanks |-> {},
            posts |-> [n \in Name |-> 0], rows |-> {}, stock |-> {}]

(* A bug of that kind: only the resolving side knows the aliases. *)
LookedUpRaw(names) == names \ UnsafeName

(* The names of prime, aliases applied, that a query can carry. *)
LookedUp(names) == {AliasOf[n] : n \in names} \ UnsafeName

(* chunked: the names in the order of a Python set, which is any order. *)
Queries(order) ==
  LET at(q) == {i \in DOMAIN order : (i - 1) \div NamesPerQuery = q}
  IN  {{order[i] : i \in at(q)} : q \in {(i - 1) \div NamesPerQuery : i \in DOMAIN order}}

Records(stock, names) == {r \in stock : r.name \in names}
NamesIn(stock) == {r.name : r \in stock}

(***************************************************************************)
(* _lookup asks for one page of RowsPerName rows for each name of a query: *)
(* names may be left out of it only when the records of the others fill it.*)
(***************************************************************************)
MayHide(query, hidden, stock) ==
  \/ hidden = {}
  \/ Cardinality(Records(stock, query \ hidden)) >= RowsPerName * Cardinality(query)

(* prime: the two lookups, when `stock` are the records there are. *)
Prime(makers, models, stock) ==
  \E ofMakers \in SetToSeqs(LookedUp(makers)), ofModels \in SetToSeqs(LookedUp(models)) :
    \E hidden \in SUBSET (NamesIn(stock) \cap (LookedUp(makers) \cup LookedUp(models))) :
      /\ \A query \in Queries(ofMakers) \cup Queries(ofModels) :
           MayHide(query, query \cap hidden, stock)
      /\ books' = [NoBooks EXCEPT
                     !.rows = NamesIn(stock), !.stock = stock,
                     !.cache = (NamesIn(stock) \cap (LookedUp(makers) \cup LookedUp(models)))
                                 \ hidden]

(* A bug of that kind: any record the instance created will do. *)
CreatedAny(b, n, answer) ==
  [b EXCEPT !.posts[n] = @ + 1,
            !.rows = IF answer = "created" THEN @ \cup {n} ELSE @,
            !.cache = IF answer \in {"created", "blank"} THEN @ \cup {n} ELSE @,
            !.missing = IF answer \in {"created", "blank"} THEN @ ELSE @ \cup {n}]

(***************************************************************************)
(* _create_record: "created"; "blank", a row without the name;             *)
(* "refused", or a success that names no sys_id.  A row is counted as      *)
(* there only under the name asked for.                                    *)
(***************************************************************************)
Created(b, n, answer) ==
  [b EXCEPT !.posts[n] = @ + 1,
            !.rows = IF answer = "created" THEN @ \cup {n} ELSE @,
            !.cache = IF answer = "created" THEN @ \cup {n} ELSE @,
            !.missing = IF answer = "created" THEN @ ELSE @ \cup {n},
            !.blanks = IF answer = "blank" THEN @ \cup {n} ELSE @]

Answers == {"created", "blank", "refused"}

(* Whether _resolve gets as far as the POST. *)
Posts(b, n, create) ==
  n # NoName /\ n \notin b.cache /\ n \notin b.missing /\ create /\ ~cfg.dryRun

(* _resolve: the cache, what was given up on, or a create. *)
Resolve(b, n, create, answer) ==
  IF n = NoName \/ n \in b.cache \/ n \in b.missing THEN b
  ELSE IF Posts(b, n, create) THEN Created(b, n, answer)
  ELSE [b EXCEPT !.missing = @ \cup {n}]

Alias(n) == IF n = NoName THEN NoName ELSE AliasOf[n]

(* _retry_model_awaiting_manufacturer: an earlier skip is forgotten. *)
Retried(b, maker, model) ==
  IF cfg.createModels /\ model \in b.awaiting /\ maker \in b.cache
  THEN [b EXCEPT !.awaiting = @ \ {model}, !.missing = @ \ {model}] ELSE b

(* A bug of that kind: a name given up on may become retryable. *)
AwaitsAgain(before, after, maker, model) ==
  cfg.createModels /\ model # NoName /\ model \notin after.cache /\ maker \notin after.cache

(* The model is left uncreated for want of a manufacturer, for the first time. *)
Awaits(before, after, maker, model) ==
  /\ cfg.createModels /\ model # NoName
  /\ model \notin after.cache /\ maker \notin after.cache
  /\ model \notin before.missing

(* references_for, in the code's order: manufacturer, retry, model, awaiting. *)
ReferencesFor(b, maker, model, ofMaker, ofModel) ==
  LET one   == Resolve(b, maker, cfg.createMakers, ofMaker)
      two   == Retried(one, maker, model)
      three == Resolve(two, model, cfg.createModels /\ maker \in two.cache, ofModel)
  IN  IF Awaits(two, three, maker, model)
      THEN [three EXCEPT !.awaiting = @ \cup {model}] ELSE three

(* Whether references_for asks for a record to be created. *)
AsksToCreate(b, maker, model) ==
  \E a \in Answers : ReferencesFor(b, maker, model, a, a).posts # b.posts

-----------------------------------------------------------------------------
Books ==
  [cache : SUBSET Name, missing : SUBSET Name, awaiting : SUBSET Name, blanks : SUBSET Name,
   posts : [Name -> Nat], rows : SUBSET Name, stock : SUBSET Catalogue]

ReferencesTypeOK == books \in Books

(***************************************************************************)
(* A record is asked for once per name and run, however many devices name  *)
(* it, with and without a manufacturer, and whatever became of the first   *)
(* request ("each run would create another").                              *)
(***************************************************************************)
CreateOnce == \A n \in Name : books.posts[n] <= 1

(***************************************************************************)
(* What makes it so: a name that was asked for is in one book or the       *)
(* other, and only what was given up on unasked may be retried.            *)
(***************************************************************************)
CreateBooks ==
  /\ books.awaiting \subseteq books.missing
  /\ \A n \in Name :
       books.posts[n] >= 1 => /\ n \in books.cache \cup books.missing
                              /\ n \notin books.awaiting

(***************************************************************************)
(* The answer to the query for a name had no room for it: the records of   *)
(* other names of its table fill the share of at least two names.          *)
(***************************************************************************)
CrowdedOut(stock, n) ==
  LET others == {r \in stock : r.name # n /\ TableOf[r.name] = TableOf[n]}
  IN  Cardinality(others) >= 2 * RowsPerName

(***************************************************************************)
(* What the instance had when the run began is not created again, under    *)
(* whatever alias the devices name it, unless no query can carry the name  *)
(* or duplicates of other names crowd it out of the answer.                *)
(***************************************************************************)
NoDuplicateRow ==
  \A n \in NamesIn(books.stock) \ UnsafeName : books.posts[n] > 0 => CrowdedOut(books.stock, n)
=============================================================================
