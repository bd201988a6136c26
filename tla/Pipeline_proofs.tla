--------------------------- MODULE Pipeline_proofs ---------------------------
(***************************************************************************)
(* Proofs about Pipeline: what its components keep in their books, step by *)
(* step, for any devices, settings, pages, verdicts and answers; that      *)
(* every step is progress, and that there is one until the run is over.    *)
(***************************************************************************)
EXTENDS Pipeline, FiniteSetTheorems, WellFoundedInduction, TLAPS

-----------------------------------------------------------------------------
(* $batch: its books at rest, and after each step. *)

BatchInv == BatchTypeOK /\ BatchBooks

LEMMA BatchIdleInv == BatchIdle => BatchInv
BY BatchAssumption DEF BatchIdle, BatchInv, BatchTypeOK, BatchBooks, Verdict

LEMMA BatchResetInv == BatchReset => BatchInv'
BY BatchAssumption DEF BatchReset, BatchInv, BatchTypeOK, BatchBooks, Verdict

LEMMA BatchSame == ASSUME BatchInv, UNCHANGED batchVars PROVE BatchInv'
BY DEF BatchInv, BatchTypeOK, BatchBooks, batchVars

LEMMA BatchStartInv ==
  ASSUME BatchInv, NEW keys \in SUBSET Key, BatchStart(keys) PROVE BatchInv'
BY BatchAssumption DEF BatchInv, BatchTypeOK, BatchBooks, BatchStart, Verdict

LEMMA ChunkAnsweredInv ==
  ASSUME BatchInv, NEW B \in SUBSET toAsk, NEW ans \in [B -> Verdict], ChunkAnswered(B, ans)
  PROVE  BatchInv'
<1> USE BatchAssumption DEF BatchInv
<1>1. PICK b \in B : TRUE BY DEF ChunkAnswered, Chunk
<1>2. round > 0 BY <1>1 DEF BatchBooks, BatchTypeOK
<1>3. BatchTypeOK' BY <1>2 DEF BatchTypeOK, BatchBooks, ChunkAnswered, Asked, ThrottledIn, Verdict
<1>4. BatchBooks' BY <1>2 DEF BatchTypeOK, BatchBooks, ChunkAnswered, Asked, ThrottledIn, Verdict
<1>5. QED BY <1>3, <1>4

LEMMA ChunkSkippedInv ==
  ASSUME BatchInv, NEW B \in SUBSET toAsk, ChunkSkipped(B) PROVE BatchInv'
<1> USE BatchAssumption DEF BatchInv
<1>1. PICK b \in B : TRUE BY DEF ChunkSkipped, Chunk
<1>2. round > 0 BY <1>1 DEF BatchBooks, BatchTypeOK
<1>3. BatchTypeOK' BY <1>2 DEF BatchTypeOK, BatchBooks, ChunkSkipped, Asked, Verdict
<1>4. BatchBooks' BY <1>2 DEF BatchTypeOK, BatchBooks, ChunkSkipped, Asked, Verdict
<1>5. QED BY <1>3, <1>4

LEMMA NextRoundInv == ASSUME BatchInv, NextRound PROVE BatchInv'
BY BatchAssumption DEF BatchInv, BatchTypeOK, BatchBooks, NextRound, RoundsLeft, Verdict

(* A key whose last answer was a throttle is still to be asked for, or was asked every time. *)
LEMMA AllTries == BatchInv => ThrottledGetsAllTries
BY BatchAssumption
   DEF BatchInv, BatchTypeOK, BatchBooks, ThrottledGetsAllTries, BatchOver, RoundsLeft

-----------------------------------------------------------------------------
(* The custom attribute. *)

LEMMA AttributeIdleInv == AttributeIdle => AttributeBooks
BY DEF AttributeIdle, AttributeBooks

LEMMA AttributeSame == ASSUME AttributeBooks, UNCHANGED attributeVars PROVE AttributeBooks'
BY DEF AttributeBooks, attributeVars

LEMMA AttributeStep ==
  ASSUME AttributeBooks,
         ReadAttribute \/ (\E S \in SUBSET unread : StatesPage(S)) \/ StatesRefused
  PROVE  AttributeBooks'
<1>1. CASE ReadAttribute BY <1>1, AttributeAssumption DEF AttributeBooks, ReadAttribute
<1>2. CASE StatesRefused BY <1>2, AttributeAssumption DEF AttributeBooks, StatesRefused
<1>3. CASE \E S \in SUBSET unread : StatesPage(S)
  <2>1. PICK S \in SUBSET unread : StatesPage(S) BY <1>3
  <2>2. QED BY <2>1 DEF AttributeBooks, StatesPage
<1>4. QED BY <1>1, <1>2, <1>3

-----------------------------------------------------------------------------
(* The reference resolver, as an operation on its books. *)

BooksOK(b) ==
  /\ b \in Books
  /\ b.awaiting \subseteq b.missing
  /\ b.cache \subseteq b.rows
  /\ \A n \in Name : b.posts[n] <= 1
  /\ \A n \in Name : b.posts[n] >= 1 => n \in b.cache \cup b.missing /\ n \notin b.awaiting

(* What was there before the run is not asked for, unless it was crowded out. *)
StockUntouched(b) ==
  \A n \in NamesIn(b.stock) \ UnsafeName : b.posts[n] > 0 => CrowdedOut(b.stock, n)

(* Books only ever grow by names that are safe to ask for. *)
Grown(b, c) ==
  /\ b.cache \subseteq c.cache /\ b.stock = c.stock
  /\ \A n \in Name : c.posts[n] # b.posts[n] => n \notin b.cache

LEMMA ResolveOK ==
  ASSUME NEW b, BooksOK(b), NEW n \in Name \cup {NoName}, NEW create \in BOOLEAN,
         NEW answer \in Answers
  PROVE  LET c == Resolve(b, n, create, answer)
         IN  /\ BooksOK(c) /\ Grown(b, c)
             /\ \A m \in Name : c.posts[m] # b.posts[m] => m = n
             /\ ~create => c.posts = b.posts /\ c.cache = b.cache /\ c.awaiting = b.awaiting
             /\ n # NoName => n \in c.cache \cup c.missing
             /\ b.missing \subseteq c.missing /\ c.awaiting = b.awaiting
<1> DEFINE c == Resolve(b, n, create, answer)
<1>0. \A m \in Name : b.posts[m] \in Nat BY DEF BooksOK, Books
<1>1. CASE c = b
  <2>1. n # NoName => n \in c.cache \cup c.missing
    <3> SUFFICES ASSUME n # NoName, n \notin b.cache, n \notin b.missing PROVE FALSE BY <1>1
    <3>1. c # b
      <4>1. CASE Posts(b, n, create)
        <5>1. c.posts[n] = b.posts[n] + 1 BY <4>1 DEF Resolve, Created, Posts, BooksOK, Books
        <5>2. QED BY <5>1, <1>0
      <4>2. CASE ~Posts(b, n, create)
        <5>1. n \in c.missing BY <4>2 DEF Resolve, BooksOK, Books
        <5>2. QED BY <5>1
      <4>3. QED BY <4>1, <4>2
    <3>2. QED BY <3>1, <1>1
  <2>2. QED BY <1>1, <2>1 DEF Grown
<1>2. CASE Posts(b, n, create)
  <2>1. n \in Name /\ n \notin b.cache /\ n \notin b.missing /\ create BY <1>2 DEF Posts
  <2>2. b.posts[n] = 0 /\ n \notin b.awaiting BY <1>0, <2>1 DEF BooksOK
  <2>3. c = Created(b, n, answer) BY <1>2, <2>1 DEF Resolve, Posts
  <2> HIDE DEF c
  <2>a. c.posts = [b.posts EXCEPT ![n] = b.posts[n] + 1] BY <2>3 DEF Created, BooksOK, Books
  <2>b. c.awaiting = b.awaiting /\ c.stock = b.stock BY <2>3 DEF Created, BooksOK, Books
  <2>c. c.rows = IF answer = "created" THEN b.rows \cup {n} ELSE b.rows
    BY <2>3 DEF Created, BooksOK, Books
  <2>d. c.cache = IF answer = "created" THEN b.cache \cup {n} ELSE b.cache
    BY <2>3 DEF Created, BooksOK, Books
  <2>e. c.missing = IF answer = "created" THEN b.missing ELSE b.missing \cup {n}
    BY <2>3 DEF Created, BooksOK, Books
  <2>4. c \in Books
    <3>1. c.blanks \in SUBSET Name BY <2>1, <2>3 DEF Created, BooksOK, Books
    <3>2. DOMAIN c = {"cache", "missing", "awaiting", "blanks", "posts", "rows", "stock"}
      BY <2>3 DEF Created, BooksOK, Books
    <3>3. c = [cache |-> c.cache, missing |-> c.missing, awaiting |-> c.awaiting,
               blanks |-> c.blanks, posts |-> c.posts, rows |-> c.rows, stock |-> c.stock]
      BY <2>3, <3>2 DEF Created, BooksOK, Books
    <3>4. c.posts \in [Name -> Nat] BY <1>0, <2>1, <2>a DEF BooksOK, Books
    <3>5. /\ c.cache \subseteq Name /\ c.missing \subseteq Name /\ c.awaiting \subseteq Name
          /\ c.rows \subseteq Name /\ c.stock \subseteq Catalogue
      BY <2>1, <2>b, <2>c, <2>d, <2>e DEF BooksOK, Books
    <3>6. QED BY <3>1, <3>3, <3>4, <3>5 DEF Books
  <2>5. BooksOK(c)
    <3>1. \A m \in Name : m # n => c.posts[m] = b.posts[m] BY <2>a DEF BooksOK, Books
    <3>2. c.posts[n] = 1 BY <2>1, <2>2, <2>a DEF BooksOK, Books
    <3>3. n \in c.cache \cup c.missing BY <2>d, <2>e
    <3>4. b.cache \subseteq c.cache /\ b.missing \subseteq c.missing BY <2>d, <2>e
    <3>5. c.cache \subseteq c.rows BY <2>c, <2>d DEF BooksOK
    <3>6. QED BY <2>2, <2>4, <2>b, <3>1, <3>2, <3>3, <3>4, <3>5 DEF BooksOK
  <2>6. \A m \in Name : c.posts[m] # b.posts[m] => m = n BY <2>a DEF BooksOK, Books
  <2>7. QED BY <2>1, <2>a, <2>b, <2>c, <2>d, <2>e, <2>5, <2>6 DEF Grown, c
<1>3. CASE c = [b EXCEPT !.missing = b.missing \cup {n}] /\ n # NoName
  <2>1. n \in Name BY <1>3
  <2>2. /\ c.posts = b.posts /\ c.awaiting = b.awaiting /\ c.stock = b.stock /\ c.rows = b.rows
        /\ c.cache = b.cache /\ c.missing = b.missing \cup {n} /\ c \in Books
    BY <1>3, <2>1 DEF BooksOK, Books
  <2>3. BooksOK(c) BY <2>2 DEF BooksOK
  <2>4. QED BY <2>2, <2>3 DEF Grown
<1>4. c = b \/ Posts(b, n, create) \/ (c = [b EXCEPT !.missing = b.missing \cup {n}] /\ n # NoName)
  BY DEF Resolve
<1>5. QED BY <1>1, <1>2, <1>3, <1>4

LEMMA RetriedOK ==
  ASSUME NEW b, BooksOK(b), NEW maker, NEW model
  PROVE  LET c == Retried(b, maker, model)
         IN  BooksOK(c) /\ Grown(b, c) /\ c.posts = b.posts /\ c.cache = b.cache
<1> DEFINE c == Retried(b, maker, model)
<1>1. CASE c = b BY <1>1 DEF Grown
<1>2. CASE /\ model \in b.awaiting
           /\ c = [b EXCEPT !.awaiting = b.awaiting \ {model}, !.missing = b.missing \ {model}]
  <2>1. /\ c.posts = b.posts /\ c.cache = b.cache /\ c.rows = b.rows /\ c.stock = b.stock
        /\ c.awaiting = b.awaiting \ {model} /\ c.missing = b.missing \ {model} /\ c \in Books
    BY <1>2 DEF BooksOK, Books
  <2>2. BooksOK(c) BY <1>2, <2>1 DEF BooksOK
  <2>3. QED BY <2>1, <2>2 DEF Grown
<1>3. QED BY <1>1, <1>2 DEF Retried

(* What references_for may make of the books b for a manufacturer and a model. *)
ReferencesRight(b, c, maker, model) ==
  /\ BooksOK(c) /\ Grown(b, c)
  /\ \A m \in Name : c.posts[m] # b.posts[m] => m \in {maker, model}

LEMMA GrownTransitive ==
  ASSUME NEW b, NEW c, NEW d, Grown(b, c), Grown(c, d) PROVE Grown(b, d)
BY DEF Grown

(***************************************************************************)
(* The whole of references_for: a name is asked for once, a model that is  *)
(* skipped for want of a manufacturer has not been, and the links are to   *)
(* records that are there.                                                 *)
(***************************************************************************)
LEMMA ReferencesForOK ==
  ASSUME NEW b, BooksOK(b), NEW maker \in Name \cup {NoName}, NEW model \in Name \cup {NoName},
         NEW ofMaker \in Answers, NEW ofModel \in Answers,
         cfg.createMakers \in BOOLEAN, cfg.createModels \in BOOLEAN
  PROVE  LET c == ReferencesFor(b, maker, model, ofMaker, ofModel)
         IN  ReferencesRight(b, c, maker, model)
<1> USE DEF ReferencesRight
<1> DEFINE one   == Resolve(b, maker, cfg.createMakers, ofMaker)
           two   == Retried(one, maker, model)
           may   == cfg.createModels /\ maker \in two.cache
           three == Resolve(two, model, may, ofModel)
           four  == [three EXCEPT !.awaiting = three.awaiting \cup {model}]
           c     == ReferencesFor(b, maker, model, ofMaker, ofModel)
<1>1. /\ BooksOK(one) /\ Grown(b, one)
      /\ \A m \in Name : one.posts[m] # b.posts[m] => m = maker
  BY ResolveOK
<1>2. BooksOK(two) /\ Grown(one, two) /\ two.posts = one.posts BY <1>1, RetriedOK
<1>3. /\ BooksOK(three) /\ Grown(two, three)
      /\ \A m \in Name : three.posts[m] # two.posts[m] => m = model
      /\ ~may => three.posts = two.posts /\ three.cache = two.cache
      /\ model # NoName => model \in three.cache \cup three.missing
  <2>1. may \in BOOLEAN OBVIOUS
  <2> HIDE DEF one, two, may
  <2>2. QED BY <1>2, <2>1, ResolveOK
<1>4. Grown(b, three) BY <1>1, <1>2, <1>3, GrownTransitive
<1>5. \A m \in Name : three.posts[m] # b.posts[m] => m \in {maker, model}
  BY <1>1, <1>2, <1>3
<1>6. CASE c = three BY <1>3, <1>4, <1>5, <1>6
<1>7. CASE c = four /\ Awaits(two, three, maker, model)
  <2> HIDE DEF one, two, three, c
  <2>1. /\ model \in Name /\ model \notin three.cache /\ maker \notin three.cache
        /\ model \notin two.missing
    BY <1>7 DEF Awaits
  <2>2. ~may
    <3>1. maker \notin two.cache
      <4> HIDE DEF may
      <4>1. QED BY <1>3, <2>1 DEF Grown
    <3>2. QED BY <3>1
  <2> HIDE DEF may
  <2>3. three.posts = two.posts /\ model \notin two.cache BY <1>3, <2>1, <2>2
  <2>4. model \in three.missing BY <1>3, <2>1, SettingsAssumption
  <2>5. three.posts[model] < 1
    <3>1. ~(two.posts[model] >= 1) BY <1>2, <2>1, <2>3 DEF BooksOK
    <3>2. two.posts[model] \in Nat BY <1>2, <2>1 DEF BooksOK, Books
    <3>3. QED BY <2>3, <3>1, <3>2
  <2>6. /\ c.posts = three.posts /\ c.cache = three.cache /\ c.rows = three.rows
        /\ c.stock = three.stock /\ c.missing = three.missing
        /\ c.awaiting = three.awaiting \cup {model} /\ c \in Books
    BY <1>3, <1>7, <2>1 DEF BooksOK, Books
  <2>7. \A n \in Name : c.posts[n] >= 1 => n # model BY <2>5, <2>6, <1>3 DEF BooksOK, Books
  <2>8. BooksOK(c) BY <1>3, <2>4, <2>6, <2>7 DEF BooksOK
  <2>9. Grown(b, c) BY <1>4, <2>6 DEF Grown
  <2>10. QED BY <1>5, <2>6, <2>8, <2>9 DEF c
<1>8. c = three \/ (c = four /\ Awaits(two, three, maker, model)) BY DEF ReferencesFor
<1>9. QED BY <1>6, <1>7, <1>8

LEMMA NoBooksOK == BooksOK(NoBooks) /\ StockUntouched(NoBooks)
BY DEF NoBooks, BooksOK, Books, StockUntouched, NamesIn

-----------------------------------------------------------------------------
(* The list of devices. *)

(* SetToSeq lists a finite set without loss. *)
LEMMA SetToSeqLists ==
  ASSUME NEW T, IsFiniteSet(T) PROVE SetToSeq(T) \in Seq(T) /\ Range(SetToSeq(T)) = T
<1> DEFINE n == Cardinality(T)
           s == SetToSeq(T)
<1>1. n \in Nat /\ ExistsBijection(1..n, T) BY FS_CardinalityType
<1>2. \E f \in [1..n -> T] : IsInjective(f)
  BY <1>1 DEF ExistsBijection, Bijection, Injection
<1>3. s \in [1..n -> T] /\ IsInjective(s) BY <1>2 DEF SetToSeq
<1>4. s \in Injection(1..n, T) BY <1>3 DEF Injection
<1>5. Cardinality(1..n) = n BY <1>1, FS_Interval
<1>6. s \in Surjection(1..n, T) BY <1>4, <1>5, FS_Injection
<1>7. Range(s) = T BY <1>3, <1>6 DEF Surjection, Range
<1>8. s \in Seq(T) BY <1>1, <1>3
<1>9. QED BY <1>7, <1>8

LEMMA SeqMonotone ==
  ASSUME NEW S, NEW T, S \subseteq T, NEW s \in Seq(S) PROVE s \in Seq(T)
OBVIOUS

LEMMA RangeConcat ==
  ASSUME NEW S, NEW s \in Seq(S), NEW t \in Seq(S)
  PROVE  s \o t \in Seq(S) /\ Range(s \o t) = Range(s) \cup Range(t)
<1>1. s \o t \in Seq(S) /\ Len(s \o t) = Len(s) + Len(t) OBVIOUS
<1>2. \A i \in 1..(Len(s) + Len(t)) :
        (s \o t)[i] = IF i <= Len(s) THEN s[i] ELSE t[i - Len(s)]
  OBVIOUS
<1>3. Range(s \o t) \subseteq Range(s) \cup Range(t)
  <2> SUFFICES ASSUME NEW i \in 1..(Len(s) + Len(t))
               PROVE  (s \o t)[i] \in Range(s) \cup Range(t)
    BY <1>1 DEF Range
  <2>1. CASE i <= Len(s) BY <1>2, <2>1 DEF Range
  <2>2. CASE i > Len(s)
    <3>1. (i - Len(s)) \in 1..Len(t) BY <2>2
    <3>2. QED BY <1>2, <2>2, <3>1 DEF Range
  <2>3. QED BY <2>1, <2>2
<1>4. Range(s) \subseteq Range(s \o t)
  <2> SUFFICES ASSUME NEW i \in 1..Len(s) PROVE s[i] \in Range(s \o t) BY DEF Range
  <2>1. i \in 1..(Len(s) + Len(t)) /\ (s \o t)[i] = s[i] BY <1>2
  <2>2. QED BY <1>1, <2>1 DEF Range
<1>5. Range(t) \subseteq Range(s \o t)
  <2> SUFFICES ASSUME NEW i \in 1..Len(t) PROVE t[i] \in Range(s \o t) BY DEF Range
  <2>1. (i + Len(s)) \in 1..(Len(s) + Len(t)) /\ (s \o t)[i + Len(s)] = t[i] BY <1>2
  <2>2. QED BY <1>1, <2>1 DEF Range
<1>6. QED BY <1>1, <1>3, <1>4, <1>5

(* The cap: a prefix, the whole list if that is short enough. *)
LEMMA CappedPrefix ==
  ASSUME NEW s \in Seq(Device), cfg.limit \in Nat
  PROVE  /\ Capped(s) \in Seq(Device) /\ Range(Capped(s)) \subseteq Range(s)
         /\ cfg.limit > 0 => Len(Capped(s)) <= cfg.limit
         /\ (cfg.limit = 0 \/ Len(Capped(s)) < cfg.limit) => Capped(s) = s
<1>1. CASE cfg.limit > 0 /\ Len(s) > cfg.limit
  <2>1. Capped(s) = SubSeq(s, 1, cfg.limit) BY <1>1 DEF Capped
  <2>2. Capped(s) \in Seq(Device) /\ Len(Capped(s)) = cfg.limit BY <1>1, <2>1
  <2>3. \A i \in 1..cfg.limit : Capped(s)[i] = s[i] BY <1>1, <2>1
  <2>4. Range(Capped(s)) \subseteq Range(s)
    <3>1. DOMAIN Capped(s) = 1..cfg.limit /\ DOMAIN s = 1..Len(s) BY <2>2
    <3>2. 1..cfg.limit \subseteq 1..Len(s) BY <1>1
    <3>3. QED BY <2>3, <3>1, <3>2 DEF Range
  <2>5. QED BY <1>1, <2>2, <2>4
<1>2. CASE ~(cfg.limit > 0 /\ Len(s) > cfg.limit)
  <2>1. Capped(s) = s BY <1>2 DEF Capped
  <2>2. QED BY <1>2, <2>1
<1>3. QED BY <1>1, <1>2

LEMMA ListingInitBooks == ASSUME ListingInit, cfg.limit \in Nat PROVE ListingBooks
<1>1. devices \in Seq(Device) /\ Len(devices) = 0 /\ Range(devices) = {}
  BY DEF ListingInit, Range
<1>2. request = FirstRequest /\ unlisted = Device BY DEF ListingInit
<1>3. missed = {} BY DEF ListingInit
<1>4. QED BY <1>1, <1>2, <1>3 DEF ListingBooks, FirstRequest

LEMMA ListingSame ==
  ASSUME ListingBooks, UNCHANGED <<cfg, listingVars>> PROVE ListingBooks'
BY DEF ListingBooks, listingVars, Owned

LEMMA FilterRejectedBooks ==
  ASSUME ListingBooks, FilterRejected, UNCHANGED cfg PROVE ListingBooks'
BY DEF ListingBooks, FilterRejected, Owned

(* A page adds the owned devices on it, and takes only those off what is to come. *)
LEMMA ListPageBooks ==
  ASSUME ListingBooks, UNCHANGED cfg, cfg.limit \in Nat, NEW honours \in BOOLEAN,
         NEW slip \in Slips, NEW S \in SUBSET unlisted, NEW again \in Again,
         ListPage(honours, slip, S, again)
  PROVE  ListingBooks'
<1> DEFINE T == {d \in S : IsCorporate(d)}
           all == devices \o again \o SetToSeq(T)
           wanted == {d \in Device : Owned(d)}
<1>1. /\ devices \in Seq(Device) /\ unlisted \subseteq Device
      /\ slip \subseteq unlisted /\ slip \subseteq Slipping
  BY DEF ListingBooks, Slips
<1>2. T \subseteq Device /\ IsFiniteSet(T) BY <1>1, SettingsAssumption, FS_Subset
<1>3. SetToSeq(T) \in Seq(Device) /\ Range(SetToSeq(T)) = T BY <1>2, SetToSeqLists, SeqMonotone
<1>4. again \in Seq(Device) /\ Range(again) \subseteq Range(devices)
  <2>1. Range(devices) \subseteq Device BY <1>1 DEF Range
  <2>2. CASE again = <<>> BY <2>2 DEF Range
  <2>3. CASE \E d \in Range(devices) : again = <<d>> BY <2>1, <2>3 DEF Range
  <2>4. QED BY <2>2, <2>3 DEF Again
<1>5. all \in Seq(Device) /\ Range(all) = Range(devices) \cup T
  <2>1. devices \o again \in Seq(Device)
        /\ Range(devices \o again) = Range(devices) \cup Range(again)
    BY <1>1, <1>4, RangeConcat
  <2>2. all \in Seq(Device) /\ Range(all) = Range(devices \o again) \cup Range(SetToSeq(T))
    <3> DEFINE p == devices \o again
               q == SetToSeq(T)
    <3>1. p \in Seq(Device) /\ q \in Seq(Device) BY <1>3, <2>1
    <3>2. all = p \o q OBVIOUS
    <3> HIDE DEF p, q, all
    <3>3. all \in Seq(Device) /\ Range(all) = Range(p) \cup Range(q) BY <3>1, <3>2, RangeConcat
    <3>4. QED BY <3>3 DEF p, q
  <2>3. QED BY <1>3, <1>4, <2>1, <2>2
<1>6. devices' = Capped(all) BY DEF ListPage
<1> HIDE DEF all
<1>7. /\ devices' \in Seq(Device) /\ Range(devices') \subseteq Range(devices) \cup T
      /\ cfg.limit > 0 => Len(devices') <= cfg.limit
      /\ (cfg.limit = 0 \/ Len(devices') < cfg.limit) => Range(devices') = Range(devices) \cup T
  BY <1>5, <1>6, CappedPrefix
<1>8. \A d \in Range(devices') : Owned(d)
  BY <1>7 DEF ListingBooks, Owned, IsCorporate
<1>9. unlisted' \subseteq unlisted /\ request' \in {"none", "next"} BY DEF ListPage, Listed
<1>10. (cfg.limit = 0 \/ Len(devices') < cfg.limit) =>
         wanted \subseteq Range(devices') \cup unlisted' \cup missed'
  <2> SUFFICES ASSUME cfg.limit = 0 \/ Len(devices') < cfg.limit, NEW d \in Device, Owned(d),
                      d \notin Range(devices') \cup missed'
               PROVE  d \in unlisted'
    OBVIOUS
  <2>1. Range(devices') = Range(devices) \cup T BY <1>7
  <2>2. d \notin S BY <2>1 DEF Owned, IsCorporate
  <2>3. cfg.limit = 0 \/ Len(devices) < cfg.limit
    <3>1. CASE cfg.limit = 0 BY <3>1
    <3>2. CASE cfg.limit > 0
      <4>1. devices' = all BY <1>5, <1>6, <3>2, CappedPrefix
      <4>2. Len(all) = Len(devices) + Len(again) + Len(SetToSeq(T)) BY <1>1, <1>3, <1>4 DEF all
      <4>3. Len(again) \in Nat /\ Len(SetToSeq(T)) \in Nat /\ Len(devices) \in Nat
        BY <1>1, <1>3, <1>4
      <4>4. QED BY <3>2, <4>1, <4>2, <4>3
    <3>3. QED BY <3>1, <3>2
  <2>4. d \notin missed /\ d \notin slip BY DEF ListPage
  <2>5. d \in unlisted BY <2>1, <2>3, <2>4 DEF ListingBooks
  <2>6. d \in Listed(honours, slip) BY <2>4, <2>5 DEF Listed, Owned, ListingBooks
  <2>7. QED BY <2>2, <2>6 DEF ListPage
<1>11. request' = "none" => unlisted' = {} \/ (cfg.limit > 0 /\ Len(devices') = cfg.limit)
  <2>1. Len(devices') \in Nat BY <1>7
  <2>2. QED BY <1>7, <2>1 DEF ListPage
<1>12. missed' = missed \cup slip /\ S \cap slip = {} /\ unlisted' \cap (S \cup slip) = {}
  BY DEF ListPage, Listed
<1>13. missed' \subseteq Slipping BY <1>1, <1>12 DEF ListingBooks
<1>14. /\ missed' \cap (Range(devices') \cup unlisted') = {}
       /\ unlisted' \cap Range(devices') = {}
  BY <1>1, <1>7, <1>9, <1>12 DEF ListingBooks
<1>15. QED
  BY <1>1, <1>7, <1>8, <1>9, <1>10, <1>11, <1>13, <1>14 DEF ListingBooks, Owned

(* What the books say when the listing is over. *)
LEMMA BooksComplete == ASSUME ListingBooks, cfg.limit \in Nat PROVE ListingComplete
<1>1. devices \in Seq(Device) /\ Range(devices) \subseteq {d \in Device \ missed : Owned(d)}
  BY DEF ListingBooks, Range
<1>2. Len(devices) \in Nat BY <1>1
<1>3. QED BY <1>1, <1>2 DEF ListingBooks, ListingComplete

-----------------------------------------------------------------------------
(* The lookups of prime. *)

(* A function of the elements of a finite set has finitely many values. *)
LEMMA ImageFinite ==
  ASSUME NEW T, IsFiniteSet(T), NEW f PROVE IsFiniteSet({f[x] : x \in T})
<1> DEFINE g == [x \in T |-> f[x]]
<1>1. g \in Surjection(T, {f[x] : x \in T}) BY DEF Surjection
<1>2. QED BY <1>1, FS_Surjection

(* The orders a finite set may be asked in: there is one, and none loses a name. *)
LEMMA OrdersOf ==
  ASSUME NEW T, IsFiniteSet(T)
  PROVE  SetToSeqs(T) # {} /\ \A order \in SetToSeqs(T) : Range(order) = T
<1> DEFINE n == Cardinality(T)
<1>1. n \in Nat /\ ExistsBijection(1..n, T) BY FS_CardinalityType
<1>2. Cardinality(1..n) = n BY <1>1, FS_Interval
<1>3. SetToSeqs(T) = {f \in [1..n -> T] : \A i, j \in 1..n : i # j => f[i] # f[j]}
  BY DEF SetToSeqs
<1>4. SetToSeqs(T) # {}
  <2>1. PICK f \in [1..n -> T] : \A i, j \in 1..n : f[i] = f[j] => i = j
    BY <1>1 DEF ExistsBijection, Bijection, Injection, IsInjective
  <2>2. QED BY <1>3, <2>1
<1>5. ASSUME NEW order \in SetToSeqs(T) PROVE Range(order) = T
  <2>1. order \in [1..n -> T] /\ \A i, j \in 1..n : i # j => order[i] # order[j] BY <1>3
  <2>2. order \in Injection(1..n, T) BY <2>1 DEF Injection, IsInjective
  <2>3. order \in Surjection(1..n, T) BY <1>2, <2>2, FS_Injection
  <2>4. QED BY <2>1, <2>3 DEF Surjection, Range
<1>6. QED BY <1>4, <1>5

(* Every name that is looked up is in one of the queries, and nothing else is. *)
LEMMA InAQuery ==
  ASSUME NEW T, IsFiniteSet(T), NEW order \in SetToSeqs(T)
  PROVE  /\ \A name \in T : \E ask \in Queries(order) : name \in ask
         /\ \A ask \in Queries(order) : ask \subseteq T
<1> DEFINE place(i) == (i - 1) \div NamesPerQuery
           members(q) == {i \in DOMAIN order : place(i) = q}
           asked(q) == {order[i] : i \in members(q)}
<1>1. Range(order) = T BY OrdersOf
<1>2. Queries(order) = {asked(q) : q \in {place(i) : i \in DOMAIN order}} BY DEF Queries
<1> HIDE DEF place
<1>3. ASSUME NEW name \in T PROVE \E ask \in Queries(order) : name \in ask
  <2>1. PICK i \in DOMAIN order : order[i] = name BY <1>1 DEF Range
  <2>2. name \in asked(place(i)) BY <2>1
  <2>3. asked(place(i)) \in Queries(order) BY <1>2
  <2>4. QED BY <2>2, <2>3
<1>4. ASSUME NEW ask \in Queries(order) PROVE ask \subseteq T
  BY <1>1, <1>2 DEF Range
<1>5. QED BY <1>3, <1>4

(* A product with a factor that is at least one, or two. *)
LEMMA Multiples ==
  ASSUME NEW a \in Nat \ {0}, NEW k \in Nat, k >= 1
  PROVE  a * k >= 1 /\ (k >= 2 => a * k >= 2 * a)
<1>1. a * k = a + a * (k - 1) /\ a * (k - 1) \in Nat OBVIOUS
<1>2. k >= 2 => a * (k - 1) = a + a * (k - 2) /\ a * (k - 2) \in Nat OBVIOUS
<1>3. QED BY <1>1, <1>2

(* A page that leaves a name out is filled by two names' share of other records. *)
LEMMA HiddenIsCrowdedOut ==
  ASSUME NEW stock \in SUBSET Catalogue, NEW ask \in SUBSET Name, IsFiniteSet(ask),
         NEW hidden \in SUBSET ask, MayHide(ask, hidden, stock), NEW n \in hidden,
         \A m \in ask : TableOf[m] = TableOf[n]
  PROVE  CrowdedOut(stock, n)
<1> DEFINE others == {r \in stock : r.name # n /\ TableOf[r.name] = TableOf[n]}
           shown  == Records(stock, ask \ hidden)
           k      == Cardinality(ask)
<1>1. /\ IsFiniteSet(others) /\ Cardinality(others) \in Nat
      /\ IsFiniteSet(shown) /\ Cardinality(shown) \in Nat
  <2>1. others \in SUBSET Catalogue /\ shown \in SUBSET Catalogue BY DEF Records
  <2>2. QED BY <2>1, ReferenceAssumption, FS_Subset, FS_CardinalityType
<1>2. Cardinality(shown) >= RowsPerName * k BY DEF MayHide
<1>3. k \in Nat /\ k >= 1 /\ RowsPerName \in Nat \ {0}
  BY ReferenceAssumption, FS_CardinalityType, FS_EmptySet
<1>4. RowsPerName * k \in Nat /\ RowsPerName * k >= 1 BY <1>3, Multiples
<1>5. shown # {}
  <2>1. Cardinality(shown) # 0
    <3> HIDE DEF shown, k
    <3>1. QED BY <1>1, <1>2, <1>4
  <2>2. QED BY <2>1, FS_EmptySet
<1>6. k >= 2
  <2>1. PICK r \in shown : TRUE BY <1>5
  <2>2. r.name \in ask /\ r.name # n BY <2>1 DEF Records
  <2>3. k # 1 BY <2>2, FS_Singleton
  <2>4. QED BY <1>3, <2>3
<1>7. Cardinality(shown) <= Cardinality(others)
  <2>1. shown \in SUBSET others BY DEF Records
  <2>2. QED BY <1>1, <2>1, FS_Subset
<1>8. RowsPerName * k >= 2 * RowsPerName BY <1>3, <1>6, Multiples
<1> HIDE DEF others, shown, k
<1>9. Cardinality(others) >= 2 * RowsPerName
  BY <1>1, <1>2, <1>3, <1>4, <1>7, <1>8
<1>10. QED BY <1>9 DEF CrowdedOut, others

(* What one of the two lookups leaves out was crowded out. *)
LEMMA LookupRight ==
  ASSUME NEW names \in SUBSET Name, IsFiniteSet(names), NEW stock \in SUBSET Catalogue,
         NEW order \in SetToSeqs(names), NEW hidden,
         \A ask \in Queries(order) : MayHide(ask, ask \cap hidden, stock),
         \A m, n \in names : TableOf[m] = TableOf[n]
  PROVE  \A n \in names \cap hidden : CrowdedOut(stock, n)
<1> SUFFICES ASSUME NEW n \in names \cap hidden PROVE CrowdedOut(stock, n) OBVIOUS
<1>1. PICK ask \in Queries(order) : n \in ask BY InAQuery
<1>2. ask \subseteq names BY <1>1, InAQuery
<1>3. IsFiniteSet(ask) BY <1>2, FS_Subset
<1>4. \A m \in ask : TableOf[m] = TableOf[n] BY <1>2
<1>5. ask \in SUBSET Name /\ ask \cap hidden \in SUBSET ask /\ n \in ask \cap hidden
  BY <1>1, <1>2
<1>6. MayHide(ask, ask \cap hidden, stock) BY <1>1
<1>7. QED BY <1>3, <1>4, <1>5, <1>6, HiddenIsCrowdedOut

(* The names that a lookup asks for: a finite set, of one table. *)
LEMMA LookedUpNames ==
  ASSUME NEW names \in SUBSET Name, IsFiniteSet(names), NEW t,
         \A n \in names : TableOf[AliasOf[n]] = t
  PROVE  /\ LookedUp(names) \in SUBSET Name /\ IsFiniteSet(LookedUp(names))
         /\ \A n \in LookedUp(names) : TableOf[n] = t
<1> DEFINE aliased == {AliasOf[n] : n \in names}
<1>1. IsFiniteSet(aliased) BY ImageFinite
<1>2. LookedUp(names) \in SUBSET aliased BY DEF LookedUp
<1>3. IsFiniteSet(LookedUp(names)) BY <1>1, <1>2, FS_Subset
<1>4. aliased \subseteq Name BY ReferenceAssumption
<1>5. QED BY <1>2, <1>3, <1>4 DEF LookedUp

(* prime: what is there and a query could carry is in the cache or was crowded out. *)
LEMMA PrimeOK ==
  ASSUME NEW makers \in SUBSET Name, NEW models \in SUBSET Name,
         IsFiniteSet(makers), IsFiniteSet(models),
         \A n \in makers : TableOf[AliasOf[n]] = "core_company",
         \A n \in models : TableOf[AliasOf[n]] = "cmdb_model",
         NEW stock \in SUBSET Catalogue, Prime(makers, models, stock)
  PROVE  /\ BooksOK(books') /\ StockUntouched(books')
         /\ \A n \in makers \cup models :
              AliasOf[n] \in NamesIn(books'.stock) \ UnsafeName =>
                AliasOf[n] \in books'.cache \/ CrowdedOut(books'.stock, AliasOf[n])
<1> DEFINE asked == LookedUp(makers) \cup LookedUp(models)
<1>1. PICK ofMakers \in SetToSeqs(LookedUp(makers)), ofModels \in SetToSeqs(LookedUp(models)),
           hidden \in SUBSET (NamesIn(stock) \cap asked) :
        /\ \A ask \in Queries(ofMakers) \cup Queries(ofModels) :
             MayHide(ask, ask \cap hidden, stock)
        /\ books' = [NoBooks EXCEPT
                       !.rows = NamesIn(stock), !.stock = stock,
                       !.cache = (NamesIn(stock) \cap asked) \ hidden]
  BY DEF Prime
<1>2. /\ LookedUp(makers) \in SUBSET Name /\ IsFiniteSet(LookedUp(makers))
      /\ \A n \in LookedUp(makers) : TableOf[n] = "core_company"
  BY LookedUpNames
<1>3. /\ LookedUp(models) \in SUBSET Name /\ IsFiniteSet(LookedUp(models))
      /\ \A n \in LookedUp(models) : TableOf[n] = "cmdb_model"
  BY LookedUpNames
<1>4. \A n \in LookedUp(makers) \cap hidden : CrowdedOut(stock, n)
  <2>1. \A ask \in Queries(ofMakers) : MayHide(ask, ask \cap hidden, stock) BY <1>1
  <2>2. QED BY <1>2, <2>1, LookupRight
<1>5. \A n \in LookedUp(models) \cap hidden : CrowdedOut(stock, n)
  <2>1. \A ask \in Queries(ofModels) : MayHide(ask, ask \cap hidden, stock) BY <1>1
  <2>2. QED BY <1>3, <2>1, LookupRight
<1>6. books' = [cache |-> (NamesIn(stock) \cap asked) \ hidden, missing |-> {}, awaiting |-> {},
                blanks |-> {}, posts |-> [n \in Name |-> 0], rows |-> NamesIn(stock),
                stock |-> stock]
  BY <1>1 DEF NoBooks
<1>7. NamesIn(stock) \subseteq Name BY ReferenceAssumption DEF NamesIn
<1>8. books' \in Books BY <1>6, <1>7 DEF Books
<1>9. BooksOK(books') BY <1>6, <1>8 DEF BooksOK
<1>10. StockUntouched(books') BY <1>6, <1>7 DEF StockUntouched
<1>11. ASSUME NEW n \in makers \cup models, AliasOf[n] \in NamesIn(stock) \ UnsafeName
       PROVE  AliasOf[n] \in books'.cache \/ CrowdedOut(stock, AliasOf[n])
  <2>1. AliasOf[n] \in asked BY <1>11 DEF LookedUp
  <2>2. CASE AliasOf[n] \in hidden BY <1>4, <1>5, <2>1, <2>2
  <2>3. CASE AliasOf[n] \notin hidden BY <1>6, <1>11, <2>1, <2>3
  <2>4. QED BY <2>2, <2>3
<1>12. books'.stock = stock BY <1>6
<1>13. QED BY <1>9, <1>10, <1>11, <1>12

-----------------------------------------------------------------------------
(* The stages. *)

LEMMA SettingTypes ==
  ASSUME cfg \in Settings
  PROVE  /\ cfg.limit \in Nat /\ cfg.batch \in Nat \ {0}
         /\ cfg.createMakers \in BOOLEAN /\ cfg.createModels \in BOOLEAN
BY SettingsAssumption DEF Setting

(* There is always a next stage: priming is not optional. *)
LEMMA FromStage ==
  ASSUME NEW i \in 1..3, NEW devs
  PROVE  From(i, devs) \in {"hardware", "ram", "users", "match", "prime"}
<1> DEFINE W(j) == Wants(Order[j], devs)
           First(j) == W(j) /\ \A k \in i..(j - 1) : ~W(k)
<1>1. W(5) BY DEF Wants, Order
<1> HIDE DEF W
<1>2. \E j \in i..5 : First(j)
  <2>1. CASE \A k \in i..4 : ~W(k) BY <1>1, <2>1
  <2>2. CASE i = 3
    <3>1. CASE W(3) BY <2>2, <3>1
    <3>2. CASE ~W(3) /\ W(4) BY <2>2, <3>2
    <3>3. QED BY <2>1, <2>2, <3>1, <3>2
  <2>3. CASE i = 2
    <3>1. CASE W(2) BY <2>3, <3>1
    <3>2. CASE ~W(2) /\ W(3) BY <2>3, <3>2
    <3>3. CASE ~W(2) /\ ~W(3) /\ W(4) BY <2>3, <3>3
    <3>4. QED BY <2>1, <2>3, <3>1, <3>2, <3>3
  <2>4. CASE i = 1
    <3>1. CASE W(1) BY <2>4, <3>1
    <3>2. CASE ~W(1) /\ W(2) BY <2>4, <3>2
    <3>3. CASE ~W(1) /\ ~W(2) /\ W(3) BY <2>4, <3>3
    <3>4. CASE ~W(1) /\ ~W(2) /\ ~W(3) /\ W(4) BY <2>4, <3>4
    <3>5. QED BY <2>1, <2>4, <3>1, <3>2, <3>3, <3>4
  <2>5. QED BY <2>2, <2>3, <2>4
<1>3. PICK j \in i..5 : From(i, devs) = Order[j] BY <1>2 DEF From, W
<1>4. j \in {1, 2, 3, 4, 5} OBVIOUS
<1>5. QED BY <1>3, <1>4 DEF Order

(* Before the build stage a step leaves the books closed. *)
LEMMA EarlyStep ==
  ASSUME StageBooks, stage \in Early, UNCHANGED <<cfg, books, payloads, at, observed, shifted>>,
         DOMAIN owner' = User, stage' \in Early \cup {"done", "raised"}
  PROVE  StageBooks'
<1>1. books = NoBooks /\ payloads = <<>> /\ at = 0 /\ observed = [d \in Device |-> NoCi]
  BY DEF StageBooks
<1>2. NamesIn(books'.stock) = {} /\ books'.cache = {} /\ books'.rows = {} BY <1>1 DEF NoBooks, NamesIn
<1>3. payloads' \in Seq(CiPayload') /\ DOMAIN payloads' = {} BY <1>1
<1>4. stage' \in Stages /\ stage' \notin {"build", "write"} BY DEF Early, Stages
<1>5. \A d \in Device : observed'[d] = NoCi BY <1>1
<1>6. DOMAIN observed' = Device /\ shifted' \in BOOLEAN BY <1>1 DEF StageBooks
<1>7. cfg' \in Settings BY DEF StageBooks
<1>8. QED BY <1>1, <1>2, <1>3, <1>4, <1>5, <1>6, <1>7 DEF StageBooks

(* A step that only moves on between stages. *)
LEMMA StageStep ==
  ASSUME StageBooks, UNCHANGED <<cfg, devices, owner, books, payloads, observed, shifted>>,
         at' \in Nat, stage' \in Stages, stage' \notin Early,
         stage' = "build" => at' <= Len(devices), stage' = "write" => at' <= Len(payloads)
  PROVE  StageBooks'
BY DEF StageBooks, Kept, CiPayload

LEMMA StageSame == ASSUME StageBooks, UNCHANGED vars PROVE StageBooks'
BY DEF StageBooks, Kept, CiPayload, vars, listingVars, userVars, buildVars

LEMMA IInvForm ==
  IInv <=> /\ BatchInv /\ AttributeBooks /\ ListingBooks /\ BooksOK(books)
           /\ StockUntouched(books) /\ StageBooks
BY DEF IInv, BatchInv, BooksOK, StockUntouched, ReferencesTypeOK, CreateBooks, CreateOnce,
       NoDuplicateRow, StageBooks

LEMMA IInvAfter ==
  ASSUME BatchInv', AttributeBooks', ListingBooks', BooksOK(books'), StockUntouched(books'),
         StageBooks'
  PROVE  IInv'
BY DEF IInv, BatchInv, BooksOK, StockUntouched, ReferencesTypeOK, CreateBooks, CreateOnce,
       NoDuplicateRow, StageBooks

LEMMA InitIInv == Init => IInv
<1> SUFFICES ASSUME Init PROVE IInv OBVIOUS
<1>1. cfg \in Settings BY DEF Init
<1>2. ListingBooks BY <1>1, SettingTypes, ListingInitBooks DEF Init
<1>3. books = NoBooks BY DEF Init
<1>4. StageBooks
  <2>1. payloads \in Seq(CiPayload) /\ DOMAIN payloads = {} BY DEF Init
  <2>2. DOMAIN owner = User BY DEF Init, UsersIdle
  <2>3. NamesIn(books.stock) = {} /\ books.cache = {} /\ books.rows = {}
    BY <1>3 DEF NoBooks, NamesIn
  <2>4. observed = [d \in Device |-> NoCi] /\ shifted = FALSE BY DEF Init
  <2>5. DOMAIN observed = Device /\ \A d \in Device : observed[d] = NoCi BY <2>4
  <2>6. shifted \in BOOLEAN BY <2>4
  <2>7. QED BY <1>1, <1>3, <2>1, <2>2, <2>3, <2>4, <2>5, <2>6 DEF Init, StageBooks, Stages
<1>5. QED BY <1>2, <1>3, <1>4, NoBooksOK, BatchIdleInv, AttributeIdleInv, IInvForm DEF Init

LEMMA KeptDevices == ASSUME ListingBooks PROVE Kept \subseteq Device
BY DEF ListingBooks, Kept, Range

LEMMA AliasName == \A n \in Name \cup {NoName} : Alias(n) \in Name \cup {NoName}
BY ReferenceAssumption DEF Alias

(* Priming opens the books: every name of a listed device has been looked up. *)
LEMMA PrimeStage ==
  ASSUME ListingBooks, StageBooks, PrimeReferences
  PROVE  StageBooks' /\ BooksOK(books') /\ StockUntouched(books')
<1> DEFINE makers == {MakerOf[d] : d \in Kept} \ {NoName}
           models == {ModelOf[d] : d \in Kept} \ {NoName}
<1>1. Kept \subseteq Device BY KeptDevices
<1>2. makers \subseteq Name /\ models \subseteq Name BY <1>1, SettingsAssumption
<1>3. PICK stock \in SUBSET Catalogue : Prime(makers, models, stock) BY DEF PrimeReferences
<1>4. /\ BooksOK(books') /\ StockUntouched(books')
      /\ \A n \in makers \cup models :
           AliasOf[n] \in NamesIn(books'.stock) \ UnsafeName =>
             AliasOf[n] \in books'.cache \/ CrowdedOut(books'.stock, AliasOf[n])
  <2>1. IsFiniteSet(makers) /\ IsFiniteSet(models)
    <3>1. IsFiniteSet(Kept) BY <1>1, SettingsAssumption, FS_Subset
    <3>2. IsFiniteSet({MakerOf[d] : d \in Kept}) /\ IsFiniteSet({ModelOf[d] : d \in Kept})
      BY <3>1, ImageFinite
    <3>3. QED BY <3>2, FS_Subset
  <2>2. /\ \A n \in makers : TableOf[AliasOf[n]] = "core_company"
        /\ \A n \in models : TableOf[AliasOf[n]] = "cmdb_model"
    BY <1>1, ReferenceAssumption
  <2> HIDE DEF makers, models
  <2>3. QED BY <1>2, <1>3, <2>1, <2>2, PrimeOK
<1>5. UNCHANGED <<cfg, devices, owner, payloads, observed, shifted, at>> /\ stage' = "build" /\ Kept' = Kept
  BY DEF PrimeReferences, listingVars, userVars, buildVars, Kept
<1>6. \A d \in Kept : \A n \in (NamesOf(d) \cap NamesIn(books'.stock)) \ UnsafeName :
        n \in books'.cache \/ CrowdedOut(books'.stock, n)
  BY <1>4 DEF NamesOf, Alias
<1>7. stage = "prime" BY DEF PrimeReferences
<1>8. /\ cfg' \in Settings /\ at' = 0 /\ payloads' = <<>> /\ DOMAIN owner' = User
      /\ observed' = [d \in Device |-> NoCi] /\ shifted' \in BOOLEAN
  BY <1>5, <1>7 DEF StageBooks, Early
<1>9. payloads' \in Seq(CiPayload') /\ DOMAIN payloads' = {} BY <1>8
<1>10. Len(devices') \in Nat BY <1>5 DEF ListingBooks
<1>11. books'.cache \subseteq books'.rows BY <1>4 DEF BooksOK
<1>12. StageBooks'
  BY <1>5, <1>6, <1>8, <1>9, <1>10, <1>11 DEF StageBooks, Stages, Early
<1>13. QED BY <1>4, <1>12

(* A payload has links that the resolver has, and a device that can be identified. *)
LEMMA BuildStage ==
  ASSUME ListingBooks, StageBooks, BooksOK(books), StockUntouched(books), BuildDevice
  PROVE  StageBooks' /\ BooksOK(books') /\ StockUntouched(books')
<1> DEFINE d == devices[at + 1]
<1>1. /\ stage = "build" /\ at < Len(devices) /\ at' = at + 1 /\ at \in Nat
      /\ UNCHANGED <<cfg, stage, devices, owner, observed, shifted>>
  BY DEF BuildDevice, StageBooks, listingVars, userVars
<1>2. devices \in Seq(Device) /\ Len(devices) \in Nat BY DEF ListingBooks
<1>3. at + 1 \in 1..Len(devices) BY <1>1, <1>2
<1>4. d \in Device /\ d \in Kept BY <1>2, <1>3 DEF Kept, Range
<1>5. Kept' = Kept /\ CiPayload' = CiPayload BY <1>1 DEF Kept, CiPayload
<1>6. /\ payloads \in Seq(CiPayload) /\ DOMAIN owner = User
      /\ \A i \in DOMAIN payloads : /\ payloads[i].device \in Kept
                                   /\ Identifiable(payloads[i].device)
                                   /\ payloads[i].links \subseteq books.cache
      /\ \A e \in Kept : \A n \in (NamesOf(e) \cap NamesIn(books.stock)) \ UnsafeName :
           n \in books.cache \/ CrowdedOut(books.stock, n)
  BY DEF StageBooks
<1>7. CASE d \notin HasClass
  <2>1. UNCHANGED <<books, payloads>> BY <1>7 DEF BuildDevice
  <2>2. at' <= Len(devices) BY <1>1, <1>2
  <2>3. stage' \in Stages /\ stage' \notin Early /\ stage' # "write" BY <1>1 DEF Stages, Early
  <2>4. StageBooks' BY <1>1, <2>1, <2>2, <2>3, StageStep
  <2>5. QED BY <2>1, <2>4
<1>8. CASE d \in HasClass
  <2> DEFINE maker == Alias(MakerOf[d])
             model == Alias(ModelOf[d])
  <2>1. maker \in Name \cup {NoName} /\ model \in Name \cup {NoName}
    BY <1>4, SettingsAssumption, AliasName
  <2>2. PICK ofMaker \in Answers, ofModel \in Answers :
          books' = ReferencesFor(books, maker, model, ofMaker, ofModel)
    BY <1>8 DEF BuildDevice
  <2> HIDE DEF maker, model
  <2>3. /\ BooksOK(books') /\ Grown(books, books')
        /\ \A m \in Name : books'.posts[m] # books.posts[m] => m \in {maker, model}
    <3>1. cfg.createMakers \in BOOLEAN /\ cfg.createModels \in BOOLEAN
      BY SettingTypes DEF StageBooks
    <3> DEFINE c == ReferencesFor(books, maker, model, ofMaker, ofModel)
    <3>2. ReferencesRight(books, c, maker, model) BY <2>1, <3>1, ReferencesForOK
    <3> HIDE DEF c
    <3>3. books' = c BY <2>2 DEF c
    <3>4. QED BY <3>2, <3>3 DEF ReferencesRight
  <2>4. StockUntouched(books')
    <3>1. books'.stock = books.stock BY <2>3 DEF Grown
    <3> SUFFICES ASSUME NEW n \in NamesIn(books.stock) \ UnsafeName, books'.posts[n] > 0
                 PROVE  CrowdedOut(books.stock, n)
      BY <3>1 DEF StockUntouched
    <3>2. n \in Name BY ReferenceAssumption DEF NamesIn, BooksOK, Books
    <3>3. CASE n \in {maker, model} /\ books'.posts[n] # books.posts[n]
      <4>1. n \in NamesOf(d) BY <3>2, <3>3, SettingsAssumption DEF NamesOf, maker, model
      <4>2. n \notin books.cache BY <2>3, <3>2, <3>3 DEF Grown
      <4>3. QED BY <1>4, <1>6, <4>1, <4>2
    <3>4. CASE books'.posts[n] = books.posts[n] BY <3>4 DEF StockUntouched
    <3>5. QED BY <2>3, <3>2, <3>3, <3>4
  <2>5. /\ payloads' \in Seq(CiPayload)
        /\ \A i \in DOMAIN payloads' : /\ payloads'[i].device \in Kept
                                       /\ Identifiable(payloads'[i].device)
                                       /\ payloads'[i].links \subseteq books'.cache
    <3>1. CASE Identifiable(d)
      <4> DEFINE p == Payload(d, books')
      <4>1. payloads' = Append(payloads, p) BY <1>8, <3>1 DEF BuildDevice
      <4>2. p.device = d /\ p.links \subseteq books'.cache BY DEF Payload
      <4>3. p \in CiPayload
        <5>1. books'.cache \subseteq Name BY <2>3 DEF BooksOK, Books
        <5>2. p.assigned \in {owner[u] : u \in User} \cup {NoRow}
          BY <1>4, SettingsAssumption DEF Payload
        <5>3. QED BY <1>4, <5>1, <5>2 DEF Payload, CiPayload
      <4> HIDE DEF p
      <4>4. /\ payloads' \in Seq(CiPayload) /\ DOMAIN payloads' = 1..(Len(payloads) + 1)
            /\ \A i \in 1..(Len(payloads) + 1) :
                 payloads'[i] = IF i <= Len(payloads) THEN payloads[i] ELSE p
        BY <1>6, <4>1, <4>3
      <4>5. \A i \in 1..(Len(payloads) + 1) : i <= Len(payloads) => i \in DOMAIN payloads
        BY <1>6
      <4>6. books.cache \subseteq books'.cache BY <2>3 DEF Grown
      <4>7. QED BY <1>4, <1>6, <3>1, <4>2, <4>4, <4>5, <4>6
    <3>2. CASE ~Identifiable(d)
      <4>1. payloads' = payloads BY <1>8, <3>2 DEF BuildDevice
      <4>2. QED BY <1>6, <2>3, <4>1 DEF Grown
    <3>3. QED BY <3>1, <3>2
  <2>6. \A e \in Kept : \A n \in (NamesOf(e) \cap NamesIn(books'.stock)) \ UnsafeName :
          n \in books'.cache \/ CrowdedOut(books'.stock, n)
    BY <1>6, <2>3 DEF Grown
  <2>7. books'.cache \subseteq books'.rows BY <2>3 DEF BooksOK
  <2>8. /\ cfg' \in Settings /\ DOMAIN observed' = Device /\ shifted' \in BOOLEAN
        /\ \A e \in Device :
             observed'[e] # NoCi =>
               e \in Kept /\ Identifiable(e) /\ (shifted' \/ observed'[e] = CiFor(e))
    BY <1>1 DEF StageBooks
  <2>9. /\ at' \in Nat /\ at' <= Len(devices') /\ stage' = "build" /\ stage' \in Stages
        /\ stage' \notin Early /\ DOMAIN owner' = User
    BY <1>1, <1>2, <1>6 DEF Stages, Early
  <2>10. StageBooks'
    BY <1>5, <2>5, <2>6, <2>7, <2>8, <2>9 DEF StageBooks
  <2>11. QED BY <2>3, <2>4, <2>10
<1>9. QED BY <1>7, <1>8

(* The first of some numbers. *)
LEMMA LeastNatural ==
  ASSUME NEW S \in SUBSET Nat, S # {}
  PROVE  \E m \in S : \A n \in S : m <= n
<1>1. PICK m \in S : \A n \in S : <<n, m>> \notin OpToRel(<, Nat)
  BY NatLessThanWellFounded, WFMin
<1>2. \A n \in S : ~(n < m)
  BY <1>1 DEF OpToRel
<1> QED BY <1>2

(* The last of some places. *)
LEMMA GreatestPlace ==
  ASSUME NEW n \in Nat, NEW P \in SUBSET (1..n), P # {}
  PROVE  \E i \in P : \A j \in P : j <= i
<1> DEFINE Q == {n - i : i \in P}
<1>1. Q \in SUBSET Nat /\ Q # {}
  <2>1. \A i \in 1..n : n - i \in Nat OBVIOUS
  <2>2. QED BY <2>1
<1>2. PICK m \in Q : \A q \in Q : m <= q BY <1>1, LeastNatural
<1>3. PICK i \in P : m = n - i OBVIOUS
<1>4. \A j \in P : n - j >= n - i BY <1>2, <1>3
<1>5. QED BY <1>4

(* The sys_id that is observed for a device is one of its own results; the
   item it is read from is about that device, if no item is out of its place. *)
LEMMA WriteStage ==
  ASSUME StageBooks, WriteBatch PROVE StageBooks'
<1> DEFINE n == BatchSize
<1>1. /\ stage = "write" /\ at < Len(payloads) /\ at' = at + n /\ at \in Nat
      /\ UNCHANGED <<cfg, stage, devices, owner, books, payloads>>
  BY DEF WriteBatch, StageBooks, listingVars, userVars
<1>2. payloads \in Seq(CiPayload) /\ Len(payloads) \in Nat BY DEF StageBooks
<1>3. n \in Nat /\ at + n <= Len(payloads)
  <2>1. cfg.batch \in Nat BY SettingTypes DEF StageBooks
  <2>2. QED BY <1>1, <1>2, <2>1 DEF BatchSize
<1>4. PICK items \in AnswerTo(n) : Wrote(items) /\ shifted' = (shifted \/ ~InPlace(items))
  BY DEF WriteBatch
<1>5. \A i \in 1..n : Batch[i] \in Kept /\ Identifiable(Batch[i])
  <2> SUFFICES ASSUME NEW i \in 1..n PROVE Batch[i] \in Kept /\ Identifiable(Batch[i]) OBVIOUS
  <2>1. at + i \in DOMAIN payloads BY <1>1, <1>2, <1>3
  <2>2. Batch[i] = payloads[at + i].device BY DEF Batch
  <2>3. QED BY <2>1, <2>2 DEF StageBooks
<1>6. DOMAIN observed' = Device /\ shifted' \in BOOLEAN BY <1>4 DEF Wrote, StageBooks
<1>7. ASSUME NEW d \in Device, observed'[d] # NoCi
      PROVE  d \in Kept /\ Identifiable(d) /\ (shifted' \/ observed'[d] = CiFor(d))
  <2>1. CASE \E i \in 1..n : Named(items, i, d)
    <3> DEFINE last == LastNamed(items, d)
    <3>1. last \in 1..n /\ Named(items, last, d)
      <4> DEFINE P == {i \in 1..n : Named(items, i, d)}
      <4>1. P \in SUBSET (1..n) /\ P # {} BY <2>1
      <4>2. PICK i \in P : \A j \in P : j <= i BY <1>3, <4>1, GreatestPlace
      <4>3. \A j \in (i + 1)..n : ~Named(items, j, d) BY <1>3, <4>2
      <4> HIDE DEF P
      <4>4. i \in 1..n /\ Named(items, i, d) BY <4>2 DEF P
      <4>5. QED BY <4>3, <4>4 DEF LastNamed
    <3>2. observed'[d] = SysId(Batch, items, last) BY <1>4, <2>1 DEF Wrote
    <3>3. d = Batch[last] /\ last \in DOMAIN items /\ observed'[d] = CiFor(Batch[items[last].about])
      BY <3>1, <3>2 DEF Named, SysId
    <3>4. InPlace(items) => observed'[d] = CiFor(d) BY <3>3 DEF InPlace
    <3>5. QED BY <1>4, <1>5, <3>1, <3>3, <3>4
  <2>2. CASE ~\E i \in 1..n : Named(items, i, d)
    <3>1. observed'[d] = observed[d] BY <1>4, <2>2 DEF Wrote
    <3>2. QED BY <1>4, <3>1, <1>7 DEF StageBooks
  <2>3. QED BY <2>1, <2>2
<1>8. Kept' = Kept /\ CiPayload' = CiPayload BY <1>1 DEF Kept, CiPayload
<1>9. at' \in Nat /\ at' <= Len(payloads') BY <1>1, <1>3
<1>10. /\ cfg' \in Settings /\ stage' \in Stages /\ stage' \notin Early /\ stage' # "build"
       /\ DOMAIN owner' = User /\ payloads' \in Seq(CiPayload)
       /\ books'.cache \subseteq books'.rows
       /\ \A i \in DOMAIN payloads' : /\ payloads'[i].device \in Kept
                                      /\ Identifiable(payloads'[i].device)
                                      /\ payloads'[i].links \subseteq books'.cache
       /\ \A d \in Kept : \A name \in (NamesOf(d) \cap NamesIn(books'.stock)) \ UnsafeName :
            name \in books'.cache \/ CrowdedOut(books'.stock, name)
  BY <1>1 DEF StageBooks, Early
<1>11. QED BY <1>6, <1>7, <1>8, <1>9, <1>10 DEF StageBooks

-----------------------------------------------------------------------------
(* What a step leaves alone keeps its books. *)
LEMMA ReferencesSame ==
  ASSUME BooksOK(books), StockUntouched(books), UNCHANGED books
  PROVE  BooksOK(books') /\ StockUntouched(books')
BY DEF BooksOK, StockUntouched

(* A page, and the stage it leads to. *)
LEMMA ListInv ==
  ASSUME IInv, List \/ ListUnfiltered PROVE IInv'
<1>1. /\ stage = "listing" /\ AfterPage
      /\ UNCHANGED <<cfg, batchVars, attributeVars, userVars, books, buildVars>>
  BY DEF List, ListUnfiltered
<1>2. BatchInv' /\ AttributeBooks' BY <1>1, BatchSame, AttributeSame, IInvForm
<1>3. BooksOK(books') /\ StockUntouched(books') BY <1>1, ReferencesSame, IInvForm
<1>4. StageBooks /\ ListingBooks /\ cfg.limit \in Nat BY IInvForm, SettingTypes DEF StageBooks
<1>5. ListingBooks'
  <2>1. CASE List
    <3>1. PICK honours \in BOOLEAN, slip \in Slips, S \in SUBSET unlisted, again \in Again :
            ListPage(honours, slip, S, again)
      BY <2>1 DEF List
    <3>2. QED BY <1>1, <1>4, <3>1, ListPageBooks
  <2>2. CASE ListUnfiltered BY <1>1, <1>4, <2>2, FilterRejectedBooks DEF ListUnfiltered
  <2>3. QED BY <2>1, <2>2
<1>6. StageBooks'
  <2>1. stage' \in Early \cup {"done", "raised"}
    BY <1>1, FromStage DEF AfterPage, Early
  <2>2. UNCHANGED <<cfg, books, payloads, at, observed, shifted, owner>> BY <1>1 DEF buildVars, userVars
  <2>3. DOMAIN owner' = User BY <1>4, <2>2 DEF StageBooks
  <2>4. stage \in Early BY <1>1 DEF Early
  <2>5. QED BY <1>4, <2>1, <2>2, <2>3, <2>4, EarlyStep
<1>7. QED BY <1>2, <1>3, <1>5, <1>6, IInvAfter

(* A step of $batch or of the attribute, within its stage or at its end. *)
LEMMA ReadInv ==
  ASSUME IInv, stage \in Early, stage' \in Early \cup {"done", "raised"}, BatchInv',
         AttributeBooks', UNCHANGED <<cfg, listingVars, userVars, books, buildVars>>
  PROVE  IInv'
<1>1. BooksOK(books') /\ StockUntouched(books') BY ReferencesSame, IInvForm
<1>2. ListingBooks' BY ListingSame, IInvForm
<1>3. StageBooks'
  <2>1. UNCHANGED <<cfg, books, payloads, at, observed, shifted, owner>> BY DEF buildVars, userVars
  <2>2. StageBooks BY IInvForm
  <2>3. DOMAIN owner' = User BY <2>1, <2>2 DEF StageBooks
  <2>4. QED BY <2>1, <2>2, <2>3, EarlyStep
<1>4. QED BY <1>1, <1>2, <1>3, IInvAfter

LEMMA BatchStepInv ==
  ASSUME IInv, Ask \/ Answered \/ Skipped \/ AskAgain PROVE IInv'
<1>1. /\ stage \in {"hardware", "users"}
      /\ UNCHANGED <<cfg, stage, listingVars, attributeVars, userVars, books, buildVars>>
  BY DEF Ask, Answered, Skipped, AskAgain
<1>2. BatchInv'
  <2>1. BatchInv BY IInvForm
  <2>2. CASE Ask
    <3>1. BatchKeys \subseteq Key
      <4>1. Kept \subseteq Device BY KeptDevices, IInvForm
      <4>2. UserIds(devices) \subseteq User BY <4>1, SettingsAssumption DEF UserIds, Kept
      <4>3. QED BY <4>1, <4>2, KeyAssumption DEF BatchKeys
    <3>2. QED BY <2>1, <2>2, <3>1, BatchStartInv DEF Ask
  <2>3. CASE Answered
    <3>1. PICK B \in SUBSET toAsk : \E ans \in [B -> Verdict] : ChunkAnswered(B, ans)
      BY <2>3 DEF Answered
    <3>2. QED BY <2>1, <3>1, ChunkAnsweredInv
  <2>4. CASE Skipped
    <3>1. PICK B \in SUBSET toAsk : ChunkSkipped(B) BY <2>4 DEF Skipped
    <3>2. QED BY <2>1, <3>1, ChunkSkippedInv
  <2>5. CASE AskAgain BY <2>1, <2>5, NextRoundInv DEF AskAgain
  <2>6. QED BY <2>2, <2>3, <2>4, <2>5
<1>3. AttributeBooks' BY <1>1, AttributeSame, IInvForm
<1>4. stage \in Early /\ stage' \in Early BY <1>1 DEF Early
<1>5. QED BY <1>1, <1>2, <1>3, <1>4, ReadInv

LEMMA HardwareInv == ASSUME IInv, EnrichHardware PROVE IInv'
<1>1. BatchInv' BY BatchResetInv DEF EnrichHardware
<1>2. AttributeBooks' BY IInvForm DEF EnrichHardware, AttributeBooks
<1>3. stage \in Early /\ stage' \in Early BY FromStage DEF EnrichHardware, Early
<1>4. QED BY <1>1, <1>2, <1>3, ReadInv DEF EnrichHardware

LEMMA AttributeInv == ASSUME IInv, Attribute \/ EndAttribute PROVE IInv'
<1>1. UNCHANGED <<cfg, listingVars, batchVars, userVars, books, buildVars>> /\ stage = "ram"
  BY DEF Attribute, EndAttribute
<1>2. BatchInv' BY <1>1, BatchSame, IInvForm
<1>3. AttributeBooks'
  <2>1. CASE Attribute BY <2>1, AttributeStep, IInvForm DEF Attribute
  <2>2. CASE EndAttribute
    <3>1. ram' \in [Device -> {"none", "graph", "attribute"}]
      BY <2>2, IInvForm DEF EndAttribute, FillRam, AttributeUnreadable, AttributeBooks
    <3>2. QED BY <2>2, <3>1 DEF EndAttribute, AttributeBooks
  <2>3. QED BY <2>1, <2>2
<1>4. stage \in Early /\ stage' \in Early
  BY <1>1, FromStage DEF Attribute, EndAttribute, Early
<1>5. QED BY <1>1, <1>2, <1>3, <1>4, ReadInv

LEMMA UsersInv ==
  ASSUME IInv, ResolveEnriched \/ ResolveFromDevices \/ TryKey \/ EndMatch PROVE IInv'
<1>1. /\ stage \in {"users", "match"} /\ stage' \in {"match", "prime"}
      /\ UNCHANGED <<cfg, listingVars, attributeVars, books, buildVars>>
  BY DEF ResolveEnriched, ResolveFromDevices, TryKey, EndMatch, MatchAgainst
<1>2. BatchInv'
  <2>1. CASE ResolveEnriched BY <2>1, BatchResetInv DEF ResolveEnriched
  <2>2. CASE UNCHANGED batchVars BY <2>2, BatchSame, IInvForm
  <2>3. QED BY <2>1, <2>2 DEF ResolveFromDevices, TryKey, EndMatch
<1>3. AttributeBooks' BY <1>1, AttributeSame, IInvForm
<1>4. ListingBooks' BY <1>1, ListingSame, IInvForm
<1>5. BooksOK(books') /\ StockUntouched(books') BY <1>1, ReferencesSame, IInvForm
<1>6. StageBooks'
  <2>1. StageBooks BY IInvForm
  <2>2. DOMAIN owner' = User
    <3>1. DOMAIN owner = User BY <2>1 DEF StageBooks
    <3>2. CASE owner' = owner BY <3>1, <3>2
    <3>3. CASE TryKey BY <3>3 DEF TryKey, ResolveByKey
    <3>4. QED BY <3>2, <3>3
          DEF ResolveEnriched, ResolveFromDevices, EndMatch, MatchAgainst, ResolveMany, UsersReturn
  <2>3. UNCHANGED <<cfg, books, payloads, at, observed, shifted>> BY <1>1 DEF buildVars
  <2>4. stage \in Early /\ stage' \in Early BY <1>1 DEF Early
  <2>5. QED BY <2>1, <2>2, <2>3, <2>4, EarlyStep
<1>7. QED BY <1>2, <1>3, <1>4, <1>5, <1>6, IInvAfter

LEMMA LateInv ==
  ASSUME IInv, PrimeReferences \/ BuildDevice \/ EndBuild \/ WriteBatch \/ Report PROVE IInv'
<1>1. UNCHANGED <<cfg, listingVars, batchVars, attributeVars, userVars>>
  BY DEF PrimeReferences, BuildDevice, EndBuild, WriteBatch, Report
<1>2. BatchInv' /\ AttributeBooks' /\ ListingBooks'
  BY <1>1, BatchSame, AttributeSame, ListingSame, IInvForm
<1>3. ListingBooks /\ StageBooks /\ BooksOK(books) /\ StockUntouched(books) BY IInvForm
<1>4. StageBooks' /\ BooksOK(books') /\ StockUntouched(books')
  <2>1. CASE PrimeReferences BY <1>3, <2>1, PrimeStage
  <2>2. CASE BuildDevice BY <1>3, <2>2, BuildStage
  <2>3. CASE WriteBatch BY <1>3, <2>3, WriteStage, ReferencesSame DEF WriteBatch
  <2>4. CASE EndBuild
    <3>1. StageBooks'
      <4>1. Len(payloads) \in Nat BY <1>3 DEF StageBooks
      <4>2. /\ at' = 0 /\ stage' = "write"
            /\ UNCHANGED <<cfg, devices, owner, books, payloads, observed, shifted>>
        BY <2>4 DEF EndBuild, listingVars, userVars
      <4>3. QED BY <1>3, <4>1, <4>2, StageStep DEF Stages, Early
    <3>2. QED BY <1>3, <2>4, <3>1, ReferencesSame DEF EndBuild
  <2>5. CASE Report
    <3>1. StageBooks'
      <4>1. /\ stage' = "done"
            /\ UNCHANGED <<cfg, devices, owner, books, payloads, observed, shifted, at>>
        BY <2>5 DEF Report, listingVars, userVars, buildVars
      <4>2. at \in Nat BY <1>3 DEF StageBooks
      <4>3. QED BY <1>3, <4>1, <4>2, StageStep DEF Stages, Early
    <3>2. QED BY <1>3, <2>5, <3>1, ReferencesSame DEF Report
  <2>6. QED BY <2>1, <2>2, <2>3, <2>4, <2>5
<1>5. QED BY <1>2, <1>4, IInvAfter

(* An exception ends the run with its books as they are. *)
LEMMA FailInv == ASSUME IInv, Fail PROVE IInv'
<1>1. /\ stage' = "raised"
      /\ UNCHANGED <<cfg, listingVars, batchVars, attributeVars, userVars, books, buildVars>>
  BY DEF Fail, Raise
<1>2. BatchInv' /\ AttributeBooks' /\ ListingBooks' /\ BooksOK(books') /\ StockUntouched(books')
  BY <1>1, BatchSame, AttributeSame, ListingSame, ReferencesSame, IInvForm
<1>3. StageBooks'
  <2>1. StageBooks /\ at \in Nat BY IInvForm DEF StageBooks
  <2>2. UNCHANGED <<cfg, devices, owner, books, payloads, observed, shifted, at>>
    BY <1>1 DEF listingVars, userVars, buildVars
  <2>3. QED BY <1>1, <2>1, <2>2, StageStep DEF Stages, Early
<1>4. QED BY <1>2, <1>3, IInvAfter

LEMMA SameInv == ASSUME IInv, UNCHANGED vars PROVE IInv'
<1>1. UNCHANGED <<cfg, listingVars, batchVars, attributeVars, books>> BY DEF vars
<1>2. BatchInv' /\ AttributeBooks' /\ ListingBooks' /\ BooksOK(books') /\ StockUntouched(books')
  BY <1>1, BatchSame, AttributeSame, ListingSame, ReferencesSame, IInvForm
<1>3. QED BY <1>2, StageSame, IInvForm, IInvAfter

LEMMA NextIInv == IInv /\ [Next]_vars => IInv'
<1> SUFFICES ASSUME IInv, [Next]_vars PROVE IInv' OBVIOUS
<1>1. CASE Step
  BY <1>1, ListInv, BatchStepInv, HardwareInv, AttributeInv, UsersInv, LateInv DEF Step
<1>2. CASE Fail BY <1>2, FailInv
<1>3. CASE UNCHANGED vars BY <1>3, SameInv
<1>4. QED BY <1>1, <1>2, <1>3 DEF Next, Over

-----------------------------------------------------------------------------
(***************************************************************************)
(* The inductive invariant: the books of the list, of $batch, of the       *)
(* attribute and of the resolver, and what each stage leaves to the later  *)
(* ones (SyncRunner.run and the clients it drives).                        *)
(***************************************************************************)
THEOREM PipelineInvariant == Spec => []IInv
BY InitIInv, NextIInv, PTL DEF Spec

(***************************************************************************)
(* A list that ended and has no cap is the whole fleet the run is for but  *)
(* the devices that slipped from a page still to come to one read before,  *)
(* whether the filter was honoured, ignored or rejected, and though pages  *)
(* may repeat devices (iter_managed_devices, _collect_devices).            *)
(***************************************************************************)
THEOREM PipelineListingComplete == Spec => []ListingComplete
<1>1. IInv => ListingComplete
  BY BooksComplete, SettingTypes, IInvForm DEF StageBooks
<1> QED BY <1>1, PipelineInvariant, PTL

(* A sequence has no more elements than places. *)
LEMMA RangeBounded ==
  ASSUME NEW S, NEW seq \in Seq(S)
  PROVE  /\ IsFiniteSet(Range(seq)) /\ Cardinality(Range(seq)) \in Nat
         /\ Cardinality(Range(seq)) <= Len(seq)
<1>1. Len(seq) \in Nat /\ DOMAIN seq = 1..Len(seq)
  OBVIOUS
<1>2. Range(seq) = {seq[i] : i \in 1..Len(seq)}
  BY <1>1 DEF Range
<1> DEFINE f == [i \in 1..Len(seq) |-> seq[i]]
<1>3. f \in Surjection(1..Len(seq), Range(seq))
  BY <1>2 DEF Surjection
<1>4. ExistsSurjection(1..Len(seq), Range(seq))
  BY <1>3 DEF ExistsSurjection
<1>5. IsFiniteSet(Range(seq))
  BY <1>1, <1>4, FS_NatSurjection
<1> QED BY <1>1, <1>4, <1>5, FS_SurjCardinalityBound, FS_CardinalityType

(***************************************************************************)
(* The listing keeps what SyncRun assumes of it (_collect_devices): with   *)
(* no cap every wanted device and no other; with one, no more than that,   *)
(* and some if there are any, even where a device listed twice uses up     *)
(* the cap.                                                                *)
(***************************************************************************)
THEOREM PipelineListingKeepsContract == Spec => []ListingKeepsContract
<1>1. IInv => ListingKeepsContract
  <2> SUFFICES ASSUME IInv, request = "none", stage # "raised" PROVE ListingKeepsContract
    BY DEF ListingKeepsContract
  <2> DEFINE wanted == {d \in Device \ missed : Owned(d)}
  <2>1. cfg.limit \in Nat /\ ListingBooks /\ ListingComplete
    BY BooksComplete, SettingTypes, IInvForm DEF StageBooks
  <2>2. devices \in Seq(Device) /\ Range(devices) \subseteq wanted
    BY <2>1 DEF ListingBooks, Range
  <2>3. CASE cfg.limit = 0
    BY <2>1, <2>3 DEF ListingComplete, ListingKeepsContract, Collected
  <2>4. CASE cfg.limit > 0
    <3>1. /\ Len(devices) <= cfg.limit
          /\ Len(devices) = cfg.limit \/ Range(devices) = wanted
      BY <2>1, <2>4 DEF ListingComplete
    <3>2. Cardinality(Range(devices)) \in Nat /\ Cardinality(Range(devices)) <= Len(devices)
      BY <2>2, RangeBounded
    <3>3. Cardinality(Range(devices)) <= cfg.limit
      BY <2>1, <2>2, <3>1, <3>2
    <3>4. Len(devices) = cfg.limit => Range(devices) # {}
      <4> SUFFICES ASSUME Len(devices) = cfg.limit PROVE Range(devices) # {}
        OBVIOUS
      <4>1. 1 \in DOMAIN devices
        BY <2>1, <2>2, <2>4
      <4> QED BY <4>1 DEF Range
    <3> QED BY <2>1, <2>2, <2>4, <3>1, <3>3, <3>4 DEF ListingKeepsContract, Collected
  <2> QED BY <2>1, <2>3, <2>4
<1> QED BY <1>1, PipelineInvariant, PTL

(***************************************************************************)
(* Being throttled costs a key no try of its own and none of another's     *)
(* (_batch_get).                                                           *)
(***************************************************************************)
THEOREM PipelineThrottledGetsAllTries == Spec => []ThrottledGetsAllTries
<1>1. IInv => ThrottledGetsAllTries BY AllTries, IInvForm
<1> QED BY <1>1, PipelineInvariant, PTL

(***************************************************************************)
(* What has been answered is not asked for again (_batch_get).             *)
(***************************************************************************)
THEOREM PipelineAnsweredOnce == Spec => AnsweredOnce
<1> DEFINE Once == \A k \in Key : tries'[k] > tries[k] => verdict[k] \in {"none", "throttled"}
<1>1. IInv /\ [Next]_vars => [Once]_batchVars
  <2> SUFFICES ASSUME IInv, [Next]_vars, NEW k \in Key, tries'[k] > tries[k]
               PROVE  verdict[k] \in {"none", "throttled"}
    OBVIOUS
  <2>1. BatchInv BY IInvForm
  <2>2. tries[k] \in Nat BY <2>1 DEF BatchInv, BatchTypeOK
  <2>3. tries' # tries BY <2>2
  <2>4. CASE \E B \in SUBSET toAsk : Asked(B)
    <3>1. PICK B \in SUBSET toAsk : Asked(B) BY <2>4
    <3>2. k \in B BY <2>2, <3>1 DEF Asked
    <3>3. tries[k] = 0 => verdict[k] = "none" BY <2>1 DEF BatchInv, BatchBooks
    <3>4. tries[k] > 0 => verdict[k] = "throttled" BY <2>1, <3>2 DEF BatchInv, BatchBooks
    <3>5. QED BY <2>2, <3>3, <3>4
  <2>5. CASE BatchReset
    <3>1. tries'[k] = 0 BY <2>5 DEF BatchReset
    <3>2. QED BY <2>2, <3>1
  <2>6. CASE Answered
    <3>1. PICK B \in SUBSET toAsk : \E ans \in [B -> Verdict] : ChunkAnswered(B, ans)
      BY <2>6 DEF Answered
    <3>2. QED BY <2>4, <3>1 DEF ChunkAnswered
  <2>7. CASE Skipped BY <2>4, <2>7 DEF Skipped, ChunkSkipped
  <2>8. CASE EnrichHardware \/ ResolveEnriched
    BY <2>5, <2>8 DEF EnrichHardware, ResolveEnriched
  <2>9. CASE Ask \/ AskAgain BY <2>3, <2>9 DEF Ask, AskAgain, BatchStart, NextRound
  <2>10. CASE Fail \/ UNCHANGED vars BY <2>3, <2>10 DEF Fail, Raise, vars, batchVars
  <2>11. CASE UNCHANGED batchVars BY <2>3, <2>11 DEF batchVars
  <2>12. QED
    BY <2>6, <2>7, <2>8, <2>9, <2>10, <2>11
    DEF Next, Over, Step, List, ListUnfiltered, Attribute, EndAttribute, ResolveFromDevices,
        TryKey, EndMatch, PrimeReferences, BuildDevice, EndBuild, WriteBatch, Report
<1> QED BY <1>1, PipelineInvariant, PTL DEF Spec, AnsweredOnce

(***************************************************************************)
(* What is filled in from the attribute comes from one complete read       *)
(* (get_custom_attribute_values).                                          *)
(***************************************************************************)
THEOREM PipelineAttributeWhole == Spec => []AttributeWhole
<1>1. IInv => AttributeWhole BY DEF IInv, AttributeBooks, AttributeWhole
<1> QED BY <1>1, PipelineInvariant, PTL

(***************************************************************************)
(* A record is asked for once per name and run, whatever became of the     *)
(* first request (ReferenceResolver).                                      *)
(***************************************************************************)
THEOREM PipelineCreateOnce == Spec => []CreateOnce
<1>1. IInv => CreateOnce BY DEF IInv
<1> QED BY <1>1, PipelineInvariant, PTL

(***************************************************************************)
(* What is there when a run begins is not created again, but for a name    *)
(* that no query can carry or that duplicates of other names crowd out of  *)
(* the one page a query reads (prime, _lookup).                            *)
(***************************************************************************)
THEOREM PipelineNoDuplicateRow == Spec => []NoDuplicateRow
<1>1. IInv => NoDuplicateRow BY DEF IInv
<1> QED BY <1>1, PipelineInvariant, PTL

(* A CI is linked to records that are there (references_for, build_values). *)
THEOREM PipelineLinkedByName == Spec => []LinkedByName
<1>1. IInv => LinkedByName BY DEF IInv, StageBooks, LinkedByName
<1> QED BY <1>1, PipelineInvariant, PTL

(***************************************************************************)
(* No device of another owner is collected, written or remembered, on      *)
(* whatever the server lists (is_corporate).                               *)
(***************************************************************************)
THEOREM PipelineOnlyOwnedWritten == Spec => []OnlyOwnedWritten
<1>1. IInv => OnlyOwnedWritten
  BY DEF IInv, ListingBooks, StageBooks, OnlyOwnedWritten, Kept, Range
<1> QED BY <1>1, PipelineInvariant, PTL

(***************************************************************************)
(* The CI observed for a device is its own and no other's, if no two       *)
(* devices share a usable serial number, nor a name by which both have to  *)
(* be identified; as long as no answer of IRE leaves an item out before    *)
(* others (normalize_serial, _parse_results, _write_batch).                *)
(***************************************************************************)
THEOREM PipelineObservedIsOwn ==
  ASSUME \A d, e \in Device : d # e =>
           /\ UsableSerial(SerialOf[d]) /\ UsableSerial(SerialOf[e]) =>
                SerialOf[d].text # SerialOf[e].text
           /\ ~UsableSerial(SerialOf[d]) /\ ~UsableSerial(SerialOf[e]) /\ NameOf[d] # "" =>
                NameOf[d] # NameOf[e]
  PROVE  Spec => []ObservedIsOwn
<1>1. ASSUME NEW d \in Device, NEW e \in Device, d # e, Identifiable(d), Identifiable(e)
      PROVE  CiFor(d) # CiFor(e)
  <2>1. CASE UsableSerial(SerialOf[d]) /\ UsableSerial(SerialOf[e]) BY <1>1, <2>1 DEF CiFor
  <2>2. CASE ~UsableSerial(SerialOf[d]) /\ ~UsableSerial(SerialOf[e])
    <3>1. NameOf[d] # "" BY <1>1, <2>2 DEF Identifiable
    <3>2. QED BY <1>1, <2>2, <3>1 DEF CiFor
  <2>3. CASE UsableSerial(SerialOf[d]) # UsableSerial(SerialOf[e])
    <3>1. CiFor(d)[1] # CiFor(e)[1]
      <4>1. CASE UsableSerial(SerialOf[d]) /\ ~UsableSerial(SerialOf[e]) BY <4>1 DEF CiFor
      <4>2. CASE ~UsableSerial(SerialOf[d]) /\ UsableSerial(SerialOf[e]) BY <4>2 DEF CiFor
      <4>3. QED BY <2>3, <4>1, <4>2 DEF UsableSerial
    <3>2. QED BY <3>1
  <2>4. QED BY <2>1, <2>2, <2>3
<1>2. IInv => ObservedIsOwn
  <2> SUFFICES ASSUME IInv, ~shifted, NEW d \in Device, observed[d] # NoCi
               PROVE  /\ observed[d] = CiFor(d)
                      /\ \A e \in Device \ {d} : observed[e] # observed[d]
    BY DEF ObservedIsOwn
  <2>1. Identifiable(d) /\ observed[d] = CiFor(d) BY DEF IInv, StageBooks
  <2>2. ASSUME NEW e \in Device \ {d} PROVE observed[e] # observed[d]
    <3>1. CASE observed[e] = NoCi BY <3>1
    <3>2. CASE observed[e] # NoCi
      <4>1. Identifiable(e) /\ observed[e] = CiFor(e) BY <3>2 DEF IInv, StageBooks
      <4>2. QED BY <1>1, <2>1, <4>1
    <3>3. QED BY <3>1, <3>2
  <2>3. QED BY <2>1, <2>2
<1>3. QED BY <1>2, PipelineInvariant, PTL
-----------------------------------------------------------------------------
(* Who gets which row of sys_user: nobody before the lookup, then one key
   after the other. *)
UserBooks ==
  /\ keyAt \in Nat /\ table \subseteq Row
  /\ keyAt > 0 => stage \in {"match", "raised"}
  /\ keyAt = 0 /\ stage \in Early \ {"prime"} => owner = [u \in User |-> NoRow]
  /\ AssignedIsUnique

(* A value that one of the rows that were asked for has is that row's alone. *)
LEMMA MatchStands ==
  ASSUME table \subseteq Row, NEW C, NEW v \in C, Matches(Matching(C), v)
  PROVE  RowWith(Matching(C), v) = Stands(MatchKey, v)
<1> DEFINE rows == {r \in Visible : r[MatchKey] = v}
<1>1. {r \in Matching(C) : r[MatchKey] = v} = rows
  BY DEF Matching
<1>2. IsFiniteSet(rows)
  <2>1. rows \in SUBSET Row
    BY DEF Visible
  <2> QED BY <2>1, FS_Subset, UserAssumption
<1>3. Cardinality(rows) = 1
  BY <1>1 DEF Matches
<1>4. PICK x : rows = {x}
  BY <1>2, <1>3, FS_Singleton
<1>5. RowWith(Matching(C), v) = x
  <2>1. x \in Matching(C) /\ x[MatchKey] = v
    BY <1>1, <1>4
  <2>2. \A r \in Matching(C) : r[MatchKey] = v => r = x
    BY <1>1, <1>4
  <2> QED BY <2>1, <2>2 DEF RowWith
<1>6. Stands(MatchKey, v) = x
  <2>1. Stands(MatchKey, v) = CHOOSE r \in rows : TRUE
    BY <1>3 DEF Stands
  <2>2. (CHOOSE r \in rows : TRUE) \in rows
    BY <1>4
  <2> QED BY <1>4, <2>1, <2>2
<1> QED BY <1>5, <1>6

(* Where a value occurs among the values that are asked for. *)
Places(v) ==
  UNION {{2 * i + s : s \in {t \in Sought(UserOrder[i]) :
                               ValuesOf[MatchKey][UserOrder[i]][t] = v}} :
         i \in {j \in DOMAIN UserOrder : UserOrder[j] \in unmatched}}

(* A value that is asked for has a place: the first of those where it occurs. *)
LEMMA PlaceNatural ==
  ASSUME keyAt \in DOMAIN MatchOrder, NEW u \in User, u \in unmatched, NEW v \in Wanted(u)
  PROVE  Place(v) \in Nat /\ Place(v) \in Places(v) /\ \A q \in Places(v) : Place(v) <= q
<1> DEFINE slots(i) == {s \in Sought(UserOrder[i]) : ValuesOf[MatchKey][UserOrder[i]][s] = v}
           users == {j \in DOMAIN UserOrder : UserOrder[j] \in unmatched}
           places == UNION {{2 * i + s : s \in slots(i)} : i \in users}
<1>1. \A w \in User : Sought(w) \subseteq 1..2
  BY UserAssumption DEF Sought, MatchKey
<1>2. \A i \in users : i \in Nat /\ UserOrder[i] \in User
  BY UserAssumption
<1>3. places \in SUBSET Nat
  <2>1. \A i \in users : \A s \in slots(i) : 2 * i + s \in Nat
    BY <1>1, <1>2
  <2> QED BY <2>1
<1>4. places # {}
  <2>1. PICK i \in users : UserOrder[i] = u
    BY UserAssumption
  <2>2. PICK s \in Sought(u) : ValuesOf[MatchKey][u][s] = v
    BY DEF Wanted
  <2>3. s \in slots(i)
    BY <2>1, <2>2
  <2> QED BY <2>1, <2>3
<1>5. Place(v) = CHOOSE p \in places : \A q \in places : p <= q
  BY DEF Place
<1> HIDE DEF places
<1>6. \E p \in places : \A q \in places : p <= q
  BY <1>3, <1>4, LeastNatural
<1>7. Place(v) \in places /\ \A q \in places : Place(v) <= q
  BY <1>5, <1>6
<1>8. Places(v) = places BY DEF Places, places
<1> QED BY <1>3, <1>7, <1>8

(* A key gives a user who had no row the row one of his values stands for. *)
LEMMA TryKeyBooks ==
  ASSUME UserBooks, TryKey
  PROVE  UserBooks'
<1>1. /\ keyAt \in DOMAIN MatchOrder /\ keyAt' = keyAt + 1 /\ keyAt > 0
      /\ UNCHANGED <<stage, table>> /\ stage = "match"
  BY UserAssumption DEF TryKey, ResolveByKey, UserBooks
<1>2. PICK rows \in SUBSET Matching(Candidates) :
        /\ owner' = [u \in User |->
                       IF u \in unmatched
                       THEN Match([v \in Candidates |-> Place(v)], rows, u) ELSE owner[u]]
        /\ cut' = (cut \/ rows # Matching(Candidates))
  BY DEF TryKey, ResolveByKey
<1>3. ~cut' => ~cut /\ rows = Matching(Candidates)
  BY <1>2, Zenon
<1>4. ASSUME ~cut', NEW u \in User, owner'[u] # NoRow
      PROVE  \E k \in DOMAIN MatchOrder : \E i \in DOMAIN ValuesOf[MatchOrder[k]][u] :
               /\ SafeValue(ValuesOf[MatchOrder[k]][u][i])
               /\ Stands(MatchOrder[k], ValuesOf[MatchOrder[k]][u][i]) = owner'[u]
  <2>1. CASE u \notin unmatched
    BY <1>1, <1>2, <1>3, <1>4, <2>1 DEF UserBooks, AssignedIsUnique
  <2>2. CASE u \in unmatched
    <3>1. owner'[u] = Match([v \in Candidates |-> Place(v)], Matching(Candidates), u)
      BY <1>2, <1>3, <1>4, <2>2
    <3>2. Wanted(u) \subseteq Candidates
      BY <2>2 DEF Candidates
    <3> DEFINE hits == {v \in Wanted(u) : Matches(Matching(Candidates), v)}
               place == [v \in Candidates |-> Place(v)]
               first(v) == \A w \in hits : place[v] <= place[w]
    <3>3. hits # {} /\ owner'[u] = RowWith(Matching(Candidates), CHOOSE v \in hits : first(v))
      BY <1>4, <3>1 DEF Match
    <3> HIDE DEF first
    <3>4. CASE \E v \in hits : first(v)
      <4>1. PICK v \in hits : owner'[u] = RowWith(Matching(Candidates), v)
        BY <3>3, <3>4
      <4>2. owner'[u] = Stands(MatchKey, v)
        BY <3>2, <4>1, MatchStands DEF UserBooks
      <4>3. PICK i \in Sought(u) : v = ValuesOf[MatchKey][u][i]
        BY DEF Wanted
      <4> QED BY <1>1, <4>2, <4>3 DEF Sought, MatchKey
    <3>5. \E v \in hits : first(v)
      <4>1. \A v \in hits : place[v] \in Nat
        BY <1>1, <2>2, <3>2, PlaceNatural
      <4> DEFINE taken == {place[v] : v \in hits}
      <4>2. taken \in SUBSET Nat /\ taken # {}
        BY <3>3, <4>1
      <4> HIDE DEF taken
      <4>3. PICK p \in taken : \A q \in taken : p <= q
        BY <4>2, LeastNatural
      <4> QED BY <4>3 DEF taken, first
    <3> QED BY <3>4, <3>5
  <2> QED BY <2>1, <2>2
<1>5. AssignedIsUnique'
  BY <1>1, <1>4 DEF AssignedIsUnique, Stands, Visible
<1> QED BY <1>1, <1>5 DEF UserBooks
(* The steps that leave the resolver alone do not go back before it either. *)
LEMMA OthersKeepUsers ==
  ASSUME UserBooks, UNCHANGED userVars,
         stage' \in Early \ {"prime"} => stage \in Early \ {"prime"},
         keyAt > 0 => stage' \in {"match", "raised"}
  PROVE  UserBooks'
<1>1. UNCHANGED <<table, keyAt, unmatched, owner, cut>>
  BY DEF userVars
<1>2. AssignedIsUnique'
  BY <1>1 DEF UserBooks, AssignedIsUnique, Stands, Visible
<1> QED BY <1>1, <1>2 DEF UserBooks

LEMMA NextKeepsUsers == UserBooks /\ [Next]_vars => UserBooks'
<1> SUFFICES ASSUME UserBooks, [Next]_vars PROVE UserBooks'
  OBVIOUS
<1>1. CASE List \/ ListUnfiltered
  <2>1. stage = "listing" /\ UNCHANGED userVars
    BY <1>1 DEF List, ListUnfiltered
  <2> QED BY <2>1, OthersKeepUsers DEF UserBooks, Early
<1>2. CASE Ask \/ Answered \/ Skipped \/ AskAgain \/ EnrichHardware \/ Attribute \/ EndAttribute
  <2>1. stage \in {"hardware", "ram", "users"} /\ UNCHANGED userVars
    BY <1>2 DEF Ask, Answered, Skipped, AskAgain, EnrichHardware, Attribute, EndAttribute
  <2> QED BY <2>1, OthersKeepUsers DEF UserBooks, Early
<1>3. CASE ResolveEnriched \/ ResolveFromDevices
  <2>1. PICK rows \in SUBSET Row : \E users : ResolveMany(users, rows)
    BY <1>3 DEF ResolveEnriched, ResolveFromDevices, MatchAgainst
  <2>2. stage \in {"users", "match"} /\ stage' = "match" /\ keyAt = 0 /\ keyAt' = 1
        /\ table' = rows /\ UNCHANGED owner
    BY <1>3, <2>1 DEF ResolveEnriched, ResolveFromDevices, MatchAgainst, ResolveMany
  <2>3. owner' = [u \in User |-> NoRow]
    BY <2>2 DEF UserBooks, Early
  <2> QED BY <2>2, <2>3 DEF UserBooks, AssignedIsUnique
<1>4. CASE TryKey
  BY <1>4, TryKeyBooks
<1>5. CASE EndMatch
  BY <1>5 DEF EndMatch, UsersReturn, UserBooks, AssignedIsUnique, Early
<1>6. CASE PrimeReferences \/ BuildDevice \/ EndBuild \/ WriteBatch \/ Report
  <2>1. /\ stage \in {"prime", "build", "write"} /\ stage' \in {"build", "write", "done"}
        /\ UNCHANGED userVars
    BY <1>6 DEF PrimeReferences, BuildDevice, EndBuild, WriteBatch, Report
  <2> QED BY <2>1, OthersKeepUsers DEF UserBooks, Early
<1>7. CASE Fail \/ UNCHANGED vars
  <2>1. stage' \in {stage, "raised"} /\ UNCHANGED userVars
    BY <1>7 DEF Fail, Raise, vars
  <2> QED BY <2>1, OthersKeepUsers DEF UserBooks, Early
<1> QED BY <1>1, <1>2, <1>3, <1>4, <1>5, <1>6, <1>7 DEF Next, Over, Step

(***************************************************************************)
(* No device goes to the wrong person: unless a row limit hid another, the *)
(* row a user is given is the only one that has one of the user's own      *)
(* values, for any users, values and tables (resolve_many).                *)
(***************************************************************************)
THEOREM PipelineAssignedIsUnique == Spec => []AssignedIsUnique
<1>1. Init => UserBooks
  BY DEF Init, UsersIdle, UserBooks, AssignedIsUnique
<1>2. UserBooks => AssignedIsUnique
  BY DEF UserBooks
<1> QED BY <1>1, <1>2, NextKeepsUsers, PTL DEF Spec
-----------------------------------------------------------------------------
(* The report: what was said of a device, what will be, how often it was listed. *)
Outcome == [device : Device, action : {"skipped", "written", "error"}]
SaidOf(d) == {i \in DOMAIN outcomes : outcomes[i].device = d}
DueFor(d) == {i \in DOMAIN payloads : payloads[i].device = d}
DueFrom(d, n) == {i \in DOMAIN payloads : i > n /\ payloads[i].device = d}
ListedTo(d, n) == {i \in DOMAIN devices : i <= n /\ devices[i] = d}

(* Every listing of a device is an entry of the report or a payload to come. *)
Accounts ==
  /\ outcomes \in Seq(Outcome)
  /\ stage \in Early => outcomes = <<>>
  /\ \A d \in Device :
       /\ stage = "build" =>
            Cardinality(SaidOf(d)) + Cardinality(DueFor(d)) = Cardinality(ListedTo(d, at))
       /\ stage = "write" =>
            Cardinality(SaidOf(d)) + Cardinality(DueFrom(d, at)) = Occurs(devices, d)
       /\ stage = "done" => Cardinality(SaidOf(d)) = Occurs(devices, d)

LEMMA Positions ==
  ASSUME NEW n \in Nat, NEW S \in SUBSET (1..n)
  PROVE  IsFiniteSet(S) /\ Cardinality(S) \in Nat
<1>1. IsFiniteSet(1..n) BY FS_Interval
<1>2. IsFiniteSet(S) BY <1>1, FS_Subset
<1> QED BY <1>2, FS_CardinalityType

(* One position more, taken or not. *)
LEMMA OneMore ==
  ASSUME NEW n \in Nat, NEW S \in SUBSET (1..n), NEW T, T = S \/ T = S \cup {n + 1}
  PROVE  Cardinality(T) = Cardinality(S) + (IF n + 1 \in T THEN 1 ELSE 0)
<1>1. IsFiniteSet(S) /\ Cardinality(S) \in Nat BY Positions
<1>2. n + 1 \notin S OBVIOUS
<1>3. CASE T = S BY <1>1, <1>2, <1>3
<1>4. CASE T = S \cup {n + 1}
  <2>1. Cardinality(S \cup {n + 1}) = Cardinality(S) + 1 BY <1>1, <1>2, FS_AddElement
  <2>2. n + 1 \in T BY <1>4
  <2> QED BY <1>4, <2>1, <2>2
<1> QED BY <1>3, <1>4

(* As many positions a places further on. *)
LEMMA Moved ==
  ASSUME NEW n \in Nat, NEW W \in SUBSET (1..n), NEW a \in Nat
  PROVE  /\ IsFiniteSet({a + i : i \in W})
         /\ Cardinality({a + i : i \in W}) = Cardinality(W)
<1> DEFINE T == {a + i : i \in W}
           f == [i \in W |-> a + i]
<1>1. IsFiniteSet(W) BY Positions
<1>2. \A i, j \in W : f[i] = f[j] => i = j
  <2>1. \A i \in W : i \in Nat OBVIOUS
  <2> QED BY <2>1
<1>3. f \in Bijection(W, T)
  <2>1. f \in [W -> T] OBVIOUS
  <2>2. \A t \in T : \E i \in W : f[i] = t OBVIOUS
  <2> HIDE DEF f, T
  <2> QED BY <1>2, <2>1, <2>2 DEF Bijection, Injection, Surjection, IsInjective
<1>4. ExistsBijection(W, T) BY <1>3 DEF ExistsBijection
<1> QED BY <1>1, <1>4, FS_Bijection

(* The sets of positions that are counted. *)
LEMMA Counted ==
  ASSUME Accounts, StageBooks, ListingBooks, NEW d
  PROVE  /\ Len(outcomes) \in Nat /\ SaidOf(d) \in SUBSET (1..Len(outcomes))
         /\ Len(payloads) \in Nat /\ DueFor(d) \in SUBSET (1..Len(payloads))
         /\ Len(devices) \in Nat /\ \A n : ListedTo(d, n) \in SUBSET (1..Len(devices))
<1>1. outcomes \in Seq(Outcome) /\ payloads \in Seq(CiPayload) /\ devices \in Seq(Device)
  BY DEF Accounts, StageBooks, ListingBooks
<1> QED BY <1>1 DEF SaidOf, DueFor, ListedTo

(* Before the payloads are built the report is empty. *)
LEMMA EarlyAccounts ==
  ASSUME Accounts, StageBooks, stage \in Early, UNCHANGED buildVars, ListingBooks',
         \/ stage' \in Early \cup {"build", "raised"}
         \/ stage' = "done" /\ devices' = <<>>
  PROVE  Accounts'
<1>1. outcomes' = <<>> /\ payloads' = <<>> /\ at' = 0
  BY DEF Accounts, StageBooks, buildVars
<1>2. outcomes' \in Seq(Outcome) BY <1>1
<1>3. \A d \in Device : SaidOf(d)' = {} /\ DueFor(d)' = {}
  BY <1>1 DEF SaidOf, DueFor
<1>4. \A d \in Device : ListedTo(d, at)' = {}
  BY <1>1 DEF ListedTo, ListingBooks
<1>5. devices' = <<>> => \A d \in Device : {i \in DOMAIN devices' : devices'[i] = d} = {}
  OBVIOUS
<1>6. stage' # "write" /\ (stage' = "done" => devices' = <<>>) BY DEF Early
<1>7. ASSUME NEW d \in Device
      PROVE  /\ Cardinality(SaidOf(d)') + Cardinality(DueFor(d)') = Cardinality(ListedTo(d, at)')
             /\ stage' = "done" => Cardinality(SaidOf(d)') = Occurs(devices', d)
  <2>1. Cardinality({}) = 0 BY FS_EmptySet
  <2>2. SaidOf(d)' = {} /\ DueFor(d)' = {} /\ ListedTo(d, at)' = {} BY <1>3, <1>4
  <2>3. stage' = "done" => Occurs(devices', d) = 0 BY <1>5, <1>6, <2>1 DEF Occurs
  <2> QED BY <2>1, <2>2, <2>3
<1> QED BY <1>1, <1>2, <1>6, <1>7 DEF Accounts

(* One entry more at the end of the report, or of the payloads. *)
LEMMA Appended ==
  ASSUME NEW E, NEW s \in Seq(E), NEW e \in E, NEW d
  PROVE  LET at0 == {i \in DOMAIN s : s[i].device = d}
             at1 == {i \in DOMAIN Append(s, e) : Append(s, e)[i].device = d}
         IN  /\ at1 = at0 \/ at1 = at0 \cup {Len(s) + 1}
             /\ Len(s) + 1 \in at1 <=> e.device = d
<1> DEFINE t == Append(s, e)
           at0 == {i \in DOMAIN s : s[i].device = d}
           at1 == {i \in DOMAIN t : t[i].device = d}
<1>1. /\ Len(s) \in Nat /\ DOMAIN s = 1..Len(s) /\ DOMAIN t = 1..(Len(s) + 1)
      /\ \A i \in 1..Len(s) : t[i] = s[i]
      /\ t[Len(s) + 1] = e
  OBVIOUS
<1> HIDE DEF t
<1>2. CASE e.device = d
  <2>1. at1 = at0 \cup {Len(s) + 1} BY <1>1, <1>2
  <2> QED BY <1>2, <2>1
<1>3. CASE e.device # d
  <2>1. at1 = at0 BY <1>1, <1>3
  <2>2. Len(s) + 1 \notin at1 BY <1>1, <1>3
  <2> QED BY <1>3, <2>1, <2>2
<1> QED BY <1>2, <1>3 DEF t

(* The next device is recorded as skipped or gets a payload: one of the two. *)
LEMMA BuildAccounts ==
  ASSUME Accounts, StageBooks, ListingBooks, BuildDevice
  PROVE  Accounts'
<1> DEFINE e == devices[at + 1]
<1>1. /\ stage = "build" /\ stage' = "build" /\ at < Len(devices) /\ at' = at + 1
      /\ at \in Nat /\ UNCHANGED devices
  BY DEF BuildDevice, StageBooks, listingVars
<1>2. /\ devices \in Seq(Device) /\ Len(devices) \in Nat /\ e \in Device
      /\ outcomes \in Seq(Outcome) /\ payloads \in Seq(CiPayload)
  BY <1>1 DEF ListingBooks, Accounts, StageBooks
<1>3. \/ /\ outcomes' = Append(outcomes, Record(e, "skipped"))
         /\ payloads' = payloads
      \/ /\ payloads' = Append(payloads, Payload(e, books'))
         /\ outcomes' = outcomes
  BY DEF BuildDevice
<1> HIDE DEF e
<1>4. outcomes' \in Seq(Outcome)
  <2>1. Record(e, "skipped") \in Outcome BY <1>2 DEF Record, Outcome
  <2>2. Append(outcomes, Record(e, "skipped")) \in Seq(Outcome) BY <1>2, <2>1
  <2>3. outcomes' \in {outcomes, Append(outcomes, Record(e, "skipped"))} BY <1>3
  <2> QED BY <1>2, <2>2, <2>3
<1>5. ASSUME NEW d \in Device
      PROVE  Cardinality(SaidOf(d)') + Cardinality(DueFor(d)') = Cardinality(ListedTo(d, at)')
  <2> DEFINE one == IF e = d THEN 1 ELSE 0
  <2>1. /\ SaidOf(d) \in SUBSET (1..Len(outcomes)) /\ DueFor(d) \in SUBSET (1..Len(payloads))
        /\ Len(outcomes) \in Nat /\ Len(payloads) \in Nat /\ ListedTo(d, at) \in SUBSET (1..at)
    BY <1>1, <1>2, Counted DEF ListedTo
  <2>2. Cardinality(ListedTo(d, at)') = Cardinality(ListedTo(d, at)) + one
    <3>1. ListedTo(d, at)' = {i \in DOMAIN devices : i <= at + 1 /\ devices[i] = d}
      BY <1>1 DEF ListedTo
    <3>2. at + 1 \in DOMAIN devices /\ DOMAIN devices = 1..Len(devices) BY <1>1, <1>2
    <3>3. CASE e = d
      <4>1. ListedTo(d, at)' = ListedTo(d, at) \cup {at + 1}
        BY <1>1, <1>2, <3>1, <3>2, <3>3 DEF ListedTo, e
      <4> QED BY <1>1, <2>1, <3>3, <4>1, OneMore
    <3>4. CASE e # d
      <4>1. ListedTo(d, at)' = ListedTo(d, at)
        BY <1>1, <1>2, <3>1, <3>2, <3>4 DEF ListedTo, e
      <4>2. Cardinality(ListedTo(d, at)) \in Nat BY <1>1, <2>1, Positions
      <4> QED BY <3>4, <4>1, <4>2
    <3> QED BY <3>3, <3>4
  <2>3. /\ Cardinality(SaidOf(d)) \in Nat /\ Cardinality(DueFor(d)) \in Nat
        /\ Cardinality(ListedTo(d, at)) \in Nat
    BY <1>1, <2>1, Positions
  <2>4. Cardinality(SaidOf(d)) + Cardinality(DueFor(d)) = Cardinality(ListedTo(d, at))
    BY <1>1 DEF Accounts
  <2>5. CASE outcomes' = Append(outcomes, Record(e, "skipped")) /\ payloads' = payloads
    <3>1. DueFor(d)' = DueFor(d) BY <2>5 DEF DueFor
    <3>2. /\ SaidOf(d)' = SaidOf(d) \/ SaidOf(d)' = SaidOf(d) \cup {Len(outcomes) + 1}
          /\ Len(outcomes) + 1 \in SaidOf(d)' <=> e = d
      <4>1. Record(e, "skipped") \in Outcome /\ Record(e, "skipped").device = e
        BY <1>2 DEF Record, Outcome
      <4> QED BY <1>2, <2>5, <4>1, Appended DEF SaidOf
    <3>3. Cardinality(SaidOf(d)') = Cardinality(SaidOf(d)) + one
      BY <2>1, <3>2, OneMore
    <3> QED BY <2>2, <2>3, <2>4, <3>1, <3>3
  <2>6. CASE payloads' = Append(payloads, Payload(e, books')) /\ outcomes' = outcomes
    <3>1. SaidOf(d)' = SaidOf(d) BY <2>6 DEF SaidOf
    <3>2. /\ DueFor(d)' = DueFor(d) \/ DueFor(d)' = DueFor(d) \cup {Len(payloads) + 1}
          /\ Len(payloads) + 1 \in DueFor(d)' <=> e = d
      <4>1. Payload(e, books').device = e /\ payloads \in Seq(CiPayload \cup {Payload(e, books')})
        BY <1>2 DEF Payload
      <4> HIDE DEF CiPayload
      <4> QED BY <2>6, <4>1, Appended DEF DueFor
    <3>3. Cardinality(DueFor(d)') = Cardinality(DueFor(d)) + one
      BY <2>1, <3>2, OneMore
    <3> QED BY <2>2, <2>3, <2>4, <3>1, <3>3
  <2> QED BY <1>3, <2>5, <2>6
<1> QED BY <1>1, <1>4, <1>5 DEF Accounts, Early

(* A batch records each of its payloads, and changes who is recorded nowhere else. *)
LEMMA WriteAccounts ==
  ASSUME Accounts, StageBooks, ListingBooks, WriteBatch
  PROVE  Accounts'
<1> DEFINE n == BatchSize
           L == Len(outcomes)
<1>1. /\ stage = "write" /\ stage' = "write" /\ at < Len(payloads) /\ at' = at + n
      /\ at \in Nat /\ UNCHANGED <<devices, payloads>>
  BY DEF WriteBatch, StageBooks, listingVars
<1>2. /\ outcomes \in Seq(Outcome) /\ L \in Nat
      /\ payloads \in Seq(CiPayload) /\ Len(payloads) \in Nat
  BY DEF Accounts, StageBooks
<1>3. n \in Nat /\ at + n <= Len(payloads)
  <2>1. cfg.batch \in Nat BY SettingTypes DEF StageBooks
  <2> QED BY <1>1, <1>2, <2>1 DEF BatchSize
<1>4. \A i \in 1..n : at + i \in DOMAIN payloads /\ Batch[i] = payloads[at + i].device
  BY <1>1, <1>2, <1>3 DEF Batch
<1>5. \A i \in 1..n : Batch[i] \in Device
  <2>1. \A i \in DOMAIN payloads : payloads[i] \in CiPayload BY <1>2
  <2>2. \A q \in CiPayload : q.device \in Device BY DEF CiPayload
  <2> HIDE DEF n
  <2> QED BY <1>4, <2>1, <2>2
<1>6. DOMAIN Batch = 1..n BY DEF Batch
<1>7. PICK items : Wrote(items) BY DEF WriteBatch
<1> DEFINE who(i) == IF i <= L THEN outcomes[i].device ELSE Batch[i - L]
<1>8. /\ DOMAIN outcomes' = 1..(L + n)
      /\ \A i \in 1..(L + n) : outcomes'[i] = IF who(i) \in Range(Batch)
                                             THEN Record(who(i), LastAction(items, who(i)))
                                             ELSE outcomes[i]
  BY <1>7 DEF Wrote
<1>9. outcomes' = [i \in 1..(L + n) |-> outcomes'[i]]
  BY <1>7 DEF Wrote
<1>10. ASSUME NEW i \in 1..(L + n)
       PROVE  outcomes'[i].device = who(i) /\ outcomes'[i] \in Outcome
  <2>1. i <= L => i \in DOMAIN outcomes /\ outcomes[i] \in Outcome BY <1>2
  <2>2. i > L => i - L \in 1..n BY <1>2, <1>3
  <2>3. i <= L \/ i > L BY <1>2
  <2>4. who(i) \in Device BY <1>5, <2>1, <2>2, <2>3 DEF Outcome
  <2>5. CASE who(i) \in Range(Batch)
    <3>1. \A k : Action(items, k) \in {"written", "error"} BY DEF Action
    <3>2. LastAction(items, who(i)) \in {"written", "error"} BY <3>1 DEF LastAction
    <3>3. outcomes'[i] = Record(who(i), LastAction(items, who(i))) BY <1>8, <2>5
    <3> HIDE DEF who
    <3> QED BY <2>4, <3>2, <3>3 DEF Record, Outcome
  <2>6. CASE who(i) \notin Range(Batch)
    <3>1. i <= L
      <4>1. i > L => who(i) = Batch[i - L] /\ Batch[i - L] \in Range(Batch)
        BY <1>2, <1>6, <2>2 DEF Range
      <4> QED BY <2>3, <2>6, <4>1
    <3> QED BY <1>8, <2>1, <2>6, <3>1
  <2> QED BY <2>5, <2>6
<1> HIDE DEF n
<1>11. outcomes' \in Seq(Outcome)
  <2>1. \A i \in 1..(L + n) : outcomes'[i] \in Outcome BY <1>10
  <2>2. L + n \in Nat BY <1>2, <1>3
  <2> QED BY <1>9, <2>1, <2>2
<1>12. ASSUME NEW d \in Device
       PROVE  Cardinality(SaidOf(d)') + Cardinality(DueFrom(d, at)') = Occurs(devices, d)
  <2> DEFINE W == {i \in 1..n : Batch[i] = d}
             Now == {L + i : i \in W}
             Due == {at + i : i \in W}
  <2>1. W \in SUBSET (1..n) OBVIOUS
  <2>2. SaidOf(d) \in SUBSET (1..L) BY <1>2 DEF SaidOf
  <2>3. DueFrom(d, at + n) \in SUBSET (1..Len(payloads)) BY <1>2 DEF DueFrom
  <2>4. SaidOf(d)' = SaidOf(d) \cup Now
    <3>1. SaidOf(d)' = {i \in 1..(L + n) : who(i) = d} BY <1>8, <1>10 DEF SaidOf
    <3>2. SaidOf(d) = {i \in 1..L : who(i) = d} BY <1>2 DEF SaidOf
    <3>3. Now = {i \in (L + 1)..(L + n) : who(i) = d}
      <4>1. ASSUME NEW i \in W PROVE L + i \in (L + 1)..(L + n) /\ who(L + i) = d
        <5>1. ~(L + i <= L) /\ (L + i) - L = i /\ L + i \in (L + 1)..(L + n) BY <1>2, <1>3
        <5> QED BY <5>1
      <4>2. ASSUME NEW i \in (L + 1)..(L + n), who(i) = d PROVE i \in Now
        <5>1. ~(i <= L) /\ i - L \in 1..n /\ L + (i - L) = i BY <1>2, <1>3
        <5>2. i - L \in W BY <4>2, <5>1
        <5> QED BY <5>1, <5>2
      <4> HIDE DEF who
      <4> QED BY <4>1, <4>2
    <3> HIDE DEF who, Now
    <3>4. 1..(L + n) = 1..L \cup (L + 1)..(L + n) BY <1>2, <1>3
    <3> QED BY <3>1, <3>2, <3>3, <3>4
  <2>5. DueFrom(d, at) = DueFrom(d, at + n) \cup Due
    <3>1. \A i \in 1..n : at + i \in DOMAIN payloads /\ at + i > at /\ ~(at + i > at + n)
      BY <1>1, <1>3, <1>4
    <3>2. ASSUME NEW i \in DOMAIN payloads, i > at, ~(i > at + n)
          PROVE  i - at \in 1..n /\ at + (i - at) = i
      <4>1. i \in Nat BY <1>2
      <4> QED BY <1>1, <1>3, <3>2, <4>1
    <3>3. ASSUME NEW i \in DueFrom(d, at), i \notin DueFrom(d, at + n) PROVE i \in Due
      <4>1. i \in DOMAIN payloads /\ i > at /\ payloads[i].device = d /\ ~(i > at + n)
        BY <3>3 DEF DueFrom
      <4>2. i - at \in W BY <1>4, <3>2, <4>1
      <4> QED BY <3>2, <4>1, <4>2
    <3>4. \A i \in Due : i \in DueFrom(d, at) BY <1>4, <3>1 DEF DueFrom
    <3>5. ASSUME NEW i \in DueFrom(d, at + n) PROVE i \in DueFrom(d, at)
      BY <1>1, <1>2, <1>3 DEF DueFrom
    <3> QED BY <3>3, <3>4, <3>5
  <2>6. SaidOf(d) \cap Now = {} /\ DueFrom(d, at + n) \cap Due = {}
    <3>1. \A i \in W : i \in 1..n /\ L + i > L /\ ~(at + i > at + n) BY <1>1, <1>2, <1>3
    <3>2. \A i \in SaidOf(d) : ~(i > L) BY <1>2, <2>2
    <3>3. \A i \in DueFrom(d, at + n) : i > at + n BY DEF DueFrom
    <3> QED BY <3>1, <3>2, <3>3
  <2>7. /\ IsFiniteSet(Now) /\ IsFiniteSet(Due)
        /\ Cardinality(Now) = Cardinality(W) /\ Cardinality(Due) = Cardinality(W)
    BY <1>1, <1>2, <1>3, <2>1, Moved
  <2> HIDE DEF Now, Due
  <2>8. /\ IsFiniteSet(SaidOf(d)) /\ IsFiniteSet(DueFrom(d, at + n))
        /\ Cardinality(SaidOf(d)) \in Nat /\ Cardinality(DueFrom(d, at + n)) \in Nat
        /\ Cardinality(W) \in Nat
    BY <1>2, <1>3, <2>1, <2>2, <2>3, Positions
  <2>9. Cardinality(SaidOf(d)') = Cardinality(SaidOf(d)) + Cardinality(W)
    <3>1. Cardinality(SaidOf(d) \cup Now)
            = Cardinality(SaidOf(d)) + Cardinality(Now) - Cardinality(SaidOf(d) \cap Now)
      BY <2>7, <2>8, FS_Union
    <3>2. Cardinality(SaidOf(d) \cap Now) = 0 BY <2>6, FS_EmptySet
    <3> QED BY <2>4, <2>7, <2>8, <3>1, <3>2
  <2>10. Cardinality(DueFrom(d, at)) = Cardinality(DueFrom(d, at + n)) + Cardinality(W)
    <3>1. Cardinality(DueFrom(d, at + n) \cup Due)
            = Cardinality(DueFrom(d, at + n)) + Cardinality(Due)
                - Cardinality(DueFrom(d, at + n) \cap Due)
      BY <2>7, <2>8, FS_Union
    <3>2. Cardinality(DueFrom(d, at + n) \cap Due) = 0 BY <2>6, FS_EmptySet
    <3> QED BY <2>5, <2>7, <2>8, <3>1, <3>2
  <2>11. DueFrom(d, at)' = DueFrom(d, at + n) BY <1>1 DEF DueFrom
  <2>12. Cardinality(SaidOf(d)) + Cardinality(DueFrom(d, at)) = Occurs(devices, d)
    BY <1>1 DEF Accounts
  <2> QED BY <2>8, <2>9, <2>10, <2>11, <2>12
<1> QED BY <1>1, <1>11, <1>12 DEF Accounts, Early

LEMMA NextAccounts == IInv /\ IInv' /\ Accounts /\ [Next]_vars => Accounts'
<1> SUFFICES ASSUME IInv, IInv', Accounts, [Next]_vars PROVE Accounts' OBVIOUS
<1>1. StageBooks /\ ListingBooks /\ ListingBooks' /\ StageBooks' BY DEF IInv
<1>2. CASE List \/ ListUnfiltered
  <2>1. /\ stage = "listing" /\ UNCHANGED buildVars
        /\ \/ stage' \in Early
           \/ stage' = "done" /\ devices' = <<>>
    BY <1>2, FromStage DEF List, ListUnfiltered, AfterPage, Early
  <2> QED BY <1>1, <2>1, EarlyAccounts DEF Early
<1>3. CASE Ask \/ Answered \/ Skipped \/ AskAgain \/ EnrichHardware \/ Attribute \/ EndAttribute
  <2>1. stage \in Early /\ UNCHANGED buildVars
    BY <1>3 DEF Ask, Answered, Skipped, AskAgain, EnrichHardware, Attribute, EndAttribute, Early
  <2>2. stage' \in Early
    BY <1>3, <2>1, FromStage
       DEF Ask, Answered, Skipped, AskAgain, EnrichHardware, Attribute, EndAttribute, Early
  <2> QED BY <1>1, <2>1, <2>2, EarlyAccounts
<1>4. CASE ResolveEnriched \/ ResolveFromDevices \/ TryKey \/ EndMatch \/ PrimeReferences
  <2>1. stage \in Early /\ stage' \in Early \cup {"build"} /\ UNCHANGED buildVars
    BY <1>4 DEF ResolveEnriched, ResolveFromDevices, TryKey, EndMatch, PrimeReferences,
                MatchAgainst, Early
  <2> QED BY <1>1, <2>1, EarlyAccounts
<1>5. CASE BuildDevice BY <1>1, <1>5, BuildAccounts
<1>6. CASE EndBuild
  <2>1. /\ stage = "build" /\ stage' = "write" /\ at = Len(devices) /\ at' = 0
        /\ UNCHANGED <<devices, payloads, outcomes>>
    BY <1>6 DEF EndBuild, listingVars
  <2>2. ASSUME NEW d \in Device
        PROVE  Cardinality(SaidOf(d)') + Cardinality(DueFrom(d, at)') = Occurs(devices, d)
    <3>1. SaidOf(d)' = SaidOf(d) BY <2>1 DEF SaidOf
    <3>2. DueFrom(d, at)' = DueFor(d) BY <1>1, <2>1 DEF DueFrom, DueFor, StageBooks
    <3>3. ListedTo(d, at) = {i \in DOMAIN devices : devices[i] = d}
      BY <1>1, <2>1 DEF ListedTo, ListingBooks
    <3> QED BY <2>1, <3>1, <3>2, <3>3 DEF Accounts, Occurs
  <2> QED BY <2>1, <2>2 DEF Accounts, Early
<1>7. CASE WriteBatch BY <1>1, <1>7, WriteAccounts
<1>8. CASE Report
  <2>1. /\ stage = "write" /\ stage' = "done" /\ at = Len(payloads)
        /\ UNCHANGED <<devices, outcomes>>
    BY <1>8 DEF Report, listingVars, buildVars
  <2>2. ASSUME NEW d \in Device PROVE Cardinality(SaidOf(d)') = Occurs(devices, d)
    <3>1. SaidOf(d)' = SaidOf(d) BY <2>1 DEF SaidOf
    <3>2. DueFrom(d, at) = {} BY <1>1, <2>1 DEF DueFrom, StageBooks
    <3>3. Cardinality(SaidOf(d)) \in Nat BY <1>1, Counted, Positions
    <3>4. Cardinality(SaidOf(d)) + Cardinality(DueFrom(d, at)) = Occurs(devices, d)
      BY <2>1 DEF Accounts
    <3> QED BY <3>1, <3>2, <3>3, <3>4, FS_EmptySet
  <2> QED BY <2>1, <2>2 DEF Accounts, Early
<1>9. CASE Fail
  <2>1. stage' = "raised" /\ UNCHANGED outcomes BY <1>9 DEF Fail, Raise, buildVars
  <2> QED BY <2>1 DEF Accounts, Early
<1>10. CASE UNCHANGED vars
  <2>1. UNCHANGED <<stage, devices, outcomes, payloads, at>>
    BY <1>10 DEF vars, listingVars, buildVars
  <2> QED BY <2>1 DEF Accounts, SaidOf, DueFor, DueFrom, ListedTo
<1> QED
  BY <1>2, <1>3, <1>4, <1>5, <1>6, <1>7, <1>8, <1>9, <1>10 DEF Next, Over, Step

(***************************************************************************)
(* The report accounts for every device that was collected as often as it  *)
(* was listed, whatever could not be identified, was refused or got no     *)
(* answer, in any batches (_build_payloads, _write_batch, _parse_results). *)
(***************************************************************************)
THEOREM PipelineEveryDeviceAccounted == Spec => []EveryDeviceAccounted
<1>1. Init => Accounts
  BY DEF Init, Accounts, Early
<1>2. Accounts => EveryDeviceAccounted
  <2> SUFFICES ASSUME Accounts, stage = "done", NEW d \in Device
               PROVE  Cardinality({i \in DOMAIN outcomes :
                                     outcomes[i].device = d /\ outcomes[i].action # "none"})
                        = Occurs(devices, d)
    BY DEF EveryDeviceAccounted
  <2>1. \A i \in DOMAIN outcomes : outcomes[i].action # "none"
    <3>1. \A i \in DOMAIN outcomes : outcomes[i] \in Outcome BY DEF Accounts
    <3> QED BY <3>1 DEF Outcome
  <2>2. {i \in DOMAIN outcomes : outcomes[i].device = d /\ outcomes[i].action # "none"} = SaidOf(d)
    BY <2>1 DEF SaidOf
  <2> QED BY <2>2 DEF Accounts
<1> QED BY <1>1, <1>2, PipelineInvariant, NextAccounts, PTL DEF Spec
-----------------------------------------------------------------------------
(* Users looked up together. *)
PerUser ==
  /\ BatchIsPerUser
  /\ keyAt > 0 /\ ~cut => \A u \in User : u \in unmatched => owner[u] = NoRow

RowOf(u, h) == Stands(MatchOrder[h[1]], ValuesOf[MatchOrder[h[1]]][u][h[2]])
Before(p, q) == p[1] < q[1] \/ (p[1] = q[1] /\ p[2] <= q[2])

(* The first hit of a user is the one that no other comes before. *)
LEMMA FirstIs ==
  ASSUME keyAt \in Nat, NEW u, NEW h \in Hits(u), \A q \in Hits(u) : Before(h, q)
  PROVE  FirstHit(u) = RowOf(u, h) /\ FirstHit(u) # NoRow
<1>1. \A p \in Hits(u) : p = <<p[1], p[2]>> /\ p[1] \in Nat /\ p[2] \in Nat
  BY DEF Hits
<1>2. \A p \in Hits(u) : (\A q \in Hits(u) : Before(p, q)) => p = h
  BY <1>1 DEF Before
<1>3. h = CHOOSE p \in Hits(u) : \A q \in Hits(u) : Before(p, q)
  BY <1>2
<1>4. FirstHit(u) = RowOf(u, h)
  BY <1>3 DEF FirstHit, RowOf, Before
<1>5. RowOf(u, h) # NoRow
  BY DEF Hits, RowOf
<1> QED BY <1>4, <1>5

LEMMA FirstIsAfter ==
  ASSUME (keyAt \in Nat)', NEW CONSTANT u, NEW CONSTANT h \in Hits(u)',
         \A q \in Hits(u)' : Before(h, q)
  PROVE  FirstHit(u)' = RowOf(u, h)'
<1>1. \A p \in Hits(u)' : p = <<p[1], p[2]>> /\ p[1] \in Nat /\ p[2] \in Nat
  BY DEF Hits
<1>2. \A p \in Hits(u)' : (\A q \in Hits(u)' : Before(p, q)) => p = h
  BY <1>1 DEF Before
<1>3. h = CHOOSE p \in Hits(u)' : \A q \in Hits(u)' : Before(p, q)
  BY <1>2
<1> QED BY <1>3 DEF FirstHit, RowOf, Before

LEMMA FirstExists ==
  ASSUME keyAt \in Nat, NEW u, Hits(u) # {}
  PROVE  \E h \in Hits(u) : \A q \in Hits(u) : Before(h, q)
<1>1. \A p \in Hits(u) : p[1] \in Nat /\ p[2] \in Nat
  BY DEF Hits
<1> DEFINE keys == {p[1] : p \in Hits(u)}
<1>2. keys \in SUBSET Nat /\ keys # {} BY <1>1
<1> HIDE DEF keys
<1>3. PICK k \in keys : \A j \in keys : k <= j BY <1>2, LeastNatural
<1> DEFINE slots == {p[2] : p \in {q \in Hits(u) : q[1] = k}}
<1>4. slots \in SUBSET Nat /\ slots # {} BY <1>1, <1>3 DEF keys
<1> HIDE DEF slots
<1>5. PICK s \in slots : \A t \in slots : s <= t BY <1>4, LeastNatural
<1>6. PICK h \in Hits(u) : h[1] = k /\ h[2] = s BY <1>5 DEF slots
<1>7. ASSUME NEW q \in Hits(u) PROVE Before(h, q)
  <2>1. k <= q[1] /\ k \in Nat /\ q[1] \in Nat BY <1>1, <1>2, <1>3 DEF keys
  <2>2. q[1] = k => s <= q[2] BY <1>5 DEF slots
  <2> QED BY <1>6, <2>1, <2>2 DEF Before
<1> QED BY <1>7

(* A value that is asked for matches if it stands for a row. *)
LEMMA MatchesStand ==
  ASSUME table \subseteq Row, NEW C, NEW v \in C
  PROVE  Matches(Matching(C), v) <=> Stands(MatchKey, v) # NoRow
<1> DEFINE rows == {r \in Visible : r[MatchKey] = v}
<1>1. {r \in Matching(C) : r[MatchKey] = v} = rows BY DEF Matching
<1>2. rows \subseteq Row BY DEF Visible
<1>3. CASE Cardinality(rows) = 1
  <2>1. IsFiniteSet(rows) BY <1>2, FS_Subset, UserAssumption
  <2>2. PICK r : rows = {r} BY <1>3, <2>1, FS_Singleton
  <2>3. Stands(MatchKey, v) \in rows BY <1>3, <2>2 DEF Stands
  <2>4. Stands(MatchKey, v) # NoRow BY <1>2, <2>3, UserAssumption
  <2> QED BY <1>1, <1>3, <2>4 DEF Matches
<1>4. CASE Cardinality(rows) # 1
  BY <1>1, <1>4 DEF Matches, Stands
<1> QED BY <1>3, <1>4

(* The least position of a user in the order given. *)
LEMMA LeastPosition ==
  ASSUME NEW u \in User
  PROVE  \E i \in DOMAIN UserOrder : /\ i \in Nat /\ UserOrder[i] = u
                                     /\ \A j \in DOMAIN UserOrder : UserOrder[j] = u => i <= j
<1> DEFINE at0 == {i \in DOMAIN UserOrder : UserOrder[i] = u}
<1>1. at0 \in SUBSET Nat /\ at0 # {} BY UserAssumption
<1> HIDE DEF at0
<1>2. PICK i \in at0 : \A j \in at0 : i <= j BY <1>1, LeastNatural
<1> QED BY <1>1, <1>2 DEF at0

(***************************************************************************)
(* Of two values of a user who shares none, the one in the earlier slot    *)
(* comes first among all values that are asked for.                        *)
(***************************************************************************)
LEMMA PlacesInOrder ==
  ASSUME keyAt \in DOMAIN MatchOrder, NEW u \in User, u \in unmatched, ~Shares(u),
         NEW s \in Sought(u), NEW v \in Wanted(u),
         \A t \in Sought(u) : ValuesOf[MatchKey][u][t] = v => s < t
  PROVE  Place(ValuesOf[MatchKey][u][s]) < Place(v)
<1> DEFINE w == ValuesOf[MatchKey][u][s]
<1>1. \A y \in User : Sought(y) \subseteq 1..2
  BY UserAssumption DEF Sought, MatchKey
<1>2. w \in Wanted(u) BY DEF Wanted
<1>3. PICK i \in DOMAIN UserOrder :
        i \in Nat /\ UserOrder[i] = u /\ \A j \in DOMAIN UserOrder : UserOrder[j] = u => i <= j
  BY LeastPosition
<1>4. Place(w) <= 2 * i + s /\ Place(w) \in Nat
  <2>1. 2 * i + s \in Places(w) BY <1>3 DEF Places
  <2> QED BY <1>2, <2>1, PlaceNatural
<1>5. Place(v) \in Places(v) /\ Place(v) \in Nat BY PlaceNatural
<1>6. PICK j \in DOMAIN UserOrder : /\ UserOrder[j] \in unmatched
                                    /\ \E t \in Sought(UserOrder[j]) :
                                         /\ ValuesOf[MatchKey][UserOrder[j]][t] = v
                                         /\ Place(v) = 2 * j + t
  BY <1>5 DEF Places
<1>7. PICK t \in Sought(UserOrder[j]) :
        ValuesOf[MatchKey][UserOrder[j]][t] = v /\ Place(v) = 2 * j + t
  BY <1>6
<1>8. UserOrder[j] = u
  <2>1. UserOrder[j] \in User /\ MatchKey \in DOMAIN ValuesOf BY UserAssumption DEF MatchKey
  <2>2. PICK r \in Sought(u) : ValuesOf[MatchKey][u][r] = v BY DEF Wanted
  <2>3. /\ r \in DOMAIN ValuesOf[MatchKey][u] /\ ValuesOf[MatchKey][u][r] # NoValue
        /\ t \in DOMAIN ValuesOf[MatchKey][UserOrder[j]]
    BY <1>7, <2>2 DEF Sought, SafeValue
  <2> QED BY <1>7, <2>1, <2>2, <2>3 DEF Shares
<1>9. i <= j /\ s < t /\ j \in Nat /\ s \in 1..2 /\ t \in 1..2
  BY <1>1, <1>3, <1>7, <1>8, UserAssumption
<1> HIDE DEF w
<1>10. Place(w) < Place(v) BY <1>3, <1>4, <1>5, <1>7, <1>9
<1> QED BY <1>10 DEF w

(* After a key, a user's hits are the earlier ones and those of this key. *)
LEMMA HitsGrow ==
  ASSUME keyAt \in DOMAIN MatchOrder, keyAt \in Nat, keyAt' = keyAt + 1, UNCHANGED table,
         NEW u \in User
  PROVE  /\ Hits(u)' = Hits(u) \cup
              {<<keyAt, s>> : s \in {t \in Sought(u) :
                                       Stands(MatchKey, ValuesOf[MatchKey][u][t]) # NoRow}}
         /\ \A h : RowOf(u, h)' = RowOf(u, h)
<1>1. \A key, v : Stands(key, v)' = Stands(key, v) BY DEF Stands, Visible
<1>2. \A h : RowOf(u, h)' = RowOf(u, h) BY <1>1 DEF RowOf
<1>3. Hits(u)' = {p \in (1..keyAt) \X (1..2) :
                   /\ p[2] \in DOMAIN ValuesOf[MatchOrder[p[1]]][u]
                   /\ SafeValue(ValuesOf[MatchOrder[p[1]]][u][p[2]])
                   /\ RowOf(u, p) # NoRow}
  <2>1. (keyAt + 1) - 1 = keyAt OBVIOUS
  <2> QED BY <1>1, <2>1 DEF Hits, RowOf
<1>4. Hits(u) = {p \in (1..(keyAt - 1)) \X (1..2) :
                   /\ p[2] \in DOMAIN ValuesOf[MatchOrder[p[1]]][u]
                   /\ SafeValue(ValuesOf[MatchOrder[p[1]]][u][p[2]])
                   /\ RowOf(u, p) # NoRow}
  BY DEF Hits, RowOf
<1> DEFINE new == {<<keyAt, s>> : s \in {t \in Sought(u) :
                                   Stands(MatchKey, ValuesOf[MatchKey][u][t]) # NoRow}}
<1>5. keyAt >= 1 BY UserAssumption
<1>6. ASSUME NEW p \in Hits(u)' PROVE p \in Hits(u) \cup new
  <2>1. PICK k \in 1..keyAt, t \in 1..2 : p = <<k, t>> BY <1>3, <1>6
  <2>2. /\ t \in DOMAIN ValuesOf[MatchOrder[k]][u] /\ SafeValue(ValuesOf[MatchOrder[k]][u][t])
        /\ RowOf(u, p) # NoRow
    BY <1>3, <1>6, <2>1
  <2>3. CASE k = keyAt
    <3>1. t \in Sought(u) BY <2>2, <2>3 DEF Sought, MatchKey
    <3>2. Stands(MatchKey, ValuesOf[MatchKey][u][t]) # NoRow
      BY <2>1, <2>2, <2>3 DEF RowOf, MatchKey
    <3> QED BY <2>1, <2>3, <3>1, <3>2
  <2>4. CASE k # keyAt
    <3>1. k \in 1..(keyAt - 1) BY <2>4
    <3> QED BY <1>4, <2>1, <2>2, <3>1
  <2> QED BY <2>3, <2>4
<1>7. ASSUME NEW p \in Hits(u) PROVE p \in Hits(u)'
  <2>1. 1..(keyAt - 1) \subseteq 1..keyAt OBVIOUS
  <2> QED BY <1>3, <1>4, <1>7, <2>1
<1>8. ASSUME NEW p \in new PROVE p \in Hits(u)'
  <2>1. PICK t \in Sought(u) :
          p = <<keyAt, t>> /\ Stands(MatchKey, ValuesOf[MatchKey][u][t]) # NoRow
    BY <1>8
  <2>2. t \in DOMAIN ValuesOf[MatchKey][u] /\ SafeValue(ValuesOf[MatchKey][u][t]) /\ t \in 1..2
    BY UserAssumption DEF Sought, MatchKey
  <2>3. keyAt \in 1..keyAt BY <1>5
  <2>4. RowOf(u, p) # NoRow BY <2>1 DEF RowOf, MatchKey
  <2> QED BY <1>3, <2>1, <2>2, <2>3, <2>4 DEF MatchKey
<1> QED BY <1>2, <1>6, <1>7, <1>8

(* What a key does for one user who shares no value with another. *)
LEMMA TryKeyPerUser ==
  ASSUME UserBooks, PerUser, TryKey, ~cut', NEW u \in User, ~Shares(u),
         u \in unmatched' \/ owner'[u] # NoRow
  PROVE  owner'[u] = FirstHit(u)'
<1>1. /\ keyAt \in DOMAIN MatchOrder /\ keyAt' = keyAt + 1 /\ keyAt > 0 /\ keyAt \in Nat
      /\ UNCHANGED table /\ unmatched' \subseteq unmatched
  BY UserAssumption DEF TryKey, ResolveByKey, UserBooks
<1> DEFINE place == [v \in Candidates |-> Place(v)]
           all == Matching(Candidates)
<1>2. /\ ~cut
      /\ owner'[u] = IF u \in unmatched THEN Match(place, all, u) ELSE owner[u]
  <2>1. PICK rows \in SUBSET all :
          /\ owner' = [w \in User |->
                         IF w \in unmatched THEN Match(place, rows, w) ELSE owner[w]]
          /\ cut' = (cut \/ rows # all)
    BY DEF TryKey, ResolveByKey
  <2>2. ~cut /\ rows = all BY <2>1, Zenon
  <2> QED BY <2>1, <2>2
<1> DEFINE new == {<<keyAt, s>> : s \in {t \in Sought(u) :
                                   Stands(MatchKey, ValuesOf[MatchKey][u][t]) # NoRow}}
<1>3. Hits(u)' = Hits(u) \cup new /\ \A h : RowOf(u, h)' = RowOf(u, h)
  BY <1>1, HitsGrow
<1>4. \A h \in Hits(u) : h[1] \in Nat /\ h[1] < keyAt
  BY <1>1 DEF Hits
<1>5. u \in unmatched \/ owner[u] # NoRow => owner[u] = FirstHit(u)
  BY <1>1, <1>2 DEF PerUser, BatchIsPerUser
<1>6. \A h \in Hits(u)' :
        (\A q \in Hits(u)' : Before(h, q)) => FirstHit(u)' = RowOf(u, h)
  <2>1. (keyAt \in Nat)' BY <1>1
  <2>2. ASSUME NEW h \in Hits(u)', \A q \in Hits(u)' : Before(h, q)
        PROVE  FirstHit(u)' = RowOf(u, h)'
    BY <1>1, <2>1, <2>2, FirstIsAfter
  <2> QED BY <1>3, <2>2
<1> HIDE DEF new
<1>7. CASE u \notin unmatched
  <2>1. owner'[u] = owner[u] /\ owner[u] = FirstHit(u) /\ owner[u] # NoRow
    BY <1>1, <1>2, <1>5, <1>7
  <2>2. Hits(u) # {} BY <2>1 DEF FirstHit
  <2>3. PICK h \in Hits(u) : \A q \in Hits(u) : Before(h, q) BY <1>1, <2>2, FirstExists
  <2>4. owner[u] = RowOf(u, h) BY <1>1, <2>1, <2>3, FirstIs
  <2>5. \A q \in new : Before(h, q) BY <1>1, <1>4 DEF new, Before
  <2> QED BY <1>3, <1>6, <2>1, <2>3, <2>4, <2>5
<1>8. CASE u \in unmatched
  <2>1. FirstHit(u) = NoRow BY <1>1, <1>2, <1>5, <1>8 DEF PerUser
  <2>2. Hits(u) = {}
    <3>1. Hits(u) # {} => FirstHit(u) # NoRow BY <1>1, FirstExists, FirstIs
    <3> QED BY <2>1, <3>1
  <2>3. Wanted(u) \subseteq Candidates BY <1>8 DEF Candidates
  <2>4. \A v \in Wanted(u) : Matches(all, v) <=> Stands(MatchKey, v) # NoRow
    BY <2>3, MatchesStand DEF UserBooks
  <2> DEFINE hits == {v \in Wanted(u) : Matches(all, v)}
             first(v) == \A w \in hits : place[v] <= place[w]
  <2>5. owner'[u] = IF hits = {} THEN NoRow ELSE RowWith(all, CHOOSE v \in hits : first(v))
    BY <1>2, <1>8 DEF Match
  <2>6. CASE hits = {}
    <3>1. new = {}
      <4>1. \A t \in Sought(u) : ValuesOf[MatchKey][u][t] \in Wanted(u) BY DEF Wanted
      <4> QED BY <2>4, <2>6, <4>1 DEF new
    <3>2. Hits(u)' = {} BY <1>3, <2>2, <3>1
    <3> QED BY <2>5, <2>6, <3>2 DEF FirstHit
  <2>7. CASE hits # {}
    <3>1. \A v \in hits : place[v] = Place(v) /\ Place(v) \in Nat
      BY <1>1, <1>8, <2>3, PlaceNatural
    <3> HIDE DEF place
    <3>2. \E v \in hits : first(v)
      <4> DEFINE taken == {place[v] : v \in hits}
      <4>1. taken \in SUBSET Nat /\ taken # {} BY <2>7, <3>1
      <4> HIDE DEF taken
      <4>2. PICK p \in taken : \A q \in taken : p <= q BY <4>1, LeastNatural
      <4> QED BY <4>2 DEF taken
    <3>3. PICK v \in hits : first(v) /\ owner'[u] = RowWith(all, v)
      BY <2>5, <2>7, <3>2
    <3>4. owner'[u] = Stands(MatchKey, v) BY <2>3, <3>3, MatchStands DEF UserBooks
    <3> DEFINE slots == {t \in Sought(u) : Stands(MatchKey, ValuesOf[MatchKey][u][t]) # NoRow}
    <3>5. slots \in SUBSET Nat
      <4>1. Sought(u) \subseteq 1..2 BY <1>1, UserAssumption DEF Sought, MatchKey
      <4> QED BY <4>1
    <3>6. PICK r \in slots : ValuesOf[MatchKey][u][r] = v
      <4>1. PICK r \in Sought(u) : ValuesOf[MatchKey][u][r] = v BY DEF Wanted
      <4> QED BY <2>4, <4>1
    <3>7. PICK m \in slots : \A t \in slots : m <= t BY <3>5, <3>6, LeastNatural
    <3>8. ValuesOf[MatchKey][u][m] = v
      <4> DEFINE w == ValuesOf[MatchKey][u][m]
      <4> SUFFICES ASSUME w # v PROVE FALSE OBVIOUS
      <4>1. w \in hits BY <2>4 DEF Wanted
      <4>2. ASSUME NEW t \in Sought(u), ValuesOf[MatchKey][u][t] = v PROVE m < t
        <5>1. t \in slots BY <2>4, <4>2
        <5>2. m # t BY <4>2
        <5> QED BY <3>5, <3>7, <5>1, <5>2
      <4>3. Place(w) < Place(v) BY <1>1, <1>8, <4>2, PlacesInOrder
      <4>4. place[v] <= place[w] BY <3>3, <4>1
      <4> QED BY <3>1, <3>3, <4>1, <4>3, <4>4
    <3>9. <<keyAt, m>> \in new /\ \A q \in new : Before(<<keyAt, m>>, q)
      BY <1>1, <3>7 DEF new, Before
    <3>10. Hits(u)' = new BY <1>3, <2>2
    <3>11. FirstHit(u)' = RowOf(u, <<keyAt, m>>) BY <1>6, <3>9, <3>10
    <3>12. RowOf(u, <<keyAt, m>>) = Stands(MatchKey, v) BY <3>8 DEF RowOf, MatchKey
    <3> QED BY <3>4, <3>11, <3>12
  <2> QED BY <2>6, <2>7
<1> QED BY <1>7, <1>8

(* What the resolver leaves alone stays as it is. *)
LEMMA OthersKeepPerUser ==
  ASSUME PerUser, UNCHANGED userVars PROVE PerUser'
<1>1. UNCHANGED <<table, keyAt, unmatched, owner, cut>> BY DEF userVars
<1>2. \A key, v : Stands(key, v)' = Stands(key, v) BY <1>1 DEF Stands, Visible
<1>3. \A u : Hits(u)' = Hits(u) BY <1>1, <1>2 DEF Hits
<1>4. ASSUME NEW CONSTANT u PROVE FirstHit(u)' = FirstHit(u)
  <2>1. PICK h : h = CHOOSE p \in Hits(u) : \A q \in Hits(u) : Before(p, q) OBVIOUS
  <2>2. FirstHit(u) = IF Hits(u) = {} THEN NoRow ELSE RowOf(u, h)
    BY <2>1 DEF FirstHit, RowOf, Before
  <2>3. h = CHOOSE p \in Hits(u)' : \A q \in Hits(u)' : Before(p, q) BY <1>3, <2>1
  <2>4. FirstHit(u)' = IF Hits(u)' = {} THEN NoRow ELSE RowOf(u, h)'
    BY <2>3 DEF FirstHit, RowOf, Before
  <2>5. RowOf(u, h)' = RowOf(u, h) BY <1>2 DEF RowOf
  <2> QED BY <1>3, <2>2, <2>4, <2>5
<1> QED BY <1>1, <1>4 DEF PerUser, BatchIsPerUser

LEMMA NextKeepsPerUser == UserBooks /\ PerUser /\ [Next]_vars => PerUser'
<1> SUFFICES ASSUME UserBooks, PerUser, [Next]_vars PROVE PerUser' OBVIOUS
<1>1. CASE UNCHANGED userVars BY <1>1, OthersKeepPerUser
<1>2. CASE ResolveEnriched \/ ResolveFromDevices
  <2>1. stage \in {"users", "match"} /\ keyAt = 0 /\ keyAt' = 1 /\ UNCHANGED owner
    BY <1>2 DEF ResolveEnriched, ResolveFromDevices, MatchAgainst, ResolveMany
  <2>2. \A u \in User : owner'[u] = NoRow BY <2>1 DEF UserBooks, Early
  <2>3. \A u \in User : Hits(u)' = {} BY <2>1 DEF Hits
  <2>4. \A u \in User : FirstHit(u)' = NoRow BY <2>3 DEF FirstHit
  <2> QED BY <2>2, <2>4 DEF PerUser, BatchIsPerUser
<1>3. CASE TryKey
  <2>1. \A u \in User : u \in unmatched' => owner'[u] = NoRow
    BY <1>3 DEF TryKey, ResolveByKey
  <2>2. BatchIsPerUser'
    BY <1>3, TryKeyPerUser DEF BatchIsPerUser
  <2> QED BY <2>1, <2>2 DEF PerUser
<1>4. CASE EndMatch
  BY <1>4 DEF EndMatch, UsersReturn, PerUser, BatchIsPerUser
<1> QED
  BY <1>1, <1>2, <1>3, <1>4
     DEF Next, Over, Step, Fail, Raise, vars, List, ListUnfiltered, Ask, Answered, Skipped,
         AskAgain, EnrichHardware, Attribute, EndAttribute, PrimeReferences, BuildDevice,
         EndBuild, WriteBatch, Report

(***************************************************************************)
(* Looking users up together gives each the row he would get alone, for    *)
(* any users, tables and chunks, as long as he shares no value with        *)
(* another and no row limit was reached (resolve_many, _resolve_by_key).   *)
(***************************************************************************)
THEOREM PipelineBatchIsPerUser == Spec => []BatchIsPerUser
<1>1. Init => UserBooks /\ PerUser
  BY DEF Init, UsersIdle, UserBooks, AssignedIsUnique, PerUser, BatchIsPerUser
<1>2. PerUser => BatchIsPerUser
  BY DEF PerUser
<1> QED BY <1>1, <1>2, NextKeepsUsers, NextKeepsPerUser, PTL DEF Spec

(***************************************************************************)
(* The docstring of user_resolver.py holds of every user where no value of *)
(* one user is a value of another: what the local part of a UPN is to      *)
(* john@a and john@b is all that stands between it and the code.           *)
(***************************************************************************)
THEOREM PipelineDocumentedMatch ==
  ASSUME \A u \in User : ~Shares(u)
  PROVE  Spec => []DocumentedMatch
<1>1. BatchIsPerUser => DocumentedMatch
  BY DEF BatchIsPerUser, DocumentedMatch
<1> QED BY <1>1, PipelineBatchIsPerUser, PTL
-----------------------------------------------------------------------------
(* That every step is progress: the rank of a stage, and what a stage has left. *)
RankOf(s) ==
  CHOOSE i \in 1..9 : s \in (<<{"listing"}, {"hardware"}, {"ram"}, {"users"}, {"match"},
                             {"prime"}, {"build"}, {"write"}, {"done", "raised"}>>)[i]

LEMMA Ranks ==
  /\ RankOf("listing") = 1 /\ RankOf("hardware") = 2 /\ RankOf("ram") = 3
  /\ RankOf("users") = 4 /\ RankOf("match") = 5 /\ RankOf("prime") = 6
  /\ RankOf("build") = 7 /\ RankOf("write") = 8
  /\ RankOf("done") = 9 /\ RankOf("raised") = 9
<1> DEFINE T == <<{"listing"}, {"hardware"}, {"ram"}, {"users"}, {"match"}, {"prime"}, {"build"},
                  {"write"}, {"done", "raised"}>>
<1>1. /\ T[1] = {"listing"} /\ T[2] = {"hardware"} /\ T[3] = {"ram"} /\ T[4] = {"users"}
      /\ T[5] = {"match"} /\ T[6] = {"prime"} /\ T[7] = {"build"} /\ T[8] = {"write"}
      /\ T[9] = {"done", "raised"}
  OBVIOUS
<1>2. \A s : RankOf(s) = CHOOSE i \in 1..9 : s \in T[i]
  BY DEF RankOf
<1> HIDE DEF T
<1>3. ASSUME NEW s, NEW k \in 1..9, s \in T[k], \A i \in 1..9 : s \in T[i] => i = k
      PROVE  RankOf(s) = k
  BY <1>2, <1>3
<1>4. \A i \in 1..9 : i \in {1, 2, 3, 4, 5, 6, 7, 8, 9}
  OBVIOUS
<1>5. RankOf("listing") = 1 /\ RankOf("hardware") = 2 /\ RankOf("ram") = 3
  BY <1>1, <1>3, <1>4
<1>6. RankOf("users") = 4 /\ RankOf("match") = 5 /\ RankOf("prime") = 6
  BY <1>1, <1>3, <1>4
<1>7. RankOf("build") = 7 /\ RankOf("write") = 8 /\ RankOf("done") = 9 /\ RankOf("raised") = 9
  BY <1>1, <1>3, <1>4
<1> QED BY <1>5, <1>6, <1>7

LEMMA RankIs == StageRank = RankOf(stage) /\ StageRank' = RankOf(stage')
BY DEF StageRank, RankOf

(* The stage after the one that asks for the i-th of Order is a later one. *)
LEMMA FromLater ==
  ASSUME NEW i \in 1..3, NEW devs
  PROVE  RankOf(From(i, devs)) > i
<1> DEFINE W(j) == Wants(Order[j], devs)
           First(j) == W(j) /\ \A k \in i..(j - 1) : ~W(k)
<1>1. W(5)
  BY DEF Wants, Order
<1> HIDE DEF W
<1>2. \E j \in i..5 : First(j)
  <2>1. PICK m \in {j \in i..5 : W(j)} : \A n \in {j \in i..5 : W(j)} : m <= n
    BY <1>1, LeastNatural
  <2> QED BY <2>1
<1>3. PICK j \in i..5 : From(i, devs) = Order[j]
  BY <1>2 DEF From, W
<1>4. j = 1 \/ j = 2 \/ j = 3 \/ j = 4 \/ j = 5
  OBVIOUS
<1>5. /\ Order[1] = "hardware" /\ Order[2] = "ram" /\ Order[3] = "users" /\ Order[4] = "match"
      /\ Order[5] = "prime"
  BY DEF Order
<1>6. RankOf(Order[j]) = j + 1
  BY <1>4, <1>5, Ranks
<1> QED BY <1>3, <1>6

(* The lookup is never past the last key but one, and asks from the first. *)
KeyBooks == keyAt \in 0..(Len(MatchOrder) + 1)

(* What is left is a pair of numbers. *)
LeftIsNat == Left[1] \in Nat /\ Left[2] \in Nat

LEMMA LeftNatural == ASSUME IInv, KeyBooks PROVE LeftIsNat
<1>1. /\ IsFiniteSet(unlisted) /\ IsFiniteSet(toAsk) /\ IsFiniteSet(unread)
  BY SettingsAssumption, BatchAssumption, FS_Subset
     DEF IInv, ListingBooks, BatchTypeOK, AttributeBooks
<1>2. /\ Cardinality(unlisted) \in Nat /\ Cardinality(toAsk) \in Nat
      /\ Cardinality(unread) \in Nat
  BY <1>1, FS_CardinalityType
<1>3. Len(MatchOrder) \in Nat /\ Len(devices) \in Nat /\ Len(payloads) \in Nat /\ at \in Nat
  BY UserAssumption DEF IInv, ListingBooks, StageBooks
<1>4. CASE stage = "listing"
  <2>1. Left = <<IF request = "filtered" THEN 1 ELSE 0, Cardinality(unlisted)>>
    BY <1>4 DEF Left
  <2> QED BY <2>1, <1>2 DEF LeftIsNat
<1>5. CASE stage \in {"hardware", "users"}
  <2>1. Left = <<IF round = 0 THEN MaxRetries + 2 ELSE (MaxRetries + 1) - round, Cardinality(toAsk)>>
    BY <1>5 DEF Left
  <2>2. round \in 0..(MaxRetries + 1)
    BY DEF IInv, BatchTypeOK
  <2> QED BY <2>1, <2>2, <1>2, BatchAssumption DEF LeftIsNat
<1>6. CASE stage = "ram"
  <2>1. Left = <<CASE query = "none" -> 2 [] query = "select" -> 1 [] query = "plain" -> 0,
                 Cardinality(unread)>>
    BY <1>6 DEF Left
  <2>2. query = "none" \/ query = "select" \/ query = "plain"
    BY DEF IInv, AttributeBooks
  <2> QED BY <2>1, <2>2, <1>2 DEF LeftIsNat
<1>7. CASE stage = "match"
  <2>1. Left = <<Len(MatchOrder) + 1, Len(MatchOrder) + 1 - keyAt>>
    BY <1>7 DEF Left
  <2> QED BY <2>1, <1>3 DEF LeftIsNat, KeyBooks
<1>8. CASE stage = "build"
  <2>1. Left = <<0, Len(devices) - at>> /\ at <= Len(devices)
    BY <1>8 DEF Left, IInv, StageBooks
  <2> QED BY <2>1, <1>3 DEF LeftIsNat
<1>9. CASE stage = "write"
  <2>1. Left = <<0, Len(payloads) - at>> /\ at <= Len(payloads)
    BY <1>9 DEF Left, IInv, StageBooks
  <2> QED BY <2>1, <1>3 DEF LeftIsNat
<1>10. CASE stage \notin {"listing", "hardware", "users", "ram", "match", "build", "write"}
  <2>1. Left = <<0, 0>>
    BY <1>10 DEF Left
  <2> QED BY <2>1 DEF LeftIsNat
<1> QED BY <1>4, <1>5, <1>6, <1>7, <1>8, <1>9, <1>10

LEMMA KeyBooksKept == KeyBooks /\ [Next]_vars => KeyBooks'
<1> SUFFICES ASSUME KeyBooks, [Next]_vars PROVE KeyBooks' OBVIOUS
<1>1. Len(MatchOrder) \in Nat /\ DOMAIN MatchOrder = 1..Len(MatchOrder)
  BY UserAssumption
<1>2. CASE UNCHANGED keyAt BY <1>2 DEF KeyBooks
<1>3. CASE ResolveEnriched \/ ResolveFromDevices
  BY <1>1, <1>3 DEF ResolveEnriched, ResolveFromDevices, MatchAgainst, ResolveMany, KeyBooks
<1>4. CASE TryKey BY <1>1, <1>4 DEF TryKey, ResolveByKey, KeyBooks
<1>5. CASE EndMatch BY <1>1, <1>5 DEF EndMatch, UsersReturn, KeyBooks
<1> QED
  BY <1>2, <1>3, <1>4, <1>5
     DEF Next, Over, Step, Fail, Raise, vars, userVars, List, ListUnfiltered, Ask, Answered,
         Skipped, AskAgain, EnrichHardware, Attribute, EndAttribute, PrimeReferences,
         BuildDevice, EndBuild, WriteBatch, Report

(* What a step does to the run: a later stage, or less to do in this one. *)
Advances == StageRank' > StageRank \/ (stage' = stage /\ Less(Left', Left))

(* A later stage in the code's order. *)
LEMMA Later == ASSUME RankOf(stage') > RankOf(stage) PROVE Advances
BY RankIs DEF Advances

(* Fewer of the elements of a finite set. *)
LEMMA Fewer ==
  ASSUME NEW T, IsFiniteSet(T), NEW B \in SUBSET T, B # {}
  PROVE  Cardinality(T \ B) < Cardinality(T)
<1>1. T \ B \subseteq T /\ T \ B # T OBVIOUS
<1>2. Cardinality(T \ B) <= Cardinality(T) /\ Cardinality(T \ B) # Cardinality(T)
  BY <1>1, FS_Subset
<1>3. Cardinality(T \ B) \in Nat /\ Cardinality(T) \in Nat
  BY FS_Subset, FS_CardinalityType
<1> QED BY <1>2, <1>3

LEMMA ListAdvances == ASSUME IInv, List \/ ListUnfiltered PROVE Advances
<1>1. stage = "listing" /\ AfterPage BY DEF List, ListUnfiltered
<1>2. CASE request' = "none"
  <2>1. stage' = "done" \/ stage' = From(1, devices') BY <1>1, <1>2 DEF AfterPage
  <2>2. RankOf(stage') > 1 BY <2>1, FromLater, Ranks
  <2> QED BY <1>1, <2>2, Later, Ranks
<1>3. CASE request' # "none"
  <2>1. stage' = "listing" BY <1>1, <1>3 DEF AfterPage
  <2>2. Left = <<IF request = "filtered" THEN 1 ELSE 0, Cardinality(unlisted)>>
    BY <1>1 DEF Left
  <2>3. Left' = <<IF request' = "filtered" THEN 1 ELSE 0, Cardinality(unlisted')>>
    BY <2>1 DEF Left
  <2>4. CASE request = "filtered"
    <3>1. request' # "filtered" BY <2>4 DEF List, ListPage, ListUnfiltered, FilterRejected
    <3> QED BY <1>1, <2>1, <2>2, <2>3, <2>4, <3>1 DEF Advances, Less
  <2>5. CASE request # "filtered"
    <3>1. List BY <2>5 DEF ListUnfiltered, FilterRejected
    <3>2. PICK honours \in BOOLEAN, slip \in Slips, S \in SUBSET unlisted, again \in Again :
            ListPage(honours, slip, S, again)
      BY <3>1 DEF List
    <3> DEFINE gone == slip \cup S
    <3>3. unlisted' = unlisted \ gone /\ request' = "next" /\ gone # {} /\ gone \subseteq unlisted
      BY <1>3, <2>5, <3>2 DEF ListPage, Listed, Slips
    <3>4. IsFiniteSet(unlisted)
      BY SettingsAssumption, FS_Subset DEF IInv, ListingBooks
    <3> HIDE DEF gone
    <3>5. Cardinality(unlisted') < Cardinality(unlisted) BY <3>3, <3>4, Fewer
    <3> QED BY <1>1, <2>1, <2>2, <2>3, <2>5, <3>3, <3>5 DEF Advances, Less
  <2> QED BY <2>4, <2>5
<1> QED BY <1>2, <1>3

LEMMA BatchAdvances ==
  ASSUME IInv, Ask \/ Answered \/ Skipped \/ AskAgain PROVE Advances
<1>1. stage \in {"hardware", "users"} /\ stage' = stage
  BY DEF Ask, Answered, Skipped, AskAgain
<1>2. Left = <<IF round = 0 THEN MaxRetries + 2 ELSE (MaxRetries + 1) - round, Cardinality(toAsk)>>
  BY <1>1 DEF Left
<1>3. Left' = <<IF round' = 0 THEN MaxRetries + 2 ELSE (MaxRetries + 1) - round',
               Cardinality(toAsk')>>
  BY <1>1 DEF Left
<1>4. round \in 0..(MaxRetries + 1) /\ MaxRetries \in Nat
  BY BatchAssumption DEF IInv, BatchTypeOK
<1>5. CASE Ask
  <2>1. round = 0 /\ round' = 1 BY <1>5 DEF Ask, BatchStart
  <2> QED BY <1>1, <1>2, <1>3, <1>4, <2>1 DEF Advances, Less
<1>6. CASE AskAgain
  <2>1. round > 0 /\ round' = round + 1 BY <1>6 DEF AskAgain, NextRound
  <2> QED BY <1>1, <1>2, <1>3, <1>4, <2>1 DEF Advances, Less
<1>7. CASE Answered \/ Skipped
  <2>1. PICK B \in SUBSET toAsk : Chunk(B) /\ toAsk' = toAsk \ B /\ round' = round
    BY <1>7 DEF Answered, Skipped, ChunkAnswered, ChunkSkipped
  <2>2. IsFiniteSet(toAsk) BY BatchAssumption, FS_Subset DEF IInv, BatchTypeOK
  <2>3. Cardinality(toAsk') < Cardinality(toAsk) BY <2>1, <2>2, Fewer DEF Chunk
  <2> QED BY <1>1, <1>2, <1>3, <2>1, <2>3 DEF Advances, Less
<1> QED BY <1>5, <1>6, <1>7

LEMMA AttributeAdvances == ASSUME IInv, Attribute PROVE Advances
<1>1. stage = "ram" /\ stage' = "ram" BY DEF Attribute
<1> DEFINE Form(q) == CASE q = "none" -> 2 [] q = "select" -> 1 [] q = "plain" -> 0
<1>2. Left = <<Form(query), Cardinality(unread)>> BY <1>1 DEF Left
<1>3. Left' = <<Form(query'), Cardinality(unread')>> BY <1>1 DEF Left
<1>4. Form("none") = 2 /\ Form("select") = 1 /\ Form("plain") = 0 OBVIOUS
<1> HIDE DEF Form
<1>5. CASE ReadAttribute \/ StatesRefused
  <2>1. (query = "none" /\ query' = "select") \/ (query = "select" /\ query' = "plain")
    BY <1>5 DEF ReadAttribute, StatesRefused
  <2> QED BY <1>1, <1>2, <1>3, <1>4, <2>1 DEF Advances, Less
<1>6. CASE \E S \in SUBSET unread : StatesPage(S)
  <2>1. PICK S \in SUBSET unread : S # {} /\ unread' = unread \ S /\ query' = query
    BY <1>6 DEF StatesPage
  <2>2. IsFiniteSet(unread) BY SettingsAssumption, FS_Subset DEF IInv, AttributeBooks
  <2>3. Cardinality(unread') < Cardinality(unread) BY <2>1, <2>2, Fewer
  <2> QED BY <1>1, <1>2, <1>3, <2>1, <2>3 DEF Advances, Less
<1> QED BY <1>5, <1>6 DEF Attribute

(* The stages that the next one follows, whatever the settings. *)
LEMMA MovesOn ==
  ASSUME EnrichHardware \/ EndAttribute \/ ResolveEnriched \/ EndMatch \/ PrimeReferences
         \/ EndBuild \/ Report \/ Fail
  PROVE  Advances
<1>1. CASE EnrichHardware
  <2>1. stage = "hardware" /\ stage' = From(2, devices) BY <1>1 DEF EnrichHardware
  <2>2. RankOf(stage') > 2 BY <2>1, FromLater
  <2> QED BY <2>1, <2>2, Later, Ranks
<1>2. CASE EndAttribute
  <2>1. stage = "ram" /\ stage' = From(3, devices) BY <1>2 DEF EndAttribute
  <2>2. RankOf(stage') > 3 BY <2>1, FromLater
  <2> QED BY <2>1, <2>2, Later, Ranks
<1>3. CASE ResolveEnriched
  <2>1. stage = "users" /\ stage' = "match" BY <1>3 DEF ResolveEnriched, MatchAgainst
  <2> QED BY <2>1, Later, Ranks
<1>4. CASE EndMatch \/ PrimeReferences \/ EndBuild \/ Report
  <2>1. \/ stage = "match" /\ stage' = "prime"
        \/ stage = "prime" /\ stage' = "build"
        \/ stage = "build" /\ stage' = "write"
        \/ stage = "write" /\ stage' = "done"
    BY <1>4 DEF EndMatch, PrimeReferences, EndBuild, Report
  <2> QED BY <2>1, Later, Ranks
<1>5. CASE Fail
  <2>1. /\ stage \in {"listing", "hardware", "users", "match", "prime", "write", "build"}
        /\ stage' = "raised"
    BY <1>5 DEF Fail, Raise
  <2>2. \/ RankOf(stage) = 1 \/ RankOf(stage) = 2 \/ RankOf(stage) = 4 \/ RankOf(stage) = 5
        \/ RankOf(stage) = 6 \/ RankOf(stage) = 7 \/ RankOf(stage) = 8
    BY <2>1, Ranks
  <2> QED BY <2>1, <2>2, Later, Ranks
<1> QED BY <1>1, <1>2, <1>3, <1>4, <1>5

(* The next key, or the first. *)
LEMMA MatchAdvances ==
  ASSUME KeyBooks, ResolveFromDevices \/ TryKey PROVE Advances
<1>1. stage = "match" /\ stage' = "match"
  BY DEF ResolveFromDevices, TryKey, MatchAgainst
<1>2. /\ Left = <<Len(MatchOrder) + 1, Len(MatchOrder) + 1 - keyAt>>
      /\ Left' = <<Len(MatchOrder) + 1, Len(MatchOrder) + 1 - keyAt'>>
  BY <1>1 DEF Left
<1>3. keyAt' = keyAt + 1
  BY DEF ResolveFromDevices, TryKey, MatchAgainst, ResolveMany, ResolveByKey
<1>4. keyAt \in Nat /\ Len(MatchOrder) \in Nat BY UserAssumption DEF KeyBooks
<1> QED BY <1>1, <1>2, <1>3, <1>4 DEF Advances, Less

(* The next device, or the next batch, which is never an empty one. *)
LEMMA WorkAdvances == ASSUME IInv, BuildDevice \/ WriteBatch PROVE Advances
<1>1. at \in Nat /\ Len(devices) \in Nat /\ Len(payloads) \in Nat /\ cfg.batch \in Nat \ {0}
  BY SettingTypes DEF IInv, ListingBooks, StageBooks
<1>2. CASE BuildDevice
  <2>1. stage = "build" /\ stage' = "build" /\ at' = at + 1 /\ devices' = devices
    BY <1>2 DEF BuildDevice, listingVars
  <2>2. Left = <<0, Len(devices) - at>> /\ Left' = <<0, Len(devices) - at'>>
    BY <2>1 DEF Left
  <2> QED BY <1>1, <2>1, <2>2 DEF Advances, Less
<1>3. CASE WriteBatch
  <2>1. /\ stage = "write" /\ stage' = "write" /\ at < Len(payloads) /\ at' = at + BatchSize
        /\ payloads' = payloads
    BY <1>3 DEF WriteBatch
  <2>2. Left = <<0, Len(payloads) - at>> /\ Left' = <<0, Len(payloads) - at'>>
    BY <2>1 DEF Left
  <2>3. BatchSize \in Nat \ {0} BY <1>1, <2>1 DEF BatchSize
  <2> QED BY <1>1, <2>1, <2>2, <2>3 DEF Advances, Less
<1> QED BY <1>2, <1>3

LEMMA NextAdvances == ASSUME IInv, KeyBooks, Next PROVE Advances \/ UNCHANGED vars
<1>1. CASE List \/ ListUnfiltered BY <1>1, ListAdvances
<1>2. CASE Ask \/ Answered \/ Skipped \/ AskAgain BY <1>2, BatchAdvances
<1>3. CASE Attribute BY <1>3, AttributeAdvances
<1>4. CASE EnrichHardware \/ EndAttribute \/ ResolveEnriched \/ EndMatch \/ PrimeReferences
           \/ EndBuild \/ Report \/ Fail
  BY <1>4, MovesOn
<1>5. CASE ResolveFromDevices \/ TryKey BY <1>5, MatchAdvances
<1>6. CASE BuildDevice \/ WriteBatch BY <1>6, WorkAdvances
<1>7. CASE Over BY <1>7 DEF Over
<1> QED BY <1>1, <1>2, <1>3, <1>4, <1>5, <1>6, <1>7 DEF Next, Step

(***************************************************************************)
(* The run ends, for any devices, pages, chunks, retries, tables and       *)
(* batches: what is left of a stage is a pair of natural numbers, and each *)
(* step makes it less or takes the run to a later stage (SyncRunner.run,   *)
(* the paging and $batch loops of GraphClient, resolve_many).              *)
(***************************************************************************)
THEOREM PipelineEveryStepIsProgress == Spec => EveryStepIsProgress
<1>1. Init => KeyBooks BY UserAssumption DEF Init, UsersIdle, KeyBooks
<1>2. IInv /\ KeyBooks /\ [Next]_vars =>
        [/\ Left[1] >= 0 /\ Left[2] >= 0
         /\ StageRank' > StageRank \/ (stage' = stage /\ Less(Left', Left))]_vars
  <2> SUFFICES ASSUME IInv, KeyBooks, [Next]_vars, ~UNCHANGED vars
               PROVE  Left[1] >= 0 /\ Left[2] >= 0 /\ Advances
    BY DEF Advances
  <2>1. Left[1] >= 0 /\ Left[2] >= 0 BY LeftNatural DEF LeftIsNat
  <2> QED BY <2>1, NextAdvances
<1> QED
  BY <1>1, <1>2, KeyBooksKept, PipelineInvariant, PTL DEF Spec, EveryStepIsProgress

-----------------------------------------------------------------------------
(***************************************************************************)
(* That no stage is without a next step.  TLC finds no deadlock where an   *)
(* exception may end the run, which is nearly everywhere; here that does   *)
(* not count as a step.                                                    *)
(***************************************************************************)
NextPage ==
  /\ request # "none"
  /\ \E honours \in BOOLEAN : \E slip \in Slips : \E S \in SUBSET Listed(honours, slip) :
       Cardinality(S) <= PageSize /\ (S = {} => Listed(honours, slip) = {})

NextRequest ==
  \/ round = 0
  \/ \E B \in SUBSET toAsk : Chunk(B)
  \/ round > 0 /\ toAsk = {} /\ throttled # {} /\ RoundsLeft
  \/ BatchOver

(* Rows that the chunked queries can return together. *)
Answerable ==
  LET C == Candidates
  IN  \E rows \in SUBSET Matching(C) : Returned(Chunks(C, [v \in C |-> Place(v)]), rows)

NextKey ==
  \/ keyAt = 0 /\ ~cfg.enrichUsers
  \/ keyAt \in DOMAIN MatchOrder /\ unmatched # {} /\ Answerable
  \/ UsersDone

(* An order to ask for the names in: then an answer may hold them all. *)
NextLookup ==
  /\ SetToSeqs(LookedUp({MakerOf[d] : d \in Kept} \ {NoName})) # {}
  /\ SetToSeqs(LookedUp({ModelOf[d] : d \in Kept} \ {NoName})) # {}

HasNextStep ==
  /\ stage = "listing" => NextPage
  /\ stage \in {"hardware", "users"} => NextRequest
  /\ stage = "match" => NextKey
  /\ stage = "prime" => NextLookup
  /\ stage = "build" => at <= Len(devices)
  /\ stage = "write" => at <= Len(payloads) /\ AnswerTo(BatchSize) # {}

(* What the stages may count on when they begin. *)
StageBegun ==
  /\ stage = "listing" => request # "none"
  /\ stage \notin {"hardware", "raised"} => toAsk \cup throttled \cup resolved \subseteq User
  /\ stage = "match" /\ keyAt = 0 => ~cfg.enrichUsers
  /\ unmatched \subseteq User

(* The stage after the list, the hardware or the memory is "match" only     *)
(* where nobody is to be looked up in Graph first.                          *)
LEMMA FromToMatch ==
  ASSUME NEW i \in 1..3, NEW devs, From(i, devs) = "match"
  PROVE  ~cfg.enrichUsers
<1> DEFINE W(j) == Wants(Order[j], devs)
           First(j) == W(j) /\ \A k \in i..(j - 1) : ~W(k)
<1>1. W(5) BY DEF Wants, Order
<1>2. W(4) <=> cfg.assignUser /\ UserIds(devs) # {}
  BY DEF Wants, Order
<1>3. W(3) <=> cfg.assignUser /\ cfg.enrichUsers /\ UserIds(devs) # {}
  BY DEF Wants, Order
<1>4. From(i, devs) = Order[CHOOSE j \in i..5 : First(j)]
  BY DEF From
<1> HIDE DEF W
<1>5. \E j \in i..5 : First(j)
  <2>1. PICK m \in {j \in i..5 : W(j)} : \A n \in {j \in i..5 : W(j)} : m <= n
    BY <1>1, LeastNatural
  <2> QED BY <2>1
<1>6. PICK j \in i..5 : From(i, devs) = Order[j] /\ First(j)
  BY <1>4, <1>5
<1>7. j = 4
  <2>1. j \in {1, 2, 3, 4, 5} OBVIOUS
  <2> QED BY <1>6, <2>1 DEF Order
<1>8. W(4) /\ ~W(3)
  BY <1>6, <1>7
<1> QED BY <1>2, <1>3, <1>8

LEMMA UserIdsUsers == ASSUME ListingBooks PROVE UserIds(devices) \subseteq User
BY SettingsAssumption, KeptDevices DEF UserIds, Kept

LEMMA StageBegunInit == Init => StageBegun
BY DEF Init, ListingInit, FirstRequest, BatchIdle, UsersIdle, StageBegun

LEMMA StageBegunKept == ASSUME IInv, StageBegun, [Next]_vars PROVE StageBegun'
<1>1. CASE List \/ ListUnfiltered
  <2>1. /\ stage = "listing" /\ UNCHANGED <<cfg, toAsk, throttled, resolved, unmatched, keyAt>>
        /\ AfterPage
    BY <1>1 DEF List, ListUnfiltered, batchVars, userVars
  <2>2. stage' = "listing" => request' # "none"
    BY <2>1, FromStage DEF AfterPage
  <2>3. stage' = "match" => ~cfg.enrichUsers
    BY <2>1, FromToMatch DEF AfterPage
  <2> QED BY <2>1, <2>2, <2>3 DEF StageBegun
<1>2. CASE Ask \/ Answered \/ Skipped \/ AskAgain
  <2>1. stage \in {"hardware", "users"} /\ UNCHANGED <<stage, unmatched, keyAt>>
    BY <1>2 DEF Ask, Answered, Skipped, AskAgain, userVars
  <2>2. stage = "users" => toAsk' \cup throttled' \cup resolved' \subseteq User
    <3> SUFFICES ASSUME stage = "users" PROVE toAsk' \cup throttled' \cup resolved' \subseteq User
      OBVIOUS
    <3>1. toAsk \cup throttled \cup resolved \subseteq User
      BY DEF StageBegun
    <3>2. CASE Ask
      BY <3>1, <3>2, UserIdsUsers DEF Ask, BatchStart, BatchKeys, IInv
    <3>3. CASE Answered
      <4>1. PICK B \in SUBSET toAsk : \E ans \in [B -> Verdict] : ChunkAnswered(B, ans)
        BY <3>3 DEF Answered
      <4> QED BY <3>1, <4>1 DEF ChunkAnswered, ThrottledIn
    <3>4. ~Skipped
      BY DEF Skipped
    <3>5. CASE AskAgain
      BY <3>1, <3>5 DEF AskAgain, NextRound
    <3> QED BY <1>2, <3>2, <3>3, <3>4, <3>5
  <2> QED BY <2>1, <2>2 DEF StageBegun
<1>3. CASE EnrichHardware \/ ResolveEnriched
  <2>1. toAsk' = {} /\ throttled' = {} /\ resolved' = {} /\ cfg' = cfg
    BY <1>3 DEF EnrichHardware, ResolveEnriched, BatchReset
  <2>2. CASE EnrichHardware
    <3>1. stage' = From(2, devices) /\ UNCHANGED unmatched
      BY <2>2 DEF EnrichHardware, userVars
    <3> QED BY <2>1, <3>1, FromStage, FromToMatch DEF StageBegun
  <2>3. CASE ResolveEnriched
    <3>1. stage = "users" /\ stage' = "match" /\ keyAt' = 1 /\ unmatched' = resolved
      BY <2>3 DEF ResolveEnriched, MatchAgainst, ResolveMany
    <3> QED BY <2>1, <3>1 DEF StageBegun
  <2> QED BY <1>3, <2>2, <2>3
<1>4. CASE Attribute \/ EndAttribute
  <2>1. stage = "ram" /\ UNCHANGED <<cfg, toAsk, throttled, resolved, unmatched, keyAt>>
    BY <1>4 DEF Attribute, EndAttribute, batchVars, userVars
  <2>2. stage' = "ram" \/ stage' = From(3, devices)
    BY <1>4 DEF Attribute, EndAttribute
  <2> QED BY <2>1, <2>2, FromStage, FromToMatch DEF StageBegun
<1>5. CASE ResolveFromDevices \/ TryKey
  <2>1. /\ stage = "match" /\ stage' = "match"
        /\ UNCHANGED <<cfg, toAsk, throttled, resolved>> /\ keyAt' = keyAt + 1
    BY <1>5 DEF ResolveFromDevices, TryKey, MatchAgainst, ResolveMany, ResolveByKey, batchVars
  <2>2. unmatched' \subseteq User
    BY <1>5, UserIdsUsers DEF ResolveFromDevices, TryKey, MatchAgainst, ResolveMany,
       ResolveByKey, StageBegun, IInv
  <2>3. keyAt = 0 => keyAt' # 0
    BY <2>1
  <2>4. keyAt # 0 => keyAt \in DOMAIN MatchOrder
    BY <1>5 DEF ResolveFromDevices, TryKey, MatchAgainst, ResolveMany, ResolveByKey
  <2>5. keyAt' # 0
    BY <2>1, <2>3, <2>4, UserAssumption
  <2> QED BY <2>1, <2>2, <2>5 DEF StageBegun
<1>6. CASE EndMatch
  BY <1>6 DEF EndMatch, UsersReturn, batchVars, StageBegun
<1>7. CASE PrimeReferences \/ BuildDevice \/ EndBuild \/ WriteBatch \/ Report
  <2>1. /\ stage \in {"prime", "build", "write"} /\ stage' \in {"build", "write", "done"}
        /\ UNCHANGED <<toAsk, throttled, resolved, unmatched>>
    BY <1>7 DEF PrimeReferences, BuildDevice, EndBuild, WriteBatch, Report, batchVars, userVars
  <2> QED BY <2>1 DEF StageBegun
<1>8. CASE Fail
  <2>1. stage' = "raised" /\ UNCHANGED unmatched
    BY <1>8 DEF Fail, Raise, userVars
  <2> QED BY <2>1 DEF StageBegun
<1>9. CASE UNCHANGED vars
  BY <1>9 DEF vars, listingVars, batchVars, userVars, StageBegun
<1> QED
  BY <1>1, <1>2, <1>3, <1>4, <1>5, <1>6, <1>7, <1>8, <1>9 DEF Next, Over, Step

(* A page, empty only if there is nothing left to list. *)
LEMMA PageAvailable == ASSUME request # "none" PROVE NextPage
<1> DEFINE all == Listed(TRUE, {})
<1>1. {} \in Slips BY DEF Slips
<1>2. CASE all = {}
  <2>1. Cardinality({}) = 0 BY FS_EmptySet
  <2>2. {} \in SUBSET all /\ Cardinality({}) <= PageSize
    BY <2>1, PageAssumption
  <2> QED BY <1>1, <1>2, <2>2 DEF NextPage
<1>3. CASE all # {}
  <2>1. PICK d \in all : TRUE BY <1>3
  <2>2. Cardinality({d}) = 1 BY FS_Singleton
  <2>3. {d} \in SUBSET all /\ {d} # {}
    BY <2>1
  <2>4. 1 <= PageSize
    BY PageAssumption
  <2> QED BY <1>1, <2>2, <2>3, <2>4 DEF NextPage
<1> QED BY <1>2, <1>3

(* The names of the devices can be put in an order. *)
LEMMA LookupAvailable == ASSUME ListingBooks PROVE NextLookup
<1> DEFINE makers == {MakerOf[d] : d \in Kept}
           models == {ModelOf[d] : d \in Kept}
           aliased(names) == {AliasOf[n] : n \in names}
<1>1. IsFiniteSet(Kept) BY KeptDevices, SettingsAssumption, FS_Subset
<1>2. IsFiniteSet(makers) /\ IsFiniteSet(models) BY <1>1, ImageFinite
<1>3. IsFiniteSet(makers \ {NoName}) /\ IsFiniteSet(models \ {NoName}) BY <1>2, FS_Subset
<1> HIDE DEF makers, models
<1>4. IsFiniteSet(aliased(makers \ {NoName})) /\ IsFiniteSet(aliased(models \ {NoName}))
  BY <1>3, ImageFinite
<1>5. /\ IsFiniteSet(LookedUp(makers \ {NoName}))
      /\ IsFiniteSet(LookedUp(models \ {NoName}))
  <2>1. /\ LookedUp(makers \ {NoName}) \in SUBSET aliased(makers \ {NoName})
        /\ LookedUp(models \ {NoName}) \in SUBSET aliased(models \ {NoName})
    BY DEF LookedUp
  <2>2. QED BY <1>4, <2>1, FS_Subset
<1>6. /\ SetToSeqs(LookedUp(makers \ {NoName})) # {}
      /\ SetToSeqs(LookedUp(models \ {NoName})) # {}
  BY <1>5, OrdersOf
<1>7. QED BY <1>6 DEF NextLookup, makers, models

(* An answer to a batch: one without items, as to a refused batch. *)
LEMMA AnswerAvailable == ASSUME NEW n \in Nat PROVE AnswerTo(n) # {}
<1> DEFINE none == [i \in 1..0 |-> [about |-> i, kind |-> "errors"]]
<1>1. none \in [1..0 -> [about : 1..n, kind : ItemKind]] /\ 0 \in 0..n OBVIOUS
<1>2. none \in UNION {[1..k -> [about : 1..n, kind : ItemKind]] : k \in 0..n} BY <1>1
<1>3. \A i, j \in DOMAIN none : i < j => none[i].about < none[j].about OBVIOUS
<1> HIDE DEF none
<1>4. none \in AnswerTo(n) BY <1>2, <1>3 DEF AnswerTo
<1>5. QED BY <1>4

(* A finite set has a subset of every size up to its own. *)
LEMMA SubsetOfSize ==
  ASSUME NEW S, IsFiniteSet(S), NEW n \in Nat, n <= Cardinality(S)
  PROVE  \E T \in SUBSET S : IsFiniteSet(T) /\ Cardinality(T) = n
<1> DEFINE m == Cardinality(S)
<1>1. m \in Nat /\ ExistsBijection(1..m, S)
  BY FS_CardinalityType
<1>2. PICK f \in Bijection(1..m, S) : TRUE
  BY <1>1 DEF ExistsBijection
<1>3. /\ f \in [1..m -> S]
      /\ \A i, j \in 1..m : f[i] = f[j] => i = j
  BY <1>2 DEF Bijection, Injection, IsInjective
<1> DEFINE T == {f[i] : i \in 1..n}
           g == [i \in 1..n |-> f[i]]
<1>4. 1..n \subseteq 1..m
  BY <1>1
<1>5. T \in SUBSET S
  BY <1>3, <1>4
<1>6. g \in Bijection(1..n, T)
  BY <1>3, <1>4 DEF Bijection, Injection, IsInjective, Surjection
<1>7. ExistsBijection(1..n, T)
  BY <1>6 DEF ExistsBijection
<1>8. IsFiniteSet(1..n) /\ Cardinality(1..n) = n
  BY FS_Interval
<1>9. IsFiniteSet(T) /\ Cardinality(T) = n
  BY <1>7, <1>8, FS_Bijection
<1> QED BY <1>5, <1>9

(* A chunk of the keys of a round, or the round is over. *)
LEMMA RequestAvailable == ASSUME BatchTypeOK PROVE NextRequest
<1>1. IsFiniteSet(toAsk) /\ Cardinality(toAsk) \in Nat
  BY BatchAssumption, FS_Subset, FS_CardinalityType DEF BatchTypeOK
<1>2. BatchLimit \in Nat /\ BatchLimit # 0
  BY BatchAssumption
<1>3. CASE toAsk # {}
  <2>1. CASE Cardinality(toAsk) < BatchLimit
    <3>1. Chunk(toAsk)
      BY <1>3, <2>1 DEF Chunk
    <3> QED BY <3>1 DEF NextRequest
  <2>2. CASE BatchLimit <= Cardinality(toAsk)
    <3>1. PICK B \in SUBSET toAsk : IsFiniteSet(B) /\ Cardinality(B) = BatchLimit
      BY <1>1, <1>2, <2>2, SubsetOfSize
    <3>2. B # {}
      BY <1>2, <3>1, FS_EmptySet
    <3>3. Chunk(B)
      BY <3>1, <3>2 DEF Chunk
    <3> QED BY <3>3 DEF NextRequest
  <2> QED BY <1>1, <1>2, <2>1, <2>2
<1>4. CASE toAsk = {}
  <2>1. round = 0 \/ round > 0
    BY BatchAssumption DEF BatchTypeOK
  <2> QED BY <1>4, <2>1 DEF NextRequest, BatchOver
<1> QED BY <1>3, <1>4

(* The values of a lookup are finitely many. *)
LEMMA CandidatesFinite ==
  ASSUME unmatched \subseteq User, keyAt \in DOMAIN MatchOrder
  PROVE  IsFiniteSet(Candidates)
<1> DEFINE P == unmatched \X (1..2)
           Q == {p \in P : p[2] \in Sought(p[1])}
           f == [p \in Q |-> ValuesOf[MatchKey][p[1]][p[2]]]
<1>1. IsFiniteSet(unmatched)
  <2>1. unmatched \subseteq Key BY KeyAssumption
  <2> QED BY <2>1, BatchAssumption, FS_Subset
<1>2. IsFiniteSet(P)
  <2>1. 1 \in Int /\ 2 \in Int OBVIOUS
  <2>2. IsFiniteSet(1..2) BY <2>1, FS_Interval, Zenon
  <2> QED BY <1>1, <2>2, FS_Product
<1>3. IsFiniteSet(Q)
  BY <1>2, FS_Subset
<1>4. MatchKey \in DOMAIN ValuesOf
  BY UserAssumption DEF MatchKey
<1>5. \A u \in unmatched : Sought(u) \subseteq 1..2
  BY <1>4, UserAssumption DEF Sought
<1>6. f \in [Q -> Candidates]
  <2>1. ASSUME NEW p \in Q PROVE f[p] \in Candidates
    BY <2>1 DEF Candidates, Wanted
  <2> QED BY <2>1
<1>7. ASSUME NEW v \in Candidates PROVE \E p \in Q : f[p] = v
  <2>1. PICK u \in unmatched : v \in Wanted(u)
    BY <1>7 DEF Candidates
  <2>2. PICK s \in Sought(u) : v = ValuesOf[MatchKey][u][s]
    BY <2>1 DEF Wanted
  <2>3. s \in 1..2
    BY <1>5, <2>2
  <2>4. <<u, s>> \in P /\ <<u, s>>[1] = u /\ <<u, s>>[2] = s
    BY <2>3
  <2>5. <<u, s>> \in Q
    BY <2>2, <2>4
  <2> QED BY <2>2, <2>4, <2>5
<1> HIDE DEF Q, f
<1>8. f \in Surjection(Q, Candidates)
  BY <1>6, <1>7 DEF Surjection
<1> QED BY <1>3, <1>8, FS_Surjection

(* What a query for the values V may return, one chunk by itself. *)
Fits(V, X) ==
  /\ X \subseteq Matching(V)
  /\ IF Cardinality(Matching(V)) <= RowsPerValue * Cardinality(V)
     THEN X = Matching(V)
     ELSE Cardinality(X) = RowsPerValue * Cardinality(V)

LEMMA ChunkFits ==
  ASSUME table \subseteq Row, NEW V, IsFiniteSet(V)
  PROVE  \E X : Fits(V, X)
<1>1. IsFiniteSet(Matching(V)) /\ Cardinality(Matching(V)) \in Nat
  <2>1. Matching(V) \subseteq Row BY DEF Matching, Visible
  <2> QED BY <2>1, UserAssumption, FS_Subset, FS_CardinalityType
<1>2. RowsPerValue * Cardinality(V) \in Nat
  <2>1. Cardinality(V) \in Nat BY FS_CardinalityType
  <2>2. RowsPerValue \in Nat BY UserAssumption
  <2> QED BY <2>1, <2>2
<1> DEFINE n == RowsPerValue * Cardinality(V)
<1>3. CASE Cardinality(Matching(V)) <= n
  BY <1>3 DEF Fits
<1>4. CASE ~(Cardinality(Matching(V)) <= n)
  <2>1. n \in Nat /\ n <= Cardinality(Matching(V))
    BY <1>1, <1>2, <1>4
  <2> HIDE DEF n
  <2>2. PICK X \in SUBSET Matching(V) : IsFiniteSet(X) /\ Cardinality(X) = n
    BY <1>1, <2>1, SubsetOfSize
  <2> QED BY <1>4, <2>2 DEF Fits, n
<1> QED BY <1>3, <1>4

(* The chunks of a key have no row in common, so each can be answered alone. *)
LEMMA KeyAnswerable ==
  ASSUME unmatched \subseteq User, table \subseteq Row, keyAt \in DOMAIN MatchOrder
  PROVE  Answerable
<1> DEFINE C == Candidates
           place == [v \in C |-> Place(v)]
           rank == [v \in C |-> Cardinality({w \in C : place[w] < place[v]})]
           chunks == Chunks(C, place)
           T == [V \in chunks |-> CHOOSE X : Fits(V, X)]
           rows == {r \in Matching(C) : \E V \in chunks : r \in T[V]}
<1>1. chunks = {{v \in C : rank[v] \div ChunkSize = n} : n \in {rank[v] \div ChunkSize : v \in C}}
  BY DEF Chunks
<1> HIDE DEF rank, place
<1>2. ASSUME NEW V \in chunks PROVE V \subseteq C
  BY <1>1
<1>3. ASSUME NEW V \in chunks, NEW W \in chunks, NEW v \in V, v \in W PROVE V = W
  BY <1>1, <1>3
<1> HIDE DEF chunks
<1>4. ASSUME NEW V \in chunks PROVE Fits(V, T[V])
  <2>1. IsFiniteSet(V)
    BY <1>2, CandidatesFinite, FS_Subset
  <2> QED BY <2>1, ChunkFits
<1> HIDE DEF T
<1>5. ASSUME NEW V \in chunks PROVE rows \cap Matching(V) = T[V]
  <2>1. T[V] \subseteq Matching(V) /\ Matching(V) \subseteq Matching(C)
    BY <1>2, <1>4 DEF Fits, Matching
  <2>2. ASSUME NEW r \in rows, r \in Matching(V) PROVE r \in T[V]
    <3>1. PICK W \in chunks : r \in T[W]
      BY <2>2
    <3>2. r \in Matching(W)
      BY <1>4, <3>1 DEF Fits
    <3>3. r[MatchKey] \in V /\ r[MatchKey] \in W
      BY <2>2, <3>2 DEF Matching
    <3>4. V = W
      BY <1>3, <3>3
    <3> QED BY <3>1, <3>4
  <2> QED BY <2>1, <2>2
<1>6. rows \in SUBSET Matching(C)
  OBVIOUS
<1> HIDE DEF rows
<1>7. Returned(chunks, rows)
  <2>1. ASSUME NEW V \in chunks
        PROVE  IF Cardinality(Matching(V)) <= RowsPerValue * Cardinality(V)
               THEN Matching(V) \subseteq rows
               ELSE Cardinality(rows \cap Matching(V)) = RowsPerValue * Cardinality(V)
    <3>1. Fits(V, T[V]) /\ rows \cap Matching(V) = T[V] BY <1>4, <1>5
    <3>2. CASE Cardinality(Matching(V)) <= RowsPerValue * Cardinality(V)
      <4>1. Matching(V) \subseteq rows BY <3>1, <3>2 DEF Fits
      <4> QED BY <3>2, <4>1
    <3>3. CASE ~(Cardinality(Matching(V)) <= RowsPerValue * Cardinality(V))
      BY <3>1, <3>3 DEF Fits
    <3> QED BY <3>2, <3>3
  <2> QED BY <2>1 DEF Returned
<1> QED BY <1>6, <1>7 DEF Answerable, chunks, place

LEMMA KeyAvailable ==
  ASSUME StageBegun, KeyBooks, table \subseteq Row, stage = "match" PROVE NextKey
<1>1. DOMAIN MatchOrder = 1..Len(MatchOrder) /\ Len(MatchOrder) \in Nat
  BY UserAssumption
<1>2. CASE keyAt = 0
  BY <1>2 DEF StageBegun, NextKey
<1>3. CASE keyAt > 0 /\ (keyAt \notin DOMAIN MatchOrder \/ unmatched = {})
  BY <1>3 DEF NextKey, UsersDone
<1>4. CASE keyAt \in DOMAIN MatchOrder /\ unmatched # {}
  BY <1>4, KeyAnswerable DEF StageBegun, NextKey
<1> QED BY <1>1, <1>2, <1>3, <1>4 DEF KeyBooks

(***************************************************************************)
(* In every stage a run has a step other than failing, for any pages,      *)
(* rounds, keys and row limits: with EveryStepIsProgress, a run that does  *)
(* not raise gets to its report (SyncRunner.run and what it calls).        *)
(***************************************************************************)
THEOREM PipelineNeverStuck == Spec => []HasNextStep
<1>1. Init => KeyBooks BY UserAssumption DEF Init, UsersIdle, KeyBooks
<1>2. Init => UserBooks
  BY DEF Init, UsersIdle, UserBooks, AssignedIsUnique
<1>3. IInv /\ KeyBooks /\ UserBooks /\ StageBegun => HasNextStep
  <2>1. ASSUME StageBooks, stage = "write" PROVE AnswerTo(BatchSize) # {}
    <3>1. Len(payloads) \in Nat /\ at \in Nat /\ at <= Len(payloads) /\ cfg.batch \in Nat
      BY <2>1, SettingTypes DEF StageBooks
    <3>2. BatchSize \in Nat BY <3>1 DEF BatchSize
    <3>3. QED BY <3>2, AnswerAvailable
  <2>2. QED
    BY <2>1, PageAvailable, RequestAvailable, KeyAvailable, LookupAvailable
       DEF HasNextStep, StageBegun, UserBooks, IInv, StageBooks
<1>4. IInv /\ StageBegun /\ [Next]_vars => StageBegun'
  BY StageBegunKept
<1> QED
  BY <1>1, <1>2, <1>3, <1>4, StageBegunInit, KeyBooksKept, NextKeepsUsers, PipelineInvariant, PTL
     DEF Spec
=============================================================================
