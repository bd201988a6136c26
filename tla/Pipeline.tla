------------------------------ MODULE Pipeline ------------------------------
(***************************************************************************)
(* One run of SyncRunner.run from the device list to the report, with the  *)
(* bulk IRE writer: the stages in the code's order, each by the module of  *)
(* its component.  A stage gives back its working storage when it ends;    *)
(* what later stages read is kept.                                         *)
(***************************************************************************)
EXTENDS GraphListing, GraphBatch, GraphAttribute, UserResolver, ReferenceResolver, IreWriter

(* What a $batch call may ask for. *)
ASSUME KeyAssumption == Device \subseteq Key /\ User \subseteq Key

VARIABLES
  at,         \* how many devices (build) or payloads (write) are dealt with
  payloads,   \* the CiPayloads, in order
  outcomes,   \* who has been recorded in the report, with what
  observed,   \* SyncState.observe: the CI of each device
  shifted     \* history: some answer of IRE left an item out before others

buildVars == <<at, payloads, outcomes, observed, shifted>>
vars == <<cfg, stage, listingVars, batchVars, attributeVars, userVars, books, buildVars>>

Init ==
  /\ cfg \in Settings
  /\ stage = "listing"
  /\ ListingInit
  /\ BatchIdle
  /\ AttributeIdle
  /\ UsersIdle
  /\ books = NoBooks
  /\ at = 0 /\ payloads = <<>> /\ outcomes = <<>>
  /\ observed = [d \in Device |-> NoCi]
  /\ shifted = FALSE

Kept == Range(devices)

(* The Entra ids on the devices. *)
UserIds(devs) == {UserOf[d] : d \in Range(devs)} \ {NoOne}

Wants(s, devs) ==
  /\ s = "hardware" => cfg.hardware
  /\ s = "ram" => cfg.ramAttribute
  /\ s = "users" => cfg.assignUser /\ cfg.enrichUsers /\ UserIds(devs) # {}
  /\ s = "match" => cfg.assignUser /\ UserIds(devs) # {}

Order == <<"hardware", "ram", "users", "match", "prime">>

(* The first stage from the i-th of Order on that the settings ask for. *)
From(i, devs) ==
  Order[CHOOSE j \in i..5 : Wants(Order[j], devs) /\ \A k \in i..(j - 1) : ~Wants(Order[k], devs)]

(* An exception leaves run(): nothing is written after it. *)
Raise(from) ==
  /\ stage \in from
  /\ stage' = "raised"
  /\ UNCHANGED <<cfg, listingVars, batchVars, attributeVars, userVars, books, buildVars>>

-----------------------------------------------------------------------------
(* An empty list: run() returns there. *)
AfterPage ==
  stage' = IF request' # "none" THEN "listing"
           ELSE IF devices' = <<>> THEN "done" ELSE From(1, devices')

List ==
  /\ stage = "listing"
  /\ \E honours \in BOOLEAN : \E slip \in Slips : \E S \in SUBSET unlisted :
       \E again \in Again : ListPage(honours, slip, S, again)
  /\ AfterPage
  /\ UNCHANGED <<cfg, batchVars, attributeVars, userVars, books, buildVars>>

ListUnfiltered ==
  /\ stage = "listing"
  /\ FilterRejected
  /\ AfterPage
  /\ UNCHANGED <<cfg, batchVars, attributeVars, userVars, books, buildVars>>

(* The keys of the two $batch calls. *)
BatchKeys == IF stage = "hardware" THEN Kept ELSE UserIds(devices)

Ask ==
  /\ stage \in {"hardware", "users"}
  /\ BatchStart(BatchKeys)
  /\ UNCHANGED <<cfg, stage, listingVars, attributeVars, userVars, books, buildVars>>

Answered ==
  /\ stage \in {"hardware", "users"}
  /\ \E B \in SUBSET toAsk : \E ans \in [B -> Verdict] : ChunkAnswered(B, ans)
  /\ UNCHANGED <<cfg, stage, listingVars, attributeVars, userVars, books, buildVars>>

(* `required` is FALSE for the hardware detail only. *)
Skipped ==
  /\ stage = "hardware"
  /\ \E B \in SUBSET toAsk : ChunkSkipped(B)
  /\ UNCHANGED <<cfg, stage, listingVars, attributeVars, userVars, books, buildVars>>

AskAgain ==
  /\ stage \in {"hardware", "users"}
  /\ NextRound
  /\ UNCHANGED <<cfg, stage, listingVars, attributeVars, userVars, books, buildVars>>

(* _enrich_hardware: the values of the detail that are not empty. *)
EnrichHardware ==
  /\ stage = "hardware"
  /\ BatchOver
  /\ ram' = [d \in Device |-> IF d \in resolved \cap GraphRam THEN "graph" ELSE ram[d]]
  /\ BatchReset
  /\ stage' = From(2, devices)
  /\ UNCHANGED <<cfg, listingVars, query, unread, outputs, userVars, books, buildVars>>

(* Reading the attribute never ends the run (AuthError apart). *)
Attribute ==
  /\ stage = "ram"
  /\ ReadAttribute \/ (\E S \in SUBSET unread : StatesPage(S)) \/ StatesRefused
  /\ UNCHANGED <<cfg, stage, listingVars, batchVars, userVars, books, buildVars>>

(* A device's memory is a value among others from here on. *)
EndAttribute ==
  /\ stage = "ram"
  /\ FillRam(Kept) \/ AttributeUnreadable
  /\ query' = "none" /\ unread' = {} /\ outputs' = {}
  /\ stage' = From(3, devices)
  /\ UNCHANGED <<cfg, listingVars, batchVars, userVars, books, buildVars>>

-----------------------------------------------------------------------------
(* _resolve_users with the users Graph knows, against any sys_user table. *)
MatchAgainst(users) ==
  /\ \E rows \in SUBSET Row : ResolveMany(users, rows)
  /\ stage' = "match"

ResolveEnriched ==
  /\ stage = "users"
  /\ BatchOver
  /\ MatchAgainst(resolved)
  /\ BatchReset
  /\ UNCHANGED <<cfg, listingVars, attributeVars, books, buildVars>>

(* The same with the identity fields of the device records. *)
ResolveFromDevices ==
  /\ stage = "match"
  /\ ~cfg.enrichUsers
  /\ MatchAgainst(UserIds(devices))
  /\ UNCHANGED <<cfg, listingVars, batchVars, attributeVars, books, buildVars>>

TryKey ==
  /\ stage = "match"
  /\ ResolveByKey
  /\ UNCHANGED <<cfg, stage, listingVars, batchVars, attributeVars, books, buildVars>>

EndMatch ==
  /\ stage = "match"
  /\ UsersReturn
  /\ stage' = "prime"
  /\ UNCHANGED <<cfg, listingVars, batchVars, attributeVars, books, buildVars>>

PrimeReferences ==
  /\ stage = "prime"
  /\ \E stock \in SUBSET Catalogue :
       Prime({MakerOf[d] : d \in Kept} \ {NoName}, {ModelOf[d] : d \in Kept} \ {NoName}, stock)
  /\ stage' = "build"
  /\ UNCHANGED <<cfg, listingVars, batchVars, attributeVars, userVars, buildVars>>

-----------------------------------------------------------------------------
Record(d, action) == [device |-> d, action |-> action]

(* What build_values puts on the CI of a device. *)
Payload(d, b) ==
  [device |-> d,
   links |-> {Alias(MakerOf[d]), Alias(ModelOf[d])} \cap b.cache,
   assigned |-> IF UserOf[d] = NoOne THEN NoRow ELSE owner[UserOf[d]]]

(***************************************************************************)
(* _build_payloads for the next device.  The references are resolved, and  *)
(* records created, before it is known whether the device can be           *)
(* identified.                                                             *)
(***************************************************************************)
BuildDevice ==
  /\ stage = "build"
  /\ at < Len(devices)
  /\ LET d == devices[at + 1] IN
       IF d \notin HasClass
       THEN /\ outcomes' = Append(outcomes, Record(d, "skipped"))
            /\ UNCHANGED <<books, payloads>>
       ELSE /\ \E ofMaker, ofModel \in Answers :
                 books' = ReferencesFor(books, Alias(MakerOf[d]), Alias(ModelOf[d]),
                                        ofMaker, ofModel)
            /\ IF Identifiable(d)
               THEN /\ payloads' = Append(payloads, Payload(d, books'))
                    /\ UNCHANGED outcomes
               ELSE /\ outcomes' = Append(outcomes, Record(d, "skipped"))
                    /\ UNCHANGED payloads
  /\ at' = at + 1
  /\ UNCHANGED <<cfg, stage, listingVars, batchVars, attributeVars, userVars, observed,
                 shifted>>

EndBuild ==
  /\ stage = "build"
  /\ at = Len(devices)
  /\ at' = 0
  /\ stage' = "write"
  /\ UNCHANGED <<cfg, listingVars, batchVars, attributeVars, userVars, books, payloads,
                 outcomes, observed, shifted>>

(* The devices of the next batch. *)
BatchSize == IF Len(payloads) - at < cfg.batch THEN Len(payloads) - at ELSE cfg.batch
Batch == [i \in 1..BatchSize |-> payloads[at + i].device]

(* The last that this batch says of a device. *)
LastAction(items, d) ==
  Action(items, CHOOSE i \in 1..BatchSize : Batch[i] = d /\ \A j \in (i + 1)..BatchSize : Batch[j] # d)

(* The i-th result is for d and carries a sys_id; the last of those. *)
Named(items, i, d) == Batch[i] = d /\ SysId(Batch, items, i) # NoCi
LastNamed(items, d) ==
  CHOOSE i \in 1..BatchSize : Named(items, i, d) /\ \A j \in (i + 1)..BatchSize : ~Named(items, j, d)

(***************************************************************************)
(* _write_batch: one entry in the report per payload, the successes        *)
(* observed.  The entries of a device listed twice are one object, whose   *)
(* action is the latest one.                                               *)
(***************************************************************************)
Wrote(items) ==
  /\ outcomes' = [i \in 1..(Len(outcomes) + BatchSize) |->
                    LET d == IF i <= Len(outcomes) THEN outcomes[i].device
                             ELSE Batch[i - Len(outcomes)]
                    IN  IF d \in Range(Batch) THEN Record(d, LastAction(items, d))
                        ELSE outcomes[i]]
  /\ observed' = [d \in Device |->
                    IF \E i \in 1..BatchSize : Named(items, i, d)
                    THEN SysId(Batch, items, LastNamed(items, d)) ELSE observed[d]]

(***************************************************************************)
(* IRE answers with items for the devices in their order, if not for all   *)
(* of them; or refuses the batch as a whole, which is an error for each.   *)
(***************************************************************************)
WriteBatch ==
  /\ stage = "write"
  /\ at < Len(payloads)
  /\ \E items \in AnswerTo(BatchSize) :
       Wrote(items) /\ shifted' = (shifted \/ ~InPlace(items))
  /\ at' = at + BatchSize
  /\ UNCHANGED <<cfg, stage, listingVars, batchVars, attributeVars, userVars, books, payloads>>

Report ==
  /\ stage = "write"
  /\ at = Len(payloads)
  /\ stage' = "done"
  /\ UNCHANGED <<cfg, listingVars, batchVars, attributeVars, userVars, books, buildVars>>

(***************************************************************************)
(* Where an exception ends the run: every stage that asks somebody, except *)
(* the attribute, whose errors are warnings.  The hardware detail is       *)
(* optional, but a body that is no JSON is not caught, nor an AuthError.   *)
(***************************************************************************)
Fail ==
  \/ Raise({"listing", "hardware", "users", "match", "prime", "write"})
  \/ /\ at < Len(devices)
     /\ LET d == devices[at + 1] IN
          d \in HasClass /\ AsksToCreate(books, Alias(MakerOf[d]), Alias(ModelOf[d]))
     /\ Raise({"build"})

Step ==
  \/ List \/ ListUnfiltered
  \/ Ask \/ Answered \/ Skipped \/ AskAgain
  \/ EnrichHardware \/ Attribute \/ EndAttribute
  \/ ResolveEnriched \/ ResolveFromDevices \/ TryKey \/ EndMatch
  \/ PrimeReferences \/ BuildDevice \/ EndBuild \/ WriteBatch \/ Report

(* run() has returned or raised. *)
Over == stage \in {"done", "raised"} /\ UNCHANGED vars

Next == Step \/ Fail \/ Over

Spec == Init /\ [][Next]_vars

-----------------------------------------------------------------------------
(* The names the resolver will be asked for. *)
NamesOf(d) == {Alias(MakerOf[d]), Alias(ModelOf[d])} \ {NoName}

Early == {"listing", "hardware", "ram", "users", "match", "prime"}

(* What the writer is given. *)
CiPayload ==
  [device : Device, links : SUBSET Name, assigned : {owner[u] : u \in User} \cup {NoRow}]

(***************************************************************************)
(* What each stage leaves to the later ones: no books and no payload       *)
(* before their stage; every name of a device looked up once the books are *)
(* open; a link only to what the resolver has; a CI only of what can be    *)
(* identified.                                                             *)
(***************************************************************************)
StageBooks ==
  /\ cfg \in Settings /\ stage \in Stages
  /\ at \in Nat
  /\ stage \in Early => /\ books = NoBooks /\ payloads = <<>> /\ at = 0
                       /\ observed = [d \in Device |-> NoCi]
  /\ stage = "build" => at <= Len(devices)
  /\ stage = "write" => at <= Len(payloads)
  /\ \A d \in Kept : \A n \in (NamesOf(d) \cap NamesIn(books.stock)) \ UnsafeName :
       n \in books.cache \/ CrowdedOut(books.stock, n)
  /\ books.cache \subseteq books.rows
  /\ DOMAIN owner = User
  /\ payloads \in Seq(CiPayload)
  /\ \A i \in DOMAIN payloads :
       /\ payloads[i].device \in Kept /\ Identifiable(payloads[i].device)
       /\ payloads[i].links \subseteq books.cache
  /\ DOMAIN observed = Device /\ shifted \in BOOLEAN
  /\ \A d \in Device :
       observed[d] # NoCi => d \in Kept /\ Identifiable(d) /\ (shifted \/ observed[d] = CiFor(d))

(* The inductive invariant: the books of every component and of the stages. *)
IInv ==
  /\ BatchTypeOK /\ BatchBooks
  /\ AttributeBooks
  /\ ListingBooks
  /\ ReferencesTypeOK /\ CreateBooks /\ CreateOnce /\ NoDuplicateRow
  /\ StageBooks

Occurs(seq, d) == Cardinality({i \in DOMAIN seq : seq[i] = d})

(***************************************************************************)
(* The report accounts for every device that was collected, as often as it *)
(* was listed: skipped, written or in error, and nobody else.              *)
(***************************************************************************)
EveryDeviceAccounted ==
  stage = "done" =>
    \A d \in Device :
      Cardinality({i \in DOMAIN outcomes : outcomes[i].device = d /\ outcomes[i].action # "none"})
        = Occurs(devices, d)

(***************************************************************************)
(* The CI the state file will name for a device, and retire one day, is    *)
(* the one the device was identified as, and no other device's, in however *)
(* many batches and however often it was written, as long as no answer of  *)
(* IRE leaves an item out before others.                                   *)
(***************************************************************************)
ObservedIsOwn ==
  ~shifted =>
    \A d \in Device : observed[d] # NoCi =>
      /\ observed[d] = CiFor(d)
      /\ \A e \in Device \ {d} : observed[e] # observed[d]

(* No CI is linked to a record that does not bear its device's own names. *)
LinkedByName == \A i \in DOMAIN payloads : payloads[i].links \subseteq books.rows

(***************************************************************************)
(* Whatever the server makes of the filter, no device of another owner is  *)
(* collected or gets as far as the CMDB (docstring of is_corporate).       *)
(***************************************************************************)
OnlyOwnedWritten ==
  /\ \A i \in DOMAIN devices : Owned(devices[i])
  /\ \A i \in DOMAIN payloads : Owned(payloads[i].device)
  /\ \A d \in Device : observed[d] # NoCi => Owned(d)

StageRank ==
  CHOOSE i \in 1..9 : stage \in (<<{"listing"}, {"hardware"}, {"ram"}, {"users"}, {"match"},
                                 {"prime"}, {"build"}, {"write"}, {"done", "raised"}>>)[i]

(* What a stage has left to do: rounds, and what is left of the round. *)
Left ==
  CASE stage = "listing" -> <<IF request = "filtered" THEN 1 ELSE 0, Cardinality(unlisted)>>
    [] stage \in {"hardware", "users"} ->
         <<IF round = 0 THEN MaxRetries + 2 ELSE (MaxRetries + 1) - round, Cardinality(toAsk)>>
    [] stage = "ram" ->
         <<CASE query = "none" -> 2 [] query = "select" -> 1 [] query = "plain" -> 0,
           Cardinality(unread)>>
    [] stage = "match" -> <<Len(MatchOrder) + 1, Len(MatchOrder) + 1 - keyAt>>
    [] stage = "build" -> <<0, Len(devices) - at>>
    [] stage = "write" -> <<0, Len(payloads) - at>>
    [] OTHER -> <<0, 0>>

Less(p, q) == p[1] < q[1] \/ (p[1] = q[1] /\ p[2] < q[2])

(***************************************************************************)
(* The run ends, whatever is throttled, refused or started anew: each step *)
(* leaves less of a stage to do, or takes the run to a later one; there is *)
(* no step that could be repeated for ever.  (That none is missing before  *)
(* the end is PipelineNeverStuck.)                                         *)
(***************************************************************************)
EveryStepIsProgress ==
  [][/\ Left[1] >= 0 /\ Left[2] >= 0
     /\ StageRank' > StageRank \/ (stage' = stage /\ Less(Left', Left))]_vars
=============================================================================
