# Verification of intune-cmdb-sync

TLA+ models, model-checking runs and machine-checked proofs for the connector in `src/`: a
scheduled, one-process Python program that copies the devices Microsoft Intune manages into the
ServiceNow CMDB. Paths below are relative to `src/src/intune_cmdb_sync/`.

## 1. The system

### Components, their state and how they interact

| Component | State | Operations | Talks to |
|---|---|---|---|
| Sync run (`sync.py`) | run report, writer, run state | collect, resolve, build payloads, write batches, retire, save | all below |
| Per-CI writer (`servicenow/writers/cmdb_instance.py`) | `aborted`, `_failures`, `_successes`, a lock, a thread pool per call | `write`, `_write_one`, `_record`, `_preview` | HTTP client |
| IRE writer (`servicenow/writers/ire.py`) | none | `write`, `_parse_results` | HTTP client |
| Run state and storage (`state.py`, `storage.py`) | device id -> CI map; a file or an S3 object | load, observe, missing, forget, save; read, write | file system, S3 |
| Entry points (`__main__.py`, `aws_lambda.py`, `appservice_job.py`) | process environment, log handlers, run id | `_run`, overrides, report, exit code | sync run, checks |
| Configuration and secrets (`config.py`, `secrets.py`) | cached secrets of a process | `from_env`, `resolve_secret` | SSM, files |
| HTTP client and tokens (`http.py`, `servicenow/auth.py`, `servicenow/client.py`) | cached token and its expiry, under a lock | `request` with retries, `token`, queries, PATCH | ServiceNow, Graph |
| Graph client (`graph.py`) | token credential | device pages, `$batch` with per-request retry, users | HTTP client |
| Resolvers (`reference_resolver.py`, `user_resolver.py`) | caches of a run | prime, resolve, create | ServiceNow client |
| Mapping (`mapping.py`) | none | CI values of a device | - |
| Access checks (`probe.py`, `access.py`, `discovery_source.py`, `classes.py`) | none | `--check`, `--check-api`, `--list-classes`, `--register-discovery-source` | ServiceNow client |
| Logging (`logging_setup.py`, `telemetry.py`) | root handlers, run id | configure, adopt, flush | the host |
| Queries and reports (`query_cli.py`, `cmdb_report.py`) | none | read-only queries | ServiceNow client |

The run is sequential but for the per-CI writer's pool. Two things outlive it: the CMDB and the
state file. Neither is written transactionally, so what a run leaves behind when a step fails is
the starting point of the next.

### What is hard here, and what correctness means

* **Retirement** (`sync.py` 476-535) compares a file an earlier run left with a list that may be
  partial, truncated or empty, after writes of which some failed. Correct: it retires only CIs of
  devices that are gone, never more than the configured share of them, and a device that is gone is
  retired in the end.
* **Partial failure and restart.** Any step may raise, the process may be killed, the save may
  fail; an error may hide a write that landed. Correct: the state file never loses a device whose
  CI is in service, and never names one that has no CI.
* **Exit code.** The scheduler sees nothing else. Correct: 0 means the run did its whole job.
* **The abort guard** of the per-CI writer is read outside the lock that protects it and lives
  across batches. Correct: bounded damage when nothing can be written; never in the way once
  something was.
* **Retries and tokens.** A request may be applied twice, or sent with a token that has expired.
* **Configuration mix.** Dry runs, limited runs and ordinary runs share the state file.
* **Partial answers.** Pages shift, parts of a `$batch` are throttled, a read is refused half way,
  IRE answers for fewer items than it was sent. Correct: nothing is lost, asked for without end or
  attributed to the wrong device.
* **Identity.** Placeholder serial numbers, several users with one value, one model under several
  manufacturers. Correct: no CI, person or catalogue record is taken for another's, none is created
  twice.
* **What a process leaves behind.** A warm container keeps its environment, secrets, handlers and
  run id; two processes may write one state file. Correct: each invocation is its own, and a reader
  never sees half a document.
* **Advice.** A check that says "ready" or names a cause must be right about the instance.

The full list, with a source line and the properties that cover each, is `hazards` in
`PROJECT.json`.

## 2. The modules

| Module | Models | Composition |
|---|---|---|
| `CmdbInstanceWriter` | one run's per-CI writes by a thread pool, with the abort guard | - |
| `WriterContract` | what one call of `write()` promises about the guard | used by `SyncRun` and `CmdbInstanceWriterMC` |
| `ListingContract` | what `_collect_devices` promises about the list, cap included | used by `SyncRun`; `GraphListing` is proved to keep it |
| `CmdbInstanceWriterMC` | the writer with a history of the guard at the start of a call | instantiates `WriterContract` to check that the threads deliver it |
| `SyncRun` | run after run: load, collect, write, retire, save, exit | extends `WriterContract` for the writer it calls and `ListingContract` for the list, instantiates `CiLifecycle` |
| `CiLifecycle` | abstract: the life of a CI and of the record kept of it | refined by `SyncRun` |
| `Requests` | the retry loop and the shared token of a pool of threads, over a clock | what `CmdbInstanceWriter` takes as one step and `SyncRun` as a fault |
| `RunSettings` | the settings, the devices and the stage of one run | extended by the stages below |
| `GraphListing` | the paged device list with its ownership filter | a stage of `Pipeline` |
| `GraphBatch` | `$batch` in chunks and rounds | the hardware and user stages of `Pipeline` |
| `GraphAttribute` | the paged read of a custom attribute, started anew when refused | a stage of `Pipeline` |
| `UserResolver` | users matched to `sys_user` key by key | a stage of `Pipeline` |
| `ReferenceResolver` | `core_company` and `cmdb_model` rows found or created | two stages of `Pipeline` |
| `IreWriter` | what a device is identified as, and IRE's items matched by position | the last stage of `Pipeline` |
| `Pipeline` | one run from the first page to the report | extends the seven above |
| `StateStore` | a state file written through a temporary file, or an S3 object, by several processes | instantiates `AtomicRegister` |
| `AtomicRegister` | abstract: a document read and written whole | refined by `StateStore`, and by `Hosts` around it |
| `Startup` | the environment, its validation and the secrets cache | part of `Hosts` |
| `Access` | the check commands as decisions over what an instance grants | part of `Hosts` |
| `Hosts` | the processes: invocations from command line to exit code | extends `Startup`, `Access`, `StateStore` |
| `SyncRunMC`, `PipelineMC`, `HostsMC` | small fleets, tenants and deployments for TLC | - |
| `CmdbInstanceWriter_proofs`, `CmdbInstanceWriterMC_proofs`, `SyncRun_proofs`, `Requests_proofs`, `StateStore_proofs`, `Access_proofs`, `Hosts_proofs`, `Pipeline_proofs` | theorems | - |

`SyncRun` and `Pipeline` are two views of one run. `SyncRun` follows runs one after another and takes
the collection and the enrichment as a step that gives a list or raises; `Pipeline` opens that step
and the batches and ends with the report. What the first assumes of the list is `ListingContract`,
which the second is proved to keep (`PipelineListingKeepsContract`); with a device cap it may fall
short of the cap, as a device listed twice uses up two places, and devices that slip between two pages
make it one of the partial lists `SyncRun` has as the fault `partialFetch`. `Hosts` takes the whole run as the steps "loads", "works",
"saves", "reports", for several processes at once.

Operators commented "a bug of that kind" are not the code: each replaces the definition that follows
it (`mutants` in `PROJECT.json`) to show that a property notices.

### CmdbInstanceWriter

A device is its position in the payload list; `st[i]` is how far its write has come. `Submit` is
`pool.map` submitting a batch in order; `Pick`, then `Refuse` or `Send`, then `RecordSuccess`,
`RecordFailure` or `BodyRaises` are the steps of `_write_one`, cut where another thread can come
between: at the unlocked read of `self.aborted`, at the request, and at the lock of `_record`.
`CollectException` and `Return` are the two ways `list(pool.map(...))` ends. A POST with all its
retries is one step from "posting" to its outcome, because nothing of the writer's state changes
during it. The pool's size is `min(concurrency, len(batch))`; the bound `Cardinality(Busy) <
Concurrency` is the same thing, as a batch has no more devices than that in the second case.

### SyncRun

`cmdb` gives each CI "absent", "active" or "retired"; `store` is the set of ids in the state file;
`fleet` what Intune holds. `CiOf` is the CI that the class's identifier rules select for a device,
so two devices may share one. The rest is the state of the run in progress, reset by `Load`, with
`cfg` the configuration this run was started with: every run has its own. The actions follow
`SyncRunner.run` in order; `Collect` includes everything up to the payloads, with the early return
for an empty list; a batch is one of `WriteBatch` (one result per device), `BatchRejected`
(`ServiceNowError`), `BatchRaises` (an exception `_write_batch` does not catch) or `BatchCrashes`
(no `SyncError` at all); `EndWrites` is the code between the last batch and the first PATCH,
including the whole of `_retire_missing`'s decision; each PATCH is a step; `Save` and `Finish` are
the rest of `run` and of `_run`. `Kill` may come anywhere.

`Faults` selects what may go wrong, so that a property can name the fault it does not survive. Left
out here: the enrichment stages (`CollectRaises` is what a run feels of them; `Pipeline` has them),
the steps of a save and its storage (`StateStore`), the values of the fields other than
`install_status`, and an entry's fields other than the sys_id. A create that IRE reports as a
success without a sysId appears only with `noSysId` among the faults. `Retires` and the properties
read `cfg` of the last run while `phase` is "idle".

`CiLifecycle` states the promise in the two variables that outlive a run: a CI is retired only for
a device on record, a device comes on record only when its CI exists and comes off only when it is
retired. `FollowsLifecycle` is the claim that `SyncRun`, with all it keeps in memory hidden, does
that; the mapping is the identity on `cmdb` and `store`.

### Requests

A token is the instant it expires at, so `header[t] <= now` means a thread sends an expired one.
`UseCached`, `BeginFetch`, `Fetched` and `FetchFails` are `ServiceNowAuth.token()` under its lock,
`Send`, `Answered`, `Throttled`, `GivesUp` and `Wake` the loop of `RetryingClient.request`. A
transport error and a retryable status are one action, which differ in the delay only: the server's
hint, capped, or the jittered backoff. A thread that can act does so before `Tick`, so delays come
from answers, sleeps and the lock and not from the scheduler. Left out: the header formats of a hint,
a token endpoint that issues a token shorter-lived than it says, and Basic credentials.

### Pipeline and its stages

`stage` is where `SyncRunner.run` is: the list, the hardware detail, the memory attribute, users from
Graph, users matched, references primed, payloads built, batches written. A stage the settings do
not ask for is skipped (`From`), and its working storage is reset when it ends. `Fail` is an
exception out of any stage that asks somebody.

* **GraphListing.** One step per page. The server honours the filter, ignores it or answers 400, after
  which the request is repeated without it. Pages shift: a page may begin with a device listed
  before, and a device still to come may slip to a page that was read and is never listed
  (`missed`). `is_corporate` is the client's own check; a limit cuts the list off.
* **GraphBatch.** `_batch_get`: a chunk is answered part by part ("ok", "throttled", "gone") or fails
  as a whole where that is optional; throttled keys go to the next round. `verdict` and `tries` are
  histories for the properties.
* **GraphAttribute.** `get_custom_attribute_values` and `_fill_ram_from_attribute`: a refusal on any
  page restarts the read in the plainer form; a value fills in what the detail left empty. The CPU
  attribute is the same read into another field and is not repeated.
* **UserResolver.** `resolve_many`: per key, all unmatched users at once, their values in one ordered
  dict, queries in chunks with a row limit, inactive rows, several rows of one value, values no query
  can carry. Values are texts already stripped and lowercased. `cut` records that some query reached
  its row limit.
* **ReferenceResolver.** `prime`, `references_for`, `_resolve`, `_create_record` and the model that
  waits for its manufacturer. `books` holds the caches with histories of what the instance had and
  what was created. A name is the name of a record of one of the two tables (`TableOf`). The records
  the instance has (`stock`) may bear one name several times; `_lookup` asks for the names in chunks,
  in any order, and reads one page of each answer, so that the records of some names may leave no room
  for those of others (`MayHide`). Of the rows that do fit, any may be returned.
* **IreWriter.** `CiFor` is what IRE identifies a device by: a usable serial number, else its name.
  An item is about one device of the batch and holds an operation, errors or nothing usable. Items
  come in the order sent, and any of them may be left out; the code pairs them with the devices by
  position, right or wrong. `shifted` records that an answer left one out before others.

Left out: a device without an Intune id, which Graph does not list; errors that consist of blank
text only.

### StateStore, Startup, Access and Hosts

`StateStore` has one action per system call of `LocalStateStore.write` and one for S3's
`put_object`; each may fail or be cut off by a kill. Processes die; machines do not lose power
(nothing calls `fsync`, and nothing here claims otherwise).

`Hosts` boots processes of three kinds. A terminal and a WebJob run once; a Lambda container stays
and takes event after event. `Enter` is `main` with `_apply_overrides`, `ReadConfig` is `from_env`
with the secrets it looks up, `Leave` the `finally` clauses on the way out, for a return and for an
exception that escapes (exit `Raised`). The commands other than sync are one step each, being
sequences of reads whose outcome `Access` computes: `Fact` says how the instance receives each
endpoint, `Response` and `Classify` turn it into a verdict, and the tables of `probe.py`,
`access.py` and `discovery_source.py` into conclusions. A 500 is retried by the client and ends as
"no answer". A setting of the wrong form makes the configuration invalid after all lookups, where the
code raises at the first one it meets; the invocation ends with exit 2 either way. A sync that finds no
devices returns before it saves (`sync.py` 91-94), which `SyncSaves` has as a choice of its own, as a
dry run has it.

## 3. The runs

| Run | Question | Result |
|---|---|---|
| `writer` | all interleavings of 3 workers, 7 devices in 3 batches, threshold 4, with bad bodies | holds |
| `sync` | any sequence of ordinary, dry and limited runs in both write modes, with failed, lost and unacknowledged writes, outages, bad bodies, failed saves and kills | holds |
| `sync_guard` | the same when Graph leaves devices out, state cannot be read, PATCHes are refused, IRE gives no sysId | holds |
| `requests` | two threads, two requests each, throttled and failing, around a token that comes due | holds |
| `pipeline` | one run under four settings: rejected filters, doubled and slipped devices, throttled and lost parts, restarted reads, ambiguous users, crowded lookups, refused creates, IRE answers that leave items out | holds |
| `hosts` | two processes with one state file in four deployments: overrides, secrets, handlers, commands, exceptions and kills at every step of a save | holds |
| `requests_retry` | is a token never sent once expired, as the comment on the skew says | violated |
| `writer_badbody` | does one device's answer never end the run, as the code's comment says | violated |
| `sync_reenrolled` | is only what left Intune retired, when a machine is enrolled anew | violated |
| `sync_outage` | does an outage mark a batch and let the run go on, as comment and docs say | violated |
| `sync_loststate` | is a run that lost its state degraded, as comments say | violated |
| `users_localpart` | is a user matched by his principal name before its local part, as the docstring says | violated |

**writer.** `PostBudget`: when nothing succeeds at most threshold + workers - 1 POSTs are made, over
all batches. `SuccessDisarms`: after one success no later failure stops the run. `CallsKeepContract`:
results and guard after a call are what `WriterContract` allows, which is what `SyncRun` assumes.
`CallEnds`: every call ends, also when a worker raised and futures were cancelled. Bounds: 7 devices,
3 to a batch and 4 failures make the guard trip inside the second batch while two POSTs are out, and
leave a third batch that has to be refused; three workers are enough for a check, a record and a
POST to overlap.

**sync.** `RetireOnlyDeparted`, `HonestExit`, `OkMeansNothingMissing`, `WrittenIsLive`,
`DryRunIsReadOnly`, `FollowsLifecycle` and the liveness properties `DepartedNotForgotten` (a departed
device stays on the books for ever only if runs keep reporting trouble, or keep being started in a
way that rules retirement out) and `RunEnds`. Bounds: three devices and three CIs, of which one
device never leaves (so the list is never empty, see the observations); batches of 1, 2 and 3, so a
run has one or several and a short last one; a share of one half, so that one device of three
missing is retired and two are refused; a per-CI threshold of 2, reached inside a batch and across
batches. Runs follow one another without a bound.

**sync_guard.** `NoMassRetirement` under the faults the run above leaves out, with a fleet that may
vanish as a whole. `IInv` is checked in both regimes: it is the invariant the proofs carry.

**requests.** `RefreshOnlyWhenDue`, `FirstAttemptFresh`, `EndsInTime` (a request is over within its
retries, capped sleeps and the token requests ahead of it, for any hint) and `EveryRequestEnds`.
Bounds: two threads are enough for one to wait for the other's refresh, two requests each for a token
that was fetched, used and has come due; in units of about 40 seconds a sleep of 3 exceeds the skew
of 2, as 120 seconds do 60; a hint of 6 exceeds the cap. `Horizon` is long enough for a request that
starts at 4 to take its longest, and nothing starts that could not end before it, so that the bound
cuts no request off.

**pipeline.** `ListingComplete`, `ThrottledGetsAllTries`, `AnsweredOnce`, `AttributeWhole`,
`AssignedIsUnique`, `BatchIsPerUser` (a user who shares no value with
another gets in a lookup of many the row he would get alone; finding 6 is about the others),
`CreateOnce`, `NoDuplicateRow` (what the instance had is not created again, but for the names
`CrowdedOut` describes and those no query can carry), `LinkedByName`,
`EveryDeviceAccounted`, `ObservedIsOwn`, `OnlyOwnedWritten`, and `EveryStepIsProgress`: every step
brings a run closer to its end, by a measure on pairs of numbers. TLC's deadlock check adds little to
it, since nearly every stage may also end with an exception; that there always is a step other than
that one is proved (`PipelineNeverStuck`). The two together are termination without a fairness
assumption. Bounds: four devices, one of them of another owner; two
with one placeholder serial number, one of these without a name; pages of 2, so the list has up to
three; `BatchLimit` 2 (20 in the code) and one retry, so a round has two chunks and a last round
exists; three users of whom two share a local part; chunks of 2 values (50) with 2 rows per value
(4), so a query's answer can be cut off; a maker spelled two ways by alias and one whose name no
query can carry; devices with one model name under no and under a known maker, and a model of another
maker. The catalogue may hold the first model twice, and a lookup of two names (`NamesPerQuery`; 40 in
the code) reads one row for each (`RowsPerName`; 4 in the code), so the duplicates can fill the answer
and hide the second model. One device
may be listed twice, another slip from the second page (`Slipping`), and the order within a page is fixed, which keeps the number of lists small
without hiding a case: each property but `EveryDeviceAccounted` speaks of sets of devices. Four
settings, each with the stages that interact, instead of all combinations: the stages share only the
list, the links and the assignments.

**hosts.** `InvocationIsItsOwn`, `TelemetryKept`, `CheckTellsTruth`, `DiagnosisHolds`,
`ImplementsRegister` and the inductive invariant. Two processes are enough for one to read, write or
die between two steps of another's save; one document is enough to tell whole from torn and from
none (the proof covers any set of documents). Four deployments: the
Lambda, the WebJob, a laptop and one with an unfinished configuration, each with the instances that
make its decisions differ. The processes are interchangeable, so the run uses symmetry; it has no
liveness property.

Some properties are checked without a fault that is known to break them: `RetireOnlyDeparted` with
distinct CIs and complete lists, `FollowsLifecycle` with a state file that can be read, `HonestExit`
without IRE successes that lack a sysId (such a device is reported written and is not recorded, see
`sync.py` 458), `AssignedIsUnique` and `BatchIsPerUser` unless a query's row limit was reached
(`cut`), `NoDuplicateRow` but for names no query can carry and names that records of others crowd out of the
answer (`CrowdedOut`), `ListingComplete` but for devices that slipped between pages (`missed`),
`ObservedIsOwn` for a fleet whose usable serial numbers and names differ and unless an answer of IRE
left an item out before others (`shifted`), `CheckTellsTruth` for the endpoint the check asks, `OkMeansNothingMissing` without refused PATCHes, `WrittenIsLive` with
`SNOW_INSTALL_STATUS_ACTIVE` set. The finding runs and the observations say what happens otherwise.

### Fairness

`CmdbInstanceWriter!FairSpec` has weak fairness of `Next`: threads are scheduled, and a request ends
because its retries and timeouts are bounded (`http.py` 142, `max_retries`). `SyncRun!FairSpec` has
weak fairness of `Step`: the program goes on, and the scheduler starts the next run when one is
over. `Requests!FairSpec` has weak fairness of each thread and of the clock: an attempt ends because
httpx has a timeout (`http.py` 104), a sleep because time passes. `threading.Lock` promises no order
among waiters and none is assumed. `Pipeline` and `Hosts` assume no fairness: the first has
`EveryStepIsProgress` in its place, the second claims nothing that must happen. No fairness is
assumed of the fleet, of kills, or of success: an outage may last for ever.

## 4. What disagrees with the code's own words

The six violation runs are findings in `PROJECT.json`. For four of them a theorem says where the
claim does hold, and so what exactly the cause is:

1. `cmdb_instance.py` 214: a 2xx body that is not JSON raises past the handler whose comment says
   one failing device must not sink the run; no report is written, the exit is a traceback. Nothing
   else does that (`WriterRaisedByBody`): with JSON bodies only the comment is true
   (`WriterOneFailureDoesNotSinkTheRun`).
2. `sync.py` 496: a machine enrolled again under a new Intune id is retired right after it was
   written, because the old id is missing and both stand for one CI.
3. `sync.py` 425: only `ServiceNowError` is contained to a batch; outages and failed tokens end the
   run. The comment in the handler (426-428) has "(auth, endpoint, instance outage)" among what it
   contains, and `docs/architecture.md` 198 says the same of a batch that is rejected; 197 documents
   the abort ("Auth or connectivity failure | Abort; partial report still written | 3"), which is what
   the code does, so that it is the comment that has to go. With the per-CI writer, or without an outage, the claim is true (`SyncBatchFailureContained`).
4. `storage.py` 44 and `state.py` 43: an unreadable state file is taken for an empty one and
   overwritten, and the run exits 0.
5. `http.py` 136: the token is asked for once, before the retry loop; a sleep of up to 120 seconds
   exceeds the skew of 60, and the next attempt carries an expired token. It is true of settings
   under which all the attempts and sleeps of a request fit into the skew
   (`RequestsNoExpiredTokenSent`); under any, the token has expired by no more than the difference
   (`RequestsStaleAtMost`).
6. `user_resolver.py` 152: the unmatched users of a lookup share one ordered dict of candidate
   values; another user's local part can stand before a user's own principal name, and the first
   value with a row wins. A Mac is assigned to the wrong person, contrary to the order the module's
   docstring (line 13) gives. Where no two users share a value the docstring is true
   (`PipelineDocumentedMatch`).

Observations made while modelling, without a run of their own:

* A refused retirement PATCH is only logged (`sync.py` 525-530): exit code 0 with a departed device
  still in service. With `patchRefused` among the faults `OkMeansNothingMissing` fails.
* An empty device list returns before the guard (`sync.py` 91): exit code 0 when the whole fleet is
  missing. With `Permanent = {}` `OkMeansNothingMissing` fails.
* The share is taken over devices known *after* this run's writes (`sync.py` 500), so many new
  enrolments let a larger share of the old ones be retired than the setting says. That is all there
  is to it: `SyncGuardCountsNewcomers` has the share bounded over the old and the new devices
  together, and over the old ones alone in a run that collects nothing new.
* Without `SNOW_INSTALL_STATUS_ACTIVE` a device that comes back stays retired (`mapping.py` 209).
* A token that lives for less than 90 seconds is used for 30 seconds regardless of the skew
  (`auth.py` 110): with a lifetime of 1 among `Lifetimes` `FirstAttemptFresh` would fail but for its
  premise `LongLived`.
* Retirement also runs after every write of the run failed (`sync.py` 113-149). A device whose
  ownership changes from company to personal is "missing" like one that left, and is retired.
* A device listed twice makes two payloads with one outcome entry; in per-CI mode both are posted at
  the same time.
* IRE's items are matched by position (`servicenow/writers/ire.py` 175-184). Too few of them are
  noticed; one left out before others gives the devices after it the sys_id of the next, which
  retirement would PATCH one day. `ObservedIsOwn` holds until such an answer comes, and not after.
* A lookup of reference names reads one page of four rows for each name it asks for
  (`reference_resolver.py` 184-190). Where some names have many rows, as models often do, they fill
  the page; a name that has a record is then not found and, with creation on, created again, which
  adds a row for every run this happens in and so crowds the next lookup more. `NoDuplicateRow` says
  that it takes rows of other names of the table worth at least two names' share, and nothing less.
* A page of the device list may shift while it is read (`graph.py` 358): a device that slips to a page
  already read is not listed, counts as gone and, below the guard's share, is retired.
* `access.py` 41 says `--check` will "prove the IRE write path works"; it posts to
  `/identifyreconcile/query` (85-90), while a run that writes posts to `/identifyreconcile` or its
  enhanced form (`ire.py` 103-110). An instance that lets the first through and refuses the second
  passes `--check` and fails every write (`CheckMissesWriteGate`, a theorem); `--check-api`, which
  asks the endpoint itself, exits with 3 on it. So `CheckTellsTruth` is stated for what is asked.
* A retried create whose first POST was applied leaves two rows (`reference_resolver.py` 198), and a
  name with `^` is found by no query and created anew in every run (182). A `RetryableHTTPError` from a
  create or from the user `$batch` ends the run, as does a 2xx `$batch` body that is not JSON, even
  for the optional hardware detail.
* A query's row limit may hide the second row of a value (`user_resolver.py` 170): an ambiguous
  user then looks unique.
* `secrets.py` 59 caches an SSM answer, a failed one included, for the life of the process: after
  `aws ssm put-parameter --overwrite`, which `deploy/aws/README.md` gives as all there is to rotating
  a secret, a warm container keeps the old one.
* Two overlapping runs keep the file whole, but the later save drops what the earlier one recorded;
  `deploy/aws/README.md` 130-135 keeps runs apart. `LocalStateStore.read` catches `OSError` only: a
  file that is not UTF-8 raises.
* A report location that is no valid S3 URL raises after a finished run, before the exit code
  (`__main__.py` 185: `build_state_store` is called outside the `try`). `aws_lambda.py` 24-26 says it
  returns a summary rather than raising, which holds for `SyncError` only.
* `probe.py` 149 judges the write path by the plain IRE endpoint even with
  `SNOW_USE_ENHANCED_IRE=true`, where the docstring (148) and the help text (`__main__.py` 82-83) say
  the endpoint the sync uses; `--check` and `--check-api` test different endpoints.
* `classify` takes a 500 for "authorized" (`probe.py` 332), which no response reaches: `http.py` 23
  retries it. The diagnosis says nothing when every write is gated and no read succeeds
  (`probe.py` 392, 479).
* A second `appservice_job.run()` in one process would log through the first one's exporter, already
  shut down; a WebJob runs once per process, and the model has it so.

## 5. The proofs

For all values of the constants, checked by TLAPS:

* **Writer.** `WriterInvariant` (`IInv` is inductive), from it `WriterTypeOK`, `WriterPostBudget`,
  `WriterSuccessDisarms`. `PostBudget` alone is not inductive: the proof needs that the counters
  equal the numbers of results (`CountersAgree`), that the busy workers are at most `Concurrency`,
  that an untripped guard is below its threshold, and, once it has tripped, that failures and POSTs
  still out stay within the budget (`GuardInv`). `WriterRaisedByBody` needs only that a raised call
  had a bad body, which is inductive by itself. One lemma, `InMove`, says how the set of devices in
  a status changes when one device moves, and every action's lemma uses it.
  `WriterCallsKeepContract` shows that the pool keeps `WriterContract`, which `SyncRun` assumes of the
  writer. Its invariant `CallBooks` carries the guard as it was when the call began: the counts then
  are those of the devices of earlier calls, which no worker touches any more; a guard tripped before
  the call lets no POST out; one tripped within it has its reason in the counts.
  `WriterWorkShrinks` and `WriterNobodyWaitsForNobody` are what liveness rests on: the work left
  (each device counted once for every step before it) is at most `5N + 1` and less after every step,
  and some thread can go on until the call is over.
* **Sync run.** `SyncInvariant` (`IInv` is inductive), from it `SyncTypeOK`, `SyncNoMassRetirement`,
  `SyncRetireOnlyDeparted` (for distinct CIs and complete lists), `SyncFollowsLifecycle` (for a
  readable state file; a refinement: initial states map to initial states, every step to a step of
  `CiLifecycle` or a stutter), `SyncDryRunIsReadOnly`, and three about the exit code:
  `SyncHonestExit` (where IRE names what it reports written), `SyncOkMeansNothingMissing` (complete
  lists, no refused PATCH, a fleet never empty) and `SyncWrittenIsLive` (distinct CIs,
  `install_status` set). `Bookkeeping` is needed because a PATCH happens long after the decision: what
  is left to retire must still be missing, known, on file and in the CMDB. `RetirePlan` carries the
  decision and the completeness of the list to the step that acts on it. The four books
  (`ReportBooks`, `SavedBooks`, `MissingBooks`, `LiveBooks`) carry to the exit code what it stands
  for: that nothing is degraded without being said, that the save took in every write, that who is
  missing is still to be retired, and that what was written is in service. `RunBooks` is about the run
  under way (its exit is open until it is idle, what it loaded stays known until something is retired,
  what it retired was missing and the share allowed it) and gives `SyncBatchFailureContained`,
  `SyncGuardCountsNewcomers` and `SyncRetiredWithinShare`, which bounds the loop as a whole where
  `NoMassRetirement` speaks of each PATCH. `FileBooks` gives `SyncOkForgetsDeparted`: after an exit
  with 0 of a run that may retire, nobody in the file had left Intune when the run asked.
  `SyncRunGetsOn` (every step goes to a later stage or lessens what is pending or left to retire) and
  `SyncNeverStuck` (a list, a batch of the right size and an answer the writer can give exist
  whenever one is needed) are the halves of termination that need no fairness.
* **Requests.** `RequestsInvariant` (`IInv == StateInv /\ TimeInv` is inductive), from it
  `RequestsTypeOK`, `RequestsRefreshOnlyWhenDue`, `RequestsFirstAttemptFresh` and
  `RequestsEndsInTime`. That a token is replaced only when due needs the other direction too: while
  the lock is held the token stays due, since only the holder can replace it (`LockInv`). The time
  bound is a count: a request has spent no more than its attempts, its capped sleeps and one fetch
  for each request served at the lock before it, and no thread is served more often than it has
  requests. The age of a token is bounded in the same way (`AgeInv`): with each retry it may fall
  behind by one attempt and one capped sleep, which gives `RequestsStaleAtMost` and
  `RequestsNoExpiredTokenSent`. `RequestsNobodyStuck` needs that a request began early enough to end
  before the last instant of the model (`StartInv`), hence that this bound cuts none off.
* **State storage and hosts.** `HostsInvariant`, from it `HostsInvocationIsItsOwn`,
  `HostsTelemetryKept` and `HostsImplementsRegister`: every step of every process maps to a step of
  `AtomicRegister` or a stutter, which needs that a filled temporary file holds the whole of what its
  process is writing (`StoreBooks`). `StateStore_proofs` has the lemmas about the store alone.
* **Checks.** `DiagnosisRight` and `CheckRight` follow the decision tables through every combination
  of facts; `HostsDiagnosisHolds` and `HostsCheckTellsTruth` lift them to what a process reports,
  rotated secrets included. `CheckMissesWriteGate` gives the instance on which an exit code of 0 of
  `--check` says less than its documentation.
* **Pipeline.** `PipelineInvariant`, the conjunction of the books of the stages: each stage is
  disturbed by its own actions only, so an action's lemma has one part to show and one
  (`OthersKeep...`) for the rest. From it `PipelineListingComplete`, `PipelineThrottledGetsAllTries`,
  `PipelineAnsweredOnce`, `PipelineAttributeWhole`, `PipelineCreateOnce`, `PipelineNoDuplicateRow`,
  `PipelineLinkedByName`, `PipelineOnlyOwnedWritten`, `PipelineObservedIsOwn` (where usable
  serial numbers differ, and so do the names of the devices without one; that devices then select
  different CIs is its first step). What takes work for the reference books is the lookup: names are
  put in any order and cut into chunks, and a hidden name is in a chunk of at least two names whose
  answer is full (`HiddenIsCrowdedOut`); a create is
  then for a name the cache lacks, hence one that was not there, not safe to ask for, or crowded out. `PipelineAssignedIsUnique` has an invariant of its own,
  `UserBooks`: what an earlier key gave a user stands, and was the only row of the value it came from.
  So has `PipelineEveryDeviceAccounted`: by `Accounts`, every listing of a device is, counted, an entry
  of the report or a payload still to be written. And `PipelineBatchIsPerUser`: by `PerUser`, a user
  still unmatched was given no row, and a user given one has the row of the first hit; a later key
  cannot come before it, and within a key an earlier slot has the earlier place.
  `PipelineEveryStepIsProgress` has the measure of each stage, a pair of numbers, decrease, with the
  key under way within its bounds (`KeyBooks`) as the only further fact. `PipelineNeverStuck` has a
  step for each stage; what takes work is the user lookup: the chunks of a key have no row in common,
  so that rows for all the queries exist when each query alone has some, and a finite set has a subset
  of every size up to its own, for the row limit. `StageBegun` says what a stage may count on when it
  begins.

Assumptions: the named `ASSUME`s of the modules (`SizesAssumption`, `ConstantsAssumption`,
`TimesAssumption`, `PowersAssumption`, `StoreAssumption`, `HostsAssumption`, `SettingsAssumption`,
`PageAssumption`, `BatchAssumption`, `AttributeAssumption`, and those of the two resolvers), which TLC
evaluates in every run, and the ones a theorem states. `PowersAssumption` says that the backoff
`Base * 2^n` is a number, of which the provers know nothing.

Only model-checked: liveness (`CallEnds`, `DepartedNotForgotten`, `RunEnds`, `EveryRequestEnds`); the
prover handles neither fairness nor ENABLED. Proved of each is what is left without fairness: of
`CallEnds` and `RunEnds` that every step leaves less to do and that one is always there, of
`EveryRequestEnds` that a request ends in time and that a thread or the clock can go on, of
`DepartedNotForgotten` that a run that ends well forgets who has departed. "One is always there" is
stated by the guards of the actions, spelled out, with the existence of what they choose.

## 6. Not modelled, and what is left

Not modelled, because there is no state or decision to go wrong: queries and reports (`query_cli.py`,
`cmdb_report.py`), the formatting and redaction of log records, the texts of `errors.py`, the values
of CI fields that are copied from a device, `stringify_attributes`, and the infrastructure under
`deploy/` and `servicenow-app/`. Not modelled, because it is a conversion of one text: the header
forms of a Retry-After and the spelling of numbers and flags in the environment. Basic credentials
have no token and so nothing to share. Power loss is beyond what the code addresses.

What could be added: that `Pipeline` as a whole, not its list alone, does what `SyncRun` takes as
single steps, a device listed twice included; and a composition of `Hosts` with `SyncRun` in which overlapping runs share the document's contents, to say exactly what
the later save drops.
