------------------------------ MODULE SyncRun ------------------------------
(***************************************************************************)
(* Successive runs of SyncRunner.run (sync.py) against a changing fleet:   *)
(* load the state file, collect the devices Intune reports, write their    *)
(* CIs batch by batch, retire the CIs of devices that are gone, save the   *)
(* state file, exit with a code the scheduler reads (__main__._run).       *)
(* One run at a time: the deployments' schedulers start the next run when  *)
(* the last one is over.                                                   *)
(***************************************************************************)
EXTENDS Naturals, FiniteSets, ListingContract, WriterContract

CONSTANTS
  Device,     \* Intune managed-device ids that pass the ownership filter
  Ci,         \* CMDB records, by sys_id
  CiOf,       \* the CI the class's identifier rules select for a device
  Permanent,  \* devices that never leave the fleet (an hypothesis; {} for none)
  Configs,    \* the configurations runs are started with; each run has its own
  Faults      \* what may go wrong around the program

WriteModes == {"identify_reconcile", "cmdb_instance"}

(***************************************************************************)
(* What of Config a run depends on: SNOW_WRITE_MODE, SNOW_BATCH_SIZE,      *)
(* SNOW_ABORT_AFTER_ERRORS, SNOW_RETIRE_MISSING, SNOW_RETIRE_MAX_FRACTION  *)
(* as num/den, INTUNE_DEVICE_LIMIT (0: none), whether                      *)
(* SNOW_INSTALL_STATUS_ACTIVE is set, --fail-on-error, --dry-run.          *)
(***************************************************************************)
Config == [mode : WriteModes, batch : Nat \ {0}, abort : Nat, retire : BOOLEAN,
           num : Nat, den : Nat \ {0}, limit : Nat, reactivate : BOOLEAN,
           failOnError : BOOLEAN, dryRun : BOOLEAN]

(***************************************************************************)
(* "partialFetch": Graph answers with part of the fleet.  "unmapped": some *)
(* devices yield no payload.  "itemError": a device's write is refused.    *)
(* "lostAnswer": a write reported as an error reached the CMDB.            *)
(* "noSysId": IRE reports a success without a sysId.  "rejected": a        *)
(* request is refused as a whole (ServiceNowError).  "outage": a request   *)
(* fails after all its retries, or no token is to be had                   *)
(* (RetryableHTTPError, AuthError, GraphError).  "badBody": a 2xx whose    *)
(* body is not JSON.  "patchRefused": a retirement PATCH is refused.       *)
(* "storeRead", "storeWrite": the state file cannot be read, be written.   *)
(* "kill": the process ends at any point.                                  *)
(***************************************************************************)
FaultKinds == {"partialFetch", "unmapped", "itemError", "lostAnswer", "noSysId", "rejected",
               "outage", "badBody", "patchRefused", "storeRead", "storeWrite", "kill"}

ASSUME ConstantsAssumption ==
  /\ IsFiniteSet(Device)
  /\ CiOf \in [Device -> Ci]
  /\ Permanent \subseteq Device
  /\ Configs \subseteq Config
  /\ Faults \subseteq FaultKinds

VARIABLES
  fleet,     \* what Intune holds
  cmdb,      \* "absent", "active" or "retired", for each CI
  store,     \* the device ids in the state file ({}: none yet)
  cfg,       \* the configuration of the run
  phase,     \* where the run is
  known,     \* SyncState.devices
  fetched,   \* ids of the devices collected (current_ids)
  payloads,  \* ids of the devices with a payload
  pending,   \* those whose batch has not been written yet
  written,   \* outcomes inserted, updated or unchanged
  failed,    \* outcomes in error
  aborted,   \* writer.aborted is not None
  toRetire,  \* missing devices whose PATCH is still to come
  retired,   \* the set `retired` of _retire_missing
  degraded,  \* report.degraded is not empty
  exit,      \* "running", or how the last run ended
  loaded,    \* history: the ids this run read from the state file
  census     \* history: the fleet when this run asked for it

run == <<cfg, phase, known, fetched, payloads, pending, written, failed, aborted, toRetire,
         retired, degraded, exit, loaded, census>>
vars == <<fleet, cmdb, store, run>>

Phases == {"idle", "loaded", "writing", "retiring", "exiting"}
Exits == {"running", "ok", "failed", "partial", "crashed", "killed"}
CiStatus == {"absent", "active", "retired"}

May(fault) == fault \in Faults

-----------------------------------------------------------------------------
Init ==
  /\ fleet \in SUBSET Device
  /\ Permanent \subseteq fleet
  /\ cmdb \in [Ci -> {"absent", "active"}]
  /\ store = {}
  /\ cfg \in Configs
  /\ phase = "idle"
  /\ known = {} /\ loaded = {}
  /\ fetched = {} /\ census = {}
  /\ payloads = {} /\ pending = {}
  /\ written = {} /\ failed = {}
  /\ aborted = FALSE
  /\ toRetire = {} /\ retired = {}
  /\ degraded = FALSE
  /\ exit = "ok"

-----------------------------------------------------------------------------
(* The fleet changes whenever it likes, also while a run is under way. *)
Enrol(d) ==
  /\ d \notin fleet
  /\ fleet' = fleet \cup {d}
  /\ UNCHANGED <<cmdb, store, run>>

Leave(d) ==
  /\ d \in fleet \ Permanent
  /\ fleet' = fleet \ {d}
  /\ UNCHANGED <<cmdb, store, run>>

(* The run is over without _run having reached its end. *)
Stop(how) ==
  /\ phase' = "idle"
  /\ exit' = how
  /\ UNCHANGED <<fleet, store, cfg, known, fetched, payloads, pending, written, failed, aborted,
                 toRetire, retired, degraded, loaded, census>>

(***************************************************************************)
(* SyncState.load: an existing file that cannot be read, or does not       *)
(* parse, loads as the empty state.                                        *)
(***************************************************************************)
StateReads == {store} \cup (IF May("storeRead") THEN {{}} ELSE {})

(* A new process, with a configuration of its own, loads the state file. *)
Load ==
  /\ phase = "idle"
  /\ phase' = "loaded"
  /\ cfg' \in Configs
  /\ known' \in StateReads
  /\ loaded' = known'
  /\ exit' = "running"
  /\ fetched' = {} /\ census' = {}
  /\ payloads' = {} /\ pending' = {}
  /\ written' = {} /\ failed' = {}
  /\ aborted' = FALSE
  /\ toRetire' = {} /\ retired' = {}
  /\ degraded' = FALSE
  /\ UNCHANGED <<fleet, cmdb, store>>

(* What iter_managed_devices yields: the fleet, or part of it. *)
Listing(S) == IF May("partialFetch") THEN S \subseteq fleet ELSE S = fleet

(***************************************************************************)
(* verify_connectivity, _collect_devices, which keeps what ListingContract *)
(* says, and everything up to _build_payloads.  No device: the run returns *)
(* there, with nothing degraded.                                           *)
(***************************************************************************)
Collect ==
  /\ phase = "loaded"
  /\ census' = fleet
  /\ \E S \in SUBSET fleet : \E kept \in SUBSET S :
       Listing(S) /\ Collected(cfg.limit, S, kept) /\ fetched' = kept
  /\ IF fetched' = {}
     THEN /\ phase' = "exiting"
          /\ payloads' = {}
     ELSE /\ phase' = "writing"
          /\ IF May("unmapped") THEN payloads' \in SUBSET fetched' ELSE payloads' = fetched'
  /\ pending' = payloads'
  /\ UNCHANGED <<fleet, cmdb, store, cfg, known, written, failed, aborted, toRetire, retired,
                 degraded, exit, loaded>>

(* A read of those stages fails for good, or answers what is not JSON. *)
CollectRaises ==
  /\ phase = "loaded"
  /\ UNCHANGED cmdb
  /\ \/ (May("outage") \/ May("rejected")) /\ Stop("failed")
     \/ May("badBody") /\ Stop("crashed")

-----------------------------------------------------------------------------
(* A bug of that kind: a loop that waits for a full batch. *)
FullBatch(B) == phase = "writing" /\ B \subseteq pending /\ Cardinality(B) = cfg.batch

(* One batch of _chunks: SNOW_BATCH_SIZE of the payloads to come, or the rest. *)
NextBatch(B) ==
  /\ phase = "writing"
  /\ B \subseteq pending
  /\ B # {}
  /\ Cardinality(B) = cfg.batch \/ (Cardinality(B) < cfg.batch /\ B = pending)

(* A bug of that kind: the status goes to a new CI only. *)
UpsertedOnce(S) ==
  [c \in Ci |-> IF cmdb[c] = "absent" /\ \E d \in S : CiOf[d] = c THEN "active" ELSE cmdb[c]]

(***************************************************************************)
(* The CMDB after the writes of the devices in S.  An existing CI takes    *)
(* the mapped values, among which install_status only if it is configured. *)
(***************************************************************************)
Upserted(S) ==
  LET hit == {CiOf[d] : d \in S}
  IN  [c \in Ci |-> IF c \in hit /\ (cmdb[c] = "absent" \/ cfg.reactivate)
                    THEN "active" ELSE cmdb[c]]

(* A bug of that kind: the dry run writes. *)
LandedAlways(landed) == Upserted(landed)

(* The CMDB when `landed` writes reached it; a dry run reads only. *)
Landed(landed) == IF cfg.dryRun THEN cmdb ELSE Upserted(landed)

(* The per-CI writer has no simulation: a dry run of it looks the CIs up. *)
Preview == cfg.mode = "cmdb_instance" /\ cfg.dryRun

(***************************************************************************)
(* What writer.write(B) can return: `ok` reported inserted, updated or     *)
(* unchanged, `landed` in the CMDB, `seen` reported with a sys_id, `now`   *)
(* the writer's aborted.  A dry run of an unknown device has no sys_id.    *)
(***************************************************************************)
Answer(B, ok, landed, seen, now) ==
  /\ (May("itemError") /\ ~Preview) \/ aborted \/ ok = B
  /\ May("lostAnswer") \/ landed = ok
  /\ IF cfg.dryRun
     THEN seen \subseteq {d \in ok : cmdb[CiOf[d]] # "absent"}
     ELSE (May("noSysId") /\ cfg.mode = "identify_reconcile") \/ seen = ok
  /\ IF cfg.mode = "cmdb_instance" /\ ~cfg.dryRun
     THEN /\ CallOutcome(cfg.abort, aborted, written = {}, Cardinality(failed),
                         ok, B \ ok, now)
          /\ aborted => landed = {}
     ELSE now = aborted

(* _write_batch with one result per device: the successes are observed. *)
WriteBatch(B) ==
  /\ NextBatch(B)
  /\ \E landed \in SUBSET B : \E ok \in SUBSET landed : \E seen \in SUBSET ok :
     \E now \in BOOLEAN :
       /\ Answer(B, ok, landed, seen, now)
       /\ aborted' = now
       /\ cmdb' = Landed(landed)
       /\ known' = known \cup seen
       /\ written' = written \cup ok
       /\ failed' = failed \cup (B \ ok)
  /\ pending' = pending \ B
  /\ UNCHANGED <<fleet, store, cfg, phase, fetched, payloads, toRetire, retired, degraded, exit,
                 loaded, census>>

(***************************************************************************)
(* write() raises ServiceNowError: every device of the batch is an error   *)
(* and the run goes on.  The per-CI writer raises none; in a dry run it    *)
(* reports such a batch as not predictable, neither written nor failed.    *)
(***************************************************************************)
BatchRejected(B) ==
  /\ NextBatch(B)
  /\ May("rejected")
  /\ \/ cfg.mode = "identify_reconcile" /\ failed' = failed \cup B
     \/ Preview /\ failed' = failed
  /\ pending' = pending \ B
  /\ UNCHANGED <<fleet, cmdb, store, cfg, phase, known, fetched, payloads, written, aborted,
                 toRetire, retired, degraded, exit, loaded, census>>

(***************************************************************************)
(* write() raises RetryableHTTPError or AuthError, which _write_batch does *)
(* not catch: the run is over, whatever part of the batch landed.  The     *)
(* per-CI writer turns both into the error of one device, except in the    *)
(* lookup of a dry run.                                                    *)
(***************************************************************************)
BatchRaises(B) ==
  /\ NextBatch(B)
  /\ May("outage")
  /\ cfg.mode = "identify_reconcile" \/ cfg.dryRun
  /\ \E landed \in SUBSET B : cmdb' = Landed(landed)
  /\ Stop("failed")

(* response.json() raises ValueError, which is no SyncError: a traceback. *)
BatchCrashes(B) ==
  /\ NextBatch(B)
  /\ May("badBody")
  /\ ~Preview /\ ~aborted
  /\ \E landed \in SUBSET B : cmdb' = Landed(landed)
  /\ Stop("crashed")

-----------------------------------------------------------------------------
(* SyncState.missing_since_last_run *)
Missing == known \ fetched

(* The share of known devices that may be missing, exceeded (1 for len 0). *)
OverShare(missing, total) ==
  Cardinality(missing) * cfg.den > cfg.num * (IF total = {} THEN 1 ELSE Cardinality(total))

(* A bug of that kind: the refusal is logged and nothing more. *)
GuardTripsQuietly == FALSE

(* _retire_missing refuses, which the report says. *)
GuardTrips ==
  /\ cfg.retire
  /\ cfg.limit = 0
  /\ OverShare(Missing, known)

(* Bugs of that kind: the early return for a device limit, the guard are gone. *)
RetireesUnderLimit ==
  IF cfg.retire /\ ~OverShare(Missing, known) /\ ~cfg.dryRun THEN Missing ELSE {}

RetireesUnguarded ==
  IF cfg.retire /\ cfg.limit = 0 /\ ~cfg.dryRun THEN Missing ELSE {}

(* What _retire_missing sets out to PATCH. *)
Retirees ==
  IF cfg.retire /\ cfg.limit = 0 /\ ~OverShare(Missing, known) /\ ~cfg.dryRun
  THEN Missing ELSE {}

(* A bug of that kind: that nothing was written passes for data quality. *)
WritesDegradeLess == aborted

(* What run() reads in the counts and in the writer once all is written. *)
WritesDegrade == (payloads # {} /\ written = {}) \/ aborted

(***************************************************************************)
(* All batches are written: run() looks at what came of them and enters    *)
(* _retire_missing, which decides on the whole set before the first PATCH. *)
(***************************************************************************)
EndWrites ==
  /\ phase = "writing"
  /\ pending = {}
  /\ phase' = "retiring"
  /\ degraded' = (WritesDegrade \/ GuardTrips)
  /\ toRetire' = Retirees
  /\ UNCHANGED <<fleet, cmdb, store, cfg, known, fetched, payloads, pending, written, failed,
                 aborted, retired, exit, loaded, census>>

RetireOne(d) ==
  /\ phase = "retiring"
  /\ d \in toRetire
  /\ cmdb' = [cmdb EXCEPT ![CiOf[d]] = "retired"]
  /\ toRetire' = toRetire \ {d}
  /\ retired' = retired \cup {d}
  /\ UNCHANGED <<fleet, store, cfg, phase, known, fetched, payloads, pending, written, failed,
                 aborted, degraded, exit, loaded, census>>

(* The PATCH reached the CMDB or not; its answer did not say it did. *)
PatchUncertain(d) ==
  \E landed \in BOOLEAN :
    cmdb' = IF landed THEN [cmdb EXCEPT ![CiOf[d]] = "retired"] ELSE cmdb

(* update_record raises ServiceNowError: the loop logs it and continues. *)
RetireRefused(d) ==
  /\ phase = "retiring"
  /\ May("patchRefused")
  /\ d \in toRetire
  /\ PatchUncertain(d)
  /\ toRetire' = toRetire \ {d}
  /\ UNCHANGED <<fleet, store, cfg, phase, known, fetched, payloads, pending, written, failed,
                 aborted, retired, degraded, exit, loaded, census>>

(* It raises RetryableHTTPError or AuthError: nothing is forgotten or saved. *)
RetireRaises(d) ==
  /\ phase = "retiring"
  /\ May("outage")
  /\ d \in toRetire
  /\ PatchUncertain(d)
  /\ Stop("failed")

(* A bug of that kind: every missing device is forgotten, retired or not. *)
KnownWithoutMissing == known \ Missing

(* SyncState.forget *)
KnownWithoutRetired == known \ retired

(* The retired ids are forgotten and the state saved, except in a dry run. *)
Save ==
  /\ phase = "retiring"
  /\ toRetire = {}
  /\ phase' = "exiting"
  /\ known' = KnownWithoutRetired
  /\ \/ /\ store' = IF cfg.dryRun THEN store ELSE known'
        /\ UNCHANGED degraded
     \/ /\ May("storeWrite")
        /\ ~cfg.dryRun
        /\ degraded' = TRUE
        /\ UNCHANGED store
  /\ UNCHANGED <<fleet, cmdb, cfg, fetched, payloads, pending, written, failed, aborted, toRetire,
                 retired, exit, loaded, census>>

(* _run turns the report into the exit code. *)
Finish ==
  /\ phase = "exiting"
  /\ phase' = "idle"
  /\ exit' = IF degraded \/ (failed # {} /\ cfg.failOnError) THEN "partial" ELSE "ok"
  /\ UNCHANGED <<fleet, cmdb, store, cfg, known, fetched, payloads, pending, written, failed,
                 aborted, toRetire, retired, degraded, loaded, census>>

Kill ==
  /\ May("kill")
  /\ phase # "idle"
  /\ UNCHANGED cmdb
  /\ Stop("killed")

-----------------------------------------------------------------------------
Batch(B) ==
  \/ WriteBatch(B)
  \/ BatchRejected(B)
  \/ BatchRaises(B)
  \/ BatchCrashes(B)

Retire(d) ==
  \/ RetireOne(d)
  \/ RetireRefused(d)
  \/ RetireRaises(d)

(* A step of the program, or of the scheduler that starts it. *)
Step ==
  \/ Load
  \/ Collect
  \/ CollectRaises
  \/ \E B \in SUBSET pending : Batch(B)
  \/ EndWrites
  \/ \E d \in toRetire : Retire(d)
  \/ Save
  \/ Finish

Environment ==
  \/ \E d \in Device : Enrol(d) \/ Leave(d)
  \/ Kill

Next == Step \/ Environment

Spec == Init /\ [][Next]_vars

(* A started run goes on and the scheduler starts the next one. *)
FairSpec == Spec /\ WF_vars(Step)

-----------------------------------------------------------------------------
(* Every variable keeps its type; what a run knows is devices, nothing else. *)
TypeOK ==
  /\ fleet \subseteq Device
  /\ cmdb \in [Ci -> CiStatus]
  /\ store \subseteq Device
  /\ cfg \in Configs
  /\ phase \in Phases
  /\ known \subseteq Device
  /\ fetched \subseteq Device
  /\ payloads \subseteq Device
  /\ pending \subseteq Device
  /\ written \subseteq Device
  /\ failed \subseteq Device
  /\ aborted \in BOOLEAN
  /\ toRetire \subseteq Device
  /\ retired \subseteq Device
  /\ degraded \in BOOLEAN
  /\ exit \in Exits
  /\ loaded \subseteq Device
  /\ census \subseteq Device

(***************************************************************************)
(* How the sets of a run relate.  A device is known because the state file *)
(* named it or because this run collected it; whoever is known, or on      *)
(* file, has a CI; and, unless the state file could not be read, nothing   *)
(* on file drops out of what the run knows before it saves.                *)
(***************************************************************************)
Bookkeeping ==
  /\ pending \subseteq payloads /\ payloads \subseteq fetched
  /\ known \subseteq loaded \cup fetched
  /\ phase = "loaded" => known = loaded
  /\ \A d \in store \cup known : cmdb[CiOf[d]] # "absent"
  /\ phase \in {"loaded", "writing"} => toRetire = {} /\ retired = {}
  /\ (phase \in {"loaded", "writing", "retiring"} /\ ~May("storeRead")) =>
        loaded = store /\ store \subseteq known
  /\ phase = "retiring" => \A d \in retired : cmdb[CiOf[d]] = "retired"

(***************************************************************************)
(* What the retirement loop has left to do was decided on the sets the run *)
(* still holds; and the list behind the decision was the fleet itself,     *)
(* unless Graph left some of it out.                                       *)
(***************************************************************************)
RetirePlan ==
  /\ phase = "retiring" =>
        /\ toRetire \subseteq Missing
        /\ toRetire # {} => cfg.limit = 0 /\ ~cfg.dryRun /\ ~OverShare(Missing, known)
  /\ (phase \in {"writing", "retiring"} /\ cfg.limit = 0 /\ ~May("partialFetch")) =>
        fetched = census

(* No two enrolments share a CI: nothing was wiped and enrolled again. *)
DistinctCis == \A d, e \in Device : CiOf[d] = CiOf[e] => d = e

(* A run that may retire: no dry run, and a list that was not cut short. *)
Retires == cfg.retire /\ cfg.limit = 0 /\ ~cfg.dryRun

(* The run has nothing to report to the scheduler, or has reported that. *)
Silent == (phase # "idle" /\ ~degraded) \/ (phase = "idle" /\ exit = "ok")

(* The counts behind the report, from the first batch to the exit code. *)
ReportBooks ==
  /\ phase = "loaded" => ~aborted /\ payloads = {} /\ written = {} /\ failed = {}
  /\ phase \in {"loaded", "writing"} => ~degraded
  /\ written \subseteq payloads
  /\ retired \cap fetched = {}
  /\ Silent /\ phase \in {"retiring", "exiting", "idle"} => ~WritesDegrade
  /\ phase = "idle" /\ exit = "ok" /\ cfg.failOnError => failed = {}

(* Where every success has a sys_id, what is written is known, then saved. *)
SavedBooks ==
  (~May("noSysId") /\ ~cfg.dryRun) =>
    /\ phase \in {"writing", "retiring"} => written \subseteq known
    /\ Silent /\ phase \in {"exiting", "idle"} => written \subseteq store

(* Where no PATCH is refused and Graph's list is never empty, the loop deals
   with all that is missing unless the guard stops it. *)
MissingBooks ==
  /\ Permanent \subseteq fleet
  /\ (~May("patchRefused") /\ ~May("partialFetch") /\ Permanent # {} /\ Retires /\ Silent) =>
       /\ phase = "retiring" => Missing = toRetire \cup retired
       /\ phase \in {"exiting", "idle"} => Missing = {}

(* Where no CI is shared, what a run writes stays active to its end. *)
LiveBooks ==
  /\ DistinctCis
  /\ \A c \in Configs : c.reactivate
  /\ ~cfg.dryRun
  /\ phase # "idle" \/ exit = "ok"
  => \A d \in written : cmdb[CiOf[d]] = "active"

(* The invariant the proofs carry; it is inductive. *)
IInv ==
  /\ TypeOK
  /\ Bookkeeping
  /\ RetirePlan
  /\ ReportBooks
  /\ SavedBooks
  /\ MissingBooks
  /\ LiveBooks

Retiring(c) == cmdb[c] # "retired" /\ cmdb'[c] = "retired"

(***************************************************************************)
(* A CI is retired only if no device it stands for was in Intune when the  *)
(* run asked (state.py: "devices that have disappeared from Intune"),      *)
(* whatever failed in this run or an earlier one, and whatever a device    *)
(* limit left out of the list.                                             *)
(***************************************************************************)
RetireOnlyDeparted ==
  [][\A c \in Ci : Retiring(c) => \A d \in census : CiOf[d] # c]_vars

(***************************************************************************)
(* No CI is retired while more than the configured share of the devices    *)
(* the run knows of is missing from the list Graph gave, complete or not.  *)
(***************************************************************************)
NoMassRetirement ==
  [][(\E c \in Ci : Retiring(c)) => ~OverShare(Missing, known)]_vars

(***************************************************************************)
(* Exit code 0 of a run that writes: something was written if anything was *)
(* to be, the writer did not stop early, and every device reported as      *)
(* written is in the state file for the next run to retire.                *)
(***************************************************************************)
HonestExit ==
  (phase = "idle" /\ exit = "ok" /\ ~cfg.dryRun) =>
    /\ payloads # {} => written # {}
    /\ ~aborted
    /\ cfg.failOnError => failed = {}
    /\ written \subseteq store

(***************************************************************************)
(* Exit code 0 of a run that may retire: no device it knew of is missing   *)
(* from Intune and still on its books.  Anything else it must report.      *)
(***************************************************************************)
OkMeansNothingMissing ==
  (phase = "idle" /\ exit = "ok" /\ Retires) => Missing = {}

(* A device reported written by a run that exits 0 has a CI in service. *)
WrittenIsLive ==
  (phase = "idle" /\ exit = "ok" /\ ~cfg.dryRun) => \A d \in written : cmdb[CiOf[d]] = "active"

(* A dry run changes neither the CMDB nor the state file, whatever fails. *)
DryRunIsReadOnly == [][cfg.dryRun => UNCHANGED <<cmdb, store>>]_vars

(***************************************************************************)
(* What the runs do to the CMDB and the state file, with everything they   *)
(* keep in memory hidden, is the life of a CI that CiLifecycle describes.  *)
(***************************************************************************)
Lifecycle == INSTANCE CiLifecycle
               WITH Device <- Device, Ci <- Ci, CiOf <- CiOf, cmdb <- cmdb, store <- store

FollowsLifecycle == Lifecycle!Spec

(***************************************************************************)
(* A device that has left stays on the books for good only if the runs     *)
(* keep telling the scheduler that something is wrong, or it keeps         *)
(* starting runs that are not to retire anything.                          *)
(***************************************************************************)
DepartedNotForgotten ==
  \A d \in Device :
    []<>(d \notin store \/ d \in fleet \/ exit \notin {"running", "ok"} \/ ~Retires)

(* Every run ends. *)
RunEnds == phase # "idle" ~> phase = "idle"

(***************************************************************************)
(* What sync.py's comment in _write_batch says of a batch that fails as a  *)
(* whole (auth, endpoint, instance outage), and docs/architecture.md 198   *)
(* of one that is rejected: its devices are errors, the run goes on.       *)
(***************************************************************************)
BatchFailureContained ==
  [][(phase = "writing" /\ pending # {}) => exit' # "failed"]_vars

(***************************************************************************)
(* What models.py and __main__.py say of a lost state file: the run that   *)
(* works, and saves, without the state an earlier one left is degraded.    *)
(***************************************************************************)
LostStateIsDegraded ==
  [][(phase = "retiring" /\ phase' = "exiting" /\ loaded # store) => degraded']_vars
=============================================================================
