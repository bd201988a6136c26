--------------------------- MODULE SyncRun_proofs ---------------------------
(***************************************************************************)
(* What holds of SyncRun for every fleet, every assignment of CIs to       *)
(* devices, every set of configurations and every set of faults.  IInv is  *)
(* inductive: one lemma per action, and under it one step per conjunct.    *)
(* What it does not carry is in books of their own: RunBooks, of the run   *)
(* under way, and FileBooks, of what a run leaves behind.                  *)
(***************************************************************************)
EXTENDS SyncRun, FiniteSetTheorems, TLAPS

(* A CI, once there, stays: the values of cmdb are what a step may make them. *)
CisStay == /\ cmdb' \in [Ci -> CiStatus]
           /\ \A c \in Ci : cmdb[c] # "absent" => cmdb'[c] # "absent"

-----------------------------------------------------------------------------
(* What the operators on the CMDB return. *)
LEMMA LandedFacts ==
  ASSUME TypeOK, NEW S \in SUBSET Device
  PROVE  /\ Landed(S) \in [Ci -> CiStatus]
         /\ \A c \in Ci : Landed(S)[c] # cmdb[c] => Landed(S)[c] = "active"
         /\ ~cfg.dryRun => \A d \in S : Landed(S)[CiOf[d]] # "absent"
<1>1. Upserted(S) \in [Ci -> CiStatus]
  BY DEF Upserted, TypeOK, CiStatus
<1>2. \A c \in Ci : Upserted(S)[c] # cmdb[c] => Upserted(S)[c] = "active"
  BY DEF Upserted, TypeOK
<1>3. \A d \in S : Upserted(S)[CiOf[d]] # "absent"
  <2> TAKE d \in S
  <2>1. CiOf[d] \in Ci /\ CiOf[d] \in {CiOf[e] : e \in S}
    BY ConstantsAssumption
  <2> QED BY <2>1 DEF Upserted, TypeOK
<1> QED BY <1>1, <1>2, <1>3 DEF Landed, TypeOK

LEMMA LandedStay ==
  ASSUME TypeOK, NEW S \in SUBSET Device, cmdb' = Landed(S)
  PROVE  CisStay
BY LandedFacts DEF CisStay

LEMMA UncertainStay ==
  ASSUME TypeOK, NEW d \in Device, PatchUncertain(d)
  PROVE  CisStay
BY ConstantsAssumption DEF PatchUncertain, CisStay, TypeOK, CiStatus

-----------------------------------------------------------------------------
(* What the exit code rests on; the hypothesis of its last part is constant. *)
ExitBooks == ReportBooks /\ SavedBooks /\ MissingBooks /\ LiveBooks
Lively == DistinctCis /\ \A c \in Configs : c.reactivate

(* A run that is over without an exit code of 0 has nothing to answer for. *)
LEMMA StopExit ==
  ASSUME ExitBooks, NEW how, how # "ok", Stop(how)
  PROVE  ExitBooks'
<1>1. ReportBooks'
  BY DEF ExitBooks, ReportBooks, Stop, Silent
<1>2. SavedBooks' /\ MissingBooks' /\ LiveBooks'
  BY DEF ExitBooks, SavedBooks, MissingBooks, LiveBooks, Stop, Silent
<1> QED BY <1>1, <1>2 DEF ExitBooks

LEMMA SameExit ==
  ASSUME ExitBooks, UNCHANGED <<cmdb, store, run>>, Permanent \subseteq fleet'
  PROVE  ExitBooks'
<1>1. ReportBooks'
  BY DEF run, ExitBooks, ReportBooks, Silent, WritesDegrade
<1>2. SavedBooks'
  BY DEF run, ExitBooks, SavedBooks, Silent
<1>3. MissingBooks'
  BY DEF run, ExitBooks, MissingBooks, Silent, Retires, Missing
<1>4. LiveBooks'
  BY DEF run, ExitBooks, LiveBooks
<1> QED BY <1>1, <1>2, <1>3, <1>4 DEF ExitBooks

LEMMA LoadExit ==
  ASSUME ExitBooks, Load
  PROVE  ExitBooks'
<1>1. ~aborted' /\ ~degraded'
  BY Zenon DEF Load
<1>2. phase' = "loaded" /\ UNCHANGED fleet
      /\ payloads' = {} /\ written' = {} /\ failed' = {} /\ retired' = {}
  BY DEF Load
<1>3. ReportBooks'
  BY <1>1, <1>2 DEF ReportBooks
<1>4. SavedBooks' /\ MissingBooks' /\ LiveBooks'
  BY <1>2 DEF ExitBooks, SavedBooks, MissingBooks, LiveBooks
<1> QED BY <1>3, <1>4 DEF ExitBooks

(* A complete list of a fleet that never empties has a device. *)
LEMMA CollectsSome ==
  ASSUME Collect, Permanent \subseteq fleet, Permanent # {}, ~May("partialFetch"), cfg.limit = 0
  PROVE  fetched' # {}
BY DEF Collect, Listing, Collected

LEMMA CollectExit ==
  ASSUME IInv, ExitBooks, Collect
  PROVE  ExitBooks'
<1>1. /\ phase = "loaded" /\ phase' \in {"writing", "exiting"}
      /\ phase' = "exiting" => fetched' = {} /\ payloads' = {}
      /\ UNCHANGED <<fleet, cmdb, store, cfg, known, written, failed, aborted, retired, degraded>>
  BY DEF Collect
<1>2. written = {} /\ failed = {} /\ ~aborted /\ ~degraded /\ retired = {}
  BY <1>1 DEF ExitBooks, ReportBooks, IInv, Bookkeeping
<1>3. ReportBooks'
  BY <1>1, <1>2 DEF ReportBooks, WritesDegrade
<1>4. SavedBooks' /\ LiveBooks'
  BY <1>1, <1>2 DEF SavedBooks, LiveBooks
<1>5. MissingBooks'
  BY <1>1, CollectsSome DEF ExitBooks, MissingBooks, Retires
<1> QED BY <1>3, <1>4, <1>5 DEF ExitBooks

(***************************************************************************)
(* A batch whose successes all carry a sys_id is known as a whole; where   *)
(* runs set the status, and share no CI, its successes are active and no   *)
(* other device's CI changes.                                              *)
(***************************************************************************)
LEMMA WriteBatchExit ==
  ASSUME IInv, ExitBooks, NEW B \in SUBSET pending, WriteBatch(B)
  PROVE  ExitBooks'
<1>1. /\ phase = "writing" /\ pending \subseteq payloads /\ retired = {}
      /\ UNCHANGED <<fleet, store, cfg, phase, fetched, payloads, toRetire, retired, degraded,
                     exit, loaded, census>>
  BY DEF WriteBatch, NextBatch, IInv, Bookkeeping
<1>2. PICK landed \in SUBSET B, ok \in SUBSET B, seen \in SUBSET B :
        /\ ok \subseteq landed
        /\ cfg.dryRun \/ May("noSysId") \/ seen = ok
        /\ cmdb' = Landed(landed)
        /\ known' = known \cup seen
        /\ written' = written \cup ok
  BY DEF WriteBatch, Answer
<1>3. ReportBooks'
  BY <1>1, <1>2 DEF ExitBooks, ReportBooks
<1>4. SavedBooks'
  BY <1>1, <1>2 DEF ExitBooks, SavedBooks
<1>5. MissingBooks'
  BY <1>1 DEF ExitBooks, MissingBooks
<1>6. ASSUME Lively, ~cfg.dryRun PROVE \A d \in written' : cmdb'[CiOf[d]] = "active"
  <2>1. cfg.reactivate /\ landed \subseteq Device /\ written \subseteq Device
    BY <1>6 DEF IInv, TypeOK, Lively
  <2>2. \A d \in landed : CiOf[d] \in Ci /\ cmdb'[CiOf[d]] = "active"
    BY <1>2, <1>6, <2>1, ConstantsAssumption DEF Landed, Upserted
  <2>3. \A d \in written : CiOf[d] \in Ci /\ cmdb[CiOf[d]] = "active"
    BY <1>1, <1>6, <2>1, ConstantsAssumption DEF ExitBooks, LiveBooks, Lively
  <2>4. \A d \in written : cmdb'[CiOf[d]] = "active"
    BY <1>2, <2>1, <2>3, LandedFacts DEF IInv
  <2> QED BY <1>2, <2>2, <2>4
<1>7. LiveBooks'
  BY <1>1, <1>6 DEF LiveBooks, Lively
<1> QED BY <1>3, <1>4, <1>5, <1>7 DEF ExitBooks

LEMMA BatchRejectedExit ==
  ASSUME ExitBooks, NEW B, BatchRejected(B)
  PROVE  ExitBooks'
<1>1. /\ phase = "writing"
      /\ UNCHANGED <<fleet, cmdb, store, cfg, phase, known, fetched, payloads, written, aborted,
                     toRetire, retired, degraded, exit, loaded, census>>
  BY DEF BatchRejected, NextBatch
<1>2. ReportBooks' /\ SavedBooks'
  BY <1>1 DEF ExitBooks, ReportBooks, SavedBooks
<1>3. MissingBooks' /\ LiveBooks'
  BY <1>1 DEF ExitBooks, MissingBooks, LiveBooks
<1> QED BY <1>2, <1>3 DEF ExitBooks

(* Unless it says otherwise, the run sets out to retire all that is missing. *)
LEMMA EndWritesExit ==
  ASSUME IInv, ExitBooks, EndWrites
  PROVE  ExitBooks'
<1>1. /\ phase = "writing" /\ phase' = "retiring" /\ toRetire' = Retirees /\ retired = {}
      /\ UNCHANGED <<fleet, cmdb, store, cfg, known, fetched, payloads, pending, written, failed,
                     aborted, retired, exit, loaded, census>>
  BY DEF EndWrites, IInv, Bookkeeping
<1>2. ~degraded' => ~WritesDegrade /\ ~GuardTrips
  BY Zenon DEF EndWrites
<1>3. ~GuardTrips /\ Retires => Retirees = Missing
  BY DEF GuardTrips, Retires, Retirees
<1>4. WritesDegrade' <=> WritesDegrade
  BY <1>1 DEF WritesDegrade
<1>5. ReportBooks'
  BY <1>1, <1>2, <1>4 DEF ExitBooks, ReportBooks, Silent
<1>6. SavedBooks'
  BY <1>1 DEF ExitBooks, SavedBooks
<1>7. MissingBooks'
  BY <1>1, <1>2, <1>3 DEF ExitBooks, MissingBooks, Silent, Missing, Retires
<1>8. LiveBooks'
  BY <1>1 DEF ExitBooks, LiveBooks
<1> QED BY <1>5, <1>6, <1>7, <1>8 DEF ExitBooks

(* A PATCH, whatever comes of it, leaves the CIs of collected devices alone. *)
LEMMA PatchLeavesLive ==
  ASSUME IInv, ExitBooks, phase = "retiring", NEW d \in toRetire, NEW to,
         to = cmdb \/ to = [cmdb EXCEPT ![CiOf[d]] = "retired"],
         Lively, ~cfg.dryRun
  PROVE  \A e \in written : to[CiOf[e]] = "active"
<1>1. d \notin fetched /\ d \in Device /\ written \subseteq fetched /\ written \subseteq Device
  BY DEF IInv, TypeOK, Bookkeeping, RetirePlan, Missing, ExitBooks, ReportBooks
<1>2. \A e \in written : CiOf[e] # CiOf[d] /\ CiOf[e] \in Ci /\ cmdb[CiOf[e]] = "active"
  BY <1>1, ConstantsAssumption DEF Lively, DistinctCis, ExitBooks, LiveBooks
<1> QED BY <1>2 DEF IInv, TypeOK

LEMMA RetireOneExit ==
  ASSUME IInv, ExitBooks, NEW d \in toRetire, RetireOne(d)
  PROVE  ExitBooks'
<1>1. /\ phase = "retiring" /\ toRetire' = toRetire \ {d} /\ retired' = retired \cup {d}
      /\ cmdb' = [cmdb EXCEPT ![CiOf[d]] = "retired"]
      /\ UNCHANGED <<fleet, store, cfg, phase, known, fetched, payloads, pending, written, failed,
                     aborted, degraded, exit, loaded, census>>
  BY DEF RetireOne
<1>2. d \notin fetched
  BY <1>1 DEF IInv, RetirePlan, Missing
<1>3. WritesDegrade' <=> WritesDegrade
  BY <1>1 DEF WritesDegrade
<1>4. ReportBooks'
  BY <1>1, <1>2, <1>3 DEF ExitBooks, ReportBooks, Silent
<1>5. SavedBooks'
  BY <1>1 DEF ExitBooks, SavedBooks
<1>6. MissingBooks'
  BY <1>1 DEF ExitBooks, MissingBooks, Silent, Missing, Retires
<1>7. LiveBooks'
  BY <1>1, PatchLeavesLive DEF LiveBooks, Lively
<1> QED BY <1>4, <1>5, <1>6, <1>7 DEF ExitBooks

LEMMA RetireRefusedExit ==
  ASSUME IInv, ExitBooks, NEW d \in toRetire, RetireRefused(d)
  PROVE  ExitBooks'
<1>1. /\ phase = "retiring" /\ May("patchRefused")
      /\ UNCHANGED <<fleet, store, cfg, phase, known, fetched, payloads, pending, written, failed,
                     aborted, retired, degraded, exit, loaded, census>>
  BY DEF RetireRefused
<1>2. cmdb' = cmdb \/ cmdb' = [cmdb EXCEPT ![CiOf[d]] = "retired"]
  BY DEF RetireRefused, PatchUncertain
<1>3. ReportBooks'
  BY <1>1 DEF ExitBooks, ReportBooks, Silent, WritesDegrade
<1>4. SavedBooks' /\ MissingBooks'
  BY <1>1 DEF ExitBooks, SavedBooks, MissingBooks
<1>5. LiveBooks'
  BY <1>1, <1>2, PatchLeavesLive DEF LiveBooks, Lively
<1> QED BY <1>3, <1>4, <1>5 DEF ExitBooks

(* The save puts on file whatever is known and was not retired. *)
LEMMA SaveExit ==
  ASSUME IInv, ExitBooks, Save
  PROVE  ExitBooks'
<1>1. /\ phase = "retiring" /\ phase' = "exiting" /\ toRetire = {} /\ known' = known \ retired
      /\ UNCHANGED <<fleet, cmdb, cfg, fetched, payloads, pending, written, failed, aborted,
                     toRetire, retired, exit, loaded, census>>
  BY DEF Save, KnownWithoutRetired
<1>2. ~degraded' => ~degraded /\ store' = IF cfg.dryRun THEN store ELSE known'
  BY Zenon DEF Save
<1>3. ReportBooks'
  BY <1>1, <1>2 DEF ExitBooks, ReportBooks, Silent, WritesDegrade
<1>4. written \cap retired = {}
  BY DEF ExitBooks, ReportBooks, IInv, Bookkeeping
<1>5. SavedBooks'
  BY <1>1, <1>2, <1>4 DEF ExitBooks, SavedBooks, Silent
<1>6. MissingBooks'
  BY <1>1, <1>2 DEF ExitBooks, MissingBooks, Silent, Missing, Retires
<1>7. LiveBooks'
  BY <1>1 DEF ExitBooks, LiveBooks
<1> QED BY <1>3, <1>5, <1>6, <1>7 DEF ExitBooks

LEMMA FinishExit ==
  ASSUME ExitBooks, Finish
  PROVE  ExitBooks'
<1>1. /\ phase = "exiting" /\ phase' = "idle"
      /\ UNCHANGED <<fleet, cmdb, store, cfg, known, fetched, payloads, pending, written, failed,
                     aborted, toRetire, retired, degraded, loaded, census>>
  BY DEF Finish
<1>2. exit' = "ok" => ~degraded /\ (cfg.failOnError => failed = {})
  BY Zenon DEF Finish
<1>3. ReportBooks'
  BY <1>1, <1>2 DEF ExitBooks, ReportBooks, Silent, WritesDegrade
<1>4. SavedBooks'
  BY <1>1, <1>2 DEF ExitBooks, SavedBooks, Silent
<1>5. MissingBooks'
  BY <1>1, <1>2 DEF ExitBooks, MissingBooks, Silent, Missing, Retires
<1>6. LiveBooks'
  BY <1>1 DEF ExitBooks, LiveBooks
<1> QED BY <1>3, <1>4, <1>5, <1>6 DEF ExitBooks

-----------------------------------------------------------------------------
LEMMA InitIInv == Init => IInv
<1> SUFFICES ASSUME Init PROVE IInv
  OBVIOUS
<1>1. TypeOK
  <2>1. cmdb \in [Ci -> CiStatus]
    BY DEF Init, CiStatus
  <2>2. aborted \in BOOLEAN /\ degraded \in BOOLEAN
    BY Zenon DEF Init
  <2> QED BY <2>1, <2>2 DEF Init, TypeOK, Phases, Exits
<1>2. Bookkeeping
  BY DEF Init, Bookkeeping
<1>3. RetirePlan
  BY DEF Init, RetirePlan
<1>4. ReportBooks
  <2>1. ~aborted /\ ~degraded
    BY Zenon DEF Init
  <2> QED BY <2>1 DEF Init, ReportBooks, WritesDegrade
<1>5. SavedBooks /\ MissingBooks /\ LiveBooks
  BY DEF Init, SavedBooks, MissingBooks, LiveBooks, Missing
<1> QED BY <1>1, <1>2, <1>3, <1>4, <1>5 DEF IInv

(* A run that is over holds nothing to keep. *)
LEMMA StopKeeps ==
  ASSUME IInv, NEW how \in Exits \ {"ok"}, Stop(how), CisStay
  PROVE  IInv'
<1>1. TypeOK'
  BY DEF IInv, TypeOK, Stop, CisStay, Phases
<1>2. Bookkeeping'
  BY ConstantsAssumption DEF IInv, TypeOK, Bookkeeping, Stop, CisStay
<1>3. RetirePlan'
  BY DEF RetirePlan, Stop
<1>4. ExitBooks'
  BY StopExit DEF IInv, ExitBooks
<1> QED BY <1>1, <1>2, <1>3, <1>4 DEF IInv, ExitBooks

LEMMA FleetKeeps ==
  ASSUME IInv, NEW d \in Device, Enrol(d) \/ Leave(d)
  PROVE  IInv'
<1>1. fleet' \subseteq Device /\ UNCHANGED <<cmdb, store, run>>
  BY DEF IInv, TypeOK, Enrol, Leave
<1>2. Permanent \subseteq fleet'
  BY DEF Enrol, Leave, IInv, MissingBooks
<1>3. ExitBooks'
  BY <1>1, <1>2, SameExit DEF IInv, ExitBooks
<1>4. TypeOK' /\ Bookkeeping' /\ RetirePlan'
  BY <1>1 DEF run, IInv, TypeOK, Bookkeeping, RetirePlan, Missing, OverShare
<1> QED BY <1>3, <1>4 DEF IInv, ExitBooks

LEMMA LoadKeeps ==
  ASSUME IInv, Load
  PROVE  IInv'
<1>1. /\ known' \subseteq store
      /\ ~May("storeRead") => known' = store
  BY DEF Load, StateReads
<1>2. TypeOK'
  <2>1. aborted' \in BOOLEAN /\ degraded' \in BOOLEAN
    BY Zenon DEF Load
  <2> QED BY <1>1, <2>1 DEF Load, IInv, TypeOK, Phases, Exits
<1>3. Bookkeeping'
  BY <1>1 DEF Load, IInv, Bookkeeping
<1>4. RetirePlan'
  BY DEF Load, RetirePlan
<1>5. ExitBooks'
  BY LoadExit DEF IInv, ExitBooks
<1> QED BY <1>2, <1>3, <1>4, <1>5 DEF IInv, ExitBooks

LEMMA CollectKeeps ==
  ASSUME IInv, Collect
  PROVE  IInv'
<1>1. /\ fetched' \subseteq fleet
      /\ payloads' \subseteq fetched'
      /\ phase' \in {"writing", "exiting"}
      /\ fetched' = {} => phase' = "exiting"
  BY DEF Collect
<1>2. cfg.limit = 0 /\ ~May("partialFetch") => fetched' = fleet
  BY DEF Collect, Listing, Collected
<1>3. TypeOK'
  BY <1>1 DEF Collect, IInv, TypeOK, Phases
<1>4. Bookkeeping'
  BY <1>1 DEF Collect, IInv, Bookkeeping
<1>5. RetirePlan'
  BY <1>1, <1>2 DEF Collect, RetirePlan
<1>6. ExitBooks'
  BY CollectExit DEF IInv, ExitBooks
<1> QED BY <1>3, <1>4, <1>5, <1>6 DEF IInv, ExitBooks

LEMMA WriteBatchKeeps ==
  ASSUME IInv, NEW B \in SUBSET pending, WriteBatch(B)
  PROVE  IInv'
<1>1. PICK landed \in SUBSET B : \E ok \in SUBSET landed : \E seen \in SUBSET ok :
      \E now \in BOOLEAN :
        /\ Answer(B, ok, landed, seen, now)
        /\ aborted' = now
        /\ cmdb' = Landed(landed)
        /\ known' = known \cup seen
        /\ written' = written \cup ok
        /\ failed' = failed \cup (B \ ok)
  BY DEF WriteBatch
<1>2. PICK ok \in SUBSET landed : \E seen \in SUBSET ok : \E now \in BOOLEAN :
        /\ Answer(B, ok, landed, seen, now)
        /\ aborted' = now
        /\ cmdb' = Landed(landed)
        /\ known' = known \cup seen
        /\ written' = written \cup ok
        /\ failed' = failed \cup (B \ ok)
  BY <1>1
<1>3. PICK seen \in SUBSET ok : \E now \in BOOLEAN :
        /\ Answer(B, ok, landed, seen, now)
        /\ aborted' = now
        /\ cmdb' = Landed(landed)
        /\ known' = known \cup seen
        /\ written' = written \cup ok
        /\ failed' = failed \cup (B \ ok)
  BY <1>2
<1>4. aborted' \in BOOLEAN
  BY <1>3, Zenon
<1>5. /\ phase = "writing"
      /\ pending' = pending \ B
      /\ UNCHANGED <<fleet, store, cfg, phase, fetched, payloads, toRetire, retired, degraded,
                     exit, loaded, census>>
  BY DEF WriteBatch, NextBatch
<1>6. cfg.dryRun => seen \subseteq {d \in ok : cmdb[CiOf[d]] # "absent"}
  BY <1>3 DEF Answer
<1>7. landed \in SUBSET Device /\ B \subseteq Device /\ B \subseteq fetched
  BY DEF IInv, TypeOK, Bookkeeping
<1>8. CisStay
  BY <1>3, <1>7, LandedStay DEF IInv
<1>9. \A d \in seen : cmdb'[CiOf[d]] # "absent"
  <2>1. CASE cfg.dryRun
    BY <1>3, <1>6, <2>1 DEF Landed
  <2>2. CASE ~cfg.dryRun
    BY <1>3, <1>7, <2>2, LandedFacts DEF IInv
  <2> QED BY <2>1, <2>2
<1>10. TypeOK'
  BY <1>3, <1>4, <1>5, <1>7, <1>8 DEF IInv, TypeOK, CisStay
<1>11. Bookkeeping'
  <2>1. \A d \in store' \cup known' : cmdb'[CiOf[d]] # "absent"
    BY <1>3, <1>5, <1>8, <1>9, ConstantsAssumption DEF IInv, TypeOK, Bookkeeping, CisStay
  <2> QED BY <1>3, <1>5, <1>7, <2>1 DEF IInv, Bookkeeping
<1>12. RetirePlan'
  BY <1>5 DEF IInv, RetirePlan
<1>13. ExitBooks'
  BY WriteBatchExit DEF IInv, ExitBooks
<1> QED BY <1>10, <1>11, <1>12, <1>13 DEF IInv, ExitBooks

LEMMA BatchRejectedKeeps ==
  ASSUME IInv, NEW B \in SUBSET pending, BatchRejected(B)
  PROVE  IInv'
<1>1. /\ phase = "writing"
      /\ pending' = pending \ B
      /\ failed' \subseteq failed \cup B
      /\ UNCHANGED <<fleet, cmdb, store, cfg, phase, known, fetched, payloads, written, aborted,
                     toRetire, retired, degraded, exit, loaded, census>>
  BY DEF BatchRejected, NextBatch
<1>2. TypeOK'
  BY <1>1 DEF IInv, TypeOK
<1>3. Bookkeeping'
  BY <1>1 DEF IInv, Bookkeeping
<1>4. RetirePlan'
  BY <1>1 DEF IInv, RetirePlan
<1>5. ExitBooks'
  BY BatchRejectedExit DEF IInv, ExitBooks
<1> QED BY <1>2, <1>3, <1>4, <1>5 DEF IInv, ExitBooks

(* The ways a run ends early: in each, what landed leaves every CI there. *)
LEMMA EndsEarlyKeeps ==
  ASSUME IInv,
         \/ CollectRaises
         \/ \E B \in SUBSET pending : BatchRaises(B) \/ BatchCrashes(B)
         \/ \E d \in toRetire : RetireRaises(d)
         \/ Kill
  PROVE  IInv'
<1>1. cmdb' = cmdb => CisStay
  BY DEF IInv, TypeOK, CisStay
<1>2. CASE CollectRaises \/ Kill
  <2>1. CisStay
    BY <1>1, <1>2 DEF CollectRaises, Kill
  <2> QED BY <1>2, <2>1, StopKeeps DEF CollectRaises, Kill, Exits
<1>3. CASE \E B \in SUBSET pending : BatchRaises(B) \/ BatchCrashes(B)
  <2>1. PICK B \in SUBSET pending : BatchRaises(B) \/ BatchCrashes(B)
    BY <1>3
  <2>2. \E landed \in SUBSET B : cmdb' = Landed(landed)
    BY <2>1 DEF BatchRaises, BatchCrashes
  <2>3. CisStay
    BY <2>2, LandedStay DEF IInv, TypeOK
  <2> QED BY <2>1, <2>3, StopKeeps DEF BatchRaises, BatchCrashes, Exits
<1>4. CASE \E d \in toRetire : RetireRaises(d)
  <2>1. PICK d \in toRetire : RetireRaises(d)
    BY <1>4
  <2>2. CisStay
    BY <2>1, UncertainStay DEF RetireRaises, IInv, TypeOK
  <2> QED BY <2>1, <2>2, StopKeeps DEF RetireRaises, Exits
<1> QED BY <1>2, <1>3, <1>4

LEMMA EndWritesKeeps ==
  ASSUME IInv, EndWrites
  PROVE  IInv'
<1>1. /\ phase = "writing"
      /\ phase' = "retiring"
      /\ toRetire' = Retirees
      /\ UNCHANGED <<fleet, cmdb, store, cfg, known, fetched, payloads, pending, written, failed,
                     aborted, retired, exit, loaded, census>>
  BY DEF EndWrites
<1>2. degraded' \in BOOLEAN
  BY Zenon DEF EndWrites
<1>3. /\ Retirees \subseteq Missing
      /\ Retirees # {} => cfg.limit = 0 /\ ~cfg.dryRun /\ ~OverShare(Missing, known)
  BY DEF Retirees
<1>4. TypeOK'
  BY <1>1, <1>2, <1>3 DEF IInv, TypeOK, Phases, Missing
<1>5. Bookkeeping'
  BY <1>1 DEF IInv, Bookkeeping
<1>6. RetirePlan'
  BY <1>1, <1>3 DEF IInv, RetirePlan, Missing, OverShare
<1>7. ExitBooks'
  BY EndWritesExit DEF IInv, ExitBooks
<1> QED BY <1>4, <1>5, <1>6, <1>7 DEF IInv, ExitBooks

LEMMA RetireOneKeeps ==
  ASSUME IInv, NEW d \in toRetire, RetireOne(d)
  PROVE  IInv'
<1>1. /\ phase = "retiring"
      /\ cmdb' = [cmdb EXCEPT ![CiOf[d]] = "retired"]
      /\ toRetire' = toRetire \ {d}
      /\ retired' = retired \cup {d}
      /\ UNCHANGED <<fleet, store, cfg, phase, known, fetched, payloads, pending, written, failed,
                     aborted, degraded, exit, loaded, census>>
  BY DEF RetireOne
<1>2. d \in Device /\ CiOf[d] \in Ci
  BY ConstantsAssumption DEF IInv, TypeOK
<1>3. TypeOK'
  BY <1>1, <1>2 DEF IInv, TypeOK, CiStatus
<1>4. Bookkeeping'
  <2>1. \A e \in Device : cmdb'[CiOf[e]] = IF CiOf[e] = CiOf[d] THEN "retired" ELSE cmdb[CiOf[e]]
    BY <1>1, <1>2, ConstantsAssumption DEF IInv, TypeOK
  <2> QED BY <1>1, <1>2, <2>1 DEF IInv, TypeOK, Bookkeeping
<1>5. RetirePlan'
  BY <1>1 DEF IInv, RetirePlan, Missing, OverShare
<1>6. ExitBooks'
  BY RetireOneExit DEF IInv, ExitBooks
<1> QED BY <1>3, <1>4, <1>5, <1>6 DEF IInv, ExitBooks

LEMMA RetireRefusedKeeps ==
  ASSUME IInv, NEW d \in toRetire, RetireRefused(d)
  PROVE  IInv'
<1>1. /\ phase = "retiring"
      /\ toRetire' = toRetire \ {d}
      /\ UNCHANGED <<fleet, store, cfg, phase, known, fetched, payloads, pending, written, failed,
                     aborted, retired, degraded, exit, loaded, census>>
  BY DEF RetireRefused
<1>2. cmdb' = cmdb \/ cmdb' = [cmdb EXCEPT ![CiOf[d]] = "retired"]
  BY DEF RetireRefused, PatchUncertain
<1>3. CisStay
  BY UncertainStay DEF RetireRefused, IInv, TypeOK
<1>4. TypeOK'
  BY <1>1, <1>3 DEF IInv, TypeOK, CisStay
<1>5. Bookkeeping'
  <2>1. \A e \in Device : cmdb'[CiOf[e]] = "retired" \/ cmdb'[CiOf[e]] = cmdb[CiOf[e]]
    BY <1>2, ConstantsAssumption DEF IInv, TypeOK
  <2> QED BY <1>1, <2>1 DEF IInv, TypeOK, Bookkeeping
<1>6. RetirePlan'
  BY <1>1 DEF IInv, RetirePlan, Missing, OverShare
<1>7. ExitBooks'
  BY RetireRefusedExit DEF IInv, ExitBooks
<1> QED BY <1>4, <1>5, <1>6, <1>7 DEF IInv, ExitBooks

LEMMA SaveKeeps ==
  ASSUME IInv, Save
  PROVE  IInv'
<1>1. /\ phase' = "exiting"
      /\ known' = known \ retired
      /\ store' = store \/ store' = known'
      /\ UNCHANGED <<fleet, cmdb, cfg, fetched, payloads, pending, written, failed, aborted,
                     toRetire, retired, exit, loaded, census>>
  BY DEF Save, KnownWithoutRetired
<1>2. degraded' \in BOOLEAN
  BY Zenon DEF Save, IInv, TypeOK
<1>3. TypeOK'
  BY <1>1, <1>2 DEF IInv, TypeOK, Phases
<1>4. Bookkeeping'
  BY <1>1 DEF IInv, Bookkeeping
<1>5. RetirePlan'
  BY <1>1 DEF RetirePlan
<1>6. ExitBooks'
  BY SaveExit DEF IInv, ExitBooks
<1> QED BY <1>3, <1>4, <1>5, <1>6 DEF IInv, ExitBooks

LEMMA FinishKeeps ==
  ASSUME IInv, Finish
  PROVE  IInv'
<1>1. /\ phase' = "idle"
      /\ exit' \in {"partial", "ok"}
      /\ UNCHANGED <<fleet, cmdb, store, cfg, known, fetched, payloads, pending, written, failed,
                     aborted, toRetire, retired, degraded, loaded, census>>
  BY DEF Finish
<1>2. TypeOK'
  BY <1>1 DEF IInv, TypeOK, Phases, Exits
<1>3. Bookkeeping'
  BY <1>1 DEF IInv, Bookkeeping
<1>4. RetirePlan'
  BY <1>1 DEF RetirePlan
<1>5. ExitBooks'
  BY FinishExit DEF IInv, ExitBooks
<1> QED BY <1>2, <1>3, <1>4, <1>5 DEF IInv, ExitBooks

LEMMA StepKeepsIInv == IInv /\ [Next]_vars => IInv'
<1> SUFFICES ASSUME IInv, [Next]_vars PROVE IInv'
  OBVIOUS
<1>1. CASE Load
  BY <1>1, LoadKeeps
<1>2. CASE Collect
  BY <1>2, CollectKeeps
<1>3. CASE \E B \in SUBSET pending : WriteBatch(B)
  BY <1>3, WriteBatchKeeps
<1>4. CASE \E B \in SUBSET pending : BatchRejected(B)
  BY <1>4, BatchRejectedKeeps
<1>5. CASE \/ CollectRaises
           \/ \E B \in SUBSET pending : BatchRaises(B) \/ BatchCrashes(B)
           \/ \E d \in toRetire : RetireRaises(d)
           \/ Kill
  BY <1>5, EndsEarlyKeeps
<1>6. CASE EndWrites
  BY <1>6, EndWritesKeeps
<1>7. CASE \E d \in toRetire : RetireOne(d)
  BY <1>7, RetireOneKeeps
<1>8. CASE \E d \in toRetire : RetireRefused(d)
  BY <1>8, RetireRefusedKeeps
<1>9. CASE Save
  BY <1>9, SaveKeeps
<1>10. CASE Finish
  BY <1>10, FinishKeeps
<1>11. CASE \E d \in Device : Enrol(d) \/ Leave(d)
  BY <1>11, FleetKeeps
<1>12. CASE UNCHANGED vars
  <2>1. ExitBooks'
    BY <1>12, SameExit DEF vars, IInv, ExitBooks, MissingBooks
  <2>2. TypeOK' /\ Bookkeeping' /\ RetirePlan'
    BY <1>12 DEF vars, run, IInv, TypeOK, Bookkeeping, RetirePlan, Missing, OverShare
  <2> QED BY <2>1, <2>2 DEF IInv, ExitBooks
<1> QED BY <1>1, <1>2, <1>3, <1>4, <1>5, <1>6, <1>7, <1>8, <1>9, <1>10, <1>11, <1>12
        DEF Next, Step, Environment, Batch, Retire

(***************************************************************************)
(* Every reachable state satisfies the inductive invariant: what a run     *)
(* knows, has collected and means to retire fit together, and every device *)
(* on file has a CI, whatever fails and in whatever order runs of          *)
(* different configurations follow each other.                             *)
(***************************************************************************)
THEOREM SyncInvariant == Spec => []IInv
<1>1. Init => IInv
  BY InitIInv
<1>2. IInv /\ [Next]_vars => IInv'
  BY StepKeepsIInv
<1> QED BY <1>1, <1>2, PTL DEF Spec

(* Every variable keeps its type; the state file names devices only. *)
THEOREM SyncTypeOK == Spec => []TypeOK
<1>1. IInv => TypeOK
  BY DEF IInv
<1> QED BY <1>1, SyncInvariant, PTL

-----------------------------------------------------------------------------
(* A CI becomes retired in the retirement loop only, by the PATCH of a device *)
(* that loop has left to do: no write, and no run cut short before, does it.  *)
LEMMA WhoRetires ==
  ASSUME IInv, [Next]_vars, NEW c \in Ci, Retiring(c)
  PROVE  phase = "retiring" /\ \E d \in toRetire : CiOf[d] = c
<1>1. cmdb' # cmdb
  BY DEF Retiring
<1>2. ASSUME NEW S \in SUBSET pending PROVE cmdb' # Landed(S)
  BY <1>2, LandedFacts DEF Retiring, IInv, TypeOK
<1>3. CASE \E d \in toRetire : Retire(d)
  <2>1. PICK d \in toRetire : Retire(d)
    BY <1>3
  <2>2. /\ phase = "retiring"
        /\ cmdb' = cmdb \/ cmdb' = [cmdb EXCEPT ![CiOf[d]] = "retired"]
    BY <2>1 DEF Retire, RetireOne, RetireRefused, RetireRaises, PatchUncertain
  <2>3. CiOf[d] = c
    BY <2>2 DEF Retiring, IInv, TypeOK
  <2> QED BY <2>2, <2>3
<1>4. CASE \E B \in SUBSET pending : Batch(B)
  <2>1. PICK B \in SUBSET pending : Batch(B)
    BY <1>4
  <2>2. cmdb' = cmdb \/ \E S \in SUBSET B : cmdb' = Landed(S)
    BY <2>1 DEF Batch, WriteBatch, BatchRejected, BatchRaises, BatchCrashes
  <2> QED BY <1>1, <1>2, <2>2
<1>5. CASE Load \/ Collect \/ CollectRaises \/ EndWrites \/ Save \/ Finish \/ Kill
  BY <1>1, <1>5 DEF Load, Collect, CollectRaises, EndWrites, Save, Finish, Kill
<1>6. CASE \E d \in Device : Enrol(d) \/ Leave(d)
  BY <1>1, <1>6 DEF Enrol, Leave
<1>7. CASE UNCHANGED vars
  BY <1>1, <1>7 DEF vars
<1> QED BY <1>3, <1>4, <1>5, <1>6, <1>7 DEF Next, Step, Environment

(***************************************************************************)
(* SNOW_RETIRE_MAX_FRACTION binds every retirement of every run: while     *)
(* more than that share of the devices the run knows is missing from       *)
(* Graph's list, no CI turns retired, whatever Graph leaves out and        *)
(* whatever else fails.                                                    *)
(***************************************************************************)
THEOREM SyncNoMassRetirement == Spec => NoMassRetirement
<1>1. IInv /\ [Next]_vars => [(\E c \in Ci : Retiring(c)) => ~OverShare(Missing, known)]_vars
  <2> SUFFICES ASSUME IInv, [Next]_vars, NEW c \in Ci, Retiring(c)
               PROVE  ~OverShare(Missing, known)
    OBVIOUS
  <2>1. phase = "retiring" /\ toRetire # {}
    BY WhoRetires
  <2> QED BY <2>1 DEF IInv, RetirePlan
<1> QED BY <1>1, SyncInvariant, PTL DEF Spec, NoMassRetirement

(***************************************************************************)
(* Where no two devices share a CI and Graph's list is complete, a CI is   *)
(* retired only if its device was not in Intune when the run asked,        *)
(* whatever this run or an earlier one failed to write, save or read.      *)
(***************************************************************************)
THEOREM SyncRetireOnlyDeparted ==
  ASSUME DistinctCis, ~May("partialFetch")
  PROVE  Spec => RetireOnlyDeparted
<1>1. IInv /\ [Next]_vars =>
        [\A c \in Ci : Retiring(c) => \A d \in census : CiOf[d] # c]_vars
  <2> SUFFICES ASSUME IInv, [Next]_vars, NEW c \in Ci, Retiring(c), NEW e \in census
               PROVE  CiOf[e] # c
    OBVIOUS
  <2>1. PICK d \in toRetire : phase = "retiring" /\ CiOf[d] = c
    BY WhoRetires
  <2>2. d \notin census
    BY <2>1 DEF IInv, RetirePlan, Missing
  <2>3. d \in Device /\ e \in Device
    BY DEF IInv, TypeOK
  <2> QED BY <2>1, <2>2, <2>3 DEF DistinctCis
<1> QED BY <1>1, SyncInvariant, PTL DEF Spec, RetireOnlyDeparted

-----------------------------------------------------------------------------
(* The steps of the runs, seen in the CMDB and the state file alone. *)
LEMMA WriteMaps ==
  ASSUME TypeOK, NEW S \in SUBSET Device, cmdb' = Landed(S), UNCHANGED store
  PROVE  Lifecycle!Next
<1>1. Lifecycle!Write
  BY LandedFacts DEF Lifecycle!Write, TypeOK, CiStatus
<1> QED BY <1>1 DEF Lifecycle!Next

LEMMA RetireMaps ==
  ASSUME IInv, ~May("storeRead"), NEW d \in toRetire, Retire(d)
  PROVE  [Lifecycle!Next]_Lifecycle!vars
<1>1. /\ phase = "retiring"
      /\ UNCHANGED store
      /\ cmdb' = cmdb \/ cmdb' = [cmdb EXCEPT ![CiOf[d]] = "retired"]
  BY DEF Retire, RetireOne, RetireRefused, RetireRaises, PatchUncertain, Stop
<1>2. d \in store /\ cmdb[CiOf[d]] # "absent"
  BY <1>1 DEF IInv, Bookkeeping, RetirePlan, Missing
<1>3. CASE cmdb' = cmdb
  BY <1>1, <1>3 DEF Lifecycle!vars
<1>4. CASE cmdb' = [cmdb EXCEPT ![CiOf[d]] = "retired"]
  BY <1>1, <1>2, <1>4 DEF Lifecycle!Retire, Lifecycle!Next
<1> QED BY <1>1, <1>3, <1>4

LEMMA SaveMaps ==
  ASSUME IInv, ~May("storeRead"), Save
  PROVE  [Lifecycle!Next]_Lifecycle!vars
<1>1. /\ phase = "retiring"
      /\ UNCHANGED cmdb
      /\ store' = store \/ store' = known \ retired
  BY DEF Save, KnownWithoutRetired
<1>2. CASE store' = store
  BY <1>1, <1>2 DEF Lifecycle!vars
<1>3. CASE store' = known \ retired
  <2>1. \A d \in store \ store' : cmdb[CiOf[d]] = "retired"
    BY <1>1, <1>3 DEF IInv, Bookkeeping
  <2>2. \A d \in store' \ store : cmdb[CiOf[d]] # "absent"
    BY <1>3 DEF IInv, Bookkeeping
  <2> QED BY <1>1, <1>3, <2>1, <2>2 DEF Lifecycle!Record, Lifecycle!Next, IInv, TypeOK
<1> QED BY <1>1, <1>2, <1>3

LEMMA StepMaps ==
  ASSUME IInv, ~May("storeRead"), [Next]_vars
  PROVE  [Lifecycle!Next]_Lifecycle!vars
<1>1. CASE \E B \in SUBSET pending : Batch(B)
  <2>1. PICK B \in SUBSET pending : Batch(B)
    BY <1>1
  <2>2. UNCHANGED store /\ (cmdb' = cmdb \/ \E S \in SUBSET B : cmdb' = Landed(S))
    BY <2>1 DEF Batch, WriteBatch, BatchRejected, BatchRaises, BatchCrashes, Stop
  <2>3. B \subseteq Device
    BY DEF IInv, TypeOK
  <2> QED BY <2>2, <2>3, WriteMaps DEF Lifecycle!vars, IInv
<1>2. CASE \E d \in toRetire : Retire(d)
  BY <1>2, RetireMaps
<1>3. CASE Save
  BY <1>3, SaveMaps
<1>4. CASE Load \/ Collect \/ CollectRaises \/ EndWrites \/ Finish \/ Kill
  BY <1>4 DEF Load, Collect, CollectRaises, EndWrites, Finish, Kill, Stop, Lifecycle!vars
<1>5. CASE \E d \in Device : Enrol(d) \/ Leave(d)
  BY <1>5 DEF Enrol, Leave, Lifecycle!vars
<1>6. CASE UNCHANGED vars
  BY <1>6 DEF vars, Lifecycle!vars
<1> QED BY <1>1, <1>2, <1>3, <1>4, <1>5, <1>6 DEF Next, Step, Environment

(***************************************************************************)
(* With a state file that can be read, the runs implement CiLifecycle: a   *)
(* CI is retired only for a device an earlier run put on record, goes on   *)
(* record only once it exists, and comes off it only once retired.         *)
(***************************************************************************)
THEOREM SyncFollowsLifecycle ==
  ASSUME ~May("storeRead")
  PROVE  Spec => FollowsLifecycle
<1>1. Init => Lifecycle!Init
  BY DEF Init, Lifecycle!Init
<1>2. IInv /\ [Next]_vars => [Lifecycle!Next]_Lifecycle!vars
  BY StepMaps
<1> QED BY <1>1, <1>2, SyncInvariant, PTL DEF Spec, FollowsLifecycle, Lifecycle!Spec

-----------------------------------------------------------------------------
(***************************************************************************)
(* A dry run of either writer changes neither the CMDB nor the state file, *)
(* in whatever state the runs before it left them, whatever fails.         *)
(***************************************************************************)
THEOREM SyncDryRunIsReadOnly == Spec => DryRunIsReadOnly
<1>1. IInv /\ [Next]_vars => [cfg.dryRun => UNCHANGED <<cmdb, store>>]_vars
  <2> SUFFICES ASSUME IInv, [Next]_vars, cfg.dryRun
               PROVE  UNCHANGED <<cmdb, store>>
    OBVIOUS
  <2>1. CASE \E B \in SUBSET pending : Batch(B)
    BY <2>1 DEF Batch, WriteBatch, BatchRejected, BatchRaises, BatchCrashes, Landed, Stop
  <2>2. CASE \E d \in toRetire : Retire(d)
    <3>1. phase = "retiring" /\ toRetire # {}
      BY <2>2 DEF Retire, RetireOne, RetireRefused, RetireRaises
    <3> QED BY <3>1 DEF IInv, RetirePlan
  <2>3. CASE Load \/ Collect \/ CollectRaises \/ EndWrites \/ Save \/ Finish \/ Kill
    BY <2>3 DEF Load, Collect, CollectRaises, EndWrites, Save, Finish, Kill, Stop
  <2>4. CASE \E d \in Device : Enrol(d) \/ Leave(d)
    BY <2>4 DEF Enrol, Leave
  <2>5. CASE UNCHANGED vars
    BY <2>5 DEF vars
  <2> QED BY <2>1, <2>2, <2>3, <2>4, <2>5 DEF Next, Step, Environment
<1> QED BY <1>1, SyncInvariant, PTL DEF Spec, DryRunIsReadOnly
-----------------------------------------------------------------------------
(***************************************************************************)
(* Exit code 0 of a run that writes: the writer did not stop early, some   *)
(* of the payloads were written, and, where every success the instance     *)
(* reports has a sys_id, all of these are in the state file.               *)
(***************************************************************************)
THEOREM SyncHonestExit ==
  ASSUME ~May("noSysId")
  PROVE  Spec => []HonestExit
<1>1. IInv => HonestExit
  BY DEF IInv, ReportBooks, SavedBooks, Silent, WritesDegrade, HonestExit
<1> QED BY <1>1, SyncInvariant, PTL

(***************************************************************************)
(* Exit code 0 of a run that may retire: nothing it knew of is missing     *)
(* from Intune and left on its books, where no retirement is refused and   *)
(* the list Graph gives is complete and of a fleet that never empties.     *)
(***************************************************************************)
THEOREM SyncOkMeansNothingMissing ==
  ASSUME ~May("patchRefused"), ~May("partialFetch"), Permanent # {}
  PROVE  Spec => []OkMeansNothingMissing
<1>1. IInv => OkMeansNothingMissing
  BY DEF IInv, MissingBooks, Silent, OkMeansNothingMissing
<1> QED BY <1>1, SyncInvariant, PTL

(***************************************************************************)
(* Exit code 0: what the run reports as written is in service, where no    *)
(* two devices share a CI and install_status is configured in every run.   *)
(***************************************************************************)
THEOREM SyncWrittenIsLive ==
  ASSUME DistinctCis, \A c \in Configs : c.reactivate
  PROVE  Spec => []WrittenIsLive
<1>1. IInv => WrittenIsLive
  BY DEF IInv, LiveBooks, WrittenIsLive
<1> QED BY <1>1, SyncInvariant, PTL

-----------------------------------------------------------------------------
(***************************************************************************)
(* What the guard's decision rests on until the last PATCH, and that a run *)
(* that is under way has no exit code yet.                                 *)
(***************************************************************************)
RunBooks ==
  /\ phase # "idle" => exit = "running"
  /\ phase \in {"loaded", "writing", "retiring"} => loaded \subseteq known
  /\ phase = "retiring" =>
       /\ retired \subseteq Missing
       /\ retired # {} => ~OverShare(Missing, known)

LEMMA StepKeepsRunBooks == IInv /\ RunBooks /\ [Next]_vars => RunBooks'
<1> SUFFICES ASSUME IInv, RunBooks, [Next]_vars PROVE RunBooks'
  OBVIOUS
<1>1. CASE phase' = "idle"
  BY <1>1 DEF RunBooks
<1>2. CASE Load
  BY <1>2 DEF Load, RunBooks
<1>3. CASE Collect
  BY <1>3 DEF Collect, RunBooks
<1>4. CASE \E B \in SUBSET pending : Batch(B)
  <2>1. PICK B \in SUBSET pending : Batch(B)
    BY <1>4
  <2>2. CASE WriteBatch(B)
    BY <2>2 DEF WriteBatch, NextBatch, RunBooks
  <2>3. CASE BatchRejected(B)
    BY <2>3 DEF BatchRejected, NextBatch, RunBooks
  <2>4. CASE BatchRaises(B) \/ BatchCrashes(B)
    BY <1>1, <2>4 DEF BatchRaises, BatchCrashes, Stop
  <2> QED BY <2>1, <2>2, <2>3, <2>4 DEF Batch
<1>5. CASE EndWrites
  BY <1>5 DEF EndWrites, RunBooks, IInv, Bookkeeping
<1>6. CASE \E d \in toRetire : Retire(d)
  <2>1. PICK d \in toRetire : Retire(d)
    BY <1>6
  <2>2. CASE RetireOne(d)
    BY <2>2 DEF RetireOne, RunBooks, IInv, RetirePlan, Missing, OverShare
  <2>3. CASE RetireRefused(d)
    BY <2>3 DEF RetireRefused, RunBooks, Missing, OverShare
  <2>4. CASE RetireRaises(d)
    BY <1>1, <2>4 DEF RetireRaises, Stop
  <2> QED BY <2>1, <2>2, <2>3, <2>4 DEF Retire
<1>7. CASE Save
  BY <1>7 DEF Save, RunBooks
<1>8. CASE CollectRaises \/ Finish \/ Kill
  BY <1>1, <1>8 DEF CollectRaises, Finish, Kill, Stop
<1>9. CASE \E d \in Device : Enrol(d) \/ Leave(d)
  BY <1>9 DEF Enrol, Leave, run, RunBooks, Missing, OverShare
<1>10. CASE UNCHANGED vars
  BY <1>10 DEF vars, run, RunBooks, Missing, OverShare
<1> QED BY <1>2, <1>3, <1>4, <1>5, <1>6, <1>7, <1>8, <1>9, <1>10 DEF Next, Step, Environment

LEMMA SyncRunBooks == Spec => []RunBooks
<1>1. Init => RunBooks
  BY DEF Init, RunBooks
<1> QED BY <1>1, SyncInvariant, StepKeepsRunBooks, PTL DEF Spec

(***************************************************************************)
(* A batch that fails as a whole is contained, as the comment and the      *)
(* document quoted at BatchFailureContained say, with the per-CI writer or *)
(* where no request fails for good: the run that ends in the middle of its *)
(* writes is one of the IRE writer (or a preview) in an outage, only.      *)
(***************************************************************************)
THEOREM SyncBatchFailureContained ==
  ASSUME ~May("outage") \/ \A c \in Configs : c.mode = "cmdb_instance" /\ ~c.dryRun
  PROVE  Spec => BatchFailureContained
<1>1. IInv /\ RunBooks /\ [Next]_vars =>
        [(phase = "writing" /\ pending # {}) => exit' # "failed"]_vars
  <2> SUFFICES ASSUME IInv, RunBooks, [Next]_vars, phase = "writing"
               PROVE  exit' # "failed"
    OBVIOUS
  <2>1. exit = "running" /\ cfg \in Configs
    BY DEF RunBooks, IInv, TypeOK
  <2>2. CASE \E B \in SUBSET pending : Batch(B)
    <3>1. PICK B \in SUBSET pending : Batch(B)
      BY <2>2
    <3>2. ~BatchRaises(B)
      BY <2>1 DEF BatchRaises
    <3> QED BY <2>1, <3>1, <3>2 DEF Batch, WriteBatch, BatchRejected, BatchCrashes, Stop
  <2>3. CASE EndWrites \/ Kill
    BY <2>1, <2>3 DEF EndWrites, Kill, Stop
  <2>4. CASE \E d \in Device : Enrol(d) \/ Leave(d)
    BY <2>1, <2>4 DEF Enrol, Leave, run
  <2>5. CASE UNCHANGED vars
    BY <2>1, <2>5 DEF vars, run
  <2>6. CASE Load \/ Collect \/ CollectRaises \/ Save \/ Finish \/ \E d \in toRetire : Retire(d)
    BY <2>6 DEF Load, Collect, CollectRaises, Save, Finish, Retire, RetireOne, RetireRefused,
                RetireRaises
  <2> QED BY <2>2, <2>3, <2>4, <2>5, <2>6 DEF Next, Step, Environment
<1> QED BY <1>1, SyncInvariant, SyncRunBooks, PTL DEF Spec, BatchFailureContained

(***************************************************************************)
(* The share the guard computes, against the one the README speaks of.     *)
(* What is missing is what the run loaded and did not collect; it is       *)
(* compared with all the devices known by then, newly enrolled ones among  *)
(* them.  So the share of the devices known from earlier runs is bounded,  *)
(* too, whenever the run has collected no device it had not on file.       *)
(***************************************************************************)
THEOREM SyncGuardCountsNewcomers ==
  Spec => [][(\E c \in Ci : Retiring(c)) =>
               /\ ~OverShare(loaded \ fetched, known)
               /\ known \subseteq loaded \cup fetched
               /\ fetched \subseteq loaded => ~OverShare(loaded \ fetched, loaded)]_vars
<1>1. IInv /\ RunBooks /\ [Next]_vars =>
        [(\E c \in Ci : Retiring(c)) =>
           /\ ~OverShare(loaded \ fetched, known)
           /\ known \subseteq loaded \cup fetched
           /\ fetched \subseteq loaded => ~OverShare(loaded \ fetched, loaded)]_vars
  <2> SUFFICES ASSUME IInv, RunBooks, [Next]_vars, NEW c \in Ci, Retiring(c)
               PROVE  /\ ~OverShare(loaded \ fetched, known)
                      /\ known \subseteq loaded \cup fetched
                      /\ fetched \subseteq loaded => ~OverShare(loaded \ fetched, loaded)
    OBVIOUS
  <2>1. phase = "retiring" /\ toRetire # {}
    BY WhoRetires
  <2>2. ~OverShare(Missing, known) /\ loaded \subseteq known /\ known \subseteq loaded \cup fetched
    BY <2>1 DEF IInv, RetirePlan, Bookkeeping, RunBooks
  <2>3. Missing = loaded \ fetched
    BY <2>2 DEF Missing
  <2>4. fetched \subseteq loaded => known = loaded
    BY <2>2
  <2> QED BY <2>2, <2>3, <2>4
<1> QED BY <1>1, SyncInvariant, SyncRunBooks, PTL DEF Spec

(* A part of a set that is within the share is within it. *)
LEMMA ShareShrinks ==
  ASSUME TypeOK, NEW S \in SUBSET Device, NEW T \in SUBSET S, NEW total \in SUBSET Device,
         ~OverShare(S, total)
  PROVE  ~OverShare(T, total)
<1>1. IsFiniteSet(S) /\ IsFiniteSet(total)
  BY FS_Subset, ConstantsAssumption
<1> DEFINE t == IF total = {} THEN 1 ELSE Cardinality(total)
<1>2. /\ Cardinality(S) \in Nat /\ Cardinality(T) \in Nat
      /\ Cardinality(T) <= Cardinality(S)
      /\ t \in Nat
  BY <1>1, FS_Subset, FS_CardinalityType
<1>3. cfg.den \in Nat /\ cfg.num \in Nat
  BY ConstantsAssumption DEF TypeOK, Config
<1>4. \A m, n, k \in Nat : m <= n => m * k <= n * k
  OBVIOUS
<1>5. Cardinality(T) * cfg.den <= Cardinality(S) * cfg.den
  BY <1>2, <1>3, <1>4
<1>6. /\ Cardinality(T) * cfg.den \in Nat
      /\ Cardinality(S) * cfg.den \in Nat
      /\ cfg.num * t \in Nat
  BY <1>2, <1>3
<1>7. ~(Cardinality(S) * cfg.den > cfg.num * t)
  BY DEF OverShare
<1>8. ~(Cardinality(T) * cfg.den > cfg.num * t)
  BY <1>5, <1>6, <1>7
<1> QED BY <1>8 DEF OverShare

(***************************************************************************)
(* Not the single PATCH but the whole retirement loop keeps within the     *)
(* configured share: what it has retired and what it has left to retire,   *)
(* together, are no more than that share of the known devices.             *)
(***************************************************************************)
THEOREM SyncRetiredWithinShare ==
  Spec => [](phase = "retiring" => ~OverShare(retired \cup toRetire, known))
<1>1. IInv /\ RunBooks => (phase = "retiring" => ~OverShare(retired \cup toRetire, known))
  <2> SUFFICES ASSUME IInv, RunBooks, phase = "retiring"
               PROVE  ~OverShare(retired \cup toRetire, known)
    OBVIOUS
  <2>1. retired \cup toRetire \subseteq Missing /\ Missing \subseteq Device /\ known \subseteq Device
    BY DEF RunBooks, IInv, RetirePlan, TypeOK, Missing
  <2>2. CASE retired \cup toRetire # {}
    <3>1. ~OverShare(Missing, known)
      BY <2>2 DEF RunBooks, IInv, RetirePlan
    <3> QED BY <2>1, <3>1, ShareShrinks DEF IInv
  <2>3. CASE retired \cup toRetire = {}
    <3> DEFINE t == IF known = {} THEN 1 ELSE Cardinality(known)
    <3>1. Cardinality(retired \cup toRetire) = 0
      BY <2>3, FS_EmptySet
    <3>2. t \in Nat
      BY <2>1, FS_Subset, FS_CardinalityType, ConstantsAssumption
    <3>3. cfg.den \in Nat /\ cfg.num \in Nat
      BY ConstantsAssumption DEF IInv, TypeOK, Config
    <3>4. 0 * cfg.den = 0 /\ cfg.num * t \in Nat
      BY <3>2, <3>3
    <3>5. ~(0 * cfg.den > cfg.num * t)
      BY <3>4
    <3> QED BY <3>1, <3>5 DEF OverShare
  <2> QED BY <2>2, <2>3
<1> QED BY <1>1, SyncInvariant, SyncRunBooks, PTL

-----------------------------------------------------------------------------
(***************************************************************************)
(* Why a run ends, as far as safety goes: every step of a run takes it to  *)
(* a later stage or leaves it fewer batches or fewer PATCHes to go, and no *)
(* stage can find itself without a next step.  That a step which is        *)
(* possible is taken is fairness, and the model checker's (RunEnds).       *)
(***************************************************************************)
StageOf == [p \in Phases |-> CASE p = "loaded" -> 1
                               [] p = "writing" -> 2
                               [] p = "retiring" -> 3
                               [] p = "exiting" -> 4
                               [] p = "idle" -> 5]

(* What the stage the run is in has left to do. *)
ToDo == Cardinality(pending) + Cardinality(toRetire)

(* The run goes on: to a later stage, or with less left to do in this one. *)
GoesOn ==
  \/ StageOf[phase'] > StageOf[phase]
  \/ phase' = phase /\ ToDo' < ToDo

LEMMA StagesAre ==
  /\ StageOf["loaded"] = 1
  /\ StageOf["writing"] = 2
  /\ StageOf["retiring"] = 3
  /\ StageOf["exiting"] = 4
  /\ StageOf["idle"] = 5
BY DEF StageOf, Phases

LEMMA ToDoIsNat ==
  ASSUME TypeOK
  PROVE  /\ IsFiniteSet(pending) /\ Cardinality(pending) \in Nat
         /\ IsFiniteSet(toRetire) /\ Cardinality(toRetire) \in Nat
         /\ ToDo \in Nat
<1>1. IsFiniteSet(pending) /\ IsFiniteSet(toRetire)
  BY FS_Subset, ConstantsAssumption DEF TypeOK
<1>2. Cardinality(pending) \in Nat /\ Cardinality(toRetire) \in Nat
  BY <1>1, FS_CardinalityType
<1> QED BY <1>1, <1>2 DEF ToDo

(* Taking some of a finite set away leaves fewer. *)
LEMMA FewerLeft ==
  ASSUME NEW S, IsFiniteSet(S), NEW T \in SUBSET S, T # {}
  PROVE  Cardinality(S \ T) < Cardinality(S)
<1>1. Cardinality(S \ T) <= Cardinality(S) /\ IsFiniteSet(S \ T)
  BY FS_Subset
<1>2. Cardinality(S \ T) # Cardinality(S)
  BY FS_Subset
<1>3. Cardinality(S \ T) \in Nat /\ Cardinality(S) \in Nat
  BY <1>1, FS_CardinalityType
<1> QED BY <1>1, <1>2, <1>3

LEMMA BatchGoesOn ==
  ASSUME TypeOK, NEW B \in SUBSET pending, Batch(B)
  PROVE  GoesOn
<1>1. phase = "writing" /\ B # {}
  BY DEF Batch, WriteBatch, BatchRejected, BatchRaises, BatchCrashes, NextBatch
<1>2. CASE WriteBatch(B) \/ BatchRejected(B)
  <2>1. pending' = pending \ B /\ UNCHANGED <<phase, toRetire>>
    BY <1>2 DEF WriteBatch, BatchRejected
  <2>2. Cardinality(pending') < Cardinality(pending) /\ Cardinality(pending') \in Nat
    <3>1. IsFiniteSet(pending')
      BY <2>1, ToDoIsNat, FS_Subset
    <3> QED BY <1>1, <2>1, <3>1, ToDoIsNat, FewerLeft, FS_CardinalityType
  <2> QED BY <2>1, <2>2, ToDoIsNat DEF GoesOn, ToDo
<1>3. CASE BatchRaises(B) \/ BatchCrashes(B)
  <2>1. phase' = "idle"
    BY <1>3 DEF BatchRaises, BatchCrashes, Stop
  <2> QED BY <1>1, <2>1, StagesAre DEF GoesOn
<1> QED BY <1>2, <1>3 DEF Batch

LEMMA RetireGoesOn ==
  ASSUME TypeOK, NEW d \in toRetire, Retire(d)
  PROVE  GoesOn
<1>1. phase = "retiring"
  BY DEF Retire, RetireOne, RetireRefused, RetireRaises
<1>2. CASE RetireOne(d) \/ RetireRefused(d)
  <2>1. toRetire' = toRetire \ {d} /\ UNCHANGED <<phase, pending>>
    BY <1>2 DEF RetireOne, RetireRefused
  <2>2. Cardinality(toRetire') < Cardinality(toRetire) /\ Cardinality(toRetire') \in Nat
    <3>1. IsFiniteSet(toRetire')
      BY <2>1, ToDoIsNat, FS_Subset
    <3>2. {d} # {} /\ {d} \in SUBSET toRetire
      OBVIOUS
    <3> QED BY <2>1, <3>1, <3>2, ToDoIsNat, FewerLeft, FS_CardinalityType
  <2> QED BY <2>1, <2>2, ToDoIsNat DEF GoesOn, ToDo
<1>3. CASE RetireRaises(d)
  <2>1. phase' = "idle"
    BY <1>3 DEF RetireRaises, Stop
  <2> QED BY <1>1, <2>1, StagesAre DEF GoesOn
<1> QED BY <1>2, <1>3 DEF Retire

LEMMA StepGoesOn ==
  ASSUME IInv, [Next]_vars, phase # "idle"
  PROVE  GoesOn \/ UNCHANGED run
<1>1. CASE Collect
  <2>1. phase = "loaded" /\ phase' \in {"writing", "exiting"}
    BY <1>1 DEF Collect
  <2> QED BY <2>1, StagesAre DEF GoesOn
<1>2. CASE CollectRaises \/ Kill
  <2>1. phase' = "idle"
    BY <1>2 DEF CollectRaises, Kill, Stop
  <2> QED BY <2>1, StagesAre DEF GoesOn, IInv, TypeOK, Phases
<1>3. CASE \E B \in SUBSET pending : Batch(B)
  BY <1>3, BatchGoesOn DEF IInv
<1>4. CASE EndWrites
  BY <1>4, StagesAre DEF EndWrites, GoesOn
<1>5. CASE \E d \in toRetire : Retire(d)
  BY <1>5, RetireGoesOn DEF IInv
<1>6. CASE Save
  BY <1>6, StagesAre DEF Save, GoesOn
<1>7. CASE Finish
  BY <1>7, StagesAre DEF Finish, GoesOn
<1>8. CASE \E d \in Device : Enrol(d) \/ Leave(d)
  BY <1>8 DEF Enrol, Leave
<1>9. CASE UNCHANGED vars
  BY <1>9 DEF vars
<1>10. ~Load
  BY DEF Load
<1> QED BY <1>1, <1>2, <1>3, <1>4, <1>5, <1>6, <1>7, <1>8, <1>9, <1>10
        DEF Next, Step, Environment

(***************************************************************************)
(* Every step of a run, an end forced on it included, takes it to a later  *)
(* stage or lessens what it has left to do, a natural number; what changes *)
(* meanwhile without lessening it is the fleet, which the run does not     *)
(* wait for.  No batch and no PATCH is ever done twice by one run.         *)
(***************************************************************************)
THEOREM SyncRunGetsOn ==
  Spec => [](ToDo \in Nat) /\ [][phase # "idle" => GoesOn \/ UNCHANGED run]_vars
<1>1. IInv => ToDo \in Nat
  BY ToDoIsNat DEF IInv
<1>2. IInv /\ [Next]_vars => [phase # "idle" => GoesOn \/ UNCHANGED run]_vars
  BY StepGoesOn
<1> QED BY <1>1, <1>2, SyncInvariant, PTL DEF Spec

-----------------------------------------------------------------------------
(* A finite set has a subset of every size up to its own. *)
LEMMA SubsetOfSize ==
  ASSUME NEW S, IsFiniteSet(S), NEW n \in Nat, n <= Cardinality(S)
  PROVE  \E T \in SUBSET S : IsFiniteSet(T) /\ Cardinality(T) = n
<1> DEFINE m == Cardinality(S)
<1>1. m \in Nat /\ ExistsBijection(1..m, S)
  BY FS_CardinalityType
<1>2. PICK f \in Bijection(1..m, S) : TRUE
  BY <1>1 DEF ExistsBijection
<1>3. /\ f \in [1..m -> S]
      /\ \A i, j \in 1..m : f[i] = f[j] => i = j
  BY <1>2 DEF Bijection, Injection, IsInjective
<1> DEFINE T == {f[i] : i \in 1..n}
           g == [i \in 1..n |-> f[i]]
<1>4. 1..n \subseteq 1..m
  BY <1>1
<1>5. T \in SUBSET S
  BY <1>3, <1>4
<1>6. g \in Bijection(1..n, T)
  BY <1>3, <1>4 DEF Bijection, Injection, IsInjective, Surjection
<1>7. ExistsBijection(1..n, T)
  BY <1>6 DEF ExistsBijection
<1>8. IsFiniteSet(1..n) /\ Cardinality(1..n) = n
  BY FS_Interval
<1>9. IsFiniteSet(T) /\ Cardinality(T) = n
  BY <1>7, <1>8, FS_Bijection
<1> QED BY <1>5, <1>9

(* While payloads are left there is a next batch of them. *)
LEMMA BatchAvailable ==
  ASSUME TypeOK, phase = "writing", pending # {}
  PROVE  \E B \in SUBSET pending : NextBatch(B)
<1>1. cfg.batch \in Nat /\ cfg.batch # 0
  BY ConstantsAssumption DEF TypeOK, Config
<1>2. IsFiniteSet(pending) /\ Cardinality(pending) \in Nat
  BY ToDoIsNat
<1>3. CASE cfg.batch <= Cardinality(pending)
  <2>1. PICK B \in SUBSET pending : IsFiniteSet(B) /\ Cardinality(B) = cfg.batch
    BY <1>1, <1>2, <1>3, SubsetOfSize
  <2>2. B # {}
    BY <1>1, <2>1, FS_EmptySet
  <2> QED BY <2>1, <2>2 DEF NextBatch
<1>4. CASE Cardinality(pending) < cfg.batch
  BY <1>4 DEF NextBatch
<1> QED BY <1>1, <1>2, <1>3, <1>4

(* Whatever a writer has been through, it has an answer to every batch. *)
CanAnswer(B) ==
  \E landed \in SUBSET B : \E ok \in SUBSET landed : \E seen \in SUBSET ok : \E now \in BOOLEAN :
    Answer(B, ok, landed, seen, now)

LEMMA AnswerAvailable ==
  ASSUME TypeOK, NEW B \in SUBSET pending, NextBatch(B)
  PROVE  CanAnswer(B)
<1>1. B # {} /\ aborted \in BOOLEAN
  BY DEF NextBatch, TypeOK
<1>2. CASE cfg.mode = "cmdb_instance" /\ ~cfg.dryRun /\ aborted
  <2>1. Answer(B, {}, {}, {}, TRUE)
    BY <1>2 DEF Answer, CallOutcome
  <2> QED BY <2>1 DEF CanAnswer
<1>3. CASE cfg.mode = "cmdb_instance" /\ ~cfg.dryRun /\ ~aborted
  <2>1. Answer(B, B, B, B, FALSE)
    BY <1>1, <1>3 DEF Answer, CallOutcome
  <2> QED BY <2>1 DEF CanAnswer
<1>4. CASE ~(cfg.mode = "cmdb_instance" /\ ~cfg.dryRun)
  <2> DEFINE seen == IF cfg.dryRun THEN {} ELSE B
  <2>1. Answer(B, B, B, seen, aborted)
    BY <1>4 DEF Answer
  <2> QED BY <1>1, <2>1 DEF CanAnswer
<1> QED BY <1>1, <1>2, <1>3, <1>4

(* A list for Collect to take: the fleet, cut to the device limit. *)
LEMMA ListAvailable ==
  ASSUME TypeOK
  PROVE  \E S \in SUBSET fleet : \E kept \in SUBSET S : Listing(S) /\ Collected(cfg.limit, S, kept)
<1>1. Listing(fleet)
  BY DEF Listing
<1>2. cfg.limit \in Nat /\ IsFiniteSet(fleet) /\ Cardinality(fleet) \in Nat
  BY ConstantsAssumption, FS_Subset, FS_CardinalityType DEF TypeOK, Config
<1>3. \E kept \in SUBSET fleet : Collected(cfg.limit, fleet, kept)
  <2>1. CASE cfg.limit = 0 \/ Cardinality(fleet) <= cfg.limit
    BY <1>2, <2>1 DEF Collected
  <2>2. CASE cfg.limit > 0 /\ cfg.limit <= Cardinality(fleet)
    <3>1. PICK kept \in SUBSET fleet : IsFiniteSet(kept) /\ Cardinality(kept) = cfg.limit
      BY <1>2, <2>2, SubsetOfSize
    <3>2. kept # {}
      BY <2>2, <3>1, FS_EmptySet
    <3> QED BY <1>2, <2>2, <3>1, <3>2 DEF Collected
  <2> QED BY <1>2, <2>1, <2>2
<1> QED BY <1>1, <1>3

(***************************************************************************)
(* In every stage of a run the program has a next step that depends on     *)
(* nothing but an answer to the request it makes: a list to collect, a     *)
(* batch with an answer its writer can give whatever the guard has seen,   *)
(* the end of the writes, a PATCH or the save, the exit.                   *)
(***************************************************************************)
HasNextStep ==
  \/ /\ phase = "loaded"
     /\ \E S \in SUBSET fleet : \E kept \in SUBSET S : Listing(S) /\ Collected(cfg.limit, S, kept)
  \/ /\ phase = "writing"
     /\ pending = {} \/ \E B \in SUBSET pending : NextBatch(B) /\ CanAnswer(B)
  \/ phase \in {"retiring", "exiting", "idle"}

THEOREM SyncNeverStuck == Spec => []HasNextStep
<1>1. TypeOK => HasNextStep
  <2> SUFFICES ASSUME TypeOK PROVE HasNextStep
    OBVIOUS
  <2>1. CASE phase = "loaded"
    BY <2>1, ListAvailable DEF HasNextStep
  <2>2. CASE phase = "writing"
    BY <2>2, BatchAvailable, AnswerAvailable DEF HasNextStep
  <2>3. CASE phase \in {"retiring", "exiting", "idle"}
    BY <2>3 DEF HasNextStep
  <2> QED BY <2>1, <2>2, <2>3 DEF TypeOK, Phases
<1> QED BY <1>1, SyncTypeOK, PTL

-----------------------------------------------------------------------------
(* Graph's list is complete and never empty. *)
Listable == ~May("partialFetch") /\ Permanent # {}

(* A run that retires and has nothing to report has put on file what it knows. *)
FileBooks ==
  (Listable /\ Retires /\ Silent /\ phase \in {"exiting", "idle"}) =>
    store \subseteq known /\ fetched = census

LEMMA StepKeepsFile == IInv /\ FileBooks /\ [Next]_vars => FileBooks'
<1> SUFFICES ASSUME IInv, FileBooks, [Next]_vars, Listable PROVE FileBooks'
  BY DEF FileBooks
<1>1. CASE Load \/ EndWrites
  BY <1>1 DEF Load, EndWrites, FileBooks
<1>2. CASE Collect
  <2>1. cfg' = cfg /\ (phase' = "exiting" => fetched' = {}) /\ phase' \in {"writing", "exiting"}
    BY <1>2 DEF Collect
  <2>2. Retires' => phase' # "exiting"
    BY <1>2, <2>1, CollectsSome DEF Listable, Retires, IInv, MissingBooks
  <2> QED BY <2>1, <2>2 DEF FileBooks
<1>3. CASE \E B \in SUBSET pending : Batch(B)
  <2>1. PICK B \in SUBSET pending : Batch(B)
    BY <1>3
  <2>2. phase' = "writing" \/ (phase' = "idle" /\ exit' # "ok")
    BY <2>1 DEF Batch, WriteBatch, BatchRejected, BatchRaises, BatchCrashes, NextBatch, Stop
  <2> QED BY <2>2 DEF FileBooks, Silent
<1>4. CASE \E d \in toRetire : Retire(d)
  <2>1. phase' = "retiring" \/ (phase' = "idle" /\ exit' # "ok")
    BY <1>4 DEF Retire, RetireOne, RetireRefused, RetireRaises, Stop
  <2> QED BY <2>1 DEF FileBooks, Silent
<1>5. CASE Save
  <2>1. ~degraded' => store' = IF cfg.dryRun THEN store ELSE known'
    BY <1>5, Zenon DEF Save
  <2>2. phase = "retiring" /\ phase' = "exiting" /\ UNCHANGED <<cfg, fetched, census>>
    BY <1>5 DEF Save
  <2>3. cfg.limit = 0 => fetched = census
    BY <2>2 DEF IInv, RetirePlan, Listable
  <2> QED BY <2>1, <2>2, <2>3 DEF FileBooks, Silent, Retires
<1>6. CASE Finish
  <2>1. exit' = "ok" => ~degraded
    BY <1>6, Zenon DEF Finish
  <2>2. phase = "exiting" /\ phase' = "idle" /\ UNCHANGED <<cfg, store, known, fetched, census>>
    BY <1>6 DEF Finish
  <2> QED BY <2>1, <2>2 DEF FileBooks, Silent, Retires
<1>7. CASE CollectRaises \/ Kill
  BY <1>7 DEF CollectRaises, Kill, Stop, FileBooks, Silent
<1>8. CASE \E d \in Device : Enrol(d) \/ Leave(d)
  BY <1>8 DEF Enrol, Leave, run, FileBooks, Silent, Retires
<1>9. CASE UNCHANGED vars
  BY <1>9 DEF vars, run, FileBooks, Silent, Retires
<1> QED BY <1>1, <1>2, <1>3, <1>4, <1>5, <1>6, <1>7, <1>8, <1>9 DEF Next, Step, Environment

(***************************************************************************)
(* Exit code 0 of a run that may retire: the state file names no device    *)
(* that was not in Intune when the run asked.  So whoever has left before  *)
(* a run is forgotten by it or the run reports trouble, which is why no    *)
(* departed device stays on the books for good (DepartedNotForgotten) as   *)
(* long as such runs keep being started.                                   *)
(***************************************************************************)
THEOREM SyncOkForgetsDeparted ==
  ASSUME ~May("patchRefused"), ~May("partialFetch"), Permanent # {}
  PROVE  Spec => [](phase = "idle" /\ exit = "ok" /\ Retires => store \subseteq census)
<1>1. Init => FileBooks
  BY DEF Init, FileBooks
<1>2. IInv /\ FileBooks => (phase = "idle" /\ exit = "ok" /\ Retires => store \subseteq census)
  BY DEF IInv, MissingBooks, FileBooks, Listable, Silent, Missing
<1> QED BY <1>1, <1>2, SyncInvariant, StepKeepsFile, PTL DEF Spec
=============================================================================
