---------------------------- MODULE CiLifecycle ----------------------------
(***************************************************************************)
(* What the connector promises about the CIs it looks after and the record *)
(* it keeps of them, run after run: a CI is retired only on behalf of a    *)
(* device on record from an earlier run; a device goes on record only once *)
(* its CI is in the CMDB, and comes off it only once its CI is retired.    *)
(***************************************************************************)
CONSTANTS Device, Ci, CiOf

VARIABLES
  cmdb,   \* the status of every CI
  store   \* the devices on record

vars == <<cmdb, store>>

Init ==
  /\ cmdb \in [Ci -> {"absent", "active"}]
  /\ store = {}

(* Some CIs are created or put back in service. *)
Write ==
  /\ cmdb' \in [Ci -> {"absent", "active", "retired"}]
  /\ \A c \in Ci : cmdb'[c] # cmdb[c] => cmdb'[c] = "active"
  /\ UNCHANGED store

Retire(d) ==
  /\ cmdb[CiOf[d]] # "absent"
  /\ cmdb' = [cmdb EXCEPT ![CiOf[d]] = "retired"]
  /\ UNCHANGED store

Record ==
  /\ store' \in SUBSET Device
  /\ \A d \in store \ store' : cmdb[CiOf[d]] = "retired"
  /\ \A d \in store' \ store : cmdb[CiOf[d]] # "absent"
  /\ UNCHANGED cmdb

Next ==
  \/ Write
  \/ \E d \in store : Retire(d)
  \/ Record

Spec == Init /\ [][Next]_vars
=============================================================================
