----------------------------- MODULE IreWriter -----------------------------
(***************************************************************************)
(* IdentifyReconcileWriter._parse_results: the items of IRE's answer to    *)
(* the devices of a batch, by position, though each item is about a device *)
(* of its own; and what normalize_serial lets through for IRE to identify  *)
(* a CI by.                                                                *)
(***************************************************************************)
EXTENDS RunSettings

CONSTANTS
  MinSerial,   \* MIN_SERIAL_LENGTH
  NoCi         \* no sys_id

(* A bug of that kind: an all-zero serial number passes. *)
UsableSerialUniform(s) == s.text # "" /\ ~s.listed /\ s.length >= MinSerial

(* normalize_serial returns the number, and not None. *)
UsableSerial(s) == s.text # "" /\ ~s.listed /\ s.length >= MinSerial /\ ~s.uniform

(* A device IRE can identify: by serial number or else by name. *)
Identifiable(d) == UsableSerial(SerialOf[d]) \/ NameOf[d] # ""

(* External: the CI that IRE's rules (serial number, then name) select. *)
CiFor(d) ==
  IF UsableSerial(SerialOf[d]) THEN <<"serial", SerialOf[d].text>> ELSE <<"name", NameOf[d]>>

(* What an item can say: an error, a known operation with or without sysId, another. *)
ItemKind == {"errors", "done", "doneNoSysId", "unknown"}

(***************************************************************************)
(* External: IRE's answer to a batch of n devices, an item [about, kind]   *)
(* for each position it has one for, in their order.                       *)
(***************************************************************************)
AnswerTo(n) ==
  {items \in UNION {[1..k -> [about : 1..n, kind : ItemKind]] : k \in 0..n} :
     \A i, j \in DOMAIN items : i < j => items[i].about < items[j].about}

(* Items are left out at the end at most: none is paired with another's device. *)
InPlace(items) == \A i \in DOMAIN items : items[i].about = i

(* A bug of that kind: a device without an item is passed over. *)
ActionOverlapOnly(items, i) ==
  IF i > Len(items) THEN "none"
  ELSE CASE items[i].kind = "errors" -> "error"
         [] items[i].kind = "unknown" -> "error"
         [] OTHER -> "written"

(* The action of the i-th device of a batch, whatever the operation's name. *)
Action(items, i) ==
  IF i > Len(items) THEN "error"
  ELSE CASE items[i].kind = "errors" -> "error"
         [] items[i].kind = "unknown" -> "error"
         [] OTHER -> "written"

(* The sys_id that the result of the i-th device carries. *)
SysId(batch, items, i) ==
  IF i \in DOMAIN items /\ items[i].kind = "done" THEN CiFor(batch[items[i].about]) ELSE NoCi
=============================================================================
