--------------------------- MODULE GraphAttribute ---------------------------
(***************************************************************************)
(* GraphClient.get_custom_attribute_values and the filling in of RAM from  *)
(* it (SyncRunner._fill_ram_from_attribute): a paged read whose query may  *)
(* be refused half way and is then started anew in a plainer form.         *)
(***************************************************************************)
EXTENDS RunSettings

CONSTANTS
  Reported,   \* Macs whose last run of the script succeeded with a usable output
  GraphRam    \* devices for which the hardware detail has a size of the memory

ASSUME AttributeAssumption ==
  /\ Reported \subseteq Device
  /\ GraphRam \subseteq Device

VARIABLES
  query,     \* "select" or "plain": the expand of the read; "none": no read
  unread,    \* run states the server has still to list
  outputs,   \* devices with an output among the states listed
  ram        \* where the size of a device's memory comes from

attributeVars == <<query, unread, outputs, ram>>

AttributeIdle ==
  /\ query = "none"
  /\ unread = {} /\ outputs = {}
  /\ ram = [d \in Device |-> "none"]

(* Exactly one script has the name that was configured. *)
ReadAttribute ==
  /\ query = "none"
  /\ query' = "select"
  /\ unread' = Device
  /\ outputs' = {}
  /\ UNCHANGED ram

StatesPage(S) ==
  /\ query # "none"
  /\ S # {} /\ S \subseteq unread
  /\ unread' = unread \ S
  /\ outputs' = outputs \cup (S \cap Reported)
  /\ UNCHANGED <<query, ram>>

(* A bug of that kind: the plain read takes up where the other broke off. *)
StatesRefusedResumed ==
  /\ query = "select" /\ unread # {}
  /\ query' = "plain"
  /\ outputs' = {}
  /\ UNCHANGED <<unread, ram>>

(* _GraphBadRequest on any page: from the start, with the plain expand. *)
StatesRefused ==
  /\ query = "select" /\ unread # {}
  /\ query' = "plain"
  /\ unread' = Device
  /\ outputs' = {}
  /\ UNCHANGED ram

(* Graph's own value wins wherever it has one. *)
FillRam(kept) ==
  /\ query # "none" /\ unread = {}
  /\ ram' = [d \in Device |-> IF d \in kept \cap outputs /\ ram[d] = "none"
                              THEN "attribute" ELSE ram[d]]

(***************************************************************************)
(* No script or several, a page refused for good, a retry that ran out or  *)
(* a body that is no JSON: a warning, and no memory size from there.       *)
(***************************************************************************)
AttributeUnreadable == unread # {} /\ UNCHANGED ram

-----------------------------------------------------------------------------
(* The outputs are those of the states listed since the read was last begun. *)
AttributeBooks ==
  /\ query \in {"none", "select", "plain"}
  /\ unread \subseteq Device
  /\ ram \in [Device -> {"none", "graph", "attribute"}]
  /\ query # "none" => outputs = Reported \ unread

(***************************************************************************)
(* What is filled in comes from one complete read: every Mac with a good   *)
(* run state has its output, however often the read was started anew.      *)
(***************************************************************************)
AttributeWhole == (query # "none" /\ unread = {}) => outputs = Reported
=============================================================================
