---------------------------- MODULE RunSettings ----------------------------
(***************************************************************************)
(* What the stages of one run share: the settings it was started with, the *)
(* devices as Graph describes them, and the stage SyncRunner.run is in.    *)
(***************************************************************************)
EXTENDS Naturals, FiniteSets, Sequences

CONSTANTS
  Device,    \* the managed devices of the tenant
  User,      \* Entra users
  Name,      \* manufacturers and models, as ServiceNow would name them
  NoOne,     \* no user
  NoName,    \* no manufacturer, no model
  Settings   \* the settings runs are started with

(***************************************************************************)
(* INTUNE_OWNERSHIP, INTUNE_SERVER_SIDE_FILTER, INTUNE_DEVICE_LIMIT (0:    *)
(* none), SNOW_FETCH_HARDWARE_DETAIL, INTUNE_MAC_RAM_ATTRIBUTE (set or     *)
(* not), SNOW_ASSIGN_USER, ENTRA_ENRICH_USERS, the two create flags of the *)
(* reference resolver, SNOW_BATCH_SIZE, --dry-run.                         *)
(***************************************************************************)
Setting == [ownership : {"company", "personal", "any"}, serverFilter : BOOLEAN, limit : Nat,
            hardware : BOOLEAN, ramAttribute : BOOLEAN, assignUser : BOOLEAN,
            enrichUsers : BOOLEAN, createMakers : BOOLEAN, createModels : BOOLEAN,
            batch : Nat \ {0}, dryRun : BOOLEAN]

(***************************************************************************)
(* A serial number as normalize_serial looks at it: its text with spaces   *)
(* collapsed, whether that is on the blocklist, its length, and whether it *)
(* is one character repeated.                                              *)
(***************************************************************************)
Serial == [text : STRING, listed : BOOLEAN, length : Nat, uniform : BOOLEAN]

CONSTANTS
  Owner,     \* managedDeviceOwnerType of a device
  UserOf,    \* its userId
  SerialOf,  \* its serialNumber
  NameOf,    \* its deviceName, or managedDeviceName ("": neither)
  HasClass,  \* devices whose operating system has a CMDB class
  MakerOf,   \* its manufacturer
  ModelOf    \* its model

ASSUME SettingsAssumption ==
  /\ IsFiniteSet(Device)
  /\ Settings \subseteq Setting
  /\ Owner \in [Device -> {"company", "personal", "unknown"}]
  /\ UserOf \in [Device -> User \cup {NoOne}]
  /\ SerialOf \in [Device -> Serial]
  /\ NameOf \in [Device -> STRING]
  /\ HasClass \subseteq Device
  /\ MakerOf \in [Device -> Name \cup {NoName}]
  /\ ModelOf \in [Device -> Name \cup {NoName}]
  /\ NoName \notin Name
  /\ NoOne \notin User

VARIABLES
  cfg,     \* the settings of the run
  stage    \* where SyncRunner.run is

Stages == {"listing", "hardware", "ram", "users", "match", "prime", "build", "write",
           "done", "raised"}

(* A bug of that kind: the server's filter is relied upon. *)
IsCorporateTrusting(d) == cfg.ownership = "any" \/ Owner[d] = cfg.ownership \/ cfg.serverFilter

(* is_corporate: the client's own check of who owns a device. *)
IsCorporate(d) == cfg.ownership = "any" \/ Owner[d] = cfg.ownership
=============================================================================
