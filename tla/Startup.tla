------------------------------ MODULE Startup ------------------------------
(***************************************************************************)
(* What stands between the start of an invocation and its first request:   *)
(* the environment the host gives it, the secrets (secrets.py) and the     *)
(* validation of config.py.                                                *)
(***************************************************************************)
EXTENDS Naturals, FiniteSets

Secret == {"GRAPH_ACCESS_TOKEN", "GRAPH_CLIENT_SECRET", "SNOW_CLIENT_SECRET", "SNOW_PASSWORD"}

Variable ==
  Secret \cup {"GRAPH_TENANT_ID", "GRAPH_CLIENT_ID", "SNOW_INSTANCE", "SNOW_CLIENT_ID",
               "SNOW_USERNAME", "SNOW_USER_ENTRA_ID_FIELD", "SNOW_CLASS_MAP", "STATE_PATH",
               "APPLICATIONINSIGHTS_CONNECTION_STRING"}

GraphModes == {"access_token", "client_secret", "managed_identity",
               "federated_managed_identity", "workload_identity", "default"}
SnowModes == {"oauth_client_credentials", "oauth_password", "basic"}
WriteModes == {"identify_reconcile", "cmdb_instance"}

(***************************************************************************)
(* An environment.  given: the variables that are set, in one form or      *)
(* another; from: the form of a secret (the value itself, a file, an SSM   *)
(* parameter); wellFormed: every flag, number, list and document parses    *)
(* and is in range; overrides: how mapping overrides are given.            *)
(***************************************************************************)
Setup ==
  [graphAuth : STRING, snowAuth : STRING, writeMode : STRING, given : SUBSET Variable,
   from : [Secret -> {"literal", "file", "ssm"}], wellFormed : BOOLEAN,
   overrides : {"none", "file", "inline", "both"}, entraIdKey : BOOLEAN,
   retire : BOOLEAN, dryRun : BOOLEAN, failOnError : BOOLEAN]

NeededByGraph(s) ==
  CASE s.graphAuth = "access_token" -> {"GRAPH_ACCESS_TOKEN"}
    [] s.graphAuth = "client_secret" ->
         {"GRAPH_TENANT_ID", "GRAPH_CLIENT_ID", "GRAPH_CLIENT_SECRET"}
    [] s.graphAuth = "workload_identity" -> {"GRAPH_TENANT_ID"}
    [] s.graphAuth = "federated_managed_identity" -> {"GRAPH_TENANT_ID", "GRAPH_CLIENT_ID"}
    [] OTHER -> {}

NeededBySnow(s) ==
  CASE s.snowAuth = "oauth_client_credentials" -> {"SNOW_CLIENT_ID", "SNOW_CLIENT_SECRET"}
    [] s.snowAuth = "oauth_password" ->
         {"SNOW_CLIENT_ID", "SNOW_CLIENT_SECRET", "SNOW_USERNAME", "SNOW_PASSWORD"}
    [] s.snowAuth = "basic" -> {"SNOW_USERNAME", "SNOW_PASSWORD"}
    [] OTHER -> {}

(* A class map has a default; retirement needs a state, entra_id its field. *)
Needed(s) ==
  NeededByGraph(s) \cup NeededBySnow(s) \cup {"SNOW_INSTANCE"}
  \cup (IF s.entraIdKey THEN {"SNOW_USER_ENTRA_ID_FIELD"} ELSE {})
  \cup (IF s.retire THEN {"STATE_PATH"} ELSE {})

(* A bug of that kind: a variable that names a secret counts as the secret. *)
ValidByName(s, found) ==
  /\ s.graphAuth \in GraphModes /\ s.snowAuth \in SnowModes /\ s.writeMode \in WriteModes
  /\ s.wellFormed /\ s.overrides # "both"
  /\ Needed(s) \subseteq s.given

(***************************************************************************)
(* _build_config finds no problem, when `found` are the secrets that could *)
(* be resolved: a variable that leads to an empty secret is as good as     *)
(* none.                                                                   *)
(***************************************************************************)
Valid(s, found) ==
  /\ s.graphAuth \in GraphModes /\ s.snowAuth \in SnowModes /\ s.writeMode \in WriteModes
  /\ s.wellFormed /\ s.overrides # "both"
  /\ Needed(s) \subseteq (s.given \ Secret) \cup found

(* The secrets of an environment that are supplied in a given form. *)
Supplied(s, form) == {n \in Secret \cap s.given : s.from[n] = form}

(* The SSM parameters a process has still to look up (lru_cache). *)
Lookups(s, cache) == {n \in Supplied(s, "ssm") : cache[n] = "unasked"}

(***************************************************************************)
(* The cache after the lookups of one configuration, of which `failed` had *)
(* an error or an empty answer: that is cached like any other answer.      *)
(***************************************************************************)
CacheAfter(s, cache, failed) ==
  [n \in Secret |-> IF n \notin Lookups(s, cache) THEN cache[n]
                    ELSE IF n \in failed THEN "nothing" ELSE "current"]

(* What resolve_secret gives: the value, the file's text, the cached answer. *)
Resolved(s, cache, failed) ==
  Supplied(s, "literal")
  \cup (Supplied(s, "file") \ failed)
  \cup {n \in Supplied(s, "ssm") : CacheAfter(s, cache, failed)[n] # "nothing"}
=============================================================================
