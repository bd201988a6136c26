------------------------------ MODULE HostsMC ------------------------------
(* Four deployments, each with the ways an instance may receive it. *)
EXTENDS Hosts, TLC

CONSTANTS p1, p2

(* The Lambda of deploy/aws: one secret in SSM. *)
Serverless ==
  [graphAuth |-> "client_secret", snowAuth |-> "oauth_client_credentials",
   writeMode |-> "identify_reconcile",
   given |-> {"GRAPH_TENANT_ID", "GRAPH_CLIENT_ID", "GRAPH_CLIENT_SECRET", "SNOW_INSTANCE",
              "SNOW_CLIENT_ID", "SNOW_CLIENT_SECRET", "STATE_PATH"},
   from |-> [n \in Secret |-> IF n = "SNOW_CLIENT_SECRET" THEN "ssm" ELSE "literal"],
   wellFormed |-> TRUE, overrides |-> "none", entraIdKey |-> FALSE, retire |-> TRUE,
   dryRun |-> FALSE, failOnError |-> FALSE]

(* The WebJob of deploy/azure: no Graph secret, telemetry, the other write mode. *)
WebApp ==
  [Serverless EXCEPT
     !.graphAuth = "federated_managed_identity", !.snowAuth = "basic",
     !.writeMode = "cmdb_instance",
     !.given = {"GRAPH_TENANT_ID", "GRAPH_CLIENT_ID", "SNOW_INSTANCE", "SNOW_USERNAME",
                "SNOW_PASSWORD", "STATE_PATH", "APPLICATIONINSIGHTS_CONNECTION_STRING"},
     !.from = [n \in Secret |-> "file"], !.failOnError = TRUE]

(* A laptop with a token from the Azure CLI and no state. *)
Laptop ==
  [Serverless EXCEPT
     !.graphAuth = "access_token", !.snowAuth = "oauth_password", !.retire = FALSE,
     !.given = {"GRAPH_ACCESS_TOKEN", "SNOW_INSTANCE", "SNOW_CLIENT_ID", "SNOW_CLIENT_SECRET",
                "SNOW_USERNAME", "SNOW_PASSWORD"},
     !.from = [n \in Secret |-> "literal"], !.dryRun = TRUE]

(* entra_id is a match key, but has no field. *)
Unfinished == [Serverless EXCEPT !.entraIdKey = TRUE]

Open ==
  [grant |-> [e \in Probes |-> "open"], authenticates |-> TRUE, source |-> "exact",
   choices |-> "readable", classes |-> "there", graph |-> TRUE, token |-> "good"]

Grant(e, g) == [Open EXCEPT !.grant[e] = g]

(* What a Securely Scoped client meets: reads pass, IRE is gated, also by version. *)
Scoped ==
  [Open EXCEPT !.grant["ire_query"] = "gated", !.grant["ire_write"] = "gated",
               !.grant["ire_enhanced"] = "gated"]

ServerlessMeets ==
  {Open, Scoped, [Scoped EXCEPT !.grant["table_update"] = "denied"],
   Grant("ire_query", "absent"), Grant("ire_write", "down"), Grant("ire_write", "gated"), [Open EXCEPT !.source = "case"],
   [Open EXCEPT !.classes = "missing"], [Open EXCEPT !.authenticates = FALSE]}

WebAppMeets ==
  {[Open EXCEPT !.source = "similar"], [Open EXCEPT !.source = "none", !.choices = "refused"],
   Grant("cmdb_instance_write", "absent"), Grant("cmdb_instance_write", "gated"),
   Grant("cmdb_instance_write", "denied"), [Open EXCEPT !.classes = "refused"]}

LaptopMeets ==
  {Open, [Open EXCEPT !.token = "expired"], [Open EXCEPT !.token = "opaque", !.graph = FALSE]}

MixedWorlds ==
  [setup : {Serverless}, facts : ServerlessMeets] \cup [setup : {WebApp}, facts : WebAppMeets]
  \cup [setup : {Laptop}, facts : LaptopMeets] \cup [setup : {Unfinished}, facts : {Open}]

(* The processes are alike; no property of the run is a liveness property. *)
Alike == Permutations(Proc)
=============================================================================
