------------------------------- MODULE Access -------------------------------
(***************************************************************************)
(* The commands that ask what the credentials may do: --check (access.py,  *)
(* discovery_source.py, classes.py), --check-api (probe.py) and            *)
(* --register-discovery-source.  Pure operators over what the instance     *)
(* grants, `f`, and the two settings that choose the write endpoint.       *)
(***************************************************************************)
EXTENDS Integers, FiniteSets

EXIT_OK == 0
EXIT_CONFIG == 2
EXIT_FAILED == 3
EXIT_PARTIAL == 4

(* build_probes: the matrix, by method. *)
Gets == {"table_read", "table_read_ci", "cmdb_instance_read"}
Posts == {"ire_query", "ire_write", "ire_write_versioned", "ire_enhanced",
          "cmdb_instance_write", "cmdb_instance_write_versioned", "table_insert"}
Probes == Gets \cup Posts \cup {"table_update"}

(* Probes that name a table, class or record that cannot exist. *)
MissingTarget ==
  {"cmdb_instance_write", "cmdb_instance_write_versioned", "table_update", "table_insert"}

(***************************************************************************)
(* External.  grant: how an endpoint receives the credential: let through, *)
(* refused at the OAuth gate, refused by role or ACL, no such API, or no   *)
(* answer after all retries.  source: SNOW_DISCOVERY_SOURCE among the      *)
(* registered choices: the same, up to case, contained, or none; choices:  *)
(* whether sys_choice answers; classes: whether sys_db_object has what the *)
(* class map names; graph, token: whether Graph answers and what a static  *)
(* token says of itself.                                                   *)
(***************************************************************************)
Fact ==
  [grant : [Probes -> {"open", "gated", "denied", "absent", "down"}], authenticates : BOOLEAN,
   source : {"exact", "case", "similar", "none"}, choices : {"readable", "refused", "down"},
   classes : {"there", "missing", "refused", "down"}, graph : BOOLEAN,
   token : {"good", "opaque", "expired", "otherAudience"}]

(* What an endpoint that was reached says of a probe made to be rejected. *)
ReachedStatus(e) == IF e \in Gets THEN 200 ELSE IF e \in MissingTarget THEN 404 ELSE 400

(* The response to a probe: its status, and what the body says of a refusal. *)
Response(f, e) ==
  IF f.grant[e] = "down" THEN [status |-> 0, says |-> "none"]
  ELSE IF ~f.authenticates THEN [status |-> 401, says |-> "none"]
  ELSE IF f.grant[e] = "gated" THEN [status |-> 403, says |-> "unscopedApi"]
  ELSE IF f.grant[e] = "denied" THEN [status |-> 403, says |-> "none"]
  ELSE IF f.grant[e] = "absent" THEN [status |-> 404, says |-> "noSuchApi"]
  ELSE [status |-> ReachedStatus(e), says |-> "none"]

(* A bug of that kind: any 404 of a probe with a missing target is a pass. *)
ClassifyByTarget(r, e) ==
  IF r.status \in {200, 400} THEN "authorized"
  ELSE IF r.status = 401 THEN "unauthenticated"
  ELSE IF r.status = 403
       THEN IF r.says = "unscopedApi" THEN "blocked_at_gate" ELSE "denied_by_role"
  ELSE IF r.status = 404
       THEN IF e \in MissingTarget THEN "authorized" ELSE "not_found"
  ELSE "unknown"

(***************************************************************************)
(* classify, and probe_endpoints for a request that never got an answer    *)
(* (status 0): complaints about the request itself prove that it got       *)
(* through.  A 500 is retried by the client and ends as no answer.         *)
(***************************************************************************)
Classify(r, e) ==
  IF r.status \in {200, 400} THEN "authorized"
  ELSE IF r.status = 401 THEN "unauthenticated"
  ELSE IF r.status = 403
       THEN IF r.says = "unscopedApi" THEN "blocked_at_gate" ELSE "denied_by_role"
  ELSE IF r.status = 404
       THEN IF r.says # "noSuchApi" /\ e \in MissingTarget THEN "authorized" ELSE "not_found"
  ELSE "unknown"

(* probe_endpoints: the report, a verdict for each probe. *)
Report(f) == [e \in Probes |-> Classify(Response(f, e), e)]

WriteProbe(mode) == IF mode = "identify_reconcile" THEN "ire_write" ELSE "cmdb_instance_write"
OtherMode(mode) ==
  IF mode = "cmdb_instance" THEN "identify_reconcile" ELSE "cmdb_instance"

(* ProbeReport.write_path_ok *)
WritePathOk(report, mode) == report[WriteProbe(mode)] = "authorized"

(* A pair of verdicts that tells of an auth scope bound to one API version. *)
Differ(a, b) == a # b /\ "unknown" \notin {a, b}

(***************************************************************************)
(* diagnose: which of its sentences are printed.  With a credential that   *)
(* does not authenticate there is one sentence and no other.               *)
(***************************************************************************)
Diagnose(report, mode) ==
  LET ok(e)   == report[e] = "authorized"
      gated   == \E e \in Posts : report[e] = "blocked_at_gate"
      denied  == \E e \in Posts : report[e] = "denied_by_role"
      instead == ~WritePathOk(report, mode) /\ ok(WriteProbe(OtherMode(mode)))
      when(condition, line) == IF condition THEN {line} ELSE {}
  IN  IF \E e \in Probes : report[e] = "unauthenticated" THEN {"not authenticated"}
      ELSE when(gated /\ (\E e \in Gets : ok(e)), "gate")
           \cup when(denied, "role")
           \cup when(ok("cmdb_instance_read")
                     /\ report["cmdb_instance_write"] = "blocked_at_gate", "per method")
           \cup when(Differ(report["ire_write"], report["ire_write_versioned"])
                     \/ Differ(report["cmdb_instance_write"],
                               report["cmdb_instance_write_versioned"]), "per version")
           \cup when(instead, "other mode")
           \cup when(instead /\ ~ok("table_update"), "no retirement")
           \cup when(WritePathOk(report, mode), "open")
           \cup when(~WritePathOk(report, mode) /\ ~gated /\ ~denied, "unclear")

(* _check_api *)
CheckApi(f, mode) == IF WritePathOk(Report(f), mode) THEN EXIT_OK ELSE EXIT_FAILED

-----------------------------------------------------------------------------
(***************************************************************************)
(* What the steps of a check come to: "ok"; "unverified"; "problem", noted *)
(* while the check goes on; or "raised", a SyncError that ends it.         *)
(***************************************************************************)
Callable(f, e) == f.authenticates /\ f.grant[e] = "open"

(* verify_connectivity *)
Connects(f) == IF Callable(f, "table_read") THEN "ok" ELSE "raised"

(* verify_class_map: a class that is missing or cannot be confirmed. *)
ClassMap(f) ==
  CASE f.classes = "there" -> "ok" [] f.classes = "down" -> "raised" [] OTHER -> "problem"

(* A bug of that kind: an absent discovery source is only a caveat. *)
SourceCaveatsOnly(f) == IF f.choices = "down" THEN "raised" ELSE "ok"

(***************************************************************************)
(* _discovery_source_caveats, from similar_discovery_sources: positively   *)
(* absent raises, whatever resembles it; unreadable is a caveat.           *)
(***************************************************************************)
SourceCaveats(f) ==
  CASE f.choices = "down" -> "raised"
    [] f.choices = "refused" -> "ok"
    [] f.choices = "readable" -> IF f.source = "exact" THEN "ok" ELSE "raised"

(* verify_write_access: a simulated write, in which IRE checks the source. *)
SimulatedWrite(f) ==
  CASE f.authenticates /\ f.grant["ire_query"] = "absent" -> "unverified"
    [] Callable(f, "ire_query") /\ f.source = "exact" -> "ok"
    [] OTHER -> "raised"

(* _verify_cmdb_instance_access *)
InstanceAccess(f) ==
  CASE f.authenticates /\ f.grant["cmdb_instance_write"] = "absent" -> "unverified"
    [] Callable(f, "cmdb_instance_write") -> SourceCaveats(f)
    [] OTHER -> "raised"

WriteAccess(f, mode) ==
  IF mode = "cmdb_instance" THEN InstanceAccess(f) ELSE SimulatedWrite(f)

(* StaticTokenProvider raises; the first page of devices is refused. *)
TokenUsable(f) == f.token \in {"good", "opaque"}
GraphReachable(f) == f.graph /\ TokenUsable(f)

(* _check *)
Check(f, mode) ==
  IF "raised" \in {Connects(f), ClassMap(f), WriteAccess(f, mode)} THEN EXIT_FAILED
  ELSE IF ~GraphReachable(f) \/ ClassMap(f) = "problem" THEN EXIT_FAILED
  ELSE IF WriteAccess(f, mode) = "ok" THEN EXIT_OK
  ELSE EXIT_PARTIAL

(* _list_classes *)
ListClasses(f) ==
  IF f.authenticates /\ f.classes \notin {"refused", "down"} THEN EXIT_OK ELSE EXIT_FAILED

(***************************************************************************)
(* register_discovery_source: nothing to do; or an insert, which a role    *)
(* may refuse and a business rule may alter, read back before it is        *)
(* believed.  `insert` says which.                                         *)
(***************************************************************************)
Inserts == {"done", "refused", "altered"}
RegisterSource(f, insert) ==
  IF f.authenticates /\ f.choices = "readable" /\ f.source # "exact" /\ insert = "done"
  THEN [f EXCEPT !.source = "exact"] ELSE f
RegisterExit(f, insert) ==
  IF f.authenticates /\ f.choices = "readable" /\ RegisterSource(f, insert).source = "exact"
  THEN EXIT_OK ELSE EXIT_FAILED

-----------------------------------------------------------------------------
(***************************************************************************)
(* The endpoint a check asks: in the default mode the simulation, and not  *)
(* WriteProbe(mode), the one a run writes to.                              *)
(***************************************************************************)
AskedEndpoint(mode) == IF mode = "cmdb_instance" THEN "cmdb_instance_write" ELSE "ire_query"

(***************************************************************************)
(* What a check that exited with 0 says of the instance: what it asked was *)
(* let through, and the source is registered, unless the choices could not *)
(* be read and nothing else would show it.                                 *)
(***************************************************************************)
CheckIsRight(f, mode) ==
  /\ Callable(f, "table_read") /\ f.classes = "there" /\ f.graph
  /\ Callable(f, AskedEndpoint(mode))
  /\ f.source = "exact" \/ (mode = "cmdb_instance" /\ f.choices = "refused")

(***************************************************************************)
(* The verdicts and each sentence of the diagnosis that names a cause or a *)
(* way out are true of the instance.                                       *)
(***************************************************************************)
DiagnosisIsRight(f, mode) ==
  LET report == Report(f)
      lines  == Diagnose(report, mode)
  IN  /\ \A e \in Probes : report[e] = "authorized" <=> Callable(f, e)
      /\ "gate" \in lines =>
           f.authenticates /\ \E e \in Posts : f.grant[e] = "gated"
      /\ "other mode" \in lines =>
           /\ CheckApi(f, OtherMode(mode)) = EXIT_OK
           /\ Callable(f, WriteProbe(OtherMode(mode))) /\ ~Callable(f, WriteProbe(mode))
      /\ "no retirement" \in lines => ~Callable(f, "table_update")
      /\ "open" \in lines <=> Callable(f, WriteProbe(mode))
=============================================================================
