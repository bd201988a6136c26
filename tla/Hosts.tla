------------------------------- MODULE Hosts -------------------------------
(***************************************************************************)
(* The processes that run the connector and share one state file: a        *)
(* terminal (__main__.py), a Lambda container that stays warm from one     *)
(* invocation to the next (aws_lambda.py) and a WebJob (appservice_job.py).*)
(* An invocation, from its command line to its exit code, with what it     *)
(* leaves behind in its process.                                           *)
(***************************************************************************)
EXTENDS Startup, Access, StateStore, Sequences

CONSTANTS
  Flag,    \* variables that a command-line flag overrides
  Worlds   \* pairs of an environment and of what it meets

ASSUME HostsAssumption ==
  /\ "DRY_RUN" \in Flag
  /\ \A w \in Worlds : w.setup \in Setup /\ w.facts \in Fact

VARIABLES
  setup,     \* the environment the processes are deployed with
  facts,     \* what its credentials meet
  host,      \* the kind of a process, "none" when there is none
  phase,     \* how far its invocation is
  command,   \* what the invocation was asked for
  flags,     \* the overrides on its command line
  environ,   \* the overrides that stand in the environment
  previous,  \* those that did when the invocation began
  runId,     \* the run id: "none", "own" or "old", an earlier invocation's
  cache,     \* the SSM lookups of a process
  handlers,  \* the handlers of the root logger
  adopted,   \* _host_handlers
  unsent,    \* whether telemetry waits to be exported
  exit       \* the exit code, with Raised for an exception that leaves main()

vars == <<storeVars, setup, facts, host, phase, command, flags, environ, previous, runId,
          cache, handlers, adopted, unsent, exit>>
worldVars == <<setup, facts>>
callVars == <<command, flags, environ, previous, runId>>
logVars == <<handlers, adopted, unsent>>

NoExit == -1
Raised == 1   \* what the interpreter ends with
ColdCache == [n \in Secret |-> "unasked"]

Init ==
  /\ StoreInit
  /\ \E w \in Worlds : setup = w.setup /\ facts = w.facts
  /\ host = [p \in Proc |-> "none"]
  /\ phase = [p \in Proc |-> "off"]
  /\ command = [p \in Proc |-> "sync"]
  /\ flags = [p \in Proc |-> {}]
  /\ environ = [p \in Proc |-> {}]
  /\ previous = [p \in Proc |-> {}]
  /\ runId = [p \in Proc |-> "none"]
  /\ cache = [p \in Proc |-> ColdCache]
  /\ handlers = [p \in Proc |-> {}]
  /\ adopted = [p \in Proc |-> {}]
  /\ unsent = [p \in Proc |-> FALSE]
  /\ exit = [p \in Proc |-> NoExit]

Telemetry == "APPLICATIONINSIGHTS_CONNECTION_STRING" \in setup.given
DryRun(p) == setup.dryRun \/ "DRY_RUN" \in environ[p]
Goes(p, to) == phase' = [phase EXCEPT ![p] = to]

(* The invocation is over, with an exit code, but for its finally clauses. *)
Exits(p, code) == Goes(p, "leaving") /\ exit' = [exit EXCEPT ![p] = code]

-----------------------------------------------------------------------------
(* External: a new process; Lambda keeps a handler of its own at the root. *)
Boot(p) ==
  /\ host[p] = "none"
  /\ \E kind \in {"cli", "lambda", "webjob"} :
       /\ host' = [host EXCEPT ![p] = kind]
       /\ handlers' = [handlers EXCEPT ![p] = IF kind = "lambda" THEN {"runtime"} ELSE {}]
  /\ Goes(p, "idle")
  /\ unsent' = [unsent EXCEPT ![p] = FALSE]
  /\ UNCHANGED <<storeVars, worldVars, callVars, cache, adopted, exit>>

(* main: the command line, and _apply_overrides around the rest. *)
Enter(p, asked, given) ==
  /\ phase[p] = "idle"
  /\ Goes(p, "started")
  /\ command' = [command EXCEPT ![p] = asked]
  /\ flags' = [flags EXCEPT ![p] = given]
  /\ previous' = [previous EXCEPT ![p] = environ[p] \cap given]
  /\ environ' = [environ EXCEPT ![p] = @ \cup given]
  /\ UNCHANGED <<storeVars, worldVars, host, cache, exit>>

(* reset_run_id, or the first use of current_run_id in a new process. *)
FreshRunId(p) == runId' = [runId EXCEPT ![p] = "own"]

(* The order in which _run looks for a command among the options given. *)
Commands == <<"list_classes", "register", "check_api", "check", "sync">>
Chosen(options) ==
  Commands[CHOOSE i \in 1..5 : /\ Commands[i] \in options \cup {"sync"}
                              /\ \A j \in 1..(i - 1) : Commands[j] \notin options]

InvokeCli(p) ==
  /\ host[p] = "cli"
  /\ \E options \in SUBSET {"list_classes", "register", "check_api", "check"} :
       \E given \in SUBSET Flag : Enter(p, Chosen(options), given)
  /\ FreshRunId(p)
  /\ UNCHANGED logVars

(* handler: a dry run or a check, by the event. *)
InvokeLambda(p) ==
  /\ host[p] = "lambda"
  /\ \E dry, check \in BOOLEAN :
       Enter(p, IF check THEN "check" ELSE "sync", IF dry THEN {"DRY_RUN"} ELSE {})
  /\ FreshRunId(p)
  /\ UNCHANGED logVars

(* adopt_host_handlers, once per process. *)
Adopt(p) ==
  adopted' = [adopted EXCEPT ![p] = IF @ = {} THEN handlers'[p] ELSE @]

(* run: telemetry first, stdout, adoption, then main([]). *)
InvokeWebjob(p) ==
  /\ host[p] = "webjob"
  /\ Enter(p, "sync", {})
  /\ handlers' = [handlers EXCEPT
                    ![p] = @ \cup {"stdout"} \cup (IF Telemetry THEN {"telemetry"} ELSE {})]
  /\ Adopt(p)
  /\ FreshRunId(p)
  /\ UNCHANGED unsent

(* configure_logging, and a record logged after it. *)
ConfigureLogging(p) ==
  LET kept == IF adopted[p] # {} THEN adopted[p] ELSE {"stdout"}
  IN  /\ handlers' = [handlers EXCEPT ![p] = kept]
      /\ unsent' = [unsent EXCEPT ![p] = @ \/ "telemetry" \in kept]
      /\ UNCHANGED adopted

(* Config.from_env, with its secrets; a ConfigError ends the invocation. *)
ReadConfig(p) ==
  /\ phase[p] = "started"
  /\ \E failed \in SUBSET (Lookups(setup, cache[p]) \cup Supplied(setup, "file")) :
       /\ cache' = [cache EXCEPT ![p] = CacheAfter(setup, cache[p], failed)]
       /\ IF Valid(setup, Resolved(setup, cache[p], failed))
          THEN Goes(p, "ready") /\ UNCHANGED exit
          ELSE Exits(p, EXIT_CONFIG)
  /\ ConfigureLogging(p)
  /\ UNCHANGED <<storeVars, worldVars, host, callVars>>

-----------------------------------------------------------------------------
(* A secret that was rotated after this process had looked it up. *)
Outdated(p, names) == \E n \in names \cap Needed(setup) : cache[p][n] = "outdated"

(* What the credentials of this process meet. *)
Met(p) ==
  [facts EXCEPT
     !.authenticates = @ /\ ~Outdated(p, {"SNOW_CLIENT_SECRET", "SNOW_PASSWORD"}),
     !.graph = @ /\ ~Outdated(p, {"GRAPH_ACCESS_TOKEN", "GRAPH_CLIENT_SECRET"})]

Runs(p, asked) == phase[p] = "ready" /\ command[p] = asked

RunListClasses(p) ==
  /\ Runs(p, "list_classes")
  /\ Exits(p, ListClasses(Met(p)))
  /\ UNCHANGED <<storeVars, worldVars, host, callVars, cache, logVars>>

RunRegister(p) ==
  /\ Runs(p, "register")
  /\ \E insert \in Inserts :
       /\ Exits(p, RegisterExit(Met(p), insert))
       /\ facts' = [facts EXCEPT !.source = RegisterSource(Met(p), insert).source]
  /\ UNCHANGED <<storeVars, setup, host, callVars, cache, logVars>>

RunCheckApi(p) ==
  /\ Runs(p, "check_api")
  /\ Exits(p, CheckApi(Met(p), setup.writeMode))
  /\ UNCHANGED <<storeVars, worldVars, host, callVars, cache, logVars>>

RunCheck(p) ==
  /\ Runs(p, "check")
  /\ Exits(p, Check(Met(p), setup.writeMode))
  /\ UNCHANGED <<storeVars, worldVars, host, callVars, cache, logVars>>

-----------------------------------------------------------------------------
(* The static token is refused while the clients are built: no report. *)
SyncRefused(p) ==
  /\ Runs(p, "sync")
  /\ setup.graphAuth = "access_token" /\ ~TokenUsable(facts)
  /\ Exits(p, EXIT_FAILED)
  /\ UNCHANGED <<storeVars, worldVars, host, callVars, cache, logVars>>

SyncLoads(p) ==
  /\ Runs(p, "sync")
  /\ setup.graphAuth = "access_token" => TokenUsable(facts)
  /\ Goes(p, "working")
  /\ IF "STATE_PATH" \in setup.given THEN ReadFile(p) \/ Unreadable(p) ELSE UNCHANGED storeVars
  /\ UNCHANGED <<worldVars, host, callVars, cache, logVars, exit>>

(* A SyncError, reported and exit code 3; or any other exception. *)
SyncEnds(p) ==
  /\ phase[p] = "working"
  /\ \E code \in {EXIT_FAILED, Raised} : Exits(p, code)
  /\ UNCHANGED <<storeVars, worldVars, host, callVars, cache, logVars>>

(***************************************************************************)
(* The work is done; state is saved, but not by a dry run, nor where there *)
(* were no devices: then run() has returned before it.                     *)
(***************************************************************************)
SyncSaves(p) ==
  /\ phase[p] = "working"
  /\ Met(p).authenticates /\ Met(p).graph
  /\ \E noDevices \in BOOLEAN :
       IF noDevices \/ DryRun(p) \/ "STATE_PATH" \notin setup.given
       THEN Goes(p, "saved") /\ UNCHANGED storeVars
       ELSE Goes(p, "saving") /\ \E doc \in Doc : OpenTemp(p, doc)
  /\ UNCHANGED <<worldVars, host, callVars, cache, logVars, exit>>

Saving(p) ==
  /\ phase[p] = "saving"
  /\ FillTemp(p)
  /\ UNCHANGED <<worldVars, host, phase, callVars, cache, logVars, exit>>

Saved(p) ==
  /\ phase[p] = "saving"
  /\ Replace(p) \/ PutObject(p)
  /\ Goes(p, "saved")
  /\ UNCHANGED <<worldVars, host, callVars, cache, logVars, exit>>

(* run() calls the run degraded when the state cannot be saved; the report follows. *)
SaveFails(p) ==
  /\ phase[p] = "saving"
  /\ WriteFails(p)
  /\ \E code \in {EXIT_PARTIAL, Raised} : Exits(p, code)
  /\ UNCHANGED <<worldVars, host, callVars, cache, logVars>>

(***************************************************************************)
(* The report is written as well as may be, which can raise for a location *)
(* that is none; then the code: degraded, errors that count, or success.   *)
(***************************************************************************)
SyncReports(p) ==
  /\ phase[p] = "saved"
  /\ \E degraded, errors \in BOOLEAN :
       \/ Exits(p, IF degraded \/ (errors /\ (setup.failOnError \/ "FAIL_ON_ERROR" \in environ[p]))
                   THEN EXIT_PARTIAL ELSE EXIT_OK)
       \/ Exits(p, Raised)
  /\ UNCHANGED <<storeVars, worldVars, host, callVars, cache, logVars>>

-----------------------------------------------------------------------------
(* A bug of that kind: no restoring when an exception leaves main(). *)
RestoresOnReturn(p) ==
  IF exit[p] = Raised THEN environ[p] ELSE (environ[p] \ flags[p]) \cup previous[p]

(* The finally clause of _apply_overrides: each name its previous value. *)
Restores(p) == (environ[p] \ flags[p]) \cup previous[p]

(* A bug of that kind: telemetry is flushed after a return only. *)
FlushesOnReturn(p) == host[p] = "webjob" /\ Telemetry /\ exit[p] # Raised

(* The finally clause of appservice_job.run. *)
Flushes(p) == host[p] = "webjob" /\ Telemetry

(* A process that is gone: what it held is gone with it. *)
Gone(p) ==
  /\ host' = [host EXCEPT ![p] = "none"]
  /\ environ' = [environ EXCEPT ![p] = {}]
  /\ runId' = [runId EXCEPT ![p] = "none"]
  /\ cache' = [cache EXCEPT ![p] = ColdCache]
  /\ handlers' = [handlers EXCEPT ![p] = {}]
  /\ adopted' = [adopted EXCEPT ![p] = {}]

(* The invocation is over: its objects and its command line are forgotten. *)
Forgets(p) ==
  /\ Abandon(p)
  /\ command' = [command EXCEPT ![p] = "sync"]
  /\ flags' = [flags EXCEPT ![p] = {}]
  /\ previous' = [previous EXCEPT ![p] = {}]
  /\ exit' = [exit EXCEPT ![p] = NoExit]

(***************************************************************************)
(* The finally clauses on the way out, with or without an exception.  A    *)
(* Lambda container then waits for its next event; the others end.         *)
(***************************************************************************)
Leave(p) ==
  /\ phase[p] = "leaving"
  /\ unsent' = [unsent EXCEPT ![p] = @ /\ ~Flushes(p)]
  /\ IF host[p] = "lambda"
     THEN /\ Goes(p, "idle")
          /\ environ' = [environ EXCEPT ![p] = Restores(p)]
          /\ runId' = [runId EXCEPT ![p] = "old"]
          /\ UNCHANGED <<host, cache, handlers, adopted>>
     ELSE Goes(p, "ended") /\ Gone(p)
  /\ Forgets(p)
  /\ UNCHANGED worldVars

(* External: a timeout, an eviction, a deployment. *)
Kill(p) ==
  /\ host[p] # "none"
  /\ Goes(p, "off")
  /\ Gone(p)
  /\ unsent' = [unsent EXCEPT ![p] = FALSE]
  /\ Forgets(p)
  /\ UNCHANGED worldVars

(* External: the secret is replaced in SSM. *)
Rotate ==
  /\ \E n \in Supplied(setup, "ssm") :
       cache' = [p \in Proc |->
                   [cache[p] EXCEPT ![n] = IF @ = "current" THEN "outdated" ELSE @]]
  /\ UNCHANGED <<storeVars, worldVars, host, phase, callVars, logVars, exit>>

Invoke(p) == InvokeCli(p) \/ InvokeLambda(p) \/ InvokeWebjob(p)
Sync(p) ==
  \/ SyncRefused(p) \/ SyncLoads(p) \/ SyncEnds(p) \/ SyncSaves(p)
  \/ Saving(p) \/ Saved(p) \/ SaveFails(p) \/ SyncReports(p)
Answer(p) == RunListClasses(p) \/ RunRegister(p) \/ RunCheckApi(p) \/ RunCheck(p)

Next ==
  \/ \E p \in Proc : Boot(p) \/ Invoke(p) \/ ReadConfig(p) \/ Answer(p) \/ Sync(p)
                     \/ Leave(p) \/ Kill(p)
  \/ Rotate

Spec == Init /\ [][Next]_vars

-----------------------------------------------------------------------------
Phases == {"off", "idle", "started", "ready", "working", "saving", "saved", "leaving", "ended"}
Running == {"started", "ready", "working", "saving", "saved", "leaving"}
Configured == {"ready", "working", "saving", "saved"}

HostsTypeOK ==
  /\ setup \in Setup /\ facts \in Fact
  /\ host \in [Proc -> {"none", "cli", "lambda", "webjob"}]
  /\ phase \in [Proc -> Phases]
  /\ command \in [Proc -> {Commands[i] : i \in 1..5}]
  /\ flags \in [Proc -> SUBSET Flag]
  /\ environ \in [Proc -> SUBSET Flag]
  /\ previous \in [Proc -> SUBSET Flag]
  /\ runId \in [Proc -> {"none", "own", "old"}]
  /\ cache \in [Proc -> [Secret -> {"unasked", "nothing", "current", "outdated"}]]
  /\ handlers \in [Proc -> SUBSET {"runtime", "stdout", "telemetry"}]
  /\ adopted \in [Proc -> SUBSET {"runtime", "stdout", "telemetry"}]
  /\ unsent \in [Proc -> BOOLEAN]
  /\ exit \in [Proc -> {NoExit, EXIT_OK, Raised, EXIT_CONFIG, EXIT_FAILED, EXIT_PARTIAL}]

(* A write is under way only in an invocation that saves, and is no dry run. *)
SavesInTurn(p) ==
  /\ saving[p] # NoDoc => phase[p] = "saving"
  /\ phase[p] = "saving" => ~DryRun(p) /\ "STATE_PATH" \in setup.given

(* What the environment holds of earlier invocations: nothing. *)
EnvironBooks(p) ==
  /\ previous[p] = {}
  /\ phase[p] \in Running => environ[p] = flags[p] /\ runId[p] = "own"
  /\ phase[p] \notin Running => environ[p] = {}
  /\ host[p] = "none" <=> phase[p] \in {"off", "ended"}

(* No request is made with an empty credential: the secrets are in hand. *)
HasItsSecrets(p) ==
  phase[p] \in Configured =>
    \A n \in Needed(setup) \cap Secret :
      n \in setup.given /\ (setup.from[n] = "ssm" => cache[p][n] \in {"current", "outdated"})

LogBooks(p) ==
  /\ host[p] # "webjob" \/ phase[p] \notin Running => adopted[p] = {}
  /\ host[p] # "webjob" => ~unsent[p]
  /\ host[p] = "webjob" /\ phase[p] \in Running =>
       adopted[p] # {} /\ (Telemetry => "telemetry" \in adopted[p])
  /\ host[p] = "webjob" /\ phase[p] \in Running \ {"started"} => handlers[p] = adopted[p]
  /\ unsent[p] \/ "telemetry" \in handlers[p] \cup adopted[p] => Telemetry

(* The inductive invariant. *)
IInv ==
  /\ HostsTypeOK /\ StoreTypeOK /\ StoreBooks
  /\ \A p \in Proc : SavesInTurn(p) /\ EnvironBooks(p) /\ HasItsSecrets(p) /\ LogBooks(p)

(***************************************************************************)
(* An invocation runs under its own overrides and no earlier one's, and    *)
(* under a run id of its own, however the one before it ended: "one        *)
(* invocation with `dry_run` left every later invocation silently in       *)
(* dry-run mode" (docstring of _apply_overrides).                          *)
(***************************************************************************)
InvocationIsItsOwn ==
  \A p \in Proc : phase[p] \in Running => environ[p] = flags[p] /\ runId[p] = "own"

(***************************************************************************)
(* A WebJob that is to send telemetry logs to it from its configuration    *)
(* on, and does not end with records that were never exported, even by an  *)
(* exception.                                                              *)
(***************************************************************************)
TelemetryKept ==
  \A p \in Proc :
    /\ host[p] = "webjob" /\ Telemetry /\ phase[p] \in Running \ {"started"} =>
         "telemetry" \in handlers[p]
    /\ phase[p] = "ended" => ~unsent[p]

(***************************************************************************)
(* A check that exits with 0 has not passed over a class that does not     *)
(* exist, a Graph that does not answer, a refusal by the endpoint it asks, *)
(* or a discovery source that is positively absent.  It vouches for the    *)
(* endpoint it asks: in the default mode that is the simulation of a       *)
(* write, which may be let through where the write itself is not           *)
(* (CheckMissesWriteGate of Access_proofs).                                *)
(***************************************************************************)
CheckTellsTruth ==
  \A p \in Proc : phase[p] = "leaving" /\ command[p] = "check" /\ exit[p] = EXIT_OK =>
    CheckIsRight(facts, setup.writeMode)

(***************************************************************************)
(* --check-api sends nobody the wrong way: its exit code and the sentences *)
(* of its diagnosis agree with what the instance grants; a write mode it   *)
(* advises is one that it would itself pass.                               *)
(***************************************************************************)
DiagnosisHolds ==
  \A p \in Proc :
    phase[p] = "leaving" /\ command[p] = "check_api" /\ exit[p] # EXIT_CONFIG =>
      /\ DiagnosisIsRight(Met(p), setup.writeMode)
      /\ exit[p] = EXIT_OK => facts.grant[WriteProbe(setup.writeMode)] = "open"
=============================================================================
