---------------------------- MODULE Hosts_proofs ----------------------------
(***************************************************************************)
(* What holds of Hosts for any number of processes, any flags and any      *)
(* deployments: IInv is inductive, what an invocation finds of an earlier  *)
(* one, what becomes of its telemetry, and the state file as a register.   *)
(***************************************************************************)
EXTENDS Hosts, StateStore_proofs, Access_proofs

(* The part of the invariant that is about one process. *)
ProcBooks(q) == SavesInTurn(q) /\ EnvironBooks(q) /\ HasItsSecrets(q) /\ LogBooks(q)

LEMMA InitIInv == Init => IInv
<1> SUFFICES ASSUME Init PROVE IInv
  OBVIOUS
<1>1. StoreTypeOK /\ StoreBooks
  BY StoreInitInv DEF Init, StoreInv
<1>2. HostsTypeOK
  <2>1. setup \in Setup /\ facts \in Fact
    BY HostsAssumption DEF Init
  <2>2. unsent \in [Proc -> BOOLEAN]
    BY Zenon DEF Init
  <2>3. command \in [Proc -> {Commands[i] : i \in 1..5}]
    BY DEF Init, Commands
  <2> QED BY <2>1, <2>2, <2>3 DEF Init, HostsTypeOK, Phases, ColdCache
<1>3. ASSUME NEW q \in Proc PROVE ProcBooks(q)
  BY DEF Init, StoreInit, ProcBooks, SavesInTurn, EnvironBooks, HasItsSecrets, LogBooks,
         Running, Configured
<1> QED BY <1>1, <1>2, <1>3 DEF IInv, ProcBooks

(* Whatever the options, one of the commands is chosen. *)
LEMMA ChosenIsCommand ==
  ASSUME NEW options PROVE Chosen(options) \in {Commands[i] : i \in 1..5}
<1> DEFINE first(i) == /\ Commands[i] \in options \cup {"sync"}
                      /\ \A j \in 1..(i - 1) : Commands[j] \notin options
<1>1. Commands[5] = "sync"
  BY DEF Commands
<1>2. first(1) \/ first(2) \/ first(3) \/ first(4) \/ first(5)
  <2>1. \A j \in 1..4 : j = 1 \/ j = 2 \/ j = 3 \/ j = 4
    OBVIOUS
  <2> QED BY <1>1, <2>1
<1>3. (CHOOSE i \in 1..5 : first(i)) \in 1..5
  BY <1>2
<1> QED BY <1>3 DEF Chosen

(* A process keeps its secrets while its lookups and the settings stay. *)
LEMMA SecretsKept ==
  ASSUME NEW q, HasItsSecrets(q), setup' = setup,
         phase'[q] \in Configured => phase[q] \in Configured /\ cache'[q] = cache[q]
  PROVE  HasItsSecrets(q)'
<1> SUFFICES ASSUME phase'[q] \in Configured
             PROVE  \A n \in Needed(setup) \cap Secret :
                      n \in setup.given /\ (setup.from[n] = "ssm" => cache'[q][n] \in {"current", "outdated"})
  BY DEF HasItsSecrets, Configured, Needed
<1> QED BY DEF HasItsSecrets

LEMMA BootKeeps ==
  ASSUME IInv, NEW p \in Proc, Boot(p)
  PROVE  IInv'
<1>1. (StoreTypeOK /\ StoreBooks)'
  BY StoreIdleInv DEF Boot, IInv, StoreInv
<1>2. HostsTypeOK'
  <2>1. unsent' \in [Proc -> BOOLEAN]
    BY Zenon DEF Boot, IInv, HostsTypeOK
  <2> QED BY <2>1 DEF Boot, IInv, HostsTypeOK, Goes, worldVars, callVars, Phases
<1>3. ASSUME NEW q \in Proc PROVE ProcBooks(q)'
  <2> USE DEF Boot, Goes, IInv, HostsTypeOK, storeVars, worldVars, callVars
  <2>1. SavesInTurn(q)' BY DEF SavesInTurn, EnvironBooks, DryRun
  <2>2. EnvironBooks(q)' BY DEF EnvironBooks, Running
  <2>3. HasItsSecrets(q)'
    <3>1. setup' = setup /\ HasItsSecrets(q)
      OBVIOUS
    <3>2. phase'[q] \in Configured => phase[q] \in Configured /\ cache'[q] = cache[q]
      BY DEF Configured
    <3> HIDE DEF Boot, IInv, HostsTypeOK
    <3> QED BY <3>1, <3>2, SecretsKept
  <2>4. LogBooks(q)' BY DEF LogBooks, EnvironBooks, Telemetry, Running
  <2> QED BY <2>1, <2>2, <2>3, <2>4 DEF ProcBooks
<1> QED BY <1>1, <1>2, <1>3 DEF IInv, ProcBooks

(***************************************************************************)
(* What the three ways to invoke the connector have in common: the         *)
(* overrides and the run id are new, and a WebJob's handlers are adopted.  *)
(***************************************************************************)
LEMMA EnterKeeps ==
  ASSUME IInv, NEW p \in Proc, NEW asked \in {Commands[i] : i \in 1..5},
         NEW given \in SUBSET Flag, Enter(p, asked, given), FreshRunId(p),
         NEW root \in SUBSET {"runtime", "stdout", "telemetry"},
         NEW kept \in SUBSET {"runtime", "stdout", "telemetry"},
         handlers' = [handlers EXCEPT ![p] = root],
         adopted' = [adopted EXCEPT ![p] = kept], UNCHANGED unsent,
         host[p] # "webjob" => kept = {},
         host[p] = "webjob" => kept # {} /\ (Telemetry => "telemetry" \in kept),
         "telemetry" \in kept \cup root => Telemetry
  PROVE  IInv'
<1>1. (StoreTypeOK /\ StoreBooks)'
  BY StoreIdleInv DEF Enter, IInv, StoreInv
<1>2. HostsTypeOK'
  BY DEF Enter, Goes, FreshRunId, IInv, HostsTypeOK, worldVars, Phases
<1>3. ASSUME NEW q \in Proc PROVE ProcBooks(q)'
  <2> USE DEF Enter, Goes, FreshRunId, IInv, HostsTypeOK, storeVars, worldVars
  <2>1. SavesInTurn(q)' BY DEF SavesInTurn, EnvironBooks, DryRun
  <2>2. EnvironBooks(q)' BY DEF EnvironBooks, Running
  <2>3. HasItsSecrets(q)'
    <3>1. setup' = setup /\ HasItsSecrets(q)
      OBVIOUS
    <3>2. phase'[q] \in Configured => phase[q] \in Configured /\ cache'[q] = cache[q]
      BY DEF Configured
    <3> HIDE DEF Enter, IInv, HostsTypeOK
    <3> QED BY <3>1, <3>2, SecretsKept
  <2>4. LogBooks(q)' BY DEF LogBooks, EnvironBooks, Telemetry, Running
  <2> QED BY <2>1, <2>2, <2>3, <2>4 DEF ProcBooks
<1> QED BY <1>1, <1>2, <1>3 DEF IInv, ProcBooks

LEMMA InvokeKeeps ==
  ASSUME IInv, NEW p \in Proc, Invoke(p)
  PROVE  IInv'
<1>1. /\ handlers[p] \in SUBSET {"runtime", "stdout", "telemetry"}
      /\ adopted[p] \in SUBSET {"runtime", "stdout", "telemetry"}
      /\ handlers = [handlers EXCEPT ![p] = handlers[p]]
      /\ adopted = [adopted EXCEPT ![p] = adopted[p]]
  BY DEF IInv, HostsTypeOK
<1>2. phase[p] = "idle" => adopted[p] = {} /\ ("telemetry" \in handlers[p] => Telemetry)
  BY DEF IInv, LogBooks, Running
<1>3. CASE InvokeCli(p)
  <2> PICK options \in SUBSET {"list_classes", "register", "check_api", "check"} :
        \E given \in SUBSET Flag : Enter(p, Chosen(options), given)
    BY <1>3 DEF InvokeCli
  <2> PICK given \in SUBSET Flag : Enter(p, Chosen(options), given)
    OBVIOUS
  <2>1. adopted[p] = {} /\ ("telemetry" \in handlers[p] => Telemetry)
    BY <1>2 DEF Enter
  <2>2. FreshRunId(p) /\ UNCHANGED logVars /\ host[p] = "cli"
    BY <1>3 DEF InvokeCli
  <2> QED BY <1>1, <2>1, <2>2, ChosenIsCommand, EnterKeeps DEF logVars
<1>4. CASE InvokeLambda(p)
  <2> PICK dry \in BOOLEAN, check \in BOOLEAN :
        Enter(p, IF check THEN "check" ELSE "sync", IF dry THEN {"DRY_RUN"} ELSE {})
    BY <1>4 DEF InvokeLambda
  <2> DEFINE asked == IF check THEN "check" ELSE "sync"
             given == IF dry THEN {"DRY_RUN"} ELSE {}
  <2>1. asked \in {Commands[i] : i \in 1..5}
    BY DEF Commands
  <2>2. given \in SUBSET Flag
    BY HostsAssumption
  <2>3. adopted[p] = {} /\ ("telemetry" \in handlers[p] => Telemetry)
    BY <1>2 DEF Enter
  <2>4. FreshRunId(p) /\ UNCHANGED logVars /\ host[p] = "lambda"
    BY <1>4 DEF InvokeLambda
  <2>5. Enter(p, asked, given)
    OBVIOUS
  <2> HIDE DEF asked, given
  <2> QED BY <1>1, <2>1, <2>2, <2>3, <2>4, <2>5, EnterKeeps DEF logVars
<1>5. CASE InvokeWebjob(p)
  <2> DEFINE root == handlers[p] \cup {"stdout"} \cup (IF Telemetry THEN {"telemetry"} ELSE {})
  <2>1. Enter(p, "sync", {}) /\ FreshRunId(p) /\ UNCHANGED unsent /\ host[p] = "webjob"
    BY <1>5 DEF InvokeWebjob
  <2>2. adopted[p] = {} /\ ("telemetry" \in handlers[p] => Telemetry)
    BY <1>2, <2>1 DEF Enter
  <2>3. handlers' = [handlers EXCEPT ![p] = root] /\ handlers'[p] = root
    BY <1>5 DEF InvokeWebjob, IInv, HostsTypeOK
  <2>4. adopted' = [adopted EXCEPT ![p] = root]
    BY <1>5, <2>2, <2>3 DEF InvokeWebjob, Adopt, IInv, HostsTypeOK
  <2>5. /\ root \in SUBSET {"runtime", "stdout", "telemetry"} /\ root # {}
        /\ Telemetry <=> "telemetry" \in root
    BY <1>1, <2>2
  <2>6. "sync" \in {Commands[i] : i \in 1..5} /\ {} \in SUBSET Flag
    BY DEF Commands
  <2> HIDE DEF root
  <2> QED BY <2>1, <2>3, <2>4, <2>5, <2>6, EnterKeeps
<1> QED BY <1>3, <1>4, <1>5 DEF Invoke

-----------------------------------------------------------------------------
(* The lookups of a configuration leave a cache of the same kind. *)
LEMMA CacheAfterType ==
  ASSUME NEW s, NEW c \in [Secret -> {"unasked", "nothing", "current", "outdated"}], NEW failed
  PROVE  CacheAfter(s, c, failed) \in [Secret -> {"unasked", "nothing", "current", "outdated"}]
BY DEF CacheAfter

(***************************************************************************)
(* A configuration that is valid has every secret it needs: one that was   *)
(* to be looked up has been, with an answer.                               *)
(***************************************************************************)
LEMMA ValidHasItsSecrets ==
  ASSUME NEW s \in Setup, NEW c \in [Secret -> {"unasked", "nothing", "current", "outdated"}],
         NEW failed, Valid(s, Resolved(s, c, failed)), NEW n \in Needed(s) \cap Secret
  PROVE  /\ n \in s.given
         /\ s.from[n] = "ssm" => CacheAfter(s, c, failed)[n] \in {"current", "outdated"}
<1>1. n \in Resolved(s, c, failed)
  BY DEF Valid
<1>2. n \in s.given /\ (s.from[n] = "ssm" => n \in Supplied(s, "ssm"))
  BY <1>1 DEF Resolved, Supplied
<1>3. s.from[n] = "ssm" => CacheAfter(s, c, failed)[n] # "nothing"
  BY <1>1 DEF Resolved, Supplied
<1>4. s.from[n] = "ssm" => CacheAfter(s, c, failed)[n] # "unasked"
  BY <1>2 DEF CacheAfter, Lookups
<1> QED BY <1>2, <1>3, <1>4, CacheAfterType

LEMMA ReadConfigKeeps ==
  ASSUME IInv, NEW p \in Proc, ReadConfig(p)
  PROVE  IInv'
<1> PICK failed \in SUBSET (Lookups(setup, cache[p]) \cup Supplied(setup, "file")) :
      /\ cache' = [cache EXCEPT ![p] = CacheAfter(setup, cache[p], failed)]
      /\ IF Valid(setup, Resolved(setup, cache[p], failed))
         THEN Goes(p, "ready") /\ UNCHANGED exit
         ELSE Exits(p, EXIT_CONFIG)
  BY DEF ReadConfig
<1>1. (StoreTypeOK /\ StoreBooks)'
  BY StoreIdleInv DEF ReadConfig, IInv, StoreInv
<1>2. cache[p] \in [Secret -> {"unasked", "nothing", "current", "outdated"}] /\ setup \in Setup
  BY DEF IInv, HostsTypeOK
<1>3. CacheAfter(setup, cache[p], failed) \in [Secret -> {"unasked", "nothing", "current", "outdated"}]
  BY <1>2, CacheAfterType
<1>4. phase[p] = "started" /\ phase' \in {[phase EXCEPT ![p] = "ready"], [phase EXCEPT ![p] = "leaving"]}
  BY DEF ReadConfig, Goes, Exits
<1>5. unsent' = [unsent EXCEPT ![p] = unsent'[p]] /\ unsent'[p] \in BOOLEAN
      /\ (unsent'[p] => unsent[p] \/ "telemetry" \in handlers'[p])
  BY Zenon DEF ReadConfig, ConfigureLogging, IInv, HostsTypeOK
<1>6. HostsTypeOK'
  <2>1. unsent' \in [Proc -> BOOLEAN]
    BY Zenon, <1>5 DEF IInv, HostsTypeOK
  <2>2. handlers' \in [Proc -> SUBSET {"runtime", "stdout", "telemetry"}] /\ UNCHANGED adopted
    BY DEF ReadConfig, ConfigureLogging, IInv, HostsTypeOK
  <2>3. exit' \in [Proc -> {NoExit, EXIT_OK, Raised, EXIT_CONFIG, EXIT_FAILED, EXIT_PARTIAL}]
    BY DEF Exits, IInv, HostsTypeOK
  <2> QED BY <1>3, <1>4, <2>1, <2>2, <2>3 DEF ReadConfig, IInv, HostsTypeOK, worldVars, callVars, Phases
<1>7. ASSUME NEW q \in Proc PROVE ProcBooks(q)'
  <2> USE <1>4 DEF ReadConfig, IInv, HostsTypeOK, storeVars, worldVars, callVars
  <2>1. SavesInTurn(q)' BY DEF SavesInTurn, EnvironBooks, DryRun
  <2>2. EnvironBooks(q)' BY DEF EnvironBooks, Running
  <2>3. HasItsSecrets(q)'
    <3>1. CASE Valid(setup, Resolved(setup, cache[p], failed))
      BY <1>2, <3>1, ValidHasItsSecrets DEF HasItsSecrets, Configured
    <3>2. CASE ~Valid(setup, Resolved(setup, cache[p], failed))
      BY <3>2 DEF HasItsSecrets, Configured, Exits, Goes
    <3> QED BY <3>1, <3>2
  <2>4. LogBooks(q)'
    <3>1. CASE q = p
      <4>1. handlers'[p] = (IF adopted[p] # {} THEN adopted[p] ELSE {"stdout"})
        BY DEF ConfigureLogging
      <4>2. "telemetry" \in handlers'[p] \cup adopted[p] => Telemetry /\ host[p] = "webjob"
        BY <4>1 DEF LogBooks, Telemetry
      <4>3. unsent'[p] => Telemetry /\ host[p] = "webjob"
        BY <1>5, <4>2, Zenon DEF LogBooks, Telemetry
      <4> QED BY <3>1, <4>1, <4>2, <4>3 DEF LogBooks, Telemetry, Running, ConfigureLogging
    <3>2. CASE q # p
      BY <1>5, <3>2 DEF LogBooks, EnvironBooks, Telemetry, Running, ConfigureLogging
    <3> QED BY <3>1, <3>2
  <2> QED BY <2>1, <2>2, <2>3, <2>4 DEF ProcBooks
<1> QED BY <1>1, <1>6, <1>7 DEF IInv, ProcBooks

-----------------------------------------------------------------------------
ExitCode == {NoExit, EXIT_OK, Raised, EXIT_CONFIG, EXIT_FAILED, EXIT_PARTIAL}

(* An invocation that ends, by an answer, an error or an exception. *)
LEMMA ExitsKeeps ==
  ASSUME IInv, NEW p \in Proc, NEW code \in ExitCode, Exits(p, code),
         phase[p] \in Configured, (StoreTypeOK /\ StoreBooks)',
         saving' = [saving EXCEPT ![p] = NoDoc] \/ (UNCHANGED saving /\ phase[p] # "saving"),
         UNCHANGED <<setup, host, callVars, cache, logVars>>, facts' \in Fact
  PROVE  IInv'
<1>1. HostsTypeOK'
  <2>1. unsent' \in [Proc -> BOOLEAN]
    BY Zenon DEF IInv, HostsTypeOK, logVars
  <2> QED BY <2>1 DEF Exits, Goes, IInv, HostsTypeOK, callVars, logVars, Phases, ExitCode
<1>2. ASSUME NEW q \in Proc PROVE ProcBooks(q)'
  <2> USE DEF Exits, Goes, IInv, HostsTypeOK, callVars, logVars
  <2>1. SavesInTurn(q)' BY DEF SavesInTurn, DryRun, StoreTypeOK
  <2>2. EnvironBooks(q)' BY DEF EnvironBooks, Running, Configured
  <2>3. HasItsSecrets(q)'
    <3>1. setup' = setup /\ HasItsSecrets(q)
      OBVIOUS
    <3>2. phase'[q] \in Configured => phase[q] \in Configured /\ cache'[q] = cache[q]
      BY DEF Configured
    <3> HIDE DEF Exits, IInv, HostsTypeOK
    <3> QED BY <3>1, <3>2, SecretsKept
  <2>4. LogBooks(q)'
    <3>1. /\ phase[q] \in Running <=> phase'[q] \in Running
          /\ phase'[q] \in Running \ {"started"} => phase[q] \in Running \ {"started"}
      BY DEF Running, Configured
    <3> QED BY <3>1 DEF LogBooks, Telemetry
  <2> QED BY <2>1, <2>2, <2>3, <2>4 DEF ProcBooks
<1> QED BY <1>1, <1>2 DEF IInv, ProcBooks

(* Every command ends with one of the exit codes. *)
LEMMA AnswerCodes ==
  ASSUME NEW f, NEW mode, NEW insert
  PROVE  {ListClasses(f), RegisterExit(f, insert), CheckApi(f, mode), Check(f, mode)} \subseteq ExitCode
<1>1. {EXIT_OK, EXIT_FAILED, EXIT_PARTIAL} \subseteq ExitCode
  BY DEF ExitCode
<1>2. {ListClasses(f), RegisterExit(f, insert), CheckApi(f, mode)} \subseteq {EXIT_OK, EXIT_FAILED}
  BY Zenon DEF ListClasses, RegisterExit, CheckApi
<1>3. Check(f, mode) \in {EXIT_OK, EXIT_FAILED, EXIT_PARTIAL}
  BY DEF Check
<1> QED BY <1>1, <1>2, <1>3

(* A registration changes nothing but the registered source. *)
LEMMA RegisteredIsFact ==
  ASSUME facts \in Fact, NEW p \in Proc, NEW insert
  PROVE  [facts EXCEPT !.source = RegisterSource(Met(p), insert).source] \in Fact
<1>1. Met(p).source = facts.source
  BY DEF Met, Fact
<1>2. RegisterSource(Met(p), insert).source \in {facts.source, "exact"}
  BY <1>1 DEF RegisterSource, Met, Fact
<1>3. facts.source \in {"exact", "case", "similar", "none"}
  BY DEF Fact
<1> QED BY <1>2, <1>3 DEF Fact

LEMMA AnswerKeeps ==
  ASSUME IInv, NEW p \in Proc, Answer(p)
  PROVE  IInv'
<1>1. facts \in Fact
  BY DEF IInv, HostsTypeOK
<1>2. ASSUME UNCHANGED storeVars PROVE (StoreTypeOK /\ StoreBooks)' /\ UNCHANGED saving
  BY <1>2, StoreIdleInv DEF IInv, StoreInv, storeVars
<1>3. phase[p] = "ready" => phase[p] \in Configured /\ phase[p] # "saving"
  BY DEF Configured
<1>4. CASE RunListClasses(p)
  <2>1. Exits(p, ListClasses(Met(p))) /\ ListClasses(Met(p)) \in ExitCode
    BY <1>4, AnswerCodes DEF RunListClasses
  <2> QED BY <1>1, <1>2, <1>3, <1>4, <2>1, ExitsKeeps DEF RunListClasses, Runs, worldVars
<1>5. CASE RunRegister(p)
  <2> PICK insert \in Inserts :
        /\ Exits(p, RegisterExit(Met(p), insert))
        /\ facts' = [facts EXCEPT !.source = RegisterSource(Met(p), insert).source]
    BY <1>5 DEF RunRegister
  <2>1. RegisterExit(Met(p), insert) \in ExitCode /\ facts' \in Fact
    BY <1>1, AnswerCodes, RegisteredIsFact
  <2> QED BY <1>2, <1>3, <1>5, <2>1, ExitsKeeps DEF RunRegister, Runs
<1>6. CASE RunCheckApi(p)
  <2>1. Exits(p, CheckApi(Met(p), setup.writeMode)) /\ CheckApi(Met(p), setup.writeMode) \in ExitCode
    BY <1>6, AnswerCodes DEF RunCheckApi
  <2> QED BY <1>1, <1>2, <1>3, <1>6, <2>1, ExitsKeeps DEF RunCheckApi, Runs, worldVars
<1>7. CASE RunCheck(p)
  <2>1. Exits(p, Check(Met(p), setup.writeMode)) /\ Check(Met(p), setup.writeMode) \in ExitCode
    BY <1>7, AnswerCodes DEF RunCheck
  <2> QED BY <1>1, <1>2, <1>3, <1>7, <2>1, ExitsKeeps DEF RunCheck, Runs, worldVars
<1> QED BY <1>4, <1>5, <1>6, <1>7 DEF Answer

-----------------------------------------------------------------------------
(* A step of a run that goes on: the store takes a step of its own. *)
LEMMA GoesOnKeeps ==
  ASSUME IInv, NEW p \in Proc, phase[p] \in Configured,
         NEW to \in {"working", "saving", "saved"}, phase' = [phase EXCEPT ![p] = to],
         (StoreTypeOK /\ StoreBooks)',
         \A q \in Proc : saving'[q] # NoDoc => (IF q = p THEN to = "saving" ELSE saving[q] # NoDoc),
         to = "saving" => ~DryRun(p) /\ "STATE_PATH" \in setup.given,
         UNCHANGED <<worldVars, host, callVars, cache, logVars, exit>>
  PROVE  IInv'
<1>1. HostsTypeOK'
  <2>1. unsent' \in [Proc -> BOOLEAN]
    BY Zenon DEF IInv, HostsTypeOK, logVars
  <2> QED BY <2>1 DEF IInv, HostsTypeOK, worldVars, callVars, logVars, Phases
<1>2. ASSUME NEW q \in Proc PROVE ProcBooks(q)'
  <2> USE DEF IInv, HostsTypeOK, worldVars, callVars, logVars
  <2>1. SavesInTurn(q)' BY DEF SavesInTurn, DryRun
  <2>2. EnvironBooks(q)' BY DEF EnvironBooks, Running, Configured
  <2>3. HasItsSecrets(q)'
    <3>1. setup' = setup /\ HasItsSecrets(q)
      OBVIOUS
    <3>2. phase'[q] \in Configured => phase[q] \in Configured /\ cache'[q] = cache[q]
      BY DEF Configured
    <3> HIDE DEF IInv, HostsTypeOK
    <3> QED BY <3>1, <3>2, SecretsKept
  <2>4. LogBooks(q)'
    <3>1. /\ phase[q] \in Running <=> phase'[q] \in Running
          /\ phase'[q] \in Running \ {"started"} => phase[q] \in Running \ {"started"}
      BY DEF Running, Configured
    <3> QED BY <3>1 DEF LogBooks, Telemetry
  <2> QED BY <2>1, <2>2, <2>3, <2>4 DEF ProcBooks
<1> QED BY <1>1, <1>2 DEF IInv, ProcBooks

LEMMA SyncKeeps ==
  ASSUME IInv, NEW p \in Proc, Sync(p)
  PROVE  IInv'
<1>1. facts \in Fact /\ phase \in [Proc -> Phases] /\ saving \in [Proc -> Doc \cup {NoDoc}] /\ StoreInv
  BY DEF IInv, HostsTypeOK, StoreTypeOK, StoreInv
<1>2. ASSUME UNCHANGED storeVars PROVE (StoreTypeOK /\ StoreBooks)' /\ UNCHANGED saving
  BY <1>1, <1>2, StoreIdleInv DEF StoreInv, storeVars
<1>3. ASSUME StoreStep(p) PROVE (StoreTypeOK /\ StoreBooks)'
  BY <1>1, <1>3, StoreStepInv DEF StoreInv
<1>4. phase[p] \in {"ready", "working", "saving", "saved"} => phase[p] \in Configured
  BY DEF Configured
<1>5. \A q \in Proc : saving[q] # NoDoc => phase[q] = "saving"
  BY DEF IInv, SavesInTurn
<1>6. {EXIT_OK, EXIT_FAILED, EXIT_PARTIAL, Raised} \subseteq ExitCode
  BY DEF ExitCode
<1>7. CASE SyncRefused(p)
  BY <1>1, <1>2, <1>4, <1>6, <1>7, ExitsKeeps DEF SyncRefused, Runs, worldVars
<1>8. CASE SyncLoads(p)
  <2>1. (StoreTypeOK /\ StoreBooks)' /\ UNCHANGED saving
    <3>1. CASE ReadFile(p)
      BY <1>3, <3>1 DEF ReadFile, StoreStep
    <3>2. CASE Unreadable(p)
      BY <1>3, <3>2 DEF Unreadable, StoreStep
    <3>3. CASE UNCHANGED storeVars
      BY <1>2, <3>3
    <3> QED BY <1>8, <3>1, <3>2, <3>3 DEF SyncLoads
  <2>2. saving[p] = NoDoc
    BY <1>1, <1>5, <1>8 DEF SyncLoads, Runs
  <2> QED BY <1>4, <1>8, <2>1, <2>2, GoesOnKeeps DEF SyncLoads, Runs, Goes
<1>9. CASE SyncEnds(p)
  BY <1>1, <1>2, <1>4, <1>6, <1>9, ExitsKeeps DEF SyncEnds, worldVars
<1>10. CASE SyncSaves(p)
  <2>1. CASE Goes(p, "saved") /\ UNCHANGED storeVars
    <3>1. saving[p] = NoDoc
      BY <1>5, <1>10 DEF SyncSaves
    <3> QED BY <1>2, <1>4, <1>10, <2>1, <3>1, GoesOnKeeps DEF SyncSaves, Goes
  <2>2. CASE /\ ~DryRun(p) /\ "STATE_PATH" \in setup.given
             /\ Goes(p, "saving") /\ \E doc \in Doc : OpenTemp(p, doc)
    <3> PICK doc \in Doc : OpenTemp(p, doc)
      BY <2>2
    <3>1. (StoreTypeOK /\ StoreBooks)'
      BY <1>3 DEF StoreStep
    <3>2. \A q \in Proc : q # p => saving'[q] = saving[q]
      BY <1>1 DEF OpenTemp
    <3> QED BY <1>4, <1>10, <2>2, <3>1, <3>2, GoesOnKeeps DEF SyncSaves, Goes
  <2> QED BY <1>10, <2>1, <2>2 DEF SyncSaves
<1>11. CASE Saving(p)
  <2>1. (StoreTypeOK /\ StoreBooks)' /\ UNCHANGED saving
    BY <1>3, <1>11 DEF Saving, FillTemp, StoreStep
  <2>2. phase' = [phase EXCEPT ![p] = "saving"]
    BY <1>1, <1>11 DEF Saving
  <2>3. ~DryRun(p) /\ "STATE_PATH" \in setup.given
    BY <1>11 DEF Saving, IInv, SavesInTurn
  <2> QED BY <1>4, <1>11, <2>1, <2>2, <2>3, GoesOnKeeps DEF Saving
<1>12. CASE Saved(p)
  <2>1. (StoreTypeOK /\ StoreBooks)'
    BY <1>3, <1>12 DEF Saved, StoreStep
  <2>2. saving' = [saving EXCEPT ![p] = NoDoc]
    BY <1>12 DEF Saved, Replace, PutObject
  <2> QED BY <1>1, <1>4, <1>12, <2>1, <2>2, GoesOnKeeps DEF Saved, Goes
<1>13. CASE SaveFails(p)
  <2>1. (StoreTypeOK /\ StoreBooks)'
    BY <1>3, <1>13 DEF SaveFails, StoreStep
  <2>2. saving' = [saving EXCEPT ![p] = NoDoc]
    BY <1>13 DEF SaveFails, WriteFails
  <2> QED BY <1>1, <1>4, <1>6, <1>13, <2>1, <2>2, ExitsKeeps DEF SaveFails, worldVars
<1>14. CASE SyncReports(p)
  <2>1. PICK code \in ExitCode : Exits(p, code)
    BY <1>6, <1>14 DEF SyncReports
  <2> QED BY <1>1, <1>2, <1>4, <1>14, <2>1, ExitsKeeps DEF SyncReports, worldVars
<1> QED BY <1>7, <1>8, <1>9, <1>10, <1>11, <1>12, <1>13, <1>14 DEF Sync

-----------------------------------------------------------------------------
(* What is left of an invocation has the right types. *)
LEMMA ForgetsType ==
  ASSUME HostsTypeOK, NEW p \in Proc, Forgets(p)
  PROVE  /\ command' \in [Proc -> {Commands[i] : i \in 1..5}]
         /\ flags' \in [Proc -> SUBSET Flag]
         /\ previous' \in [Proc -> SUBSET Flag]
         /\ exit' \in [Proc -> {NoExit, EXIT_OK, Raised, EXIT_CONFIG, EXIT_FAILED, EXIT_PARTIAL}]
<1>1. "sync" \in {Commands[i] : i \in 1..5}
  BY DEF Commands
<1> QED BY <1>1 DEF Forgets, HostsTypeOK

LEMMA GoneType ==
  ASSUME HostsTypeOK, NEW p \in Proc, Gone(p)
  PROVE  /\ host' \in [Proc -> {"none", "cli", "lambda", "webjob"}]
         /\ environ' \in [Proc -> SUBSET Flag]
         /\ runId' \in [Proc -> {"none", "own", "old"}]
         /\ cache' \in [Proc -> [Secret -> {"unasked", "nothing", "current", "outdated"}]]
         /\ handlers' \in [Proc -> SUBSET {"runtime", "stdout", "telemetry"}]
         /\ adopted' \in [Proc -> SUBSET {"runtime", "stdout", "telemetry"}]
BY DEF Gone, HostsTypeOK, ColdCache

(* The end of an invocation, by its own way out or by the end of its process. *)
LEMMA LeaveKeeps ==
  ASSUME IInv, NEW p \in Proc, Leave(p)
  PROVE  IInv'
<1>1. (StoreTypeOK /\ StoreBooks)' /\ saving' = [saving EXCEPT ![p] = NoDoc]
  BY StoreStepInv DEF Leave, Forgets, Abandon, StoreStep, IInv, StoreInv
<1>2. unsent' = [unsent EXCEPT ![p] = unsent'[p]] /\ unsent'[p] \in BOOLEAN
      /\ (unsent'[p] => unsent[p] /\ ~Flushes(p))
  BY Zenon DEF Leave, IInv, HostsTypeOK
<1>3. Restores(p) = {}
  BY DEF Restores, Leave, IInv, EnvironBooks, Running
<1>4. HostsTypeOK'
  <2>1. unsent' \in [Proc -> BOOLEAN]
    BY Zenon, <1>2 DEF IInv, HostsTypeOK
  <2>2. UNCHANGED worldVars /\ Forgets(p) /\ HostsTypeOK
    BY DEF Leave, IInv
  <2>3. phase' \in [Proc -> Phases]
    BY DEF Leave, Goes, IInv, HostsTypeOK, Phases
  <2>4. CASE host[p] = "lambda"
    <3>1. /\ environ' = [environ EXCEPT ![p] = {}]
          /\ runId' = [runId EXCEPT ![p] = "old"]
          /\ UNCHANGED <<host, cache, handlers, adopted>>
      BY <1>3, <2>4 DEF Leave
    <3> QED BY <2>1, <2>2, <2>3, <3>1, ForgetsType DEF HostsTypeOK, worldVars
  <2>5. CASE host[p] # "lambda"
    <3>1. Gone(p)
      BY <2>5 DEF Leave
    <3> QED BY <2>1, <2>2, <2>3, <3>1, ForgetsType, GoneType DEF HostsTypeOK, worldVars
  <2> QED BY <2>4, <2>5
<1>5. ASSUME NEW q \in Proc PROVE ProcBooks(q)'
  <2> USE <1>1, <1>3 DEF Leave, Forgets, Gone, Goes, IInv, HostsTypeOK, worldVars
  <2>1. SavesInTurn(q)' BY DEF SavesInTurn, DryRun, StoreTypeOK
  <2>2. EnvironBooks(q)' BY DEF EnvironBooks, Running
  <2>3. HasItsSecrets(q)'
    <3>1. setup' = setup /\ HasItsSecrets(q)
      OBVIOUS
    <3>2. phase'[q] \in Configured => phase[q] \in Configured /\ cache'[q] = cache[q]
      BY DEF Configured
    <3> HIDE DEF Leave, IInv, HostsTypeOK
    <3> QED BY <3>1, <3>2, SecretsKept
  <2>4. LogBooks(q)'
    <3>1. unsent'[q] => unsent[q] /\ (q = p => ~Flushes(p))
      BY Zenon, <1>2 DEF IInv, HostsTypeOK
    <3> QED BY <3>1 DEF LogBooks, EnvironBooks, Telemetry, Running, Flushes
  <2> QED BY <2>1, <2>2, <2>3, <2>4 DEF ProcBooks
<1> QED BY <1>1, <1>4, <1>5 DEF IInv, ProcBooks

LEMMA KillKeeps ==
  ASSUME IInv, NEW p \in Proc, Kill(p)
  PROVE  IInv'
<1>1. (StoreTypeOK /\ StoreBooks)' /\ saving' = [saving EXCEPT ![p] = NoDoc]
  BY StoreStepInv DEF Kill, Forgets, Abandon, StoreStep, IInv, StoreInv
<1>2. HostsTypeOK'
  <2>1. unsent' \in [Proc -> BOOLEAN]
    BY Zenon DEF Kill, IInv, HostsTypeOK
  <2>2. UNCHANGED worldVars /\ Forgets(p) /\ Gone(p) /\ HostsTypeOK
    BY DEF Kill, IInv
  <2> QED BY <2>1, <2>2, ForgetsType, GoneType DEF Kill, Goes, HostsTypeOK, worldVars, Phases
<1>3. ASSUME NEW q \in Proc PROVE ProcBooks(q)'
  <2> USE <1>1 DEF Kill, Forgets, Gone, Goes, IInv, HostsTypeOK, worldVars
  <2>1. SavesInTurn(q)' BY DEF SavesInTurn, DryRun, StoreTypeOK
  <2>2. EnvironBooks(q)' BY DEF EnvironBooks, Running
  <2>3. HasItsSecrets(q)'
    <3>1. setup' = setup /\ HasItsSecrets(q)
      OBVIOUS
    <3>2. phase'[q] \in Configured => phase[q] \in Configured /\ cache'[q] = cache[q]
      BY DEF Configured
    <3> HIDE DEF Kill, IInv, HostsTypeOK
    <3> QED BY <3>1, <3>2, SecretsKept
  <2>4. LogBooks(q)' BY DEF LogBooks, EnvironBooks, Telemetry, Running
  <2> QED BY <2>1, <2>2, <2>3, <2>4 DEF ProcBooks
<1> QED BY <1>1, <1>2, <1>3 DEF IInv, ProcBooks

LEMMA RotateKeeps ==
  ASSUME IInv, Rotate
  PROVE  IInv'
<1>1. (StoreTypeOK /\ StoreBooks)'
  BY StoreIdleInv DEF Rotate, IInv, StoreInv
<1>2. PICK n \in Supplied(setup, "ssm") :
        cache' = [p \in Proc |->
                    [cache[p] EXCEPT ![n] = IF @ = "current" THEN "outdated" ELSE @]]
  BY DEF Rotate
<1>3. /\ cache' \in [Proc -> [Secret -> {"unasked", "nothing", "current", "outdated"}]]
      /\ \A q \in Proc, m \in Secret :
           cache[q][m] \in {"current", "outdated"} => cache'[q][m] \in {"current", "outdated"}
  BY <1>2 DEF IInv, HostsTypeOK, Supplied
<1>4. HostsTypeOK'
  <2>1. unsent' \in [Proc -> BOOLEAN]
    BY Zenon DEF Rotate, IInv, HostsTypeOK, logVars
  <2> QED BY <1>3, <2>1 DEF Rotate, IInv, HostsTypeOK, worldVars, callVars, logVars
<1>5. ASSUME NEW q \in Proc PROVE ProcBooks(q)'
  <2> USE DEF Rotate, IInv, HostsTypeOK, storeVars, worldVars, callVars, logVars
  <2>1. SavesInTurn(q)' BY DEF SavesInTurn, DryRun
  <2>2. EnvironBooks(q)' BY DEF EnvironBooks
  <2>3. HasItsSecrets(q)' BY <1>3 DEF HasItsSecrets
  <2>4. LogBooks(q)' BY DEF LogBooks, Telemetry
  <2> QED BY <2>1, <2>2, <2>3, <2>4 DEF ProcBooks
<1> QED BY <1>1, <1>4, <1>5 DEF IInv, ProcBooks

LEMMA StutterKeeps == ASSUME IInv, UNCHANGED vars PROVE IInv'
<1>1. (StoreTypeOK /\ StoreBooks)'
  BY StoreIdleInv DEF vars, IInv, StoreInv
<1>2. HostsTypeOK'
  <2>1. unsent' \in [Proc -> BOOLEAN]
    BY Zenon DEF vars, IInv, HostsTypeOK
  <2> QED BY <2>1 DEF vars, IInv, HostsTypeOK
<1>3. ASSUME NEW q \in Proc PROVE ProcBooks(q)'
  <2> USE DEF vars, IInv, HostsTypeOK, storeVars
  <2>1. SavesInTurn(q)' BY DEF SavesInTurn, DryRun
  <2>2. EnvironBooks(q)' BY DEF EnvironBooks
  <2>3. HasItsSecrets(q)' BY DEF HasItsSecrets
  <2>4. LogBooks(q)' BY DEF LogBooks, Telemetry
  <2> QED BY <2>1, <2>2, <2>3, <2>4 DEF ProcBooks
<1> QED BY <1>1, <1>2, <1>3 DEF IInv, ProcBooks

LEMMA NextKeeps == IInv /\ [Next]_vars => IInv'
<1> SUFFICES ASSUME IInv, [Next]_vars PROVE IInv'
  OBVIOUS
<1>1. CASE Rotate
  BY <1>1, RotateKeeps
<1>2. CASE \E p \in Proc : Boot(p) \/ Invoke(p) \/ ReadConfig(p) \/ Answer(p) \/ Sync(p)
                          \/ Leave(p) \/ Kill(p)
  BY <1>2, BootKeeps, InvokeKeeps, ReadConfigKeeps, AnswerKeeps, SyncKeeps, LeaveKeeps, KillKeeps
<1>3. CASE UNCHANGED vars
  BY <1>3, StutterKeeps
<1> QED BY <1>1, <1>2, <1>3 DEF Next

-----------------------------------------------------------------------------
(***************************************************************************)
(* The inductive invariant: writes in their turn, an environment that      *)
(* holds the flags of this invocation alone, secrets in hand before the    *)
(* first request, handlers adopted before logging is configured.           *)
(***************************************************************************)
THEOREM HostsInvariant == Spec => []IInv
BY InitIInv, NextKeeps, PTL DEF Spec

(***************************************************************************)
(* No invocation runs under the overrides or the run id of an earlier one  *)
(* in its process, whatever ended that one (_apply_overrides,              *)
(* reset_run_id).                                                          *)
(***************************************************************************)
THEOREM HostsInvocationIsItsOwn == Spec => []InvocationIsItsOwn
<1>1. IInv => InvocationIsItsOwn
  BY DEF IInv, EnvironBooks, InvocationIsItsOwn
<1> QED BY <1>1, HostsInvariant, PTL

(***************************************************************************)
(* A WebJob with telemetry logs to it while it works and leaves nothing    *)
(* unexported, also when an exception ends it (adopt_host_handlers, and    *)
(* the finally clause of appservice_job.run).                              *)
(***************************************************************************)
THEOREM HostsTelemetryKept == Spec => []TelemetryKept
<1>1. IInv => TelemetryKept
  <2> SUFFICES ASSUME IInv, NEW p \in Proc
               PROVE  /\ host[p] = "webjob" /\ Telemetry /\ phase[p] \in Running \ {"started"} =>
                           "telemetry" \in handlers[p]
                      /\ phase[p] = "ended" => ~unsent[p]
    BY DEF TelemetryKept
  <2>1. host[p] = "webjob" /\ Telemetry /\ phase[p] \in Running \ {"started"} =>
          "telemetry" \in handlers[p]
    BY DEF IInv, LogBooks
  <2>2. phase[p] = "ended" => ~unsent[p]
    BY DEF IInv, LogBooks, EnvironBooks
  <2> QED BY <2>1, <2>2
<1> QED BY <1>1, HostsInvariant, PTL

-----------------------------------------------------------------------------
(* Whatever happens, the store takes one step of one process, or none. *)
LEMMA StepOfTheStore ==
  ASSUME [Next]_vars
  PROVE  UNCHANGED storeVars \/ \E p \in Proc : StoreStep(p)
<1>1. CASE Rotate
  BY <1>1 DEF Rotate
<1>2. ASSUME NEW p \in Proc, Boot(p) \/ Invoke(p) \/ ReadConfig(p) \/ Answer(p)
      PROVE  UNCHANGED storeVars
  BY <1>2 DEF Boot, Invoke, InvokeCli, InvokeLambda, InvokeWebjob, Enter, ReadConfig,
              Answer, RunListClasses, RunRegister, RunCheckApi, RunCheck
<1>3. ASSUME NEW p \in Proc, Sync(p) PROVE UNCHANGED storeVars \/ StoreStep(p)
  BY <1>3 DEF Sync, SyncRefused, SyncLoads, SyncEnds, SyncSaves, Saving, Saved, SaveFails,
              SyncReports, StoreStep
<1>4. ASSUME NEW p \in Proc, Leave(p) \/ Kill(p) PROVE StoreStep(p)
  BY <1>4 DEF Leave, Kill, Forgets, StoreStep
<1>5. CASE UNCHANGED vars
  BY <1>5 DEF vars
<1> QED BY <1>1, <1>2, <1>3, <1>4, <1>5 DEF Next

(***************************************************************************)
(* The state file is an atomic register for any number of processes that   *)
(* are killed, fail and overlap at any step of a write                     *)
(* (LocalStateStore.write, S3StateStore.write).                            *)
(***************************************************************************)
THEOREM HostsImplementsRegister == Spec => ImplementsRegister
<1>1. Init => Register!Init
  BY StoreInitRegister DEF Init
<1>2. IInv /\ [Next]_vars => [Register!Next]_(Register!vars)
  <2> SUFFICES ASSUME IInv, [Next]_vars PROVE [Register!Next]_(Register!vars)
    OBVIOUS
  <2>1. StoreInv
    BY DEF IInv, StoreInv
  <2>2. CASE UNCHANGED storeVars
    BY <2>2, StoreIdleRegister
  <2>3. CASE \E p \in Proc : StoreStep(p)
    BY <2>1, <2>3, StoreStepRegister
  <2> QED BY <2>2, <2>3, StepOfTheStore
<1> QED BY <1>1, <1>2, HostsInvariant, PTL DEF Spec, ImplementsRegister, Register!Spec

-----------------------------------------------------------------------------
(***************************************************************************)
(* What an exit code of 0 says, as long as the invocation is on its way    *)
(* out.  A registration by another process may come in between: it can     *)
(* only make more of it true.                                              *)
(***************************************************************************)
Truth(q) ==
  /\ phase[q] \in {"working", "saving", "saved"} => command[q] = "sync"
  /\ phase[q] = "leaving" /\ exit[q] = EXIT_OK =>
       /\ command[q] = "check" => CheckIsRight(facts, setup.writeMode)
       /\ command[q] = "check_api" => facts.grant[WriteProbe(setup.writeMode)] = "open"

LEMMA RegisteredStays ==
  ASSUME NEW f \in Fact, NEW mode, NEW source \in {f.source, "exact"}
  PROVE  LET g == [f EXCEPT !.source = source]
         IN  g.grant = f.grant /\ (CheckIsRight(f, mode) => CheckIsRight(g, mode))
BY DEF Fact, CheckIsRight, Callable

(* What holds of what a process meets holds of the instance. *)
LEMMA MetFacts ==
  ASSUME facts \in Fact, NEW p \in Proc
  PROVE  /\ Met(p) \in Fact
         /\ \A e \in Probes : Callable(Met(p), e) => Callable(facts, e)
         /\ \A mode : CheckIsRight(Met(p), mode) => CheckIsRight(facts, mode)
<1> DEFINE a == facts.authenticates /\ ~Outdated(p, {"SNOW_CLIENT_SECRET", "SNOW_PASSWORD"})
           g == facts.graph /\ ~Outdated(p, {"GRAPH_ACCESS_TOKEN", "GRAPH_CLIENT_SECRET"})
<1>1. Met(p) = [facts EXCEPT !.authenticates = a, !.graph = g]
  BY DEF Met
<1>2. a \in BOOLEAN /\ (a => facts.authenticates)
  BY Zenon DEF Outdated
<1>3. g \in BOOLEAN /\ (g => facts.graph)
  BY Zenon DEF Outdated
<1> HIDE DEF a, g
<1>4. Met(p) \in Fact
  BY <1>1, <1>2, <1>3 DEF Fact
<1>5. \A e \in Probes : Callable(Met(p), e) => Callable(facts, e)
  BY <1>1, <1>2 DEF Callable, Fact
<1>6. /\ Met(p).classes = facts.classes /\ Met(p).source = facts.source
      /\ Met(p).choices = facts.choices /\ (Met(p).graph => facts.graph)
  BY <1>1, <1>3 DEF Fact
<1>7. {"table_read", "ire_query", "cmdb_instance_write"} \subseteq Probes
  BY DEF Probes, Gets, Posts
<1>8. \A mode : CheckIsRight(Met(p), mode) => CheckIsRight(facts, mode)
  BY <1>5, <1>6, <1>7 DEF CheckIsRight, AskedEndpoint
<1> QED BY <1>4, <1>5, <1>8

(* A step that leaves the instance alone, and whose process does not succeed by it. *)
LEMMA OtherKeepsTruth ==
  ASSUME IInv, NEW p \in Proc, NEW q \in Proc, Truth(q), UNCHANGED worldVars,
         UNCHANGED <<phase, command, exit>>
         \/ /\ phase' = [phase EXCEPT ![p] = phase'[p]] /\ command' = [command EXCEPT ![p] = command'[p]]
            /\ exit' = [exit EXCEPT ![p] = exit'[p]]
            /\ phase'[p] \in {"working", "saving", "saved"} => command'[p] = "sync"
            /\ phase'[p] = "leaving" => exit'[p] # EXIT_OK \/ command'[p] = "sync"
  PROVE  Truth(q)'
<1>1. setup' = setup /\ facts' = facts
  BY DEF worldVars
<1>2. CASE UNCHANGED <<phase, command, exit>>
  BY <1>1, <1>2 DEF Truth
<1>3. CASE ~(UNCHANGED <<phase, command, exit>>)
  <2>1. CASE q = p
    BY <1>3, <2>1 DEF Truth
  <2>2. CASE q # p
    <3>1. phase'[q] = phase[q] /\ command'[q] = command[q] /\ exit'[q] = exit[q]
      BY <1>3, <2>2 DEF IInv, HostsTypeOK
    <3> QED BY <1>1, <3>1 DEF Truth
  <2> QED BY <2>1, <2>2
<1> QED BY <1>2, <1>3

LEMMA AnswerKeepsTruth ==
  ASSUME IInv, NEW p \in Proc, Answer(p), NEW q \in Proc, Truth(q)
  PROVE  Truth(q)'
<1>1. /\ facts \in Fact /\ setup \in Setup /\ setup.writeMode \in STRING
      /\ phase \in [Proc -> Phases] /\ exit \in [Proc -> ExitCode]
  BY DEF IInv, HostsTypeOK, ExitCode, Setup
<1>2. ASSUME NEW code, Exits(p, code)
      PROVE  /\ phase'[p] = "leaving" /\ exit'[p] = code
             /\ q # p => phase'[q] = phase[q] /\ exit'[q] = exit[q]
  BY <1>1, <1>2 DEF Exits, Goes
<1>3. CASE RunListClasses(p)
  <2>1. command[p] = "list_classes" /\ UNCHANGED <<command, setup, facts>>
    BY <1>3 DEF RunListClasses, Runs, callVars, worldVars
  <2>2. Exits(p, ListClasses(Met(p)))
    BY <1>3 DEF RunListClasses
  <2> QED BY <1>2, <2>1, <2>2 DEF Truth
<1>4. CASE RunRegister(p)
  <2> PICK insert \in Inserts :
        /\ Exits(p, RegisterExit(Met(p), insert))
        /\ facts' = [facts EXCEPT !.source = RegisterSource(Met(p), insert).source]
    BY <1>4 DEF RunRegister
  <2>1. command[p] = "register" /\ UNCHANGED <<command, setup>>
    BY <1>4 DEF RunRegister, Runs, callVars
  <2>2. RegisterSource(Met(p), insert).source \in {facts.source, "exact"}
    BY <1>1 DEF RegisterSource, Met, Fact
  <2>3. /\ facts'.grant = facts.grant
        /\ CheckIsRight(facts, setup.writeMode) => CheckIsRight(facts', setup.writeMode)
    BY <1>1, <2>2, RegisteredStays
  <2> QED BY <1>2, <2>1, <2>3 DEF Truth
<1>5. CASE RunCheckApi(p)
  <2>1. command[p] = "check_api" /\ UNCHANGED <<command, setup, facts>>
    BY <1>5 DEF RunCheckApi, Runs, callVars, worldVars
  <2>2. Exits(p, CheckApi(Met(p), setup.writeMode))
    BY <1>5 DEF RunCheckApi
  <2>3. WriteProbe(setup.writeMode) \in Probes
    BY DEF WriteProbe, Probes, Posts
  <2>4. CheckApi(Met(p), setup.writeMode) = EXIT_OK => Callable(Met(p), WriteProbe(setup.writeMode))
    BY <1>1, <2>3, MetFacts, ShutIsNot DEF CheckApi, WritePathOk, EXIT_OK, EXIT_FAILED
  <2>5. CheckApi(Met(p), setup.writeMode) = EXIT_OK => facts.grant[WriteProbe(setup.writeMode)] = "open"
    BY <1>1, <2>3, <2>4, MetFacts DEF Callable
  <2> QED BY <1>2, <2>1, <2>2, <2>5 DEF Truth
<1>6. CASE RunCheck(p)
  <2>1. command[p] = "check" /\ UNCHANGED <<command, setup, facts>>
    BY <1>6 DEF RunCheck, Runs, callVars, worldVars
  <2>2. Exits(p, Check(Met(p), setup.writeMode))
    BY <1>6 DEF RunCheck
  <2>3. Check(Met(p), setup.writeMode) = EXIT_OK => CheckIsRight(facts, setup.writeMode)
    BY <1>1, MetFacts, CheckRight
  <2> QED BY <1>2, <2>1, <2>2, <2>3 DEF Truth
<1> QED BY <1>3, <1>4, <1>5, <1>6 DEF Answer

LEMMA SyncKeepsTruth ==
  ASSUME IInv, NEW p \in Proc, Sync(p), NEW q \in Proc, Truth(p), Truth(q)
  PROVE  Truth(q)'
<1>1. UNCHANGED worldVars /\ UNCHANGED command
  BY DEF Sync, SyncRefused, SyncLoads, SyncEnds, SyncSaves, Saving, Saved, SaveFails,
         SyncReports, callVars
<1>2. command[p] = "sync"
  BY DEF Sync, SyncRefused, SyncLoads, SyncEnds, SyncSaves, Saving, Saved, SaveFails,
         SyncReports, Runs, Truth
<1>3. phase' = [phase EXCEPT ![p] = phase'[p]] /\ exit' = [exit EXCEPT ![p] = exit'[p]]
  BY DEF Sync, SyncRefused, SyncLoads, SyncEnds, SyncSaves, Saving, Saved, SaveFails,
         SyncReports, Exits, Goes, IInv, HostsTypeOK
<1>4. command' = [command EXCEPT ![p] = command'[p]] /\ command'[p] = "sync"
  BY <1>1, <1>2 DEF IInv, HostsTypeOK
<1> QED BY <1>1, <1>3, <1>4, OtherKeepsTruth

LEMMA NextKeepsTruth ==
  ASSUME IInv, [Next]_vars, \A q \in Proc : Truth(q)
  PROVE  \A q \in Proc : Truth(q)'
<1> TAKE q \in Proc
<1>1. CASE UNCHANGED vars
  BY <1>1 DEF vars, worldVars, Truth
<1>2. CASE Rotate
  BY <1>2 DEF Rotate, worldVars, callVars, Truth
<1>3. ASSUME NEW p \in Proc, Boot(p) PROVE Truth(q)'
  <2>1. UNCHANGED worldVars /\ UNCHANGED <<command, exit>> /\ phase' = [phase EXCEPT ![p] = "idle"]
    BY <1>3 DEF Boot, Goes, callVars
  <2>2. /\ phase' = [phase EXCEPT ![p] = phase'[p]] /\ phase'[p] = "idle"
        /\ command' = [command EXCEPT ![p] = command'[p]] /\ exit' = [exit EXCEPT ![p] = exit'[p]]
    BY <2>1 DEF IInv, HostsTypeOK
  <2> QED BY <2>1, <2>2, OtherKeepsTruth
<1>4. ASSUME NEW p \in Proc, Invoke(p) PROVE Truth(q)'
  <2>1. PICK asked, given : Enter(p, asked, given)
    BY <1>4 DEF Invoke, InvokeCli, InvokeLambda, InvokeWebjob
  <2>2. /\ phase' = [phase EXCEPT ![p] = phase'[p]] /\ phase'[p] = "started"
        /\ command' = [command EXCEPT ![p] = command'[p]] /\ exit' = [exit EXCEPT ![p] = exit'[p]]
        /\ UNCHANGED worldVars
    BY <2>1 DEF Enter, Goes, IInv, HostsTypeOK
  <2> QED BY <2>2, OtherKeepsTruth
<1>5. ASSUME NEW p \in Proc, ReadConfig(p) PROVE Truth(q)'
  <2>1. UNCHANGED worldVars /\ UNCHANGED command
        /\ \/ phase' = [phase EXCEPT ![p] = "ready"] /\ UNCHANGED exit
           \/ phase' = [phase EXCEPT ![p] = "leaving"] /\ exit' = [exit EXCEPT ![p] = EXIT_CONFIG]
    BY <1>5 DEF ReadConfig, Exits, Goes, callVars
  <2>2. EXIT_CONFIG # EXIT_OK
    BY DEF EXIT_CONFIG, EXIT_OK
  <2>3. command' = [command EXCEPT ![p] = command'[p]]
    BY <2>1 DEF IInv, HostsTypeOK
  <2>4. /\ phase' = [phase EXCEPT ![p] = phase'[p]] /\ phase'[p] \in {"ready", "leaving"}
        /\ exit' = [exit EXCEPT ![p] = exit'[p]]
        /\ phase'[p] = "leaving" => exit'[p] # EXIT_OK
    BY <2>1, <2>2 DEF IInv, HostsTypeOK
  <2> QED BY <2>1, <2>3, <2>4, OtherKeepsTruth
<1>6. ASSUME NEW p \in Proc, Leave(p) \/ Kill(p) PROVE Truth(q)'
  <2>1. UNCHANGED worldVars /\ phase' = [phase EXCEPT ![p] = phase'[p]]
        /\ phase'[p] \in {"idle", "ended", "off"}
    BY <1>6 DEF Leave, Kill, Goes, IInv, HostsTypeOK
  <2>2. command' = [command EXCEPT ![p] = "sync"] /\ exit' = [exit EXCEPT ![p] = NoExit]
    BY <1>6 DEF Leave, Kill, Forgets
  <2>3. command' = [command EXCEPT ![p] = command'[p]] /\ exit' = [exit EXCEPT ![p] = exit'[p]]
    BY <2>2 DEF IInv, HostsTypeOK
  <2> QED BY <2>1, <2>3, OtherKeepsTruth
<1> QED BY <1>1, <1>2, <1>3, <1>4, <1>5, <1>6, AnswerKeepsTruth, SyncKeepsTruth DEF Next

LEMMA TruthHolds == Spec => [](\A q \in Proc : Truth(q))
<1>1. Init => \A q \in Proc : Truth(q)
  BY DEF Init, Truth
<1>2. IInv /\ (\A q \in Proc : Truth(q)) /\ [Next]_vars => (\A q \in Proc : Truth(q))'
  BY NextKeepsTruth
<1> QED BY <1>1, <1>2, HostsInvariant, PTL DEF Spec

(***************************************************************************)
(* A --check that exits with 0 has not passed over a missing class, a      *)
(* Graph that does not answer, a refusal by the endpoint it asks or a      *)
(* source known to be absent, for every instance and any processes beside  *)
(* it, one that registers the source among them.                           *)
(***************************************************************************)
THEOREM HostsCheckTellsTruth == Spec => []CheckTellsTruth
<1>1. (\A q \in Proc : Truth(q)) => CheckTellsTruth
  BY DEF Truth, CheckTellsTruth
<1> QED BY <1>1, TruthHolds, PTL

(***************************************************************************)
(* The exit code of --check-api and the sentences of its diagnosis are     *)
(* true of what the credential meets, for every instance.                  *)
(***************************************************************************)
THEOREM HostsDiagnosisHolds == Spec => []DiagnosisHolds
<1>1. IInv /\ (\A q \in Proc : Truth(q)) => DiagnosisHolds
  <2> SUFFICES ASSUME IInv, NEW p \in Proc, Truth(p), phase[p] = "leaving", command[p] = "check_api"
               PROVE  /\ DiagnosisIsRight(Met(p), setup.writeMode)
                      /\ exit[p] = EXIT_OK => facts.grant[WriteProbe(setup.writeMode)] = "open"
    BY DEF DiagnosisHolds
  <2>1. Met(p) \in Fact /\ setup.writeMode \in STRING
    BY MetFacts DEF IInv, HostsTypeOK, Setup
  <2>2. DiagnosisIsRight(Met(p), setup.writeMode)
    BY <2>1, DiagnosisRight
  <2> QED BY <2>2 DEF Truth
<1> QED BY <1>1, TruthHolds, HostsInvariant, PTL
=============================================================================
