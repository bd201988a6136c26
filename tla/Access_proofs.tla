--------------------------- MODULE Access_proofs ---------------------------
(***************************************************************************)
(* What the checks and the diagnosis say is so, for every combination of   *)
(* grants, not only the ones a run of TLC visits.                          *)
(***************************************************************************)
EXTENDS Access, TLAPS

(* Reads, probes of a missing target and the rest are let through in their own ways. *)
LEMMA OpenIsAuthorized ==
  ASSUME NEW f \in Fact, NEW e \in Probes, Callable(f, e)
  PROVE  Report(f)[e] = "authorized"
<1>1. f.authenticates /\ f.grant[e] = "open"
  BY DEF Callable
<1>2. Report(f)[e] = Classify(Response(f, e), e)
  BY DEF Report
<1> USE DEF ReachedStatus
<1>3. CASE e \in Gets
  <2>1. Response(f, e) = [status |-> 200, says |-> "none"]
    BY <1>1, <1>3 DEF Response
  <2> QED BY <1>2, <2>1 DEF Classify
<1>4. CASE e \notin Gets /\ e \in MissingTarget
  <2>1. Response(f, e) = [status |-> 404, says |-> "none"]
    BY <1>1, <1>4 DEF Response
  <2> QED BY <1>2, <1>4, <2>1 DEF Classify
<1>5. CASE e \notin Gets /\ e \notin MissingTarget
  <2>1. Response(f, e) = [status |-> 400, says |-> "none"]
    BY <1>1, <1>5 DEF Response
  <2> QED BY <1>2, <2>1 DEF Classify
<1> QED BY <1>3, <1>4, <1>5

(* The verdict on an endpoint that does not let the credential through. *)
LEMMA ShutIsNot ==
  ASSUME NEW f \in Fact, NEW e \in Probes, ~Callable(f, e)
  PROVE  /\ Report(f)[e] # "authorized"
         /\ Report(f)[e] = "blocked_at_gate" => f.authenticates /\ f.grant[e] = "gated"
<1>1. Report(f)[e] = Classify(Response(f, e), e)
  BY DEF Report
<1>2. f.grant[e] \in {"open", "gated", "denied", "absent", "down"}
  BY DEF Fact
<1>3. CASE f.grant[e] = "down"
  <2>1. Response(f, e) = [status |-> 0, says |-> "none"]
    BY <1>3 DEF Response
  <2> QED BY <1>1, <2>1 DEF Classify
<1>4. CASE f.grant[e] # "down" /\ ~f.authenticates
  <2>1. Response(f, e) = [status |-> 401, says |-> "none"]
    BY <1>4 DEF Response
  <2> QED BY <1>1, <2>1 DEF Classify
<1>5. CASE f.authenticates /\ f.grant[e] = "gated"
  <2>1. Response(f, e) = [status |-> 403, says |-> "unscopedApi"]
    BY <1>5 DEF Response
  <2> QED BY <1>1, <1>5, <2>1 DEF Classify
<1>6. CASE f.authenticates /\ f.grant[e] = "denied"
  <2>1. Response(f, e) = [status |-> 403, says |-> "none"]
    BY <1>6 DEF Response
  <2> QED BY <1>1, <2>1 DEF Classify
<1>7. CASE f.authenticates /\ f.grant[e] = "absent"
  <2>1. Response(f, e) = [status |-> 404, says |-> "noSuchApi"]
    BY <1>7 DEF Response
  <2> QED BY <1>1, <2>1 DEF Classify
<1> QED BY <1>2, <1>3, <1>4, <1>5, <1>6, <1>7 DEF Callable

(* One probe that does not authenticate: the credential is no good for any of them. *)
LEMMA UnauthenticatedAll ==
  ASSUME NEW f \in Fact, NEW e \in Probes, Report(f)[e] = "unauthenticated"
  PROVE  ~f.authenticates
<1> SUFFICES ASSUME f.authenticates PROVE FALSE
  OBVIOUS
<1>1. Report(f)[e] = Classify(Response(f, e), e)
  BY DEF Report
<1>2. f.grant[e] \in {"open", "gated", "denied", "absent", "down"}
  BY DEF Fact
<1>3. Response(f, e).status \in {0, 403, 404, 200, 400}
  BY <1>2 DEF Response, ReachedStatus
<1> QED BY <1>1, <1>3 DEF Classify

(***************************************************************************)
(* The verdicts of probe.py and each sentence of its diagnosis that names  *)
(* a cause or a way out are true of the instance, for every instance and   *)
(* write mode.                                                             *)
(***************************************************************************)
THEOREM DiagnosisRight == \A f \in Fact, mode \in STRING : DiagnosisIsRight(f, mode)
<1> SUFFICES ASSUME NEW f \in Fact, NEW mode \in STRING PROVE DiagnosisIsRight(f, mode)
  OBVIOUS
<1> DEFINE lines == Diagnose(Report(f), mode)
<1>1. \A e \in Probes : Report(f)[e] = "authorized" <=> Callable(f, e)
  BY OpenIsAuthorized, ShutIsNot
<1>2. /\ WriteProbe(mode) \in Probes /\ WriteProbe(OtherMode(mode)) \in Probes
      /\ "table_update" \in Probes /\ Posts \subseteq Probes
  BY DEF WriteProbe, Probes, Posts, Gets
<1>3. "gate" \in lines => \E e \in Posts : Report(f)[e] = "blocked_at_gate"
  BY DEF Diagnose
<1>4. "gate" \in lines => f.authenticates /\ \E e \in Posts : f.grant[e] = "gated"
  BY <1>1, <1>2, <1>3, ShutIsNot DEF Callable
<1>5. "other mode" \in lines => ~WritePathOk(Report(f), mode)
                                /\ Report(f)[WriteProbe(OtherMode(mode))] = "authorized"
  BY DEF Diagnose
<1>6. "other mode" \in lines =>
        /\ CheckApi(f, OtherMode(mode)) = EXIT_OK
        /\ Callable(f, WriteProbe(OtherMode(mode))) /\ ~Callable(f, WriteProbe(mode))
  BY <1>1, <1>2, <1>5 DEF WritePathOk, CheckApi
<1>7. "no retirement" \in lines => ~Callable(f, "table_update")
  BY <1>1, <1>2 DEF Diagnose
<1>8. (\E e \in Probes : Report(f)[e] = "unauthenticated") => ~WritePathOk(Report(f), mode)
  BY <1>1, <1>2, UnauthenticatedAll DEF WritePathOk, Callable
<1>9. "open" \in lines <=> WritePathOk(Report(f), mode)
  BY <1>8 DEF Diagnose
<1>10. "open" \in lines <=> Callable(f, WriteProbe(mode))
  BY <1>1, <1>2, <1>9 DEF WritePathOk
<1> QED BY <1>1, <1>4, <1>6, <1>7, <1>10 DEF DiagnosisIsRight

(***************************************************************************)
(* --check exits with 0 only if the classes and Graph are there, the       *)
(* endpoint it asks lets the credential through and the discovery source   *)
(* is not known to be absent, for every instance and write mode (_check,   *)
(* verify_write_access, verify_class_map, _discovery_source_caveats).      *)
(***************************************************************************)
THEOREM CheckRight ==
  \A f \in Fact, mode \in STRING : Check(f, mode) = EXIT_OK => CheckIsRight(f, mode)
<1> SUFFICES ASSUME NEW f \in Fact, NEW mode \in STRING, Check(f, mode) = EXIT_OK
             PROVE  CheckIsRight(f, mode)
  OBVIOUS
<1>1. /\ "raised" \notin {Connects(f), ClassMap(f), WriteAccess(f, mode)}
      /\ GraphReachable(f) /\ ClassMap(f) # "problem" /\ WriteAccess(f, mode) = "ok"
  BY DEF Check, EXIT_OK, EXIT_FAILED, EXIT_PARTIAL
<1>2. Callable(f, "table_read")
  BY <1>1 DEF Connects
<1>3. f.classes = "there"
  BY <1>1 DEF ClassMap, Fact
<1>4. f.graph
  BY <1>1 DEF GraphReachable
<1>5. mode # "cmdb_instance" => Callable(f, "ire_query") /\ f.source = "exact"
  BY <1>1 DEF WriteAccess, SimulatedWrite
<1>6. mode = "cmdb_instance" =>
        Callable(f, "cmdb_instance_write") /\ (f.source = "exact" \/ f.choices = "refused")
  <2>1. mode = "cmdb_instance" => Callable(f, "cmdb_instance_write") /\ SourceCaveats(f) = "ok"
    BY <1>1 DEF WriteAccess, InstanceAccess
  <2>2. SourceCaveats(f) = "ok" => f.source = "exact" \/ f.choices = "refused"
    BY DEF SourceCaveats, Fact
  <2> QED BY <2>1, <2>2
<1> QED BY <1>2, <1>3, <1>4, <1>5, <1>6 DEF CheckIsRight, AskedEndpoint

(***************************************************************************)
(* What an exit code of 0 does not say, in the default write mode: that    *)
(* the endpoint a run writes to lets the credential through.  The check    *)
(* posts to the simulation only (verify_write_access); --check-api, which  *)
(* asks the other, exits with 3 on the same instance.                      *)
(***************************************************************************)
THEOREM CheckMissesWriteGate ==
  \E f \in Fact :
    /\ Check(f, "identify_reconcile") = EXIT_OK
    /\ ~Callable(f, WriteProbe("identify_reconcile"))
    /\ CheckApi(f, "identify_reconcile") = EXIT_FAILED
<1> DEFINE g == [e \in Probes |-> IF e = "ire_write" THEN "gated" ELSE "open"]
           f == [grant |-> g, authenticates |-> TRUE, source |-> "exact", choices |-> "readable",
                 classes |-> "there", graph |-> TRUE, token |-> "good"]
<1>1. f \in Fact
  BY DEF Fact
<1>2. {"table_read", "ire_query", "ire_write"} \subseteq Probes
  BY DEF Probes, Gets, Posts
<1>3. Callable(f, "table_read") /\ Callable(f, "ire_query") /\ ~Callable(f, "ire_write")
  BY <1>2 DEF Callable
<1>4. f.source = "exact" /\ f.classes = "there" /\ f.graph /\ f.authenticates /\ f.token = "good"
      /\ g["ire_query"] = "open"
  BY <1>2
<1>5. f.grant["ire_query"] = "open"
  BY <1>4
<1> HIDE DEF f, g
<1>6. Connects(f) = "ok" /\ ClassMap(f) = "ok" /\ GraphReachable(f)
  BY <1>3, <1>4 DEF Connects, ClassMap, GraphReachable, TokenUsable
<1>7. WriteAccess(f, "identify_reconcile") = "ok"
  BY <1>3, <1>4, <1>5 DEF WriteAccess, SimulatedWrite
<1>8. Check(f, "identify_reconcile") = EXIT_OK
  BY <1>6, <1>7 DEF Check
<1>9. WriteProbe("identify_reconcile") = "ire_write"
  BY DEF WriteProbe
<1>10. Report(f)["ire_write"] # "authorized"
  BY <1>1, <1>2, <1>3, ShutIsNot
<1>11. CheckApi(f, "identify_reconcile") = EXIT_FAILED
  BY <1>9, <1>10 DEF CheckApi, WritePathOk
<1> QED BY <1>1, <1>3, <1>8, <1>9, <1>11
=============================================================================
