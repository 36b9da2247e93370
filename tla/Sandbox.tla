------------------------------ MODULE Sandbox ------------------------------
(***************************************************************************)
(* The remediation sandbox as data: the mock services and the records      *)
(* table (src/env/mock_service, src/tools/context.py), what one diagnostic *)
(* sweep sees of them (src/agent/observations.py), what each mutating tool *)
(* does to them and which compensation it registers (src/tools/mutating.py)*)
(* and what applying that compensation does (src/agent/execution.py).      *)
(*                                                                         *)
(* Percentages are abstracted to the three levels the code tells apart: a  *)
(* metric at its baseline, one raised without crossing a health threshold  *)
(* (the "low" fault rate, 65%) and one that crosses it.  memory_pct,       *)
(* cpu_pct, error_rate and forced_down are set and cleared together by     *)
(* every tool, so one field, load, stands for the worst of the four.       *)
(***************************************************************************)
EXTENDS Integers, Sequences, FiniteSets

CONSTANTS
  Services,      \* KNOWN_SERVICES
  DiskServices,  \* the services with a disk surface
  RECORD_KINDS,  \* the kinds of rows in the records table
  RecordIds,     \* row ids
  KindOf,        \* the kind of each row
  Versions,      \* versions a service has been deployed at
  ConfigKeys,    \* configuration keys a proposal may name
  BASELINE_CONFIG, BASELINE_VERSION_HISTORY,
  NoVal          \* Python's None

Levels == {"baseline", "mild", "severe"}
ConfigValues == {"base", "new"}

ASSUME SandboxAssumption ==
  /\ DiskServices \subseteq Services
  /\ KindOf \in [RecordIds -> RECORD_KINDS]
  /\ Services \cap RECORD_KINDS = {}
  /\ BASELINE_CONFIG \in [ConfigKeys -> ConfigValues \cup {NoVal}]
  /\ BASELINE_VERSION_HISTORY \in Seq(Versions) \ {<<>>}
  /\ NoVal \notin Nat /\ NoVal \notin ConfigKeys

KNOWN_TOOLS == {"restart_service", "scale_service", "delete_records",
                "clear_cache", "apply_config_change", "rollback_deployment"}
Tools   == KNOWN_TOOLS \cup {"unknown_tool"}
Targets == Services \cup RECORD_KINDS \cup {"unknown_target"}
Action  == [tool : Tools, target : Targets]

\* action_parameters: replicas of scale_service, key of apply_config_change
\* (the value is always "new"), ids of delete_records.
Params == [replicas : Nat \cup {NoVal},
           key      : ConfigKeys \cup {NoVal},
           ids      : {NoVal} \cup SUBSET RecordIds]

ServiceState ==
  [load            : Levels,
   disk            : Levels,
   restart_count   : Nat,
   replicas        : Nat,
   config          : [ConfigKeys -> ConfigValues \cup {NoVal}],
   version_history : Seq(Versions) \ {<<>>}]

Baseline ==
  [load |-> "baseline", disk |-> "baseline", restart_count |-> 0, replicas |-> 1,
   config |-> BASELINE_CONFIG, version_history |-> BASELINE_VERSION_HISTORY]

World == [services : [Services -> ServiceState], records : SUBSET RecordIds]

deployed_version(sv) == sv.version_history[Len(sv.version_history)]

Status(s, sv) ==
  IF sv.load = "severe" \/ (s \in DiskServices /\ sv.disk = "severe")
    THEN "unhealthy" ELSE "healthy"

-----------------------------------------------------------------------------
(* One diagnostic sweep.                                                   *)

ServiceObservation ==
  [status : {"healthy", "unhealthy"}, load : Levels, disk : Levels,
   restart_count : Nat, replicas : Nat, version : Versions]

Observations == [services : [Services -> ServiceObservation],
                 records  : SUBSET RecordIds]

\* get_service_health, get_metrics and check_disk_usage of one service.
service_obs(s, sv) ==
  [status        |-> Status(s, sv),
   load          |-> sv.load,
   disk          |-> sv.disk,
   restart_count |-> sv.restart_count,
   replicas      |-> sv.replicas,
   version       |-> deployed_version(sv)]

gather_observations(w) ==
  [services |-> [s \in Services |-> service_obs(s, w.services[s])],
   records  |-> w.records]

-----------------------------------------------------------------------------
(* The records repository.                                                 *)

OfKind(ids, kind) == {r \in ids : KindOf[r] = kind}

get_by_ids(w, ids)   == ids \cap w.records
delete(w, ids)       == [w EXCEPT !.records = @ \ ids]
insert_many(w, rows) == [w EXCEPT !.records = @ \cup rows]

-----------------------------------------------------------------------------
(* The endpoints of one mock service, as functions of its state.           *)

restart(sv)     == [sv EXCEPT !.load = "baseline", !.restart_count = @ + 1]
clean_disk(sv)  == [sv EXCEPT !.disk = "baseline"]
scale(sv, n)    == [sv EXCEPT !.replicas = n]
set_config(sv, k, v) == [sv EXCEPT !.config = [@ EXCEPT ![k] = v]]
rollback(sv)    == [sv EXCEPT
                      !.version_history = SubSeq(@, 1, Len(@) - 1),
                      !.load = "baseline"]
deploy(sv, v)   == IF v = deployed_version(sv) THEN sv
                   ELSE [sv EXCEPT !.version_history = Append(@, v)]
\* The endpoints of the harness.  A fault on another metric than the worst leaves
\* load as it is, and is no step.
apply_fault(sv, level)      == [sv EXCEPT !.load = level]
apply_disk_fault(sv, level) == [sv EXCEPT !.disk = level]
reset == Baseline

OnService(w, s, sv) == [w EXCEPT !.services = [@ EXCEPT ![s] = sv]]

-----------------------------------------------------------------------------
(* The mutating tools.  ArgumentMissing is the KeyError raised while the   *)
(* call is being built, before the idempotency ledger is consulted;        *)
(* PerformRaises is a refusal by the environment, which leaves it as it    *)
(* was and records nothing.                                                *)

ArgumentMissing(a, p) ==
  \/ a.tool \notin KNOWN_TOOLS
  \/ a.tool = "apply_config_change" /\ p.key = NoVal

PerformRaises(w, a) ==
  \/ a.tool # "delete_records" /\ a.target \notin Services
  \/ a.tool = "clear_cache" /\ a.target \notin DiskServices
  \/ /\ a.tool = "rollback_deployment"
     /\ a.target \in Services
     /\ Len(w.services[a.target].version_history) < 2

RequestedReplicas(p) == IF p.replicas = NoVal THEN 2 ELSE p.replicas

\* ids, when given, are deleted whatever their kind is.
RowsToDelete(w, a, p) ==
  IF p.ids = NoVal THEN OfKind(w.records, a.target) ELSE get_by_ids(w, p.ids)

Perform(w, a, p) ==
  CASE a.tool = "restart_service"     -> OnService(w, a.target, restart(w.services[a.target]))
    [] a.tool = "scale_service"       -> OnService(w, a.target, scale(w.services[a.target], RequestedReplicas(p)))
    [] a.tool = "clear_cache"         -> OnService(w, a.target, clean_disk(w.services[a.target]))
    [] a.tool = "apply_config_change" -> OnService(w, a.target, set_config(w.services[a.target], p.key, "new"))
    [] a.tool = "rollback_deployment" -> OnService(w, a.target, rollback(w.services[a.target]))
    [] OTHER                          -> delete(w, RowsToDelete(w, a, p))

Compensations ==
  [type : {"noop"}]
    \cup [type : {"scale_service"}, service : Services, replicas : Nat]
    \cup [type : {"apply_config_change"}, service : Services, key : ConfigKeys,
          value : ConfigValues \cup {NoVal}]
    \cup [type : {"deploy"}, service : Services, version : Versions]
    \cup [type : {"reinsert_records"}, rows : SUBSET RecordIds]

\* Mutant: what is to be given back is read after the call.
CompensationOf_After(w, a, p) ==
  CASE a.tool \in {"restart_service", "clear_cache"} -> [type |-> "noop"]
    [] a.tool = "scale_service" ->
         [type |-> "scale_service", service |-> a.target, replicas |-> RequestedReplicas(p)]
    [] a.tool = "apply_config_change" ->
         [type |-> "apply_config_change", service |-> a.target, key |-> p.key, value |-> "new"]
    [] a.tool = "rollback_deployment" ->
         [type |-> "deploy", service |-> a.target,
          version |-> deployed_version(rollback(w.services[a.target]))]
    [] OTHER -> [type |-> "reinsert_records", rows |-> {}]
CompensationOf(w, a, p) ==
  CASE a.tool \in {"restart_service", "clear_cache"} -> [type |-> "noop"]
    [] a.tool = "scale_service" ->
         [type |-> "scale_service", service |-> a.target,
          replicas |-> w.services[a.target].replicas]
    [] a.tool = "apply_config_change" ->
         [type |-> "apply_config_change", service |-> a.target, key |-> p.key,
          value |-> w.services[a.target].config[p.key]]
    [] a.tool = "rollback_deployment" ->
         [type |-> "deploy", service |-> a.target,
          version |-> deployed_version(w.services[a.target])]
    [] OTHER -> [type |-> "reinsert_records", rows |-> RowsToDelete(w, a, p)]

\* What the ledger keeps of a performed call: the ids its result names as
\* deleted (the only part verify_action reads) and its compensation.
Outcomes == [deleted : SUBSET RecordIds, compensation : Compensations]

OutcomeOf(w, a, p) ==
  [deleted      |-> IF a.tool = "delete_records" THEN RowsToDelete(w, a, p) ELSE {},
   compensation |-> CompensationOf(w, a, p)]

-----------------------------------------------------------------------------
(* Verification and compensation.                                          *)

verify_action(w, a, deleted) ==
  IF a.tool = "delete_records"
    THEN deleted \cap OfKind(w.records, a.target) = {}
    ELSE Status(a.target, w.services[a.target]) = "healthy"

\* ConfigRequest.value is a string: posting a previous value of None is
\* refused with 422 and raise_for_status raises.
CompensationRaises(c) == c.type = "apply_config_change" /\ c.value = NoVal

apply_compensation(w, c) ==
  CASE c.type = "noop"                -> w
    [] c.type = "scale_service"       -> OnService(w, c.service, scale(w.services[c.service], c.replicas))
    [] c.type = "apply_config_change" -> OnService(w, c.service, set_config(w.services[c.service], c.key, c.value))
    [] c.type = "deploy"              -> OnService(w, c.service, deploy(w.services[c.service], c.version))
    [] OTHER                          -> insert_many(w, c.rows)

-----------------------------------------------------------------------------
(* What properties speak of.                                               *)

\* What somebody chose, as opposed to how the services are doing: the rows and
\* each service's replicas, configuration and release.
Setting(sv) ==
  [replicas |-> sv.replicas, config |-> sv.config, version |-> deployed_version(sv)]
Configuration(w) ==
  [records |-> w.records, services |-> [s \in Services |-> Setting(w.services[s])]]

\* A compensation asks for nothing but what a configuration has.
AsksFor(c, found) ==
  /\ c.type = "scale_service" => c.replicas = found.services[c.service].replicas
  /\ c.type = "apply_config_change" => c.value = found.services[c.service].config[c.key]
  /\ c.type = "deploy" => c.version = found.services[c.service].version
  /\ c.type = "reinsert_records" => c.rows \subseteq found.records
=============================================================================
