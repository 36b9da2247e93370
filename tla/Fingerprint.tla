---------------------------- MODULE Fingerprint ----------------------------
(***************************************************************************)
(* src/revalidation/fingerprint.py: which observed fields an action's      *)
(* outcome depends on, and which proposals are grounded in the sandbox.    *)
(* The hash is modelled by what it hashes: two fingerprints are equal      *)
(* exactly when the relevant fields (and their names) are.                 *)
(***************************************************************************)
EXTENDS Sandbox

\* relevant_fields raises for an unknown tool, an unknown service, or
\* clear_cache on a service without a disk; every record kind is accepted.
FingerprintRaises(a) ==
  \/ a.tool \notin KNOWN_TOOLS
  \/ a.tool # "delete_records" /\ a.target \notin Services
  \/ a.tool = "clear_cache" /\ a.target \notin DiskServices

\* Mutant: the counter a restart itself moves is hashed as well.
relevant_fields_Counted(obs, a) ==
  <<"health", obs.services[a.target].status, obs.services[a.target].restart_count>>

relevant_fields(obs, a) ==
  CASE a.tool \in {"restart_service", "scale_service"} ->
         <<"health", obs.services[a.target].status, obs.services[a.target].load>>
    [] a.tool = "clear_cache"         -> <<"disk", obs.services[a.target].disk>>
    [] a.tool = "rollback_deployment" ->
         <<"release", obs.services[a.target].status, obs.services[a.target].version>>
    [] a.tool = "apply_config_change" -> <<"status", obs.services[a.target].status>>
    [] OTHER                          -> <<"rows", a.target, OfKind(obs.records, a.target)>>

compute_fingerprint(obs, a) == relevant_fields(obs, a)

HealthStatus == {"healthy", "unhealthy"}

Fingerprints ==
  ({"health"} \X HealthStatus \X Levels)
    \cup ({"disk"} \X Levels)
    \cup ({"release"} \X HealthStatus \X Versions)
    \cup ({"status"} \X HealthStatus)
    \cup ({"rows"} \X Targets \X SUBSET RecordIds)

validate_proposal(a) ==
  /\ a.tool \in KNOWN_TOOLS
  /\ a.tool = "delete_records" => a.target \in RECORD_KINDS
  /\ a.tool # "delete_records" => a.target \in Services
  /\ a.tool = "clear_cache" => a.target \in DiskServices
=============================================================================
