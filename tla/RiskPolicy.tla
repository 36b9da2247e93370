----------------------------- MODULE RiskPolicy -----------------------------
(***************************************************************************)
(* The deterministic overrides of src/risk/policy.py over the tier the     *)
(* classifier returned, and the situational features they look at.         *)
(***************************************************************************)
EXTENDS Sandbox

RiskTiers == {"low", "medium", "high"}
FORCED_HIGH_TOOLS == {"delete_records", "rollback_deployment"}
MIN_REDUNDANT_REPLICAS == 2

\* None for delete_records and for a target the sweep does not know.
situational_features(obs, a) ==
  IF a.tool = "delete_records" \/ a.target \notin Services THEN NoVal
  ELSE [has_redundant_replica  |-> obs.services[a.target].replicas >= MIN_REDUNDANT_REPLICAS,
        restart_count_this_run |-> obs.services[a.target].restart_count]

RedundancyFloor(situational) ==
  /\ situational # NoVal
  /\ ~situational.has_redundant_replica
  /\ situational.restart_count_this_run >= 1

apply_policy(tool, llm_tier, situational) ==
  CASE tool \in FORCED_HIGH_TOOLS                             -> "high"
    [] tool \notin FORCED_HIGH_TOOLS /\ llm_tier = "low"
         /\ RedundancyFloor(situational)                      -> "medium"
    [] OTHER                                                  -> llm_tier
=============================================================================
