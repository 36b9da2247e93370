---------------------------- MODULE ScenarioRun ----------------------------
(***************************************************************************)
(* The evaluation harness over one run of the agent (src/eval/runner.py):  *)
(* run_scenario starts the run, changes the sandbox once while it waits    *)
(* for approval, approves every suspension, and reports one record built   *)
(* from the audit log and the last result.  The report is what             *)
(* src/eval/metrics.py and src/audit/replay.py compute with; their         *)
(* functions are here as predicates on one record, of which the published  *)
(* rates are the averages.                                                 *)
(*                                                                         *)
(* The whole audit log is kept here; AgentGraph folds it.  A run of the    *)
(* harness lives in one process and is never killed: MaxCrashes = 0 and    *)
(* MaxDrifts = 0.                                                          *)
(***************************************************************************)
EXTENDS AgentGraphProperties

CONSTANT StalenessInjections   \* the lists of changes a scenario may make;
                               \* <<>> is a scenario of another category

VARIABLES
  scenario,     \* its list of changes
  harness,      \* where run_scenario is
  log,          \* the audit records of the run, oldest first
  changes,      \* the changes still to be applied
  waited,       \* approval_wait_seconds is not None
  drift_detected_overall,
  classified,   \* the last classification in the state, NoVal before the first
  llm_calls,    \* of the reasoner and the classifier together
  material      \* history: when first approved, the action pending rested on
                \* fields that had changed

harnessVars == <<scenario, harness, changes, waited, drift_detected_overall, material>>
meters == <<classified, llm_calls>>
scenarioVars == <<vars, log, harnessVars, meters>>

Classifications ==
  [action : Maybe(Acts), risk_tier_llm : RiskTiers, risk_tier_final : RiskTiers,
   redundancy_floor_applied : BOOLEAN]

StalenessChanges == [action : STRING, on : Targets]

\* None is no decision, no classification and no tier; a scenario has a list of
\* changes.
ASSUME ScenarioAssumption ==
  /\ NoVal \notin Decisions /\ NoVal \notin Classifications /\ NoVal \notin RiskTiers
  /\ StalenessInjections \subseteq Seq(StalenessChanges)

\* AuditRecord, of which the harness reads three fields.  The action is that
\* of the merged state.
\* Mutant: from_state is read after the node ran.
AuditRecord_Late(before, after) ==
  [from_state |-> after.status, to_state |-> after.status,
   action_proposed |-> after.proposed_action]
AuditRecord(before, after) ==
  [from_state |-> before.status, to_state |-> after.status,
   action_proposed |-> after.proposed_action]

ScenarioInit ==
  /\ Init
  /\ scenario \in StalenessInjections
  /\ harness = "new" /\ log = <<>> /\ changes = <<>>
  /\ waited = FALSE /\ drift_detected_overall = FALSE
  /\ classified = NoVal /\ llm_calls = 0
  /\ material = FALSE

start ==
  /\ harness = "new" /\ Start
  /\ harness' = "running"
  /\ UNCHANGED <<log, scenario, changes, waited, drift_detected_overall, material, meters>>

\* What classify_risk puts in the state beside the final tier: the tier the
\* classifier returned, for which action, and whether the floor raised it.
Classification(llm_tier) ==
  LET situational == situational_features(st.observations, st.proposed_action)
      final == apply_policy(st.proposed_action.tool, llm_tier, situational)
  IN [action |-> st.proposed_action,
      risk_tier_llm |-> llm_tier, risk_tier_final |-> final,
      redundancy_floor_applied |->
        /\ llm_tier = "low" /\ final = "medium"
        /\ situational # NoVal /\ ~situational.has_redundant_replica]

\* _InstrumentedReasoner and _InstrumentedRiskClassifier count every call.
\* Mutant: classifications are not counted.
Calls_ReasonerOnly == {"diagnose", "propose_action"}
Calls == {"diagnose", "propose_action", "classify_risk"}

\* A step of the graph while ainvoke is awaited.
drive ==
  /\ harness = "running" /\ Process
  /\ log' = IF pc = "ran" THEN Append(log, AuditRecord(st, upd)) ELSE log
  /\ IF At("classify_risk")
       THEN \E llm_tier \in RiskTiers :
              /\ Classification(llm_tier).risk_tier_final = upd'.risk_tier_final
              /\ classified' = Classification(llm_tier)
       ELSE UNCHANGED classified
  /\ llm_calls' = IF pc = "enter" /\ next \in Calls THEN llm_calls + 1 ELSE llm_calls
  /\ UNCHANGED harnessVars

\* What a resume adds to drift_detected_overall, which the start found FALSE.
\* Mutant: the last revalidation decides.
DriftOverall_Last == st.drift_detected
DriftOverall == drift_detected_overall \/ st.drift_detected

\* ainvoke returned with an interrupt; at the first one the changes begin.
suspended ==
  /\ harness = "running" /\ pc = "idle" /\ next = "await_approval"
  /\ harness' = "suspended"
  /\ changes' = IF waited THEN <<>> ELSE scenario
  /\ drift_detected_overall' = DriftOverall
  /\ UNCHANGED <<vars, log, scenario, waited, material, meters>>

\* ainvoke returned without one: the loop is over.
ended ==
  /\ harness = "running" /\ pc = "idle" /\ next = "END"
  /\ harness' = "finished"
  /\ drift_detected_overall' = DriftOverall
  /\ UNCHANGED <<vars, log, scenario, changes, waited, material, meters>>

\* A service or a disk that is not there, a release that is not: a KeyError of
\* clients, or raise_for_status.
ChangeRaises(w, c) ==
  \/ c.action \notin {"reset", "inject_fault", "disk_full", "rollback", "delete_records"}
  \/ c.action # "delete_records" /\ c.on \notin Services
  \/ c.action = "disk_full" /\ c.on \notin DiskServices
  \/ c.action = "rollback" /\ Len(w.services[c.on].version_history) < 2

\* ainvoke raised, or a change did: run_scenario raises too and reports nothing.
raised ==
  /\ \/ harness = "running" /\ pc = "idle" /\ next \notin {"await_approval", "END"}
     \/ harness = "suspended" /\ changes # <<>> /\ ChangeRaises(world, Head(changes))
  /\ harness' = "raised"
  /\ UNCHANGED <<vars, log, scenario, changes, waited, drift_detected_overall, material, meters>>

StalenessChange(w, c) ==
  CASE c.action = "reset"        -> OnService(w, c.on, reset)
    [] c.action = "inject_fault" -> OnService(w, c.on, apply_fault(w.services[c.on], "severe"))
    [] c.action = "disk_full"    -> OnService(w, c.on, apply_disk_fault(w.services[c.on], "severe"))
    [] c.action = "rollback"     -> OnService(w, c.on, rollback(w.services[c.on]))
    [] OTHER                     -> delete(w, OfKind(w.records, c.on))

_apply_staleness_change ==
  /\ harness = "suspended" /\ changes # <<>> /\ ~ChangeRaises(world, Head(changes))
  /\ world' = StalenessChange(world, Head(changes))
  /\ changes' = Tail(changes)
  /\ UNCHANGED <<agentVars, ledger, audit, history, log>>
  /\ UNCHANGED <<scenario, harness, waited, drift_detected_overall, material, meters>>

approve ==
  /\ harness = "suspended" /\ changes = <<>>
  /\ Resume /\ decision' = [decision |-> "approved", edited_action |-> NoVal]
  /\ harness' = "running" /\ waited' = TRUE
  /\ material' = IF waited THEN material
                 ELSE compute_fingerprint(gather_observations(world), st.proposed_action)
                        # st.state_fingerprint
  /\ UNCHANGED <<log, scenario, changes, drift_detected_overall, meters>>

ScenarioNext ==
  start \/ drive \/ suspended \/ ended \/ raised \/ _apply_staleness_change \/ approve

ScenarioSpec == ScenarioInit /\ [][ScenarioNext]_scenarioVars

-----------------------------------------------------------------------------
(* How far a scenario is from its end.                                     *)

\* What is left of the run, where a suspension still has its answer before it.
RunLeft == StepsLeft + (IF next = "await_approval" /\ decision = NoVal THEN 6 ELSE 0)

\* What is left for the harness to do while the run stands still.
HarnessLeft ==
  CASE harness = "running"   -> Len(scenario) + 2
    [] harness = "suspended" -> Len(changes) + 1
    [] OTHER                 -> 0

\* run_scenario returns or raises: its loop, which has no bound of its own,
\* approves only so often, whatever is proposed, classified and changed while
\* it waits (run_scenario's "while __interrupt__ in result").
ScenariosEnd ==
  [][/\ 0 <= RunLeft' /\ 0 <= HarnessLeft'
     /\ \/ RunLeft' < RunLeft
        \/ RunLeft' = RunLeft /\ HarnessLeft' < HarnessLeft]_scenarioVars

-----------------------------------------------------------------------------
(* The record run_scenario returns once the run has finished.              *)

\* The comprehensions over the audit log, as the records they keep.
proposed_actions == {i \in DOMAIN log : log[i].to_state = "ACTION_PROPOSED"}

\* Mutant: only the actions of runs that completed are counted.
executed_actions_IfCompleted ==
  {i \in DOMAIN log : log[i].to_state = "COMPLETED" /\ log[i].action_proposed # NoVal}
executed_actions ==
  {i \in DOMAIN log : log[i].to_state = "VERIFYING" /\ log[i].action_proposed # NoVal}

Reported(records) == {log[i].action_proposed : i \in records}

rollback_invoked == \E i \in DOMAIN log : log[i].to_state = "ROLLING_BACK"

replay_run(records) == [i \in DOMAIN records |-> records[i].to_state]

is_complete_chain(records) ==
  \A i \in 2 .. Len(records) : records[i].from_state = records[i - 1].to_state

-----------------------------------------------------------------------------
(* The metrics, of one record.                                             *)

\* approval_gate_compliance: the run counts, and counts as compliant.
gated == st.risk_tier_final \in {"medium", "high"}
gate_compliant == gated => waited

rollback_success == rollback_invoked => st.final_state \in {"COMPLETED", "ESCALATED"}

\* staleness_incorrect_execution_count counts the run, drift being expected.
executed_despite_drift == executed_actions # {} /\ ~drift_detected_overall

\* remediation_success_rate counts the run.
remediated == st.final_state = "COMPLETED" /\ st.verification_passed = TRUE

\* policy_override_rate counts the run.
overridden == classified # NoVal /\ classified.risk_tier_llm # classified.risk_tier_final

\* redundancy_floor_override_rate counts the run.
floored == classified # NoVal /\ classified.redundancy_floor_applied

\* The tool risk_classification_precision_recall_f1_by_tool files the run
\* under, and with it the tier the classifier returned.
\* Mutant: the first proposal names it.
by_tool_First ==
  log[CHOOSE i \in proposed_actions : \A j \in proposed_actions : i <= j].action_proposed.tool
by_tool ==
  log[CHOOSE i \in proposed_actions : \A j \in proposed_actions : j <= i].action_proposed.tool

-----------------------------------------------------------------------------
(* What the reports promise.                                               *)

Finished == harness = "finished"

\* The actions the record calls executed are exactly those whose side effect
\* happened, all of them proposals the log shows; a rollback is reported
\* exactly when a compensation was applied, and a remediation exactly when the
\* log ends in COMPLETED (run_scenario's comprehensions over the audit log):
\* the published rates judge nothing else.
ReportIsTrue ==
  Finished =>
    /\ Reported(executed_actions) = {a \in Acts : applied[a] > 0}
    /\ Reported(executed_actions) \subseteq Reported(proposed_actions)
    /\ rollback_invoked <=> undone.compensations > 0
    /\ rollback_success
    /\ remediated <=> replay_run(log)[Len(log)] = "COMPLETED"

\* metrics.py:72: approval_gate_compliance must be 100 %, over every history
\* of replans whose last tier is all the record keeps.
GateIsCompliant == Finished => gate_compliant

\* The record says drift exactly when some revalidation sent the run back to
\* replan, however many clean ones came after it (drift_detected_overall).
DriftIsReported ==
  Finished =>
    (drift_detected_overall <=>
       \E i \in 2 .. Len(log) : /\ log[i - 1].to_state = "REVALIDATING"
                                /\ log[i].to_state = "REPLANNING")

\* With revalidation on, a scenario whose change touched what the pending
\* action rests on is never counted as executed despite drift
\* (staleness_incorrect_execution_count).
NothingExecutedBlindly == Finished /\ REVALIDATE /\ material => ~executed_despite_drift

\* Unless its last proposal was ungrounded, a run's tier is counted for the
\* tool it was returned for, whatever was proposed and classified before, and a
\* run counted as overridden is one of a destructive tool or one the floor
\* raised: what the floor raises is counted by both override rates
\* (metrics.py:84 and 125, risk_classification_precision_recall_f1_by_tool).
TierIsOfItsTool ==
  Finished /\ ~st.invalid_proposal_reason =>
    /\ by_tool = classified.action.tool
    /\ overridden <=> \/ floored
                      \/ by_tool \in FORCED_HIGH_TOOLS /\ classified.risk_tier_llm # "high"

\* What a run costs can be read off its log: every diagnosis, proposal and
\* classification the log shows was one call of the model, no other call was
\* made, and the replan budget bounds them (cost_per_run's llm_calls).
CostIsLogged ==
  Finished =>
    /\ llm_calls = Cardinality({i \in DOMAIN log :
         log[i].to_state \in {"DIAGNOSING", "ACTION_PROPOSED", "RISK_CLASSIFIED"}})
    /\ llm_calls <= 1 + 2 * MAX_REPLAN_CYCLES

\* The log alone replays the run, from DIAGNOSING to its final state, and the
\* fold AgentGraph keeps of it agrees (replay_run, is_complete_chain).
LogReplays ==
  /\ audit.complete <=> is_complete_chain(log)
  /\ log # <<>> => audit.last = log[Len(log)].to_state
  /\ Finished =>
       /\ is_complete_chain(log)
       /\ log # <<>> /\ replay_run(log)[1] = "DIAGNOSING"
       /\ replay_run(log)[Len(log)] = st.final_state
=============================================================================
