-------------------------- MODULE ScenarioRun_proofs --------------------------
(***************************************************************************)
(* Proofs about the evaluation harness, for every value of the constants:  *)
(* what a record reports of a run is what happened in it.                  *)
(*                                                                         *)
(* A step of the harness is a step of the agent, or changes the sandbox    *)
(* alone, so the invariants of the agent carry over (NextAgent).  Seen     *)
(* from the log, a step writes a record, starts the run, or leaves the     *)
(* log, the state as of its last record and the node ahead as they are     *)
(* (LogView); each part of ScenarioInv is then kept by its own lemma.      *)
(***************************************************************************)
EXTENDS ScenarioRunInvariants, Lifecycle_proofs, FiniteSetTheorems

-----------------------------------------------------------------------------
(* The agent below the harness.                                            *)

\* A change of the suite that is not refused leaves a sandbox.
LEMMA ChangeType ==
  ASSUME NEW w \in World, NEW c, ~ChangeRaises(w, c)
  PROVE  StalenessChange(w, c) \in World
<1>1. CASE c.action = "delete_records"
  <2>1. w.records \ OfKind(w.records, c.on) \in SUBSET RecordIds
    BY DEF World
  <2> QED
    BY <1>1, <2>1 DEF StalenessChange, delete, World
<1>2. CASE c.action # "delete_records"
  <2> DEFINE sv == w.services[c.on]
  <2>1. c.on \in Services /\ sv \in ServiceState
    BY <1>2 DEF ChangeRaises, World
  <2>2. "severe" \in Levels
    BY DEF Levels
  <2>3. CASE c.action \in {"reset", "inject_fault", "disk_full"}
    BY <2>1, <2>2, <2>3, BaselineType, EndpointTypes, OnServiceType DEF StalenessChange
  <2>4. CASE c.action = "rollback"
    <3>1. Len(sv.version_history) >= 2
      <4>1. sv.version_history \in Seq(Versions)
        BY <2>1 DEF ServiceState
      <4>2. ~(Len(sv.version_history) < 2)
        BY <2>4 DEF ChangeRaises
      <4> QED
        BY <4>1, <4>2
    <3> QED
      BY <2>1, <2>4, <3>1, RollbackType, OnServiceType DEF StalenessChange
  <2> QED
    BY <1>2, <2>3, <2>4 DEF ChangeRaises
<1> QED
  BY <1>1, <1>2

\* The agent does not notice a change of the sandbox.
LEMMA ChangeKeepsAgent == AgentInv /\ _apply_staleness_change => AgentInv'
<1> SUFFICES ASSUME AgentInv, _apply_staleness_change
             PROVE  AgentInv'
  OBVIOUS
<1>1. /\ UNCHANGED <<next, st, pc, upd, decision, ledger, audit>>
      /\ UNCHANGED <<consent, applied, attempts, undone, torn, crashes, drifts, starts>>
      /\ world' \in World
  BY ChangeType DEF _apply_staleness_change, agentVars, history, AgentInv, TypeInv, TypeOK
<1>2. TypeInv'
  BY <1>1 DEF AgentInv, TypeInv, TypeOK, Phases, InFlight
<1>3. LifeInv' /\ LedgerInv' /\ BudgetInv'
  BY <1>1 DEF AgentInv, LifeInv, LedgerInv, Accounted, BudgetInv, Extra, InFlight
<1>4. DoneInv'
  BY <1>1 DEF AgentInv, DoneInv, Done, InFlight
<1> QED
  BY <1>2, <1>3, <1>4 DEF AgentInv

\* Every other step of the harness is one of the agent, or none.
LEMMA HarnessStep ==
  ASSUME [ScenarioNext]_scenarioVars, ~_apply_staleness_change
  PROVE  [Next]_vars
BY DEF ScenarioNext, scenarioVars, start, drive, suspended, ended, raised, approve, Next

\* The invariants of the agent hold under the harness.
LEMMA NextAgent == AgentInv /\ [ScenarioNext]_scenarioVars => AgentInv'
BY ChangeKeepsAgent, HarnessStep, NextType, NextLife, NextLedger, NextDone, NextBudget DEF AgentInv

-----------------------------------------------------------------------------
(* What a step is, seen from the log.                                      *)

Writes ==
  /\ WriteAudit /\ log' = Append(log, AuditRecord(st, upd))
  /\ UNCHANGED <<harnessVars, meters>>

\* What the audit hook starts from, and what it makes of it.
LEMMA WriteFacts ==
  ASSUME AgentInv, Writes
  PROVE  /\ next \in NODES \ {"none", "END"} /\ st \in AgentState /\ upd \in AgentState
         /\ pc = "ran" /\ InFlight /\ pc' = "logged" /\ InFlight'
         /\ Placed(next, st) /\ Ran(next, st, upd)
         /\ Logged = st /\ Logged' = upd /\ Ahead = next /\ Ahead' = Route(next, upd)
         /\ UNCHANGED <<next, st, upd, decision, world, ledger, history, harnessVars, meters>>
         /\ log' = Append(log, [from_state |-> st.status, to_state |-> upd.status,
                                action_proposed |-> upd.proposed_action])
         /\ audit' = [last     |-> upd.status,
                      complete |-> audit.complete /\ (audit.last = NoVal \/ st.status = audit.last)]
<1>1. pc = "ran" /\ pc' = "logged" /\ InFlight /\ InFlight'
  BY DEF Writes, WriteAudit, InFlight
<1>2. /\ next \in NODES \cup {"none", "END"} /\ next \notin {"none", "END"}
      /\ upd # NoVal /\ st \in AgentState /\ upd \in AgentState
  BY <1>1 DEF AgentInv, TypeInv, TypeOK, Phases, Maybe
<1>3. Placed(next, st) /\ Ran(next, st, upd)
  BY <1>1 DEF AgentInv, LifeInv
<1>4. UNCHANGED <<next, st, upd, decision, world, ledger, history>>
  BY DEF Writes, WriteAudit
<1> QED
  BY <1>1, <1>2, <1>3, <1>4 DEF Writes, WriteAudit, AuditRecord, Logged, Ahead

\* What a node leaves alone, and the ways it can end.
LEMMA NodeFacts ==
  ASSUME AgentInv, Node
  PROVE  /\ pc \in {"enter", "perform", "record"} /\ pc' \in {"ran", "idle", "perform", "record"}
         /\ UNCHANGED <<next, st, audit, starts>>
         /\ decision' = IF pc' = "idle" THEN NoVal ELSE decision
         /\ pc = "record" => pc' = "ran" /\ next = "execute"
         /\ pc = "perform" => next = "execute"
<1>1. CASE Plainly
  BY <1>1 DEF Plainly, diagnose, propose_action, classify_risk, mark_awaiting_approval,
     Suspend, await_approval, EditRaises, revalidate, prepare_execution, execute_replay,
     ExecuteRaises, verify, rolling_back, RollbackRaises, rolled_back, replan, completed,
     escalate, At, Return, Abandon, Elsewhere, history, AgentInv, TypeInv, Phases
<1>2. CASE execute_lookup \/ execute_perform \/ execute_record
  BY <1>2 DEF execute_lookup, execute_perform, execute_record, At, Elsewhere, history,
     AgentInv, TypeInv, Phases
<1> QED
  BY <1>1, <1>2 DEF Node, Plainly

\* A node does not move the log, nor what is seen from it.
LEMMA NodeView ==
  ASSUME AgentInv, Node
  PROVE  /\ Logged = st /\ Logged' = st /\ Ahead = next /\ Ahead' = next
         /\ ~InFlight /\ (InFlight' <=> pc' = "ran")
         /\ UNCHANGED <<next, st, audit, starts>>
BY NodeFacts DEF Logged, Ahead, InFlight

\* A checkpoint makes what was logged the state.
LEMMA CheckpointView ==
  ASSUME AgentInv, Checkpoint
  PROVE  /\ pc = "logged" /\ pc' \in {"idle", "enter"} /\ (pc' = "idle" => next' = "END")
         /\ InFlight /\ ~InFlight' /\ next \in NODES \ {"none", "END"}
         /\ Logged = upd /\ Logged' = upd /\ st' = upd /\ decision' = NoVal
         /\ Ahead = Route(next, upd) /\ Ahead' = Ahead /\ next' = Ahead
         /\ UNCHANGED <<world, audit, applied, starts>>
         /\ undone'.compensations = undone.compensations
<1>1. undone'.compensations = undone.compensations
  BY DEF Checkpoint, AgentInv, TypeInv, TypeOK
<1> QED
  BY <1>1, CheckpointReads DEF AgentInv, Checkpoint, Logged, Ahead, InFlight, Elsewhere

\* The steps of the harness around the graph.
Around == suspended \/ ended \/ raised \/ _apply_staleness_change \/ approve

LEMMA AroundView ==
  ASSUME HarnessInv, Around
  PROVE  /\ pc = "idle" /\ pc' \in {"idle", "enter"}
         /\ UNCHANGED <<next, st, upd, audit, log, applied, undone, starts>>
         /\ UNCHANGED <<Logged, Ahead>> /\ ~InFlight /\ ~InFlight'
         /\ Logged = st /\ Ahead = next
<1>1. /\ pc = "idle" /\ pc' \in {"idle", "enter"}
      /\ UNCHANGED <<next, st, upd, audit, log, applied, undone, starts>>
  BY DEF HarnessInv, Around, suspended, ended, raised, _apply_staleness_change, approve, Resume,
     vars, agentVars, history, Elsewhere
<1> QED
  BY <1>1 DEF Logged, Ahead, InFlight

\* A step that writes no record and does not start the run is not seen.
LEMMA LogView ==
  ASSUME AgentInv, HarnessInv, [ScenarioNext]_scenarioVars, ~Writes, ~start
  PROVE  UNCHANGED <<log, audit, Logged, Ahead>>
<1>1. CASE drive
  <2>1. CASE Node
    <3>1. pc # "ran" /\ log' = log
      BY <1>1, <2>1, NodeFacts DEF drive
    <3> QED
      BY <2>1, <3>1, NodeView
  <2>2. CASE Checkpoint
    BY <1>1, <2>2, CheckpointView DEF drive
  <2>3. CASE WriteAudit
    <3>1. Writes
      BY <1>1, <2>3 DEF drive, Writes, WriteAudit, At, meters
    <3> QED
      BY <3>1
  <2> QED
    BY <1>1, <2>1, <2>2, <2>3 DEF drive, Process
<1>2. CASE Around
  BY <1>2, AroundView
<1>3. CASE UNCHANGED scenarioVars
  BY <1>3 DEF scenarioVars, vars, agentVars, Logged, Ahead
<1> QED
  BY <1>1, <1>2, <1>3 DEF ScenarioNext, Around

\* The steps of the harness, one by one.
LEMMA StepCases ==
  ASSUME [ScenarioNext]_scenarioVars
  PROVE  \/ start \/ Writes \/ (drive /\ Node) \/ (drive /\ Checkpoint)
         \/ Around \/ UNCHANGED scenarioVars
<1>1. CASE drive /\ WriteAudit
  BY <1>1 DEF drive, Writes, WriteAudit, At, meters
<1> QED
  BY <1>1 DEF ScenarioNext, drive, Process, Around

\* The routes never lead back to the beginning.
LEMMA RouteForward ==
  ASSUME NEW n, NEW s
  PROVE  Route(n, s) \notin {"none", "diagnose"}
BY DEF Route, route_after_proposal, route_after_risk_classification, route_after_approval,
   route_after_revalidation, route_after_verification, route_after_replan

-----------------------------------------------------------------------------
(* The harness and its decisions.                                          *)

\* The harness starts the run once, and waits or ends where the graph did.
LEMMA NextHarness ==
  AgentInv /\ HarnessInv /\ [ScenarioNext]_scenarioVars => HarnessInv'
<1> SUFFICES ASSUME AgentInv, HarnessInv, [ScenarioNext]_scenarioVars
             PROVE  HarnessInv'
  OBVIOUS
<1>1. CASE start
  BY <1>1 DEF start, Start, HarnessInv
<1>2. CASE Writes
  <2>1. harness' = harness /\ next' = next /\ starts' = starts /\ pc = "ran"
    BY <1>2, WriteFacts DEF harnessVars, history
  <2> QED
    BY <2>1 DEF HarnessInv
<1>3. CASE drive /\ Node
  BY <1>3, NodeFacts DEF drive, harnessVars, HarnessInv
<1>4. CASE drive /\ Checkpoint
  BY <1>4, CheckpointView, RouteForward DEF drive, harnessVars, HarnessInv
<1>5. CASE Around
  <2>1. next' = next /\ starts' = starts /\ harness # "new"
    BY <1>5, AroundView DEF Around, suspended, ended, raised, _apply_staleness_change, approve
  <2>2. CASE suspended \/ ended \/ raised
    BY <2>1, <2>2 DEF suspended, ended, raised, HarnessInv, vars, agentVars
  <2>3. CASE _apply_staleness_change \/ approve
    BY <2>1, <2>3 DEF _apply_staleness_change, approve, HarnessInv, agentVars
  <2> QED
    BY <1>5, <2>2, <2>3 DEF Around
<1>6. CASE UNCHANGED scenarioVars
  BY <1>6 DEF scenarioVars, vars, agentVars, history, harnessVars, HarnessInv
<1> QED
  BY <1>1, <1>2, <1>3, <1>4, <1>5, <1>6, StepCases

\* A decision reaches the graph only where the harness approved.
LEMMA NextDecision ==
  AgentInv /\ HarnessInv /\ DecisionInv /\ [ScenarioNext]_scenarioVars => DecisionInv'
<1> SUFFICES ASSUME AgentInv, HarnessInv, DecisionInv, [ScenarioNext]_scenarioVars
             PROVE  DecisionInv'
  OBVIOUS
<1>1. CASE start
  <2>1. decision = NoVal \/ next = "await_approval"
    BY DEF DecisionInv
  <2> QED
    BY <1>1, <2>1 DEF start, Start, HarnessInv, DecisionInv
<1>2. CASE Writes
  BY <1>2, WriteFacts DEF harnessVars, DecisionInv
<1>3. CASE drive /\ Node
  BY <1>3, NodeFacts DEF drive, harnessVars, DecisionInv
<1>4. CASE drive /\ Checkpoint
  BY <1>4, CheckpointView DEF DecisionInv
<1>5. CASE approve
  BY <1>5 DEF approve, Resume, HarnessInv, DecisionInv
<1>6. CASE Around /\ ~approve
  BY <1>6 DEF Around, suspended, ended, raised, _apply_staleness_change, vars, agentVars,
     DecisionInv
<1>7. CASE UNCHANGED scenarioVars
  BY <1>7 DEF scenarioVars, vars, agentVars, harnessVars, DecisionInv
<1> QED
  BY <1>1, <1>2, <1>3, <1>4, <1>5, <1>6, <1>7, StepCases

\* The changes still to be made are a list.
LEMMA NextList == ListInv /\ [ScenarioNext]_scenarioVars => ListInv'
<1> SUFFICES ASSUME ListInv, [ScenarioNext]_scenarioVars
             PROVE  ListInv'
  OBVIOUS
<1>1. scenario \in Seq(StalenessChanges) /\ <<>> \in Seq(StalenessChanges)
  BY ScenarioAssumption DEF ListInv
<1>2. CASE suspended
  BY <1>1, <1>2 DEF suspended, ListInv
<1>3. CASE _apply_staleness_change
  <2>1. changes \in Seq(StalenessChanges) /\ changes # <<>> /\ changes' = Tail(changes)
        /\ scenario' = scenario
    BY <1>3 DEF _apply_staleness_change, ListInv
  <2> QED
    BY <2>1 DEF ListInv
<1>4. CASE start \/ drive \/ ended \/ raised \/ approve \/ UNCHANGED scenarioVars
  BY <1>4 DEF start, drive, ended, raised, approve, scenarioVars, harnessVars, ListInv
<1> QED
  BY <1>2, <1>3, <1>4 DEF ScenarioNext

\* Which node each action of the graph is.
LEMMA NodeNames ==
  ASSUME TypeInv
  PROVE  /\ diagnose => next = "diagnose"
         /\ propose_action => next = "propose_action"
         /\ classify_risk => next = "classify_risk"
         /\ mark_awaiting_approval => next = "mark_awaiting_approval"
         /\ Suspend \/ await_approval \/ EditRaises => next = "await_approval"
         /\ revalidate => next = "revalidate"
         /\ prepare_execution => next = "prepare_execution"
         /\ execute_replay \/ execute_lookup \/ execute_perform \/ execute_record
              \/ ExecuteRaises => next = "execute"
         /\ verify => next = "verify"
         /\ rolling_back \/ RollbackRaises => next = "rolling_back"
         /\ rolled_back => next = "rolled_back"
         /\ replan => next = "replan"
         /\ completed => next = "completed"
         /\ escalate => next = "escalate"
         /\ Suspend \/ EditRaises \/ ExecuteRaises \/ RollbackRaises => pc' = "idle"
<1>1. Suspend \/ EditRaises \/ ExecuteRaises \/ RollbackRaises => pc' = "idle"
  BY DEF Suspend, EditRaises, ExecuteRaises, RollbackRaises, Abandon
<1>2. /\ diagnose => next = "diagnose"
      /\ propose_action => next = "propose_action"
      /\ classify_risk => next = "classify_risk"
      /\ mark_awaiting_approval => next = "mark_awaiting_approval"
  BY DEF diagnose, propose_action, classify_risk, mark_awaiting_approval, At
<1>3. /\ Suspend \/ await_approval \/ EditRaises => next = "await_approval"
      /\ revalidate => next = "revalidate"
      /\ prepare_execution => next = "prepare_execution"
  BY DEF Suspend, await_approval, EditRaises, revalidate, prepare_execution, At
<1>4. execute_replay \/ execute_lookup \/ execute_perform \/ execute_record \/ ExecuteRaises
        => next = "execute"
  BY DEF execute_replay, execute_lookup, execute_perform, execute_record, ExecuteRaises, At,
     TypeInv, Phases
<1>5. /\ verify => next = "verify"
      /\ rolling_back \/ RollbackRaises => next = "rolling_back"
      /\ rolled_back => next = "rolled_back"
  BY DEF verify, rolling_back, RollbackRaises, rolled_back, At
<1>6. /\ replan => next = "replan"
      /\ completed => next = "completed"
      /\ escalate => next = "escalate"
  BY DEF replan, completed, escalate, At
<1> QED
  BY <1>1, <1>2, <1>3, <1>4, <1>5, <1>6

\* A proposal is always made, an approval reaches await_approval as it was
\* given, and the fields beside those of Ran that revalidate and the two last
\* nodes write.
LEMMA NodeReturns ==
  ASSUME AgentInv, DecisionInv, Node, pc' = "ran"
  PROVE  /\ next = "propose_action" => upd'.proposed_action # NoVal
         /\ next = "await_approval" =>
              /\ waited /\ decision # NoVal /\ upd'.approval_decision = "approved"
              /\ upd'.proposed_action = st.proposed_action
              /\ upd'.state_fingerprint = st.state_fingerprint
         /\ next = "revalidate" =>
              upd'.drift_detected = (compute_fingerprint(gather_observations(world),
                                                         st.proposed_action)
                                       # st.state_fingerprint)
         /\ next = "completed" => upd'.final_state = "COMPLETED" /\ upd'.status = "COMPLETED"
         /\ next = "escalate" => upd'.final_state = "ESCALATED" /\ upd'.status = "ESCALATED"
<1>1. st \in AgentState
  BY DEF AgentInv, TypeInv, TypeOK
<1>2. next = "await_approval" => await_approval
  BY NodeNames DEF Node, AgentInv
<1>3. /\ next = "revalidate" => revalidate
      /\ next = "completed" => completed
      /\ next = "escalate" => escalate
  BY NodeNames DEF Node, AgentInv
<1>4. CASE next = "await_approval"
  <2>1. /\ decision # NoVal /\ decision.decision = "approved" /\ decision.edited_action = NoVal
        /\ waited
    BY <1>2, <1>4 DEF await_approval, DecisionInv
  <2>2. upd' = [st EXCEPT !.approval_decision = "approved",
                          !.proposed_action = st.proposed_action,
                          !.state_fingerprint = st.state_fingerprint]
    BY <1>1, <1>2, <1>4, <2>1 DEF await_approval, Return, Decided, AgentState
  <2> QED
    BY <1>1, <1>4, <2>1, <2>2 DEF AgentState
<1>5. CASE next = "revalidate"
  BY <1>1, <1>3, <1>5 DEF revalidate, Return, AgentState
<1>6. CASE next \in {"completed", "escalate"}
  BY <1>1, <1>3, <1>6 DEF completed, escalate, Return, AgentState
<1>7. CASE next = "propose_action"
  <2>1. propose_action
    BY <1>7, NodeNames DEF Node, AgentInv
  <2>2. PICK p \in Proposals : upd'.proposed_action = p.action
    BY <1>1, <2>1 DEF propose_action, Return, AgentState
  <2>3. p.action # NoVal
    BY <2>2, AgentGraphAssumption
  <2> QED
    BY <1>7, <2>2, <2>3
<1> QED
  BY <1>4, <1>5, <1>6, <1>7

\* A classification that was raised was raised by the forced tier of its tool
\* or by the redundancy floor, and says so (classify_risk, apply_policy).
LEMMA ClassificationFits ==
  ASSUME TypeInv, NEW llm_tier \in RiskTiers
  PROVE  LET c == Classification(llm_tier) IN
         /\ c \in Classifications /\ c.action = st.proposed_action
         /\ c.risk_tier_llm # c.risk_tier_final <=>
              \/ c.redundancy_floor_applied
              \/ st.proposed_action.tool \in FORCED_HIGH_TOOLS /\ c.risk_tier_llm # "high"
<1> DEFINE situational == situational_features(st.observations, st.proposed_action)
           tool == st.proposed_action.tool
           final == apply_policy(tool, llm_tier, situational)
           floored_ == /\ llm_tier = "low" /\ final = "medium"
                       /\ situational # NoVal /\ ~situational.has_redundant_replica
<1>1. Classification(llm_tier) =
        [action |-> st.proposed_action, risk_tier_llm |-> llm_tier,
         risk_tier_final |-> final, redundancy_floor_applied |-> floored_]
  BY DEF Classification
<1>2. final \in RiskTiers
  BY PolicyTier
<1>3. floored_ \in BOOLEAN
  OBVIOUS
<1>4. st.proposed_action \in Maybe(Acts)
  BY DEF TypeInv, TypeOK, AgentState
<1>5. llm_tier # final <=> floored_ \/ (tool \in FORCED_HIGH_TOOLS /\ llm_tier # "high")
  <2>1. CASE tool \in FORCED_HIGH_TOOLS
    BY <2>1 DEF apply_policy
  <2>2. CASE tool \notin FORCED_HIGH_TOOLS /\ llm_tier = "low" /\ RedundancyFloor(situational)
    BY <2>2 DEF apply_policy, RedundancyFloor
  <2>3. CASE tool \notin FORCED_HIGH_TOOLS /\ ~(llm_tier = "low" /\ RedundancyFloor(situational))
    BY <2>3 DEF apply_policy
  <2> QED
    BY <2>1, <2>2, <2>3
<1> HIDE DEF final, floored_
<1> QED
  BY <1>1, <1>2, <1>3, <1>4, <1>5 DEF Classifications

\* A classification is made where classify_risk runs, and fits its proposal.
LEMMA NodeClassifies ==
  ASSUME AgentInv, drive, Node
  PROVE  IF next = "classify_risk" THEN Fit(st.proposed_action)' /\ classified' \in Classifications
                                   ELSE classified' = classified
<1>1. CASE next = "classify_risk"
  <2>1. At("classify_risk")
    BY <1>1, NodeNames DEF Node, AgentInv, classify_risk
  <2>2. PICK llm_tier \in RiskTiers : classified' = Classification(llm_tier)
    BY <2>1 DEF drive
  <2> DEFINE c == Classification(llm_tier)
  <2>3. /\ c \in Classifications /\ c.action = st.proposed_action
        /\ c.risk_tier_llm # c.risk_tier_final <=>
             \/ c.redundancy_floor_applied
             \/ st.proposed_action.tool \in FORCED_HIGH_TOOLS /\ c.risk_tier_llm # "high"
    BY ClassificationFits DEF AgentInv
  <2>4. st' = st /\ classified' = c /\ c # NoVal
    BY <2>2, <2>3, NodeFacts, ScenarioAssumption
  <2> HIDE DEF c
  <2> QED
    BY <1>1, <2>3, <2>4 DEF Fit
<1>2. CASE next # "classify_risk"
  BY <1>2 DEF drive, At
<1> QED
  BY <1>1, <1>2

\* What a node in flight made of its state.
LEMMA NextFlight ==
  AgentInv /\ HarnessInv /\ DecisionInv /\ FlightInv /\ [ScenarioNext]_scenarioVars => FlightInv'
<1> SUFFICES ASSUME AgentInv, HarnessInv, DecisionInv, FlightInv, [ScenarioNext]_scenarioVars
             PROVE  FlightInv'
  OBVIOUS
<1>1. CASE start
  BY <1>1 DEF start, Start, FlightInv, InFlight
<1>2. CASE Writes
  BY <1>2, WriteFacts DEF harnessVars, meters, FlightInv, Fit
<1>3. CASE drive /\ Node
  <2>1. next' = next /\ st' = st /\ waited' = waited /\ (InFlight' <=> pc' = "ran")
    BY <1>3, NodeView DEF drive, harnessVars
  <2>2. CASE pc' = "ran"
    BY <1>3, <2>1, <2>2, NodeReturns, NodeClassifies DEF FlightInv, Fit
  <2> QED
    BY <2>1, <2>2 DEF FlightInv
<1>4. CASE drive /\ Checkpoint
  BY <1>4, CheckpointView DEF FlightInv
<1>5. CASE Around
  BY <1>5, AroundView DEF FlightInv
<1>6. CASE UNCHANGED scenarioVars
  BY <1>6 DEF scenarioVars, vars, agentVars, harnessVars, meters, FlightInv, InFlight, Fit
<1> QED
  BY <1>1, <1>2, <1>3, <1>4, <1>5, <1>6, StepCases

-----------------------------------------------------------------------------
(* The log.                                                                *)

\* The record that is written comes after those that were.
LEMMA LogGrows ==
  ASSUME AgentInv, log \in Seq(AuditRecords), Writes
  PROVE  /\ log' \in Seq(AuditRecords) /\ log' # <<>>
         /\ Len(log) \in Nat /\ Len(log') = Len(log) + 1
         /\ DOMAIN log = 1 .. Len(log) /\ DOMAIN log' = 1 .. Len(log) + 1
         /\ \A i \in 1 .. Len(log) : log'[i] = log[i]
         /\ log'[Len(log) + 1] = [from_state |-> st.status, to_state |-> upd.status,
                                  action_proposed |-> upd.proposed_action]
<1> DEFINE r == [from_state |-> st.status, to_state |-> upd.status,
                 action_proposed |-> upd.proposed_action]
<1>1. log' = Append(log, r) /\ st \in AgentState /\ upd \in AgentState
  BY WriteFacts
<1>2. r \in AuditRecords
  BY <1>1 DEF AgentState, AuditRecords
<1> HIDE DEF r
<1>3. Append(log, r) \in Seq(AuditRecords) /\ Len(Append(log, r)) = Len(log) + 1
  BY <1>2
<1>4. Append(log, r) # <<>>
  <2> DEFINE longer == Append(log, r)
  <2>1. Len(longer) # 0
    BY <1>3
  <2> HIDE DEF longer
  <2>2. longer # <<>>
    BY <2>1
  <2> QED
    BY <2>2 DEF longer
<1>5. \A i \in 1 .. Len(log) : Append(log, r)[i] = log[i]
  BY <1>2
<1>6. Append(log, r)[Len(log) + 1] = r
  BY <1>2
<1>7. DOMAIN log = 1 .. Len(log) /\ DOMAIN Append(log, r) = 1 .. Len(log) + 1 /\ Len(log) \in Nat
  BY <1>2, <1>3
<1> QED
  BY <1>1, <1>3, <1>4, <1>5, <1>6, <1>7 DEF r

\* Starting the run leaves the empty log.
LEMMA StartView ==
  ASSUME HarnessInv, start
  PROVE  /\ Ahead = "none" /\ Ahead' = "diagnose" /\ next = "none" /\ next' = "diagnose"
         /\ pc = "idle" /\ pc' = "enter" /\ ~InFlight' /\ decision' = decision
         /\ UNCHANGED <<log, audit, Logged, applied, undone, world>>
         /\ UNCHANGED <<waited, drift_detected_overall, material, classified, llm_calls>>
<1>1. next = "none" /\ pc = "idle" /\ next' = "diagnose" /\ pc' = "enter" /\ st' = st
  BY DEF HarnessInv, start, Start
<1> QED
  BY <1>1 DEF start, Start, Elsewhere, meters, Logged, Ahead, InFlight

\* The log is a chain from DIAGNOSING to the status of the run, and the fold
\* the agent's module keeps of it agrees.
LEMMA NextLog ==
  AgentInv /\ HarnessInv /\ LogInv /\ [ScenarioNext]_scenarioVars => LogInv'
<1> SUFFICES ASSUME AgentInv, HarnessInv, LogInv, [ScenarioNext]_scenarioVars
             PROVE  LogInv'
  OBVIOUS
<1>1. CASE Writes
  <2> DEFINE n == Len(log)
  <2>1. /\ log' \in Seq(AuditRecords) /\ log' # <<>> /\ n \in Nat /\ Len(log') = n + 1
        /\ \A i \in 1 .. n : log'[i] = log[i]
        /\ log'[n + 1].from_state = st.status /\ log'[n + 1].to_state = upd.status
    BY <1>1, LogGrows DEF LogInv
  <2>2. /\ next \in NODES \ {"none", "END"} /\ Ran(next, st, upd) /\ Ahead = next /\ Logged = st
        /\ Logged' = upd /\ Ahead' = Route(next, upd)
        /\ audit' = [last     |-> upd.status,
                     complete |-> audit.complete /\ (audit.last = NoVal \/ st.status = audit.last)]
    BY <1>1, WriteFacts
  <2>3. log = <<>> <=> n = 0
    BY DEF LogInv
  <2>4. log'[1].to_state = "DIAGNOSING"
    <3>1. CASE n = 0
      <4>1. next = "diagnose"
        BY <2>2, <2>3, <3>1 DEF LogInv
      <4> QED
        BY <2>1, <2>2, <3>1, <4>1 DEF Ran, Entered, Reviewing, Executing
    <3>2. CASE n # 0
      BY <2>1, <2>3, <3>2 DEF LogInv
    <3> QED
      BY <3>1, <3>2
  <2>5. is_complete_chain(log')
    <3> SUFFICES ASSUME NEW i \in 2 .. n + 1
                 PROVE  log'[i].from_state = log'[i - 1].to_state
      BY <2>1 DEF is_complete_chain
    <3>1. CASE i <= n
      BY <2>1, <3>1 DEF LogInv, is_complete_chain
    <3>2. CASE i = n + 1
      <4>1. n # 0 /\ i - 1 = n
        BY <2>1, <3>2
      <4> QED
        BY <2>1, <2>2, <2>3, <3>2, <4>1 DEF LogInv
    <3> QED
      BY <2>1, <3>1, <3>2
  <2>6. audit'.complete /\ audit'.last = upd.status
    BY <2>2 DEF LogInv
  <2>7. Ahead' \notin {"none", "diagnose"}
    BY <2>2, RouteForward
  <2> QED
    BY <2>1, <2>2, <2>4, <2>5, <2>6, <2>7 DEF LogInv
<1>2. CASE start
  BY <1>2, StartView DEF LogInv
<1>3. CASE ~Writes /\ ~start
  BY <1>3, LogView DEF LogInv
<1> QED
  BY <1>1, <1>2, <1>3

\* The latest proposal of the log is the action of the state.
LEMMA NextProposal ==
  AgentInv /\ HarnessInv /\ FlightInv /\ LogInv /\ ProposalInv /\ [ScenarioNext]_scenarioVars
    => ProposalInv'
<1> SUFFICES ASSUME AgentInv, HarnessInv, FlightInv, LogInv, ProposalInv,
                    [ScenarioNext]_scenarioVars
             PROVE  ProposalInv'
  OBVIOUS
<1>1. CASE Writes
  <2> DEFINE n == Len(log)
  <2>1. /\ n \in Nat /\ DOMAIN log = 1 .. n /\ DOMAIN log' = 1 .. n + 1
        /\ \A i \in 1 .. n : log'[i] = log[i]
        /\ log'[n + 1].to_state = upd.status /\ log'[n + 1].action_proposed = upd.proposed_action
    BY <1>1, LogGrows DEF LogInv
  <2>2. /\ next \in NODES /\ Ran(next, st, upd) /\ Placed(next, st)
        /\ InFlight /\ Logged = st /\ Logged' = upd
        /\ Ahead = next /\ Ahead' = Route(next, upd) /\ next \notin {"none", "END"}
    BY <1>1, WriteFacts
  <2> DEFINE Latest == \E i \in proposed_actions : /\ \A j \in proposed_actions : j <= i
                                                   /\ log[i].action_proposed = Logged.proposed_action
  <2> HIDE DEF n
  <2>3. CASE next = "propose_action"
    <3>1. n + 1 \in proposed_actions'
      BY <2>1, <2>2, <2>3 DEF proposed_actions, Ran, Entered, Reviewing, Executing
    <3>2. \A j \in proposed_actions' : j <= n + 1
      BY <2>1 DEF proposed_actions
    <3>3. Latest'
      BY <2>1, <2>2, <3>1, <3>2
    <3>4. upd.proposed_action # NoVal
      BY <2>2, <2>3 DEF FlightInv
    <3> QED
      BY <2>2, <3>3, <3>4 DEF ProposalInv
  <2>4. CASE next # "propose_action"
    <3>1. upd.proposed_action = st.proposed_action
      BY <2>2, <2>4 DEF Ran, FlightInv
    <3>2. upd.status # "ACTION_PROPOSED"
      BY <2>2, <2>4 DEF NODES, Ran, Entered, Reviewing, Executing
    <3>3. proposed_actions' = proposed_actions
      BY <2>1, <3>2 DEF proposed_actions
    <3>4. ASSUME st.proposed_action # NoVal
          PROVE  Latest'
      <4>1. PICK i \in proposed_actions : /\ \A j \in proposed_actions : j <= i
                                          /\ log[i].action_proposed = st.proposed_action
        BY <2>2, <3>4 DEF ProposalInv
      <4>2. log'[i] = log[i]
        BY <2>1 DEF proposed_actions
      <4> QED
        BY <2>2, <3>1, <3>3, <4>1, <4>2
    <3>5. next # "diagnose" => st.proposed_action # NoVal
      BY <2>2, <2>4 DEF ProposalInv
    <3>6. next = "diagnose" => Ahead' = "propose_action"
      BY <2>2 DEF Route
    <3> HIDE DEF Latest
    <3>7. /\ Logged'.proposed_action # NoVal => Latest'
          /\ Ahead' \notin {"none", "diagnose", "propose_action"} => Logged'.proposed_action # NoVal
      BY <2>2, <3>1, <3>4, <3>5, <3>6
    <3> QED
      BY <3>7 DEF ProposalInv, Latest
  <2> QED
    BY <2>3, <2>4
<1>2. CASE start
  BY <1>2, StartView DEF ProposalInv, proposed_actions
<1>3. CASE ~Writes /\ ~start
  BY <1>3, LogView DEF ProposalInv, proposed_actions
<1> QED
  BY <1>1, <1>2, <1>3

\* The only node that acts is execute, between its two phases of its own.
LEMMA NodeActs ==
  ASSUME AgentInv, Node
  PROVE  /\ \/ applied' = applied
            \/ /\ next = "execute" /\ pc = "perform" /\ pc' = "record"
               /\ applied' = [applied EXCEPT ![st.proposed_action] = @ + 1]
         /\ pc' = "record" => pc = "perform" /\ applied' = [applied EXCEPT ![st.proposed_action] = @ + 1]
         /\ undone'.compensations =
              IF next = "rolling_back" /\ pc' = "ran" THEN undone.compensations + 1
                                                      ELSE undone.compensations
<1>0. undone \in [compensations : Nat, failures : Nat]
  BY DEF AgentInv, TypeInv, TypeOK
<1>1. CASE Plainly /\ ~rolling_back
  <2>1. UNCHANGED <<applied, undone>> /\ pc' # "record"
    BY <1>1 DEF Plainly, diagnose, propose_action, classify_risk, mark_awaiting_approval,
       Suspend, await_approval, EditRaises, revalidate, prepare_execution, execute_replay,
       ExecuteRaises, verify, RollbackRaises, rolled_back, replan, completed,
       escalate, At, Return, Abandon, Elsewhere, history
  <2>2. ~(next = "rolling_back" /\ pc' = "ran")
    BY <1>1, NodeNames DEF Plainly, AgentInv
  <2> QED
    BY <2>1, <2>2
<1>2. CASE rolling_back
  BY <1>0, <1>2 DEF rolling_back, At, Return
<1>3. CASE execute_lookup \/ execute_record
  <2>1. UNCHANGED <<applied, undone>> /\ pc' # "record"
    BY <1>3 DEF execute_lookup, execute_record, Elsewhere, history
  <2>2. next = "execute"
    BY <1>3, NodeNames DEF AgentInv
  <2> QED
    BY <2>1, <2>2
<1>4. CASE execute_perform
  <2>1. next = "execute"
    BY <1>4, NodeNames DEF AgentInv
  <2> QED
    BY <1>4, <2>1 DEF execute_perform
<1> QED
  BY <1>1, <1>2, <1>3, <1>4 DEF Node, Plainly

\* What the record that is written adds to the comprehensions over the log.
LEMMA RecordsGrow ==
  ASSUME AgentInv, LogInv, Writes
  PROVE  /\ executed_actions' =
              IF next = "verify" /\ upd.proposed_action # NoVal
                THEN executed_actions \cup {Len(log) + 1} ELSE executed_actions
         /\ proposed_actions' =
              IF next = "propose_action" THEN proposed_actions \cup {Len(log) + 1}
                                         ELSE proposed_actions
         /\ rollback_invoked' <=> rollback_invoked \/ next = "rolling_back"
         /\ \A S \in SUBSET (1 .. Len(log)) : Reported(S)' = Reported(S)
         /\ log'[Len(log) + 1].action_proposed = upd.proposed_action
         /\ executed_actions \subseteq 1 .. Len(log) /\ proposed_actions \subseteq 1 .. Len(log)
<1> DEFINE n == Len(log)
<1>1. /\ n \in Nat /\ DOMAIN log = 1 .. n /\ DOMAIN log' = 1 .. n + 1
      /\ \A i \in 1 .. n : log'[i] = log[i]
      /\ log'[n + 1].to_state = upd.status /\ log'[n + 1].action_proposed = upd.proposed_action
  BY LogGrows DEF LogInv
<1>2. /\ next \in NODES /\ Ran(next, st, upd)
  BY WriteFacts
<1>3. /\ upd.status = "VERIFYING" <=> next = "verify"
      /\ upd.status = "ACTION_PROPOSED" <=> next = "propose_action"
      /\ upd.status = "ROLLING_BACK" <=> next = "rolling_back"
  BY <1>2 DEF NODES, Ran, Entered, Reviewing, Executing
<1> HIDE DEF n
<1>4. \A i \in 1 .. n + 1 : i \in 1 .. n \/ i = n + 1
  BY <1>1
<1>5. 1 .. n \subseteq 1 .. n + 1 /\ n + 1 \in 1 .. n + 1 /\ n + 1 \notin 1 .. n
  BY <1>1
<1>6. executed_actions' =
        IF next = "verify" /\ upd.proposed_action # NoVal
          THEN executed_actions \cup {n + 1} ELSE executed_actions
  BY <1>1, <1>3, <1>4, <1>5 DEF executed_actions
<1>7. proposed_actions' = IF next = "propose_action" THEN proposed_actions \cup {n + 1}
                                                      ELSE proposed_actions
  BY <1>1, <1>3, <1>4, <1>5 DEF proposed_actions
<1>8. rollback_invoked' <=> rollback_invoked \/ next = "rolling_back"
  BY <1>1, <1>3, <1>4, <1>5 DEF rollback_invoked
<1>9. \A S \in SUBSET (1 .. n) : Reported(S)' = Reported(S)
  BY <1>1 DEF Reported
<1>10. executed_actions \subseteq 1 .. n /\ proposed_actions \subseteq 1 .. n
  BY <1>1 DEF executed_actions, proposed_actions
<1> QED
  BY <1>1, <1>6, <1>7, <1>8, <1>9, <1>10 DEF n

\* The records called executed are the side effects, up to the one whose
\* verification is still to be logged.
LEMMA NextExecuted ==
  AgentInv /\ HarnessInv /\ LogInv /\ ProposalInv /\ ExecutedInv /\ [ScenarioNext]_scenarioVars
    => ExecutedInv'
<1> SUFFICES ASSUME AgentInv, HarnessInv, LogInv, ProposalInv, ExecutedInv,
                    [ScenarioNext]_scenarioVars
             PROVE  ExecutedInv'
  OBVIOUS
<1> DEFINE Happened == {a \in Acts : applied[a] > 0}
           Left == IF Unverified THEN {Logged.proposed_action} ELSE {}
<1>0. AgentInv'
  BY NextAgent
<1>1. CASE Writes
  <2> DEFINE n == Len(log)
  <2>1. /\ next \in NODES \ {"none", "END"} /\ Ran(next, st, upd) /\ pc = "ran" /\ pc' = "logged"
        /\ Logged = st /\ Logged' = upd /\ Ahead = next /\ Ahead' = Route(next, upd)
        /\ UNCHANGED <<next, applied>>
    BY <1>1, WriteFacts DEF history
  <2>2. /\ executed_actions' =
             IF next = "verify" /\ upd.proposed_action # NoVal
               THEN executed_actions \cup {n + 1} ELSE executed_actions
        /\ proposed_actions' =
             IF next = "propose_action" THEN proposed_actions \cup {n + 1} ELSE proposed_actions
        /\ \A S \in SUBSET (1 .. n) : Reported(S)' = Reported(S)
        /\ log'[n + 1].action_proposed = upd.proposed_action
        /\ executed_actions \subseteq 1 .. n /\ proposed_actions \subseteq 1 .. n
    BY <1>1, RecordsGrow
  <2> HIDE DEF n
  <2>3. Unverified' <=> next = "execute"
    BY <2>1, RouteSources DEF Unverified
  <2>4. Unverified <=> next \in {"verify", "execute"}
    BY <2>1 DEF Unverified
  <2>5. Reported(proposed_actions) \subseteq Reported(proposed_actions)'
    <3>1. \A i \in proposed_actions : log'[i].action_proposed = log[i].action_proposed
      <4> SUFFICES ASSUME NEW i \in proposed_actions
                   PROVE  log'[i].action_proposed = log[i].action_proposed
        OBVIOUS
      <4>1. {i} \in SUBSET (1 .. n)
        BY <2>2
      <4>2. Reported({i})' = Reported({i})
        BY <2>2, <4>1
      <4> QED
        BY <4>2 DEF Reported
    <3> QED
      BY <2>2, <3>1 DEF Reported
  <2>6. CASE next = "verify"
    <3>1. /\ st.proposed_action # NoVal /\ upd.proposed_action = st.proposed_action
      BY <2>1, <2>6 DEF AgentInv, TypeInv, Ready, WithProposal, Executed, Ran
    <3>2. Reported(executed_actions)' = Reported(executed_actions) \cup {st.proposed_action}
      <4>1. executed_actions' = executed_actions \cup {n + 1}
        BY <2>2, <2>6, <3>1
      <4>2. Reported(executed_actions)' = {log'[i].action_proposed : i \in executed_actions} \cup {st.proposed_action}
        BY <2>2, <3>1, <4>1 DEF Reported
      <4>3. {log'[i].action_proposed : i \in executed_actions} = Reported(executed_actions)
        BY <2>2 DEF Reported
      <4> QED
        BY <4>2, <4>3
    <3>3. st.proposed_action \in Reported(proposed_actions)
      BY <2>1, <3>1 DEF ProposalInv, Reported
    <3> QED
      BY <2>1, <2>3, <2>4, <2>5, <2>6, <3>2, <3>3 DEF ExecutedInv
  <2>7. CASE next # "verify"
    <3>1. Reported(executed_actions)' = Reported(executed_actions)
      BY <2>2, <2>7 DEF Reported
    <3>2. next = "execute" => upd.proposed_action = st.proposed_action
      BY <2>1 DEF Ran
    <3> QED
      BY <2>1, <2>3, <2>4, <2>5, <2>7, <3>1, <3>2 DEF ExecutedInv
  <2> QED
    BY <2>6, <2>7
<1>2. ASSUME UNCHANGED <<log, Logged, applied>>, Unverified' <=> Unverified
      PROVE  ExecutedInv'
  <2>1. executed_actions' = executed_actions /\ proposed_actions' = proposed_actions
    BY <1>2 DEF executed_actions, proposed_actions
  <2> QED
    BY <1>2, <2>1 DEF ExecutedInv, Reported
<1>3. CASE start
  BY <1>2, <1>3, StartView DEF Unverified
<1>4. CASE drive /\ Node
  <2>1. /\ Logged = st /\ Logged' = st /\ Ahead = next /\ Ahead' = next /\ next' = next
        /\ log' = log /\ st' = st
    BY <1>4, NodeFacts, NodeView DEF drive
  <2>2. CASE Unverified' <=> Unverified
    <3>1. CASE applied' = applied
      BY <1>2, <2>1, <2>2, <3>1
    <3>2. CASE applied' # applied
      <4>1. next = "execute" /\ pc = "perform" /\ pc' = "record"
        BY <1>4, <3>2, NodeActs
      <4> QED
        BY <2>1, <2>2, <4>1 DEF Unverified
    <3> QED
      BY <3>1, <3>2
  <2>3. CASE ~(Unverified' <=> Unverified)
    <3>1. /\ next = "execute" /\ pc' \in {"record", "ran"} /\ Unverified' /\ ~Unverified
      BY <1>4, <2>1, <2>3, NodeFacts DEF Unverified
    <3>2. st.proposed_action \in Acts /\ applied'[st.proposed_action] > 0
      <4>1. CASE pc' = "record"
        <5>1. /\ applied' = [applied EXCEPT ![st.proposed_action] = @ + 1]
              /\ applied \in [Acts -> Nat]
          BY <1>4, <4>1, NodeActs DEF AgentInv, TypeInv, TypeOK
        <5>2. st.proposed_action \in Acts
          BY <3>1, ExecuteReads DEF AgentInv
        <5> QED
          BY <5>1, <5>2
      <4>2. CASE pc' = "ran"
        <5>1. /\ Done(Route(next, upd), upd)' /\ Ran(next, st, upd)'
              /\ applied' \in [Acts -> Nat]
          BY <1>0, <4>2 DEF AgentInv, DoneInv, LifeInv, InFlight, TypeInv, TypeOK
        <5>2. Route(next, upd)' = "verify"
          BY <2>1, <3>1 DEF Route
        <5> QED
          BY <2>1, <3>1, <5>1, <5>2 DEF Done, Ran
      <4> QED
        BY <3>1, <4>1, <4>2
    <3>3. \/ applied' = applied
          \/ applied' = [applied EXCEPT ![st.proposed_action] = @ + 1]
      BY <1>4, NodeActs
    <3>4. {a \in Acts : applied'[a] > 0} = Happened \cup {st.proposed_action}
      <4>1. applied \in [Acts -> Nat]
        BY DEF AgentInv, TypeInv, TypeOK
      <4> QED
        BY <3>2, <3>3, <4>1
    <3>5. Reported(executed_actions)' = Reported(executed_actions)
          /\ Reported(proposed_actions)' = Reported(proposed_actions)
      BY <2>1 DEF Reported, executed_actions, proposed_actions
    <3> QED
      BY <2>1, <3>1, <3>4, <3>5 DEF ExecutedInv
  <2> QED
    BY <2>2, <2>3
<1>5. CASE drive /\ Checkpoint
  BY <1>2, <1>5, CheckpointView DEF drive, Unverified
<1>6. CASE Around
  BY <1>2, <1>6, AroundView DEF Unverified
<1>7. CASE UNCHANGED scenarioVars
  BY <1>2, <1>7 DEF scenarioVars, vars, agentVars, history, Logged, Ahead, Unverified
<1> QED
  BY <1>1, <1>3, <1>4, <1>5, <1>6, <1>7, StepCases

\* A compensation is applied exactly when a rollback is logged.
LEMMA NextUndone ==
  AgentInv /\ HarnessInv /\ LogInv /\ UndoneInv /\ [ScenarioNext]_scenarioVars => UndoneInv'
<1> SUFFICES ASSUME AgentInv, HarnessInv, LogInv, UndoneInv, [ScenarioNext]_scenarioVars
             PROVE  UndoneInv'
  OBVIOUS
<1>0. undone.compensations \in Nat
  BY DEF AgentInv, TypeInv, TypeOK
<1>1. CASE Writes
  <2>1. /\ rollback_invoked' <=> rollback_invoked \/ next = "rolling_back"
        /\ UNCHANGED <<undone, next>> /\ pc = "ran" /\ pc' = "logged"
    BY <1>1, RecordsGrow, WriteFacts DEF history
  <2> QED
    BY <2>1 DEF UndoneInv
<1>2. ASSUME log' = log, undone'.compensations = undone.compensations,
             ~(next' = "rolling_back" /\ pc' = "ran"), ~(next = "rolling_back" /\ pc = "ran")
      PROVE  UndoneInv'
  BY <1>2 DEF UndoneInv, rollback_invoked
<1>3. CASE start
  BY <1>2, <1>3, StartView
<1>4. CASE drive /\ Node
  <2>1. log' = log /\ pc # "ran" /\ next' = next
    BY <1>4, NodeFacts DEF drive
  <2>2. CASE next = "rolling_back" /\ pc' = "ran"
    <3>1. undone'.compensations > 0
      BY <1>0, <1>4, <2>2, NodeActs
    <3> QED
      BY <2>1, <2>2, <3>1 DEF UndoneInv
  <2>3. CASE ~(next = "rolling_back" /\ pc' = "ran")
    BY <1>2, <1>4, <2>1, <2>3, NodeActs
  <2> QED
    BY <2>2, <2>3
<1>5. CASE drive /\ Checkpoint
  BY <1>2, <1>5, CheckpointView DEF drive
<1>6. CASE Around
  BY <1>2, <1>6, AroundView
<1>7. CASE UNCHANGED scenarioVars
  BY <1>7 DEF scenarioVars, vars, agentVars, history, UndoneInv, rollback_invoked
<1> QED
  BY <1>1, <1>3, <1>4, <1>5, <1>6, <1>7, StepCases

\* A run that is over names its end.
LEMMA NextFinal ==
  AgentInv /\ HarnessInv /\ FlightInv /\ FinalInv /\ [ScenarioNext]_scenarioVars => FinalInv'
<1> SUFFICES ASSUME AgentInv, HarnessInv, FlightInv, FinalInv, [ScenarioNext]_scenarioVars
             PROVE  FinalInv'
  OBVIOUS
<1>1. CASE Writes
  BY <1>1, WriteFacts, RouteSources DEF FlightInv, FinalInv
<1>2. CASE start
  BY <1>2, StartView DEF FinalInv
<1>3. CASE ~Writes /\ ~start
  BY <1>3, LogView DEF FinalInv
<1> QED
  BY <1>1, <1>2, <1>3

\* The harness has waited once it has, and until then no node was approved.
LEMMA WaitedStays ==
  ASSUME [ScenarioNext]_scenarioVars, waited
  PROVE  waited'
BY DEF ScenarioNext, scenarioVars, harnessVars, start, drive, suspended, ended, raised,
   _apply_staleness_change, approve

\* A gated tier is past its gate only if the harness waited there.
LEMMA NextWaited ==
  AgentInv /\ HarnessInv /\ FlightInv /\ WaitedInv /\ [ScenarioNext]_scenarioVars => WaitedInv'
<1> SUFFICES ASSUME AgentInv, HarnessInv, FlightInv, WaitedInv, [ScenarioNext]_scenarioVars
             PROVE  WaitedInv'
  OBVIOUS
<1>1. CASE Writes
  <2>1. /\ next \in NODES /\ Ran(next, st, upd) /\ InFlight
        /\ Logged = st /\ Logged' = upd /\ Ahead = next /\ Ahead' = Route(next, upd)
        /\ waited' = waited
    BY <1>1, WriteFacts DEF harnessVars
  <2>2. CASE next = "classify_risk"
    BY <2>1, <2>2 DEF WaitedInv, Route, route_after_risk_classification, Reviewing
  <2>3. CASE next = "mark_awaiting_approval"
    BY <2>1, <2>3 DEF WaitedInv, Route, Reviewing
  <2>4. CASE next = "await_approval"
    BY <2>1, <2>4 DEF WaitedInv, FlightInv
  <2>5. CASE next \notin {"classify_risk"} \cup Reviewing
    BY <2>1, <2>5 DEF WaitedInv, Ran
  <2> QED
    BY <2>2, <2>3, <2>4, <2>5 DEF Reviewing
<1>2. CASE start
  BY <1>2, StartView DEF WaitedInv, Reviewing
<1>3. CASE ~Writes /\ ~start
  BY <1>3, LogView, WaitedStays DEF WaitedInv
<1> QED
  BY <1>1, <1>2, <1>3

\* Away from the classifier, the classification is of the proposal that counts.
LEMMA NextTier ==
  AgentInv /\ HarnessInv /\ FlightInv /\ TierInv /\ [ScenarioNext]_scenarioVars => TierInv'
<1> SUFFICES ASSUME AgentInv, HarnessInv, FlightInv, TierInv, [ScenarioNext]_scenarioVars
             PROVE  TierInv'
  OBVIOUS
<1>1. CASE Writes
  <2>1. /\ next \in NODES /\ Ran(next, st, upd) /\ InFlight
        /\ Logged = st /\ Logged' = upd /\ Ahead = next /\ Ahead' = Route(next, upd)
        /\ classified' = classified
    BY <1>1, WriteFacts DEF meters
  <2>2. CASE next = "propose_action"
    BY <2>1, <2>2 DEF TierInv, Route, route_after_proposal
  <2>3. CASE next = "classify_risk"
    BY <2>1, <2>3 DEF TierInv, FlightInv, Ran, Fit
  <2>4. CASE next \notin {"propose_action", "classify_risk"}
    <3>1. /\ upd.proposed_action = st.proposed_action
          /\ upd.invalid_proposal_reason <=> st.invalid_proposal_reason
      BY <2>1, <2>4 DEF Ran, FlightInv
    <3> QED
      BY <2>1, <2>4, <3>1 DEF TierInv, Fit
  <2> QED
    BY <2>2, <2>3, <2>4
<1>2. CASE start
  BY <1>2, StartView DEF TierInv, Fit
<1>3. CASE drive /\ Node
  <2>1. Logged = st /\ Logged' = st /\ Ahead = next /\ Ahead' = next /\ st' = st
    BY <1>3, NodeView
  <2>2. CASE next = "classify_risk"
    BY <1>3, <2>1, <2>2, NodeClassifies DEF TierInv, Maybe
  <2>3. CASE next # "classify_risk"
    BY <1>3, <2>1, <2>3, NodeClassifies DEF TierInv, Fit
  <2> QED
    BY <2>2, <2>3
<1>4. CASE drive /\ Checkpoint
  <2>1. classified' = classified
    BY <1>4, CheckpointView DEF drive, At
  <2> QED
    BY <1>4, <2>1, CheckpointView DEF TierInv, Fit
<1>5. CASE Around
  <2>1. classified' = classified
    BY <1>5 DEF Around, suspended, ended, raised, _apply_staleness_change, approve, meters
  <2> QED
    BY <1>5, <2>1, AroundView DEF TierInv, Fit
<1>6. CASE UNCHANGED scenarioVars
  BY <1>6 DEF scenarioVars, vars, agentVars, meters, Logged, Ahead, TierInv, Fit
<1> QED
  BY <1>1, <1>2, <1>3, <1>4, <1>5, <1>6, StepCases

-----------------------------------------------------------------------------
(* Drift.                                                                  *)

\* Drift is logged by the replan that a revalidation asked for.
LEMMA DriftRecord ==
  ASSUME AgentInv, LogInv, Writes
  PROVE  DriftLogged' <=> DriftLogged \/ (next = "replan" /\ st.status = "REVALIDATING")
<1> DEFINE n == Len(log)
<1>1. /\ n \in Nat /\ Len(log') = n + 1 /\ \A i \in 1 .. n : log'[i] = log[i]
      /\ log'[n + 1].to_state = upd.status
  BY LogGrows DEF LogInv
<1>2. /\ next \in NODES /\ Ran(next, st, upd) /\ Ahead = next /\ Logged = st
  BY WriteFacts
<1>3. upd.status = "REPLANNING" <=> next = "replan"
  BY <1>2 DEF NODES, Ran, Entered, Reviewing, Executing
<1>4. next = "replan" => n # 0 /\ log[n].to_state = st.status
  BY <1>2 DEF LogInv
<1> HIDE DEF n
<1>5. ASSUME DriftLogged
      PROVE  DriftLogged'
  BY <1>1, <1>5 DEF DriftLogged, n
<1>6. ASSUME next = "replan", st.status = "REVALIDATING"
      PROVE  DriftLogged'
  <2>1. n + 1 \in 2 .. n + 1 /\ (n + 1) - 1 = n /\ n \in 1 .. n
    BY <1>1, <1>4, <1>6
  <2>2. log'[n].to_state = "REVALIDATING" /\ log'[n + 1].to_state = "REPLANNING"
    BY <1>1, <1>3, <1>4, <1>6, <2>1
  <2> QED
    BY <1>1, <2>1, <2>2 DEF DriftLogged
<1>7. ASSUME DriftLogged'
      PROVE  DriftLogged \/ (next = "replan" /\ st.status = "REVALIDATING")
  <2>1. PICK i \in 2 .. n + 1 : /\ log'[i - 1].to_state = "REVALIDATING"
                                /\ log'[i].to_state = "REPLANNING"
    BY <1>1, <1>7 DEF DriftLogged
  <2>2. CASE i <= n
    <3>1. i \in 2 .. n /\ i \in 1 .. n /\ i - 1 \in 1 .. n
      BY <1>1, <2>2
    <3> QED
      BY <1>1, <2>1, <3>1 DEF DriftLogged, n
  <2>3. CASE i = n + 1
    <3>1. i - 1 = n /\ n \in 1 .. n
      BY <1>1, <2>3
    <3> QED
      BY <1>1, <1>3, <1>4, <2>1, <2>3, <3>1
  <2> QED
    BY <1>1, <2>2, <2>3
<1> QED
  BY <1>5, <1>6, <1>7

\* The verdict of the harness and the log agree up to what it has not collected.
LEMMA NextDrift ==
  AgentInv /\ HarnessInv /\ DecisionInv /\ LogInv /\ DriftInv /\ [ScenarioNext]_scenarioVars
    => DriftInv'
<1> SUFFICES ASSUME AgentInv, HarnessInv, DecisionInv, LogInv, DriftInv,
                    [ScenarioNext]_scenarioVars
             PROVE  DriftInv'
  OBVIOUS
<1>1. CASE Writes
  <2>1. /\ next \in NODES /\ Ran(next, st, upd) /\ Placed(next, st) /\ InFlight
        /\ Logged = st /\ Logged' = upd /\ Ahead = next /\ Ahead' = Route(next, upd)
        /\ UNCHANGED <<next, drift_detected_overall, harness>>
    BY <1>1, WriteFacts DEF harnessVars
  <2>2. DriftLogged' <=> DriftLogged \/ (next = "replan" /\ st.status = "REVALIDATING")
    BY <1>1, DriftRecord
  <2>3. ASSUME DriftLogged'
        PROVE  drift_detected_overall \/ upd.drift_detected
    <3>1. CASE next = "revalidate"
      BY <2>1, <2>2, <2>3, <3>1 DEF DriftInv, Collected
    <3>2. CASE next = "replan" /\ st.status = "REVALIDATING"
      BY <2>1, <3>2 DEF Placed, Ran
    <3>3. CASE next # "revalidate" /\ DriftLogged
      BY <2>1, <3>3 DEF DriftInv, Ran
    <3> QED
      BY <2>2, <2>3, <3>1, <3>2, <3>3
  <2>4. ASSUME DriftLogged', Collected'
        PROVE  drift_detected_overall
    <3>1. next = "await_approval"
      BY <1>1, <2>1, <2>4, WriteFacts, RouteSources DEF Collected, HarnessInv
    <3> QED
      BY <2>1, <2>2, <2>4, <3>1 DEF DriftInv, Collected
  <2>5. ASSUME upd.drift_detected
        PROVE  DriftLogged' \/ (upd.status = "REVALIDATING" /\ Ahead' = "replan")
    <3>1. CASE next = "revalidate"
      BY <2>1, <2>5, <3>1 DEF Ran, Entered, Reviewing, Executing, Route, route_after_revalidation
    <3>2. CASE next # "revalidate"
      BY <2>1, <2>2, <2>5, <3>2 DEF DriftInv, Ran
    <3> QED
      BY <3>1, <3>2
  <2> QED
    BY <2>1, <2>2, <2>3, <2>4, <2>5 DEF DriftInv
<1>2. ASSUME UNCHANGED <<log, Logged, Ahead, drift_detected_overall>>, Collected' => Collected
      PROVE  DriftInv'
  BY <1>2 DEF DriftInv, DriftLogged
<1>3. CASE start
  <2>1. ~Collected'
    <3>1. harness' = "running"
      BY <1>3 DEF start
    <3> QED
      BY <1>3, <3>1, StartView DEF Collected
  <2> QED
    BY <1>3, <2>1, StartView DEF DriftInv, DriftLogged
<1>4. CASE drive /\ Node
  <2>1. UNCHANGED <<log, drift_detected_overall, harness, next>> /\ UNCHANGED <<Logged, Ahead>>
    BY <1>4, NodeFacts, NodeView DEF drive, harnessVars
  <2>2. Collected' => Collected
    <3>1. /\ decision' # NoVal => decision # NoVal
          /\ next = "await_approval" /\ InFlight' => decision # NoVal
      BY <1>4, NodeFacts, NodeView, NodeReturns
    <3> QED
      BY <2>1, <3>1 DEF Collected
  <2> QED
    BY <1>2, <2>1, <2>2
<1>5. CASE drive /\ Checkpoint
  <2>1. UNCHANGED <<log, drift_detected_overall, harness>> /\ UNCHANGED <<Logged, Ahead>>
    BY <1>5, CheckpointView DEF drive, harnessVars
  <2>2. Collected' => Collected
    BY <1>5, <2>1, CheckpointView DEF Collected
  <2> QED
    BY <1>2, <2>1, <2>2
<1>6. CASE suspended \/ ended
  <2>1. /\ UNCHANGED <<log, Logged, Ahead>> /\ Logged = st /\ Ahead = next
        /\ drift_detected_overall' = (drift_detected_overall \/ st.drift_detected)
        /\ next # "replan"
    BY <1>6, AroundView DEF Around, suspended, ended, DriftOverall
  <2>2. DriftLogged' <=> DriftLogged
    BY <2>1 DEF DriftLogged
  <2> QED
    BY <2>1, <2>2 DEF DriftInv
<1>7. CASE raised \/ _apply_staleness_change \/ approve
  <2>1. UNCHANGED <<log, drift_detected_overall>> /\ UNCHANGED <<Logged, Ahead>> /\ next' = next
    BY <1>7, AroundView DEF Around, raised, _apply_staleness_change, approve
  <2>2. Collected' => Collected
    BY <1>7, <2>1, AroundView DEF Around, raised, _apply_staleness_change, approve, Collected,
       vars, agentVars, HarnessInv
  <2> QED
    BY <1>2, <2>1, <2>2
<1>8. CASE UNCHANGED scenarioVars
  BY <1>2, <1>8 DEF scenarioVars, vars, agentVars, harnessVars, Logged, Ahead, Collected, InFlight
<1> QED
  BY <1>1, <1>3, <1>4, <1>5, <1>6, <1>7, <1>8, StepCases DEF Around

\* An approval is taken where it waits, and the sweep that follows it runs.
LEMMA NodeProceeds ==
  ASSUME AgentInv, DecisionInv, Node, pc = "enter",
         next = "revalidate" \/ (next = "await_approval" /\ decision # NoVal)
  PROVE  pc' = "ran" /\ world' = world
<1>1. CASE next = "revalidate"
  <2>1. revalidate
    BY <1>1, NodeNames DEF Node, AgentInv
  <2> QED
    BY <2>1 DEF revalidate, Return, Elsewhere
<1>2. CASE next = "await_approval" /\ decision # NoVal
  <2>1. Suspend \/ await_approval \/ EditRaises
    BY <1>2, NodeNames DEF Node, AgentInv
  <2>2. decision.edited_action = NoVal
    BY <1>2 DEF DecisionInv
  <2>3. await_approval
    BY <1>2, <2>1, <2>2 DEF Suspend, EditRaises
  <2> QED
    BY <2>3 DEF await_approval, Return, Elsewhere
<1> QED
  BY <1>1, <1>2

\* What changed before the first approval is found by the sweep after it.
LEMMA NextBlind ==
  /\ AgentInv /\ HarnessInv /\ DecisionInv /\ FlightInv /\ LogInv /\ DriftInv /\ BlindInv
  /\ [ScenarioNext]_scenarioVars
  => BlindInv'
<1> SUFFICES ASSUME AgentInv, HarnessInv, DecisionInv, FlightInv, LogInv, DriftInv, BlindInv,
                    [ScenarioNext]_scenarioVars, REVALIDATE, material'
             PROVE  DriftLogged' \/ Logged'.drift_detected \/ Overdue'
  BY DEF BlindInv
<1>1. CASE Writes
  <2>1. /\ pc = "ran" /\ InFlight /\ InFlight' /\ UNCHANGED <<next, upd, world, material>>
        /\ Logged = st /\ Logged' = upd /\ Ahead = next
    BY <1>1, WriteFacts DEF harnessVars
  <2>2. DriftLogged' <=> DriftLogged \/ (next = "replan" /\ st.status = "REVALIDATING")
    BY <1>1, DriftRecord
  <2>3. CASE Overdue
    BY <2>1, <2>3 DEF Overdue, Stale
  <2>4. CASE ~Overdue
    BY <2>1, <2>2, <2>4 DEF BlindInv, DriftInv
  <2> QED
    BY <2>3, <2>4
<1>2. ASSUME UNCHANGED <<log, Logged, material>>, Overdue => Overdue'
      PROVE  DriftLogged' \/ Logged'.drift_detected \/ Overdue'
  BY <1>2 DEF BlindInv, DriftLogged
<1>3. CASE start
  BY <1>2, <1>3, StartView DEF Overdue, InFlight
<1>4. CASE drive /\ Node
  <2>1. /\ UNCHANGED <<log, next, st, Logged, material>> /\ ~InFlight /\ pc # "ran"
        /\ pc' = "ran" => InFlight'
    BY <1>4, NodeFacts, NodeView DEF drive, harnessVars, InFlight
  <2>2. ASSUME Overdue
        PROVE  Overdue'
    <3>1. CASE next = "await_approval" /\ pc = "enter" /\ decision # NoVal /\ Stale(st)
      BY <1>4, <2>1, <3>1, NodeProceeds, NodeReturns DEF Overdue, Stale
    <3>2. CASE next = "revalidate" /\ pc = "enter" /\ Stale(st)
      BY <1>4, <2>1, <3>2, NodeProceeds, NodeReturns DEF Overdue, Stale
    <3> QED
      BY <2>1, <2>2, <3>1, <3>2 DEF Overdue
  <2> QED
    BY <1>2, <2>1, <2>2
<1>5. CASE drive /\ Checkpoint
  <2>1. /\ UNCHANGED <<log, world, material, Logged>> /\ pc = "logged" /\ InFlight /\ st' = upd
        /\ next' = Route(next, upd) /\ (next' # "END" => pc' = "enter")
    BY <1>5, CheckpointView DEF drive, harnessVars
  <2>2. ASSUME Overdue
        PROVE  Overdue'
    <3>1. next = "await_approval" /\ Stale(upd) /\ upd.approval_decision = "approved"
      BY <2>1, <2>2 DEF Overdue, FlightInv
    <3>2. Route(next, upd) = "revalidate"
      BY <3>1 DEF Route, route_after_approval
    <3> QED
      BY <2>1, <3>1, <3>2 DEF Overdue, Stale
  <2> QED
    BY <1>2, <2>1, <2>2
<1>6. CASE Around
  <2>1. UNCHANGED <<log, Logged, next, st>> /\ pc = "idle" /\ ~InFlight /\ ~Overdue
    BY <1>6, AroundView DEF Overdue
  <2>2. CASE material' = material
    BY <1>2, <2>1, <2>2
  <2>3. CASE material' # material
    <3>1. approve /\ Stale(st) /\ next = "await_approval"
      BY <1>6, <2>3 DEF Around, suspended, ended, raised, _apply_staleness_change, approve,
         HarnessInv, Stale
    <3>2. decision' # NoVal /\ pc' = "enter" /\ world' = world
      BY <3>1, ScenarioAssumption DEF approve, Resume, Elsewhere, Decisions
    <3> QED
      BY <2>1, <3>1, <3>2 DEF Overdue, Stale
  <2> QED
    BY <2>2, <2>3
<1>7. CASE UNCHANGED scenarioVars
  BY <1>2, <1>7 DEF scenarioVars, vars, agentVars, harnessVars, Logged, Overdue, InFlight, Stale
<1> QED
  BY <1>1, <1>3, <1>4, <1>5, <1>6, <1>7, StepCases

-----------------------------------------------------------------------------
(* Calls of the model.                                                     *)

\* The calls a log shows are finitely many.
LEMMA CallsFinite ==
  ASSUME NEW records \in Seq(AuditRecords)
  PROVE  IsFiniteSet(CallsIn(records)) /\ Cardinality(CallsIn(records)) \in Nat
<1>1. IsFiniteSet(1 .. Len(records))
  BY FS_Interval
<1>2. CallsIn(records) \subseteq 1 .. Len(records)
  BY DEF CallsIn
<1> QED
  BY <1>1, <1>2, FS_Subset, FS_CardinalityType

\* A record is one call more exactly if the node before it calls the model.
LEMMA CallsGrow ==
  ASSUME AgentInv, LogInv, Writes
  PROVE  Cardinality(CallsIn(log')) =
           Cardinality(CallsIn(log)) + (IF next \in Calls THEN 1 ELSE 0)
<1> DEFINE n == Len(log)
<1>1. /\ n \in Nat /\ DOMAIN log = 1 .. n /\ DOMAIN log' = 1 .. n + 1
      /\ \A i \in 1 .. n : log'[i] = log[i]
      /\ log'[n + 1].to_state = upd.status
  BY LogGrows DEF LogInv
<1>2. /\ next \in NODES /\ Ran(next, st, upd)
  BY WriteFacts
<1>3. upd.status \in {"DIAGNOSING", "ACTION_PROPOSED", "RISK_CLASSIFIED"} <=> next \in Calls
  BY <1>2 DEF NODES, Calls, Ran, Entered, Reviewing, Executing
<1> HIDE DEF n
<1>4. /\ \A i \in 1 .. n + 1 : i \in 1 .. n \/ i = n + 1
      /\ 1 .. n \subseteq 1 .. n + 1 /\ n + 1 \in 1 .. n + 1 /\ n + 1 \notin 1 .. n
  BY <1>1
<1>5. CallsIn(log') = IF next \in Calls THEN CallsIn(log) \cup {n + 1} ELSE CallsIn(log)
  BY <1>1, <1>3, <1>4 DEF CallsIn
<1>6. n + 1 \notin CallsIn(log)
  BY <1>1, <1>4 DEF CallsIn
<1>7. IsFiniteSet(CallsIn(log)) /\ Cardinality(CallsIn(log)) \in Nat
  BY CallsFinite DEF LogInv
<1> QED
  BY <1>5, <1>6, <1>7, FS_AddElement

\* A node calls the model once if at all, from its beginning to its end.
LEMMA NodeCalls ==
  ASSUME AgentInv, drive, Node
  PROVE  /\ next \in Calls => pc' = "ran" /\ llm_calls' = llm_calls + 1
         /\ next \notin Calls => llm_calls' = llm_calls
<1>1. next \in Calls => pc = "enter"
  BY NodeFacts DEF Calls
<1>2. next \in Calls => pc' = "ran"
  <2>1. next \in Calls => diagnose \/ propose_action \/ classify_risk
    BY NodeNames DEF Node, AgentInv, Calls
  <2> QED
    BY <2>1 DEF diagnose, propose_action, classify_risk, Return
<1> QED
  BY <1>1, <1>2 DEF drive

\* Every call was logged or is of the node in flight, and a cycle of the
\* budget has two.
LEMMA NextCost ==
  AgentInv /\ HarnessInv /\ LogInv /\ CostInv /\ [ScenarioNext]_scenarioVars => CostInv'
<1> SUFFICES ASSUME AgentInv, HarnessInv, LogInv, CostInv, [ScenarioNext]_scenarioVars
             PROVE  CostInv'
  OBVIOUS
<1> DEFINE logged == Cardinality(CallsIn(log))
           cycles == Logged.replan_cycles
<1>0. logged \in Nat /\ MAX_REPLAN_CYCLES \in Nat
  BY CallsFinite, AgentGraphAssumption DEF LogInv
<1>1. CASE Writes
  <2>1. /\ next \in NODES \ {"none", "END"} /\ Ran(next, st, upd) /\ pc = "ran" /\ pc' = "logged"
        /\ Logged = st /\ Logged' = upd /\ Ahead = next /\ Ahead' = Route(next, upd)
        /\ next' = next /\ llm_calls' = llm_calls /\ st \in AgentState
    BY <1>1, WriteFacts DEF meters
  <2>2. logged' = logged + (IF next \in Calls THEN 1 ELSE 0)
    BY <1>1, CallsGrow
  <2>3. llm_calls' = logged'
    BY <1>0, <2>1, <2>2 DEF CostInv
  <2>4. /\ st.replan_cycles \in Nat
        /\ upd.replan_cycles = IF next = "replan" THEN st.replan_cycles + 1 ELSE st.replan_cycles
    BY <2>1 DEF AgentState, Ran
  <2>5. next # "escalate" => st.replan_cycles < MAX_REPLAN_CYCLES
    <3>1. starts <= 1 /\ Room(next, st, Extra)
      BY DEF HarnessInv, AgentInv, BudgetInv
    <3>2. Extra = 0
      BY <3>1 DEF Extra, HarnessInv
    <3> QED
      BY <1>0, <2>1, <2>4, <3>1, <3>2 DEF Room
  <2>6. Ahead' \notin {"none", "diagnose"}
    BY <2>1, RouteForward
  <2> HIDE DEF logged
  <2>7. CASE next = "diagnose"
    BY <1>0, <2>1, <2>2, <2>3, <2>4, <2>5, <2>7 DEF CostInv, logged, Calls, Route
  <2>8. CASE next = "propose_action"
    BY <1>0, <2>1, <2>2, <2>3, <2>4, <2>5, <2>8 DEF CostInv, logged, Calls, Route,
       route_after_proposal
  <2>9. CASE next = "classify_risk"
    BY <1>0, <2>1, <2>2, <2>3, <2>4, <2>5, <2>9 DEF CostInv, logged, Calls, Route,
       route_after_risk_classification
  <2>10. CASE next = "replan"
    BY <1>0, <2>1, <2>2, <2>3, <2>4, <2>5, <2>10 DEF CostInv, logged, Calls, Route,
       route_after_replan
  <2>11. CASE next \notin Calls \cup {"replan"}
    <3>1. Ahead' \notin {"none", "diagnose", "propose_action", "classify_risk"}
      BY <2>1, <2>6, <2>11, RouteSources DEF Calls
    <3>2. logged' = logged /\ upd.replan_cycles = st.replan_cycles
      BY <1>0, <2>2, <2>4, <2>11
    <3>3. logged <= 1 + 2 * MAX_REPLAN_CYCLES /\ logged <= 3 + 2 * st.replan_cycles
      BY <2>1, <2>11 DEF CostInv, logged, Calls
    <3> QED
      BY <2>1, <2>3, <2>11, <3>1, <3>2, <3>3 DEF CostInv, logged
  <2> QED
    BY <2>7, <2>8, <2>9, <2>10, <2>11 DEF Calls
<1> DEFINE pending == IF pc = "ran" /\ next \in Calls THEN 1 ELSE 0
<1>2. ASSUME UNCHANGED <<log, Logged, Ahead>>, llm_calls' = llm_calls + pending' - pending
      PROVE  CostInv'
  <2>1. logged' = logged
    BY <1>2
  <2>2. llm_calls = logged + pending
    BY DEF CostInv
  <2>3. pending \in Nat /\ pending' \in Nat
    OBVIOUS
  <2>4. llm_calls' = logged' + pending'
    <3> HIDE DEF logged, pending
    <3> QED
      BY <1>0, <1>2, <2>1, <2>2, <2>3
  <2> QED
    BY <1>2, <2>1, <2>4 DEF CostInv
<1>3. llm_calls \in Nat
  BY <1>0 DEF CostInv
<1>4. CASE start
  <2>1. /\ UNCHANGED <<log, Logged, llm_calls>> /\ Ahead = "none" /\ Ahead' = "diagnose"
        /\ pc # "ran" /\ pc' # "ran"
    BY <1>4, StartView
  <2> QED
    BY <2>1 DEF CostInv
<1>5. CASE drive /\ Node
  <2>1. UNCHANGED <<log, Logged, Ahead, next>> /\ pc # "ran"
    BY <1>5, NodeFacts, NodeView DEF drive
  <2>2. CASE next \in Calls
    BY <1>2, <1>3, <1>5, <2>1, <2>2, NodeCalls
  <2>3. CASE next \notin Calls
    BY <1>2, <1>3, <1>5, <2>1, <2>3, NodeCalls
  <2> QED
    BY <2>2, <2>3
<1>6. CASE drive /\ Checkpoint
  <2>1. UNCHANGED <<log, Logged, Ahead, llm_calls>> /\ pc # "ran" /\ pc' # "ran"
    BY <1>6, CheckpointView DEF drive
  <2> QED
    BY <1>2, <1>3, <2>1
<1>7. CASE Around
  <2>1. llm_calls' = llm_calls
    BY <1>7 DEF Around, suspended, ended, raised, _apply_staleness_change, approve, meters
  <2>2. UNCHANGED <<log, Logged, Ahead>> /\ pc # "ran" /\ pc' # "ran"
    BY <1>7, AroundView
  <2> QED
    BY <1>2, <1>3, <2>1, <2>2
<1>8. CASE UNCHANGED scenarioVars
  <2>1. UNCHANGED <<log, Logged, Ahead, llm_calls, pc, next>>
    BY <1>8 DEF scenarioVars, vars, agentVars, meters, Logged, Ahead
  <2> QED
    BY <1>2, <1>3, <2>1
<1> QED
  BY <1>1, <1>4, <1>5, <1>6, <1>7, <1>8, StepCases

-----------------------------------------------------------------------------
(* What the reports promise.                                               *)

\* Everything holds before the run exists.
LEMMA InitScenario == ScenarioInit => AgentInv /\ ScenarioInv
<1> SUFFICES ASSUME ScenarioInit
             PROVE  AgentInv /\ ScenarioInv
  OBVIOUS
<1>1. /\ next = "none" /\ st = NewState /\ pc = "idle" /\ decision = NoVal
      /\ audit = [last |-> NoVal, complete |-> TRUE] /\ starts = 0
      /\ applied = [a \in Acts |-> 0] /\ undone = [compensations |-> 0, failures |-> 0]
      /\ harness = "new" /\ log = <<>> /\ classified = NoVal /\ llm_calls = 0
      /\ waited = FALSE /\ drift_detected_overall = FALSE /\ material = FALSE
  BY DEF ScenarioInit, Init
<1>2. Logged = NewState /\ Ahead = "none" /\ ~InFlight
  BY <1>1 DEF Logged, Ahead, InFlight
<1>3. AgentInv
  <2>1. DoneInv
    BY <1>1, <1>2, NoneAssumption DEF NewState, DoneInv, Done, States
  <2> QED
    BY <2>1, InitType, InitLife, InitLedger, InitBudget DEF ScenarioInit, AgentInv
<1>4. HarnessInv /\ DecisionInv /\ FlightInv /\ ListInv
  BY <1>1, <1>2 DEF ScenarioInit, HarnessInv, DecisionInv, FlightInv, ListInv
<1>5. DOMAIN log = {} /\ Len(log) = 0 /\ log \in Seq(AuditRecords)
  BY <1>1
<1>6. LogInv
  BY <1>1, <1>2, <1>5 DEF LogInv, is_complete_chain
<1>7. executed_actions = {} /\ proposed_actions = {} /\ ~rollback_invoked /\ CallsIn(log) = {}
  BY <1>5 DEF executed_actions, proposed_actions, rollback_invoked, CallsIn
<1>8. ProposalInv /\ FinalInv /\ WaitedInv
  BY <1>1, <1>2, <1>7, ScenarioAssumption DEF ProposalInv, FinalInv, WaitedInv, NewState,
     RiskTiers
<1>9. ExecutedInv /\ UndoneInv
  BY <1>1, <1>2, <1>7 DEF ExecutedInv, Unverified, Reported, UndoneInv
<1>10. ~DriftLogged
  BY <1>5 DEF DriftLogged
<1>11. DriftInv /\ BlindInv
  BY <1>1, <1>2, <1>10 DEF DriftInv, BlindInv, NewState
<1>12. TierInv
  BY <1>1, <1>2 DEF TierInv, NewState, Maybe
<1>13. CostInv
  <2>1. Cardinality(CallsIn(log)) = 0
    BY <1>7, FS_EmptySet
  <2> QED
    BY <1>1, <1>2, <2>1, AgentGraphAssumption DEF CostInv
<1> QED
  BY <1>3, <1>4, <1>6, <1>8, <1>9, <1>11, <1>12, <1>13 DEF ScenarioInv

\* ... and is kept by every step of the harness.
LEMMA NextScenario ==
  AgentInv /\ ScenarioInv /\ [ScenarioNext]_scenarioVars => (AgentInv /\ ScenarioInv)'
BY NextAgent, NextHarness, NextDecision, NextList, NextFlight, NextLog, NextProposal, NextExecuted,
   NextUndone, NextFinal, NextWaited, NextDrift, NextBlind, NextTier, NextCost
   DEF ScenarioInv

\* The invariant holds throughout a scenario.
LEMMA ScenarioHolds == ScenarioSpec => [](AgentInv /\ ScenarioInv)
BY InitScenario, NextScenario, PTL DEF ScenarioSpec

\* What is known of a run whose record is returned.
LEMMA AtTheEnd ==
  ASSUME AgentInv, ScenarioInv, Finished
  PROVE  /\ pc = "idle" /\ next = "END" /\ ~InFlight /\ Logged = st /\ Ahead = "END"
         /\ st.final_state = st.status /\ st.status \in {"COMPLETED", "ESCALATED"}
         /\ st.proposed_action # NoVal
         /\ log # <<>> /\ Len(log) \in DOMAIN log /\ 1 \in DOMAIN log
         /\ log[1].to_state = "DIAGNOSING" /\ log[Len(log)].to_state = st.final_state
<1>1. pc = "idle" /\ next = "END"
  BY DEF Finished, ScenarioInv, HarnessInv
<1>2. ~InFlight /\ Logged = st /\ Ahead = "END"
  BY <1>1 DEF InFlight, Logged, Ahead
<1>3. st.final_state = st.status /\ st.proposed_action # NoVal
  BY <1>2 DEF ScenarioInv, FinalInv, ProposalInv
<1>4. st.status \in {"COMPLETED", "ESCALATED"}
  BY <1>1 DEF AgentInv, LifeInv, Placed
<1>5. /\ log \in Seq(AuditRecords) /\ log # <<>>
      /\ log[1].to_state = "DIAGNOSING" /\ log[Len(log)].to_state = st.status
  BY <1>2 DEF ScenarioInv, LogInv
<1>6. Len(log) \in DOMAIN log /\ 1 \in DOMAIN log
  BY <1>5
<1> QED
  BY <1>1, <1>2, <1>3, <1>4, <1>5, <1>6

\* Whatever is proposed, decided and changed: the actions a record calls
\* executed are those whose side effect happened, its rollbacks are those that
\* were applied, and its remediations are those the log ends with
\* (run_scenario's comprehensions over the audit log).
THEOREM ReportsAreTrue == ScenarioSpec => []ReportIsTrue
<1>1. AgentInv /\ ScenarioInv => ReportIsTrue
  <2> SUFFICES ASSUME AgentInv, ScenarioInv, Finished
               PROVE  /\ Reported(executed_actions) = {a \in Acts : applied[a] > 0}
                      /\ Reported(executed_actions) \subseteq Reported(proposed_actions)
                      /\ rollback_invoked <=> undone.compensations > 0
                      /\ rollback_success
                      /\ remediated <=> replay_run(log)[Len(log)] = "COMPLETED"
    BY DEF ReportIsTrue
  <2>1. ~Unverified
    BY AtTheEnd DEF Unverified
  <2>2. /\ Reported(executed_actions) = {a \in Acts : applied[a] > 0}
        /\ Reported(executed_actions) \subseteq Reported(proposed_actions)
    BY <2>1 DEF ScenarioInv, ExecutedInv
  <2>3. rollback_invoked <=> undone.compensations > 0
    BY AtTheEnd DEF ScenarioInv, UndoneInv
  <2>4. rollback_success
    BY AtTheEnd DEF rollback_success
  <2>5. replay_run(log)[Len(log)] = st.final_state
    BY AtTheEnd DEF replay_run
  <2>6. st.final_state = "COMPLETED" => st.verification_passed = TRUE
    BY AtTheEnd DEF AgentInv, DoneInv, Done
  <2> QED
    BY <2>2, <2>3, <2>4, <2>5, <2>6 DEF remediated
<1> QED
  BY <1>1, ScenarioHolds, PTL

\* Over every history of replans, a run whose last tier is gated waited for an
\* approval: approval_gate_compliance is 100 % (metrics.py:72).
THEOREM GateComplianceIsFull == ScenarioSpec => []GateIsCompliant
<1>1. AgentInv /\ ScenarioInv => GateIsCompliant
  <2> SUFFICES ASSUME AgentInv, ScenarioInv, Finished, gated
               PROVE  waited
    BY DEF GateIsCompliant, gate_compliant
  <2>1. Logged.risk_tier_final \in {"medium", "high"} /\ Ahead = "END"
    BY AtTheEnd DEF gated
  <2> QED
    BY <2>1 DEF ScenarioInv, WaitedInv, Reviewing
<1> QED
  BY <1>1, ScenarioHolds, PTL

\* The verdict on drift is that of the log, however many clean revalidations
\* came after the one that found it (drift_detected_overall).
THEOREM DriftVerdictIsOfTheLog == ScenarioSpec => []DriftIsReported
<1>1. AgentInv /\ ScenarioInv => DriftIsReported
  <2> SUFFICES ASSUME AgentInv, ScenarioInv, Finished
               PROVE  drift_detected_overall <=> DriftLogged
    BY DEF DriftIsReported, DriftLogged
  <2>1. Collected
    BY DEF Finished, Collected
  <2> QED
    BY <2>1 DEF ScenarioInv, DriftInv
<1> QED
  BY <1>1, ScenarioHolds, PTL

\* With revalidation on, no change that touched what the first approved action
\* rests on is overlooked (staleness_incorrect_execution_count).
THEOREM NoChangeIsOverlooked == ScenarioSpec => []NothingExecutedBlindly
<1>1. AgentInv /\ ScenarioInv => NothingExecutedBlindly
  <2> SUFFICES ASSUME AgentInv, ScenarioInv, Finished, REVALIDATE, material
               PROVE  drift_detected_overall
    BY DEF NothingExecutedBlindly, executed_despite_drift
  <2>1. ~Overdue
    BY AtTheEnd DEF Overdue
  <2>2. DriftLogged
    BY <2>1, AtTheEnd DEF ScenarioInv, BlindInv, DriftInv
  <2>3. Collected
    BY DEF Finished, Collected
  <2> QED
    BY <2>2, <2>3 DEF ScenarioInv, DriftInv
<1> QED
  BY <1>1, ScenarioHolds, PTL

\* The log alone replays the run, and at every moment the fold the agent keeps
\* of it says what the log says (replay_run, is_complete_chain).
THEOREM LogsReplay == ScenarioSpec => []LogReplays
<1>1. AgentInv /\ ScenarioInv => LogReplays
  <2> SUFFICES ASSUME AgentInv, ScenarioInv
               PROVE  LogReplays
    OBVIOUS
  <2>1. audit.complete /\ is_complete_chain(log)
    BY DEF ScenarioInv, LogInv
  <2>2. log # <<>> => audit.last = log[Len(log)].to_state
    BY DEF ScenarioInv, LogInv
  <2>3. Finished => /\ log # <<>> /\ replay_run(log)[1] = "DIAGNOSING"
                    /\ replay_run(log)[Len(log)] = st.final_state
    BY AtTheEnd DEF replay_run
  <2> QED
    BY <2>1, <2>2, <2>3 DEF LogReplays
<1> QED
  BY <1>1, ScenarioHolds, PTL

\* The tier a run is counted with is that of the tool it is counted under
\* (metrics.py:84 and 125, risk_classification_precision_recall_f1_by_tool).
THEOREM TiersAreOfTheirTool == ScenarioSpec => []TierIsOfItsTool
<1>1. AgentInv /\ ScenarioInv => TierIsOfItsTool
  <2> SUFFICES ASSUME AgentInv, ScenarioInv, Finished, ~st.invalid_proposal_reason
               PROVE  /\ by_tool = classified.action.tool
                      /\ overridden <=>
                           \/ floored
                           \/ by_tool \in FORCED_HIGH_TOOLS /\ classified.risk_tier_llm # "high"
    BY DEF TierIsOfItsTool
  <2>1. Fit(st.proposed_action)
    BY AtTheEnd DEF ScenarioInv, TierInv
  <2>2. by_tool = st.proposed_action.tool
    <3>1. PICK i \in proposed_actions : /\ \A j \in proposed_actions : j <= i
                                        /\ log[i].action_proposed = st.proposed_action
      BY AtTheEnd DEF ScenarioInv, ProposalInv
    <3>2. proposed_actions \subseteq Nat
      BY DEF proposed_actions, ScenarioInv, LogInv
    <3>3. \A k \in proposed_actions : (\A j \in proposed_actions : j <= k) <=> k = i
      BY <3>1, <3>2
    <3>4. (CHOOSE k \in proposed_actions : \A j \in proposed_actions : j <= k) = i
      BY <3>1, <3>3
    <3> QED
      BY <3>1, <3>4 DEF by_tool
  <2> QED
    BY <2>1, <2>2 DEF Fit, overridden, floored
<1> QED
  BY <1>1, ScenarioHolds, PTL

\* What a run costs is what its log shows, and the replan budget bounds it
\* (cost_per_run's llm_calls).
THEOREM CostsAreLogged == ScenarioSpec => []CostIsLogged
<1>1. AgentInv /\ ScenarioInv => CostIsLogged
  <2> SUFFICES ASSUME AgentInv, ScenarioInv, Finished
               PROVE  /\ llm_calls = Cardinality(CallsIn(log))
                      /\ llm_calls <= 1 + 2 * MAX_REPLAN_CYCLES
    BY DEF CostIsLogged, CallsIn
  <2>1. Cardinality(CallsIn(log)) \in Nat
    BY CallsFinite DEF ScenarioInv, LogInv
  <2>2. /\ llm_calls = Cardinality(CallsIn(log)) + (IF pc = "ran" /\ next \in Calls THEN 1 ELSE 0)
        /\ Cardinality(CallsIn(log)) <= 1 + 2 * MAX_REPLAN_CYCLES
    BY DEF ScenarioInv, CostInv
  <2> QED
    BY <2>1, <2>2, AtTheEnd
<1> QED
  BY <1>1, ScenarioHolds, PTL

-----------------------------------------------------------------------------
(* The harness ends.                                                       *)

\* What a suspension adds to what is left of the run.
Waiting == next = "await_approval" /\ decision = NoVal

\* The terms of the measure are numbers, before a step and after it.
LEMMA StepsLeftType ==
  ASSUME AgentInv, AgentInv'
  PROVE  /\ StepsLeft \in Int /\ StepsLeft' \in Int
         /\ RunLeft = StepsLeft + (IF Waiting THEN 6 ELSE 0)
         /\ RunLeft' = StepsLeft' + (IF Waiting' THEN 6 ELSE 0)
<1>1. /\ st.replan_cycles \in Nat /\ st'.replan_cycles \in Nat
      /\ Extra \in Nat /\ Extra' \in Nat /\ MAX_REPLAN_CYCLES \in Nat
  <2>1. st.replan_cycles \in Nat /\ Extra \in Nat /\ MAX_REPLAN_CYCLES \in Nat
    BY BudgetTypes DEF AgentInv
  <2> QED
    BY <2>1 DEF AgentInv, TypeInv, TypeOK, AgentState, Extra
<1>2. /\ NodesLeft(next) \in 0 .. 14 /\ NodesLeft(next') \in 0 .. 14
      /\ PhasesLeft(pc) \in 0 .. 5 /\ PhasesLeft(pc') \in 0 .. 5
  BY NodesLeftType, PhasesLeftType
<1>3. StepsLeft \in Int /\ StepsLeft' \in Int
  BY <1>1, <1>2 DEF StepsLeft
<1> QED
  BY <1>3 DEF RunLeft, Waiting

\* A step of the graph, driven by the harness, does not suspend it for nothing.
LEMMA DriveSpends ==
  ASSUME AgentInv, AgentInv', DecisionInv, Process
  PROVE  0 <= RunLeft' /\ RunLeft' < RunLeft
<1>1. 0 <= StepsLeft' /\ StepsLeft' < StepsLeft
  BY ProcessSpends DEF AgentInv
<1>2. CASE ~Waiting' \/ Waiting
  BY <1>1, <1>2, StepsLeftType
<1>3. CASE Waiting' /\ ~Waiting
  <2>1. ~Node
    <3> SUFFICES ASSUME Node PROVE FALSE
      OBVIOUS
    <3>1. /\ next' = next /\ decision' = IF pc' = "idle" THEN NoVal ELSE decision
      BY NodeFacts
    <3>2. /\ next = "await_approval" /\ decision # NoVal /\ pc' = "idle"
          /\ decision.edited_action = NoVal
      BY <3>1, <1>3 DEF Waiting, DecisionInv
    <3>3. pc = "enter"
      BY <3>2, NodeFacts
    <3>4. Suspend \/ await_approval \/ EditRaises
      BY <3>2, <3>3 DEF Node, diagnose, propose_action, classify_risk, mark_awaiting_approval,
         revalidate, prepare_execution, execute_replay, execute_lookup, execute_perform,
         execute_record, ExecuteRaises, verify, rolling_back, RollbackRaises, rolled_back, replan,
         completed, escalate, At
    <3> QED
      BY <3>2, <3>4 DEF Suspend, await_approval, EditRaises, Return
  <2>2. ~WriteAudit
    BY <1>3 DEF WriteAudit, Waiting
  <2>3. Checkpoint
    BY <2>1, <2>2 DEF Process
  <2>4. /\ next \in NODES /\ st' = upd /\ next' = Route(next, upd) /\ starts' = starts
        /\ InFlight /\ next' = "await_approval"
    BY <1>3, <2>3, CheckpointReads DEF AgentInv, Waiting
  <2>5. next = "mark_awaiting_approval"
    <3>1. next \in NODES /\ Route(next, upd) = "await_approval"
      BY <2>4
    <3> QED
      BY <3>1, RouteSources
  <2>6. st'.replan_cycles = st.replan_cycles /\ Extra' = Extra
    BY <2>4, <2>5 DEF AgentInv, LifeInv, Ran, Extra
  <2>7. /\ NodesLeft(next) = 10 /\ NodesLeft(next') = 9
        /\ PhasesLeft(pc) = 1 /\ PhasesLeft(pc') \in 0 .. 5
    BY <2>3, <2>4, <2>5, NodesLeftOf, PhasesLeftType DEF Checkpoint, PhasesLeft
  <2>8. /\ st.replan_cycles \in Nat /\ Extra \in Nat /\ MAX_REPLAN_CYCLES \in Nat
    BY BudgetTypes DEF AgentInv
  <2>9. StepsLeft' + 6 < StepsLeft
    BY <2>6, <2>7, <2>8 DEF StepsLeft
  <2> QED
    BY <1>1, <1>3, <2>9, StepsLeftType
<1> QED
  BY <1>2, <1>3

\* What happens to the run outside a step of the graph: it starts, or it is
\* answered, or it stands still while the harness goes on.
LEMMA ScenarioSpends ==
  ASSUME AgentInv, AgentInv', HarnessInv, DecisionInv, ListInv, ListInv', ScenarioNext
  PROVE  /\ 0 <= RunLeft' /\ 0 <= HarnessLeft'
         /\ \/ RunLeft' < RunLeft
            \/ RunLeft' = RunLeft /\ HarnessLeft' < HarnessLeft
<1>1. /\ Len(scenario) \in Nat /\ Len(changes) \in Nat
      /\ Len(scenario') \in Nat /\ Len(changes') \in Nat
  BY ScenarioAssumption DEF ListInv
<1>2. 0 <= HarnessLeft'
  BY <1>1 DEF HarnessLeft
<1>3. /\ st.replan_cycles \in Nat /\ Extra \in Nat /\ MAX_REPLAN_CYCLES \in Nat
      /\ Room(next, st, Extra)
  BY BudgetTypes DEF AgentInv, BudgetInv
<1>4. st.replan_cycles <= MAX_REPLAN_CYCLES + Extra
  BY <1>3 DEF Room
<1>5. NodesLeft(next) \in 0 .. 14 /\ PhasesLeft(pc) \in 0 .. 5
  BY NodesLeftType, PhasesLeftType
<1>6. 0 <= StepsLeft
  BY <1>3, <1>4, <1>5 DEF StepsLeft
<1>7. CASE drive
  BY <1>2, <1>7, DriveSpends DEF drive
<1>8. CASE start
  <2>1. /\ next = "none" /\ pc = "idle" /\ starts = 0
        /\ next' = "diagnose" /\ pc' = "enter" /\ starts' = 1 /\ st' = st
    BY <1>8 DEF start, Start, HarnessInv
  <2>2. /\ NodesLeft(next) = 14 /\ NodesLeft(next') = 13
        /\ PhasesLeft(pc) = 0 /\ PhasesLeft(pc') = 5
    BY <2>1, NodesLeftOf DEF NodesLeft, PhasesLeft
  <2>3. Extra = 0 /\ Extra' = 0
    BY <2>1 DEF Extra
  <2>4. 0 <= StepsLeft' /\ StepsLeft' < StepsLeft
    BY <1>3, <1>4, <2>1, <2>2, <2>3 DEF StepsLeft
  <2>5. ~Waiting /\ ~Waiting'
    BY <2>1 DEF Waiting
  <2> QED
    BY <1>2, <2>4, <2>5, StepsLeftType
<1>9. CASE approve
  <2>1. /\ next = "await_approval" /\ pc = "idle" /\ decision = NoVal
        /\ next' = next /\ pc' = "enter" /\ decision' \in Decisions
        /\ st' = st /\ starts' = starts
    BY <1>9 DEF approve, Resume, HarnessInv, DecisionInv, history
  <2>2. Waiting /\ ~Waiting'
    BY <2>1, ScenarioAssumption DEF Waiting
  <2>3. PhasesLeft(pc) = 0 /\ PhasesLeft(pc') = 5
    BY <2>1 DEF PhasesLeft
  <2>4. Extra' = Extra
    BY <2>1 DEF Extra
  <2>5. StepsLeft' = StepsLeft + 5
    BY <1>3, <1>5, <2>1, <2>3, <2>4 DEF StepsLeft
  <2> QED
    BY <1>2, <1>6, <2>2, <2>5, StepsLeftType
<1>10. CASE suspended \/ ended \/ raised \/ _apply_staleness_change
  <2>1. UNCHANGED <<next, pc, st, starts, decision>>
    BY <1>10 DEF suspended, ended, raised, _apply_staleness_change, vars, agentVars, history
  <2>2. StepsLeft' = StepsLeft /\ (Waiting' <=> Waiting)
    BY <2>1 DEF StepsLeft, Extra, Waiting
  <2>3. 0 <= RunLeft' /\ RunLeft' = RunLeft
    BY <1>6, <2>2, StepsLeftType
  <2>4. HarnessLeft' < HarnessLeft
    <3>1. CASE suspended
      BY <1>1, <3>1 DEF suspended, HarnessLeft
    <3>2. CASE ended \/ raised
      BY <1>1, <3>2 DEF ended, raised, HarnessLeft
    <3>3. CASE _apply_staleness_change
      <4>1. Len(changes') < Len(changes)
        BY <3>3 DEF _apply_staleness_change, ListInv
      <4> QED
        BY <1>1, <3>3, <4>1 DEF _apply_staleness_change, HarnessLeft
    <3> QED
      BY <1>10, <3>1, <3>2, <3>3
  <2> QED
    BY <1>2, <2>3, <2>4
<1> QED
  BY <1>7, <1>8, <1>9, <1>10 DEF ScenarioNext

\* run_scenario ends, for every cap, every list of changes and every proposal:
\* its loop carries no bound, the graph it drives does.
THEOREM ScenariosTerminate == ScenarioSpec => ScenariosEnd
<1>1. AgentInv /\ ScenarioInv /\ (AgentInv /\ ScenarioInv)' /\ [ScenarioNext]_scenarioVars
        => [/\ 0 <= RunLeft' /\ 0 <= HarnessLeft'
            /\ \/ RunLeft' < RunLeft
               \/ RunLeft' = RunLeft /\ HarnessLeft' < HarnessLeft]_scenarioVars
  BY ScenarioSpends DEF ScenarioInv
<1> QED
  BY <1>1, ScenarioHolds, PTL DEF ScenarioSpec, ScenariosEnd
=============================================================================
