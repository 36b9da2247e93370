------------------------ MODULE ScenarioRunInvariants ------------------------
(***************************************************************************)
(* The inductive strengthening of the properties of ScenarioRun, above the *)
(* invariants of AgentGraphInvariants.                                     *)
(*                                                                         *)
(* The log is followed from record to record: Logged is the state as of    *)
(* the last record and Ahead the node that runs next.  A node's body and   *)
(* its checkpoint change neither, so most parts are disturbed by           *)
(* WriteAudit alone.                                                       *)
(***************************************************************************)
EXTENDS ScenarioRun, AgentGraphInvariants

Logged == IF pc = "logged" THEN upd ELSE st
Ahead  == IF pc = "logged" THEN Route(next, upd) ELSE next

AuditRecords ==
  [from_state : Maybe(States), to_state : Maybe(States), action_proposed : Maybe(Acts)]

\* The harness starts the run once and waits only where it may.
HarnessInv ==
  /\ harness \in {"new", "running", "suspended", "finished", "raised"}
  /\ harness = "new" => starts = 0 /\ next = "none" /\ pc = "idle"
  /\ harness # "new" => starts = 1 /\ next # "none"
  /\ harness = "suspended" => pc = "idle" /\ next = "await_approval"
  /\ harness = "finished" => pc = "idle" /\ next = "END"

\* It only ever approves, and only what waited.
DecisionInv ==
  decision # NoVal =>
    /\ decision = [decision |-> "approved", edited_action |-> NoVal]
    /\ next = "await_approval" /\ waited /\ pc # "idle"

\* The changes are those of the scenario, or what is left of them.
ListInv == scenario \in StalenessInjections /\ changes \in Seq(StalenessChanges)

\* A classification is of the action a, and raised for one of two reasons.
Fit(a) ==
  /\ classified # NoVal /\ classified.action = a
  /\ classified.risk_tier_llm # classified.risk_tier_final <=>
       \/ classified.redundancy_floor_applied
       \/ a.tool \in FORCED_HIGH_TOOLS /\ classified.risk_tier_llm # "high"

\* What a node in flight made of the fields LifeInv leaves open.
FlightInv ==
  InFlight =>
    /\ next = "propose_action" => upd.proposed_action # NoVal
    /\ next = "await_approval" =>
         /\ waited /\ upd.approval_decision = "approved"
         /\ upd.proposed_action = st.proposed_action
         /\ upd.state_fingerprint = st.state_fingerprint
    /\ next = "classify_risk" => Fit(st.proposed_action)
    /\ next \in {"completed", "escalate"} => upd.final_state = upd.status

-----------------------------------------------------------------------------
(* The log.                                                                *)

LogInv ==
  /\ log \in Seq(AuditRecords)
  /\ log = <<>> <=> Ahead \in {"none", "diagnose"}
  /\ log = <<>> => Logged = NewState
  /\ log # <<>> => /\ log[1].to_state = "DIAGNOSING"
                   /\ log[Len(log)].to_state = Logged.status
  /\ is_complete_chain(log)
  /\ audit.complete
  /\ audit.last = IF log = <<>> THEN NoVal ELSE Logged.status

\* The latest proposal of the log is the action of the state.
ProposalInv ==
  /\ Ahead \notin {"none", "diagnose", "propose_action"} => Logged.proposed_action # NoVal
  /\ Logged.proposed_action # NoVal =>
       \E i \in proposed_actions : /\ \A j \in proposed_actions : j <= i
                                   /\ log[i].action_proposed = Logged.proposed_action

\* A side effect is waiting for its VERIFYING record.
Unverified == Ahead = "verify" \/ (next = "execute" /\ pc \in {"record", "ran"})

ExecutedInv ==
  /\ Reported(executed_actions) \cup (IF Unverified THEN {Logged.proposed_action} ELSE {})
       = {a \in Acts : applied[a] > 0}
  /\ Reported(executed_actions) \subseteq Reported(proposed_actions)

UndoneInv ==
  undone.compensations > 0 <=> rollback_invoked \/ (next = "rolling_back" /\ pc = "ran")

FinalInv == Ahead = "END" => Logged.final_state = Logged.status

\* A run is past the gate only if it waited there.
WaitedInv == Logged.risk_tier_final \in {"medium", "high"} => waited \/ Ahead \in Reviewing

-----------------------------------------------------------------------------
(* Drift.                                                                  *)

DriftLogged ==
  \E i \in 2 .. Len(log) : /\ log[i - 1].to_state = "REVALIDATING"
                           /\ log[i].to_state = "REPLANNING"

\* The harness has looked at drift_detected since it last was found.
Collected ==
  \/ harness \in {"suspended", "finished"}
  \/ next = "await_approval" /\ (decision # NoVal \/ InFlight)
  \/ Ahead = "revalidate"

DriftInv ==
  /\ drift_detected_overall => DriftLogged
  /\ DriftLogged => drift_detected_overall \/ Logged.drift_detected
  /\ DriftLogged /\ Collected => drift_detected_overall
  /\ Logged.drift_detected => DriftLogged \/ (Logged.status = "REVALIDATING" /\ Ahead = "replan")

Stale(s) ==
  compute_fingerprint(gather_observations(world), s.proposed_action) # s.state_fingerprint

\* The revalidation that will find the change is still to come.
Overdue ==
  \/ /\ next = "await_approval"
     /\ \/ pc = "enter" /\ decision # NoVal /\ Stale(st)
        \/ InFlight /\ Stale(upd)
  \/ /\ next = "revalidate"
     /\ \/ pc = "enter" /\ Stale(st)
        \/ pc = "ran" /\ upd.drift_detected

BlindInv == REVALIDATE /\ material => DriftLogged \/ Logged.drift_detected \/ Overdue

-----------------------------------------------------------------------------
(* Tiers and calls.                                                        *)

TierInv ==
  /\ classified \in Maybe(Classifications)
  /\ Logged.proposed_action # NoVal /\ ~Logged.invalid_proposal_reason /\ Ahead # "classify_risk"
       => Fit(Logged.proposed_action)

CallsIn(records) ==
  {i \in DOMAIN records :
     records[i].to_state \in {"DIAGNOSING", "ACTION_PROPOSED", "RISK_CLASSIFIED"}}

CostInv ==
  LET logged == Cardinality(CallsIn(log)) IN
  /\ llm_calls = logged + (IF pc = "ran" /\ next \in Calls THEN 1 ELSE 0)
  /\ logged <= 1 + 2 * MAX_REPLAN_CYCLES
  /\ CASE Ahead \in {"none", "diagnose"} -> logged = 0
       [] Ahead = "propose_action"       -> logged <= 1 + 2 * Logged.replan_cycles
       [] Ahead = "classify_risk"        -> logged <= 2 + 2 * Logged.replan_cycles
       [] OTHER                          -> logged <= 3 + 2 * Logged.replan_cycles

-----------------------------------------------------------------------------
AgentInv == TypeInv /\ LifeInv /\ LedgerInv /\ DoneInv /\ BudgetInv

ScenarioInv ==
  /\ HarnessInv /\ DecisionInv /\ ListInv /\ FlightInv
  /\ LogInv /\ ProposalInv /\ ExecutedInv /\ UndoneInv /\ FinalInv /\ WaitedInv
  /\ DriftInv /\ BlindInv
  /\ TierInv /\ CostInv
=============================================================================
