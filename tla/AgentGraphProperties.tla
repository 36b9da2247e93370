------------------------ MODULE AgentGraphProperties ------------------------
(***************************************************************************)
(* What one run of the agent promises: the approval gate, the ledger, the  *)
(* rollback, the replan budget and the audit chain, across crashes,        *)
(* restarts and a sandbox that changes while the run is suspended.         *)
(***************************************************************************)
EXTENDS AgentGraph

\* The persisted state, the node in flight and the history have their types
\* (AgentState in src/agent/state.py).
TypeOK ==
  /\ next \in NODES \cup {"none", "END"}
  /\ st \in AgentState
  /\ pc \in {"idle", "enter", "perform", "record", "ran", "logged"}
  /\ upd \in Maybe(AgentState)
  /\ decision \in Maybe(Decisions)
  /\ world \in World
  /\ ledger \in [Acts -> Maybe(Outcomes)]
  /\ audit \in [last : Maybe(States), complete : BOOLEAN]
  /\ consent \in Maybe(Consents)
  /\ applied \in [Acts -> Nat] /\ attempts \in [Acts -> Nat]
  /\ undone \in [compensations : Nat, failures : Nat]
  /\ torn \in [effect : Nat, undo : Nat, commit : Nat, rollback : Nat]
  /\ crashes \in Nat /\ drifts \in Nat /\ starts \in Nat

-----------------------------------------------------------------------------
(* The approval gate.                                                      *)

\* The side effect of an action really happens in this step.
Happens(a) == applied'[a] # applied[a]

Gated(a) == st.risk_tier_final # "low" \/ a.tool \in FORCED_HIGH_TOOLS

\* No medium- or high-risk action, and never delete_records or
\* rollback_deployment whatever tier the classifier gave, touches the sandbox
\* unless a human approved exactly that action since it was last proposed:
\* not after an edit of another action, a rejection, a replan, a kill or a
\* restart (route_after_risk_classification, await_approval, apply_policy).
HumanGate ==
  [][\A a \in Acts : Happens(a) /\ Gated(a) =>
       consent # NoVal /\ consent.action = a]_vars

\* With revalidation on, what the approver's decision rested on was swept
\* again after the decision and had not changed (revalidate): the fields the
\* gated action depends on in the snapshot it executes from are those of the
\* snapshot it was proposed, or edited, against.
NoUnseenDrift ==
  [][\A a \in Acts : Happens(a) /\ Gated(a) =>
       /\ consent # NoVal /\ consent.swept
       /\ consent.fields = compute_fingerprint(st.observations, a)]_vars

-----------------------------------------------------------------------------
(* The ledger.                                                             *)

\* A side effect happens a second time under one idempotency key only if the
\* process was killed between the tool call and the ledger write
\* (_run_idempotent): never through a replan, a restart or a kill elsewhere.
DuplicateOnlyIfTorn == \A a \in Acts : applied[a] <= 1 + torn.effect

\* executed_actions never claims an action that did not happen, and misses one
\* that did only while its record is pending or was torn off by a kill.
LedgerIsTrue ==
  \A a \in Acts :
    /\ ledger[a] # NoVal => applied[a] >= 1
    /\ applied[a] >= 1 /\ ledger[a] = NoVal =>
         torn.effect >= 1 \/ (pc = "record" /\ st.proposed_action = a)

\* A run that reports COMPLETED passed its verification and the action it
\* names was really performed in this run (completed, route_after_verification).
CompletedMeansDone ==
  st.status = "COMPLETED" =>
    st.verification_passed = TRUE /\ applied[st.proposed_action] >= 1

-----------------------------------------------------------------------------
(* Rollback and replanning.                                                *)

\* Outside the rollback itself every failed verification has been compensated,
\* and compensated once, except for what a kill made happen twice and what a
\* restart from START dropped while it was pending (rolling_back, start_workflow).
EveryFailureUndone ==
  next # "rolling_back" =>
    /\ undone.compensations + torn.rollback >= undone.failures
    /\ undone.compensations <= undone.failures + torn.undo

\* Nobody else changed the sandbox, no kill made a tool act twice, and the run
\* was not started over.
Undisturbed == drifts = 0 /\ torn.effect = 0 /\ starts <= 1

\* A run gives back what it changed unless it completed: past a rollback, and so
\* whenever it replans or escalates, the rows, releases, replicas and settings
\* are as it found them, whatever it tried and however often it was killed
\* elsewhere.  (A tool that acts twice takes its own work for what is to be
\* given back, and a run that is started over drops what it has not verified:
\* tools/mutating.py, apply_compensation, start_workflow.)
OnlySuccessLeavesATrace ==
  Undisturbed =>
    \/ Configuration(world) = Configuration(InitialWorld)
    \/ next \in {"execute", "verify", "rolling_back", "completed"}
    \/ st.status = "COMPLETED"

\* What the starts beyond the first add to the budget.
Extra == IF starts > 1 THEN starts - 1 ELSE 0

\* A run replans at most MAX_REPLAN_CYCLES times; every restart of a run that
\* had used its budget up buys one more attempt and no more (replan,
\* route_after_replan; replan_cycles survives a restart).
ReplanBudget == st.replan_cycles <= MAX_REPLAN_CYCLES + Extra

\* How many nodes at most lead from n to the end of its cycle.
NodesLeft(n) ==
  CASE n = "none"                   -> 14
    [] n = "diagnose"               -> 13
    [] n = "propose_action"         -> 12
    [] n = "classify_risk"          -> 11
    [] n = "mark_awaiting_approval" -> 10
    [] n = "await_approval"         -> 9
    [] n = "revalidate"             -> 8
    [] n = "prepare_execution"      -> 7
    [] n = "execute"                -> 6
    [] n = "verify"                 -> 5
    [] n = "rolling_back"           -> 4
    [] n = "rolled_back"            -> 3
    [] n = "replan"                 -> 2
    [] n \in {"completed", "escalate"} -> 1
    [] OTHER                        -> 0

\* How many phases lead to the checkpoint.
PhasesLeft(p) ==
  CASE p = "enter"   -> 5
    [] p = "perform" -> 4
    [] p = "record"  -> 3
    [] p = "ran"     -> 2
    [] p = "logged"  -> 1
    [] OTHER         -> 0

\* What is left of a run: cycles, nodes and phases, in this order.
StepsLeft ==
  200 * (MAX_REPLAN_CYCLES + Extra - st.replan_cycles) + 12 * NodesLeft(next) + PhasesLeft(pc)

\* However the reviewer decides, the sandbox changes and the proposals fail, a
\* process takes only so many steps before it stops: each one uses up some of
\* what is left of the run, and none goes back but through replan, which pays
\* (the edges of build_graph, replan, route_after_replan).
DrivesAreBounded == [][Process => 0 <= StepsLeft' /\ StepsLeft' < StepsLeft]_vars

\* Why the run replans, as the node it comes from knows it.
Cause ==
  CASE st.status = "ACTION_PROPOSED"   -> "invalid"
    [] st.status = "AWAITING_APPROVAL" -> "rejected"
    [] st.status = "REVALIDATING"      -> "drift"
    [] OTHER                           -> "not_fixed"

Replans == st'.replan_cycles > st.replan_cycles

\* An action that was never put to a reviewer, after an earlier cycle, or an
\* earlier start, that was.
ReviewedEarlierOnly == st.risk_tier_final = "low" /\ (st.replan_cycles > 0 \/ starts > 1)

\* The reason a replan hands to the reasoner is why this cycle failed, although
\* it is computed from fields that outlive their cycle.  The one exception is a
\* low-risk action that failed: it may be given the rejection, or the drift,
\* of an action that was reviewed before it (_replan_reason, in the order it
\* asks).
ReasonIsOfThisCycle ==
  [][Replans => \/ st'.replan_context = Cause
                \/ Cause = "not_fixed" /\ ReviewedEarlierOnly
                     /\ st'.replan_context \in {"rejected", "drift"}]_vars

-----------------------------------------------------------------------------
(* The audit log.                                                          *)

\* The from/to chain of the audit log has no gap, through suspensions,
\* exceptions and restarts, unless a kill hit between an audit record and the
\* checkpoint of the same transition (with_audit writes before LangGraph does).
GapOnlyIfTorn == torn.commit = 0 => audit.complete

-----------------------------------------------------------------------------
(* The detailed run implements the abstract one.                           *)

\* A run sent back to START counts as created again; a status that branches
\* carries the field of the state its router reads.
LifeStatus == IF next \in {"none", "diagnose"} THEN "CREATED" ELSE st.status

LifeAnswer ==
  CASE LifeStatus = "ACTION_PROPOSED"   -> IF st.invalid_proposal_reason THEN "invalid" ELSE "valid"
    [] LifeStatus = "RISK_CLASSIFIED"   -> IF st.risk_tier_final = "low" THEN "low" ELSE "gated"
    [] LifeStatus = "AWAITING_APPROVAL" -> IF next = "await_approval" THEN "pending"
                                           ELSE st.approval_decision
    [] LifeStatus = "REVALIDATING"      -> IF st.drift_detected THEN "drift" ELSE "fresh"
    [] LifeStatus = "VERIFYING"         -> IF st.verification_passed = TRUE THEN "passed" ELSE "failed"
    [] OTHER                            -> "none"

Life == INSTANCE RunLifecycle
          WITH status <- LifeStatus, answer <- LifeAnswer, cycles <- st.replan_cycles

\* The checkpointed status only moves along the diagram, by the branch its
\* answer names, through every kill, rerun and restart (build_graph).
FollowsLifecycle == Life!Spec

-----------------------------------------------------------------------------
(* Liveness.                                                               *)

\* The ledger answers what the run has not just recorded: the process was
\* killed before the checkpoint, or the action was attempted before.
AskedAgain == attempts[st.proposed_action] > 1 \/ crashes > 0

\* The environment, the ledger, or the arguments an edited action inherited
\* refuse the pending node every time it is run.
Refused ==
  \/ /\ next = "execute"
     /\ \/ ArgumentMissing(st.proposed_action, st.action_parameters)
        \/ ledger[st.idempotency_key] = NoVal /\ PerformRaises(world, st.proposed_action)
        \/ ReplayRaises /\ AskedAgain
  \/ next = "rolling_back" /\ CompensationRaises(st.compensation)
  \/ /\ next = "await_approval" /\ decision # NoVal
     /\ decision.edited_action # NoVal /\ FingerprintRaises(decision.edited_action)

\* A run that somebody keeps resuming ends, through every crash, rejection and
\* replan, unless its pending node is one that is refused: by the services, or,
\* where the ledger is durable, by the ledger (_run_idempotent's replay), which
\* takes a kill or a second attempt at the action.
DrivenRunsEnd == next # "none" ~> (next = "END" \/ Refused)

-----------------------------------------------------------------------------
(* What the documentation says and the code does not do.                   *)

\* policy.py:13: a target with no redundant replica being acted on for at
\* least the second time this run is never classified low.
SecondActionNeverLow ==
  next = "prepare_execution" /\ st.risk_tier_final = "low"
    /\ st.proposed_action.target \in Services
    /\ world.services[st.proposed_action.target].replicas < MIN_REDUNDANT_REPLICAS
    => \A a \in Acts : a.target = st.proposed_action.target => applied[a] = 0

\* execution.py:92: what is proposed after a rollback is fresh, so a later
\* attempt is never answered out of the ledger: it acts.
LaterAttemptActs ==
  next = "verify" => applied[st.proposed_action] >= attempts[st.proposed_action]

=============================================================================
