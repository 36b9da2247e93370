------------------------ MODULE AgentGraphInvariants ------------------------
(***************************************************************************)
(* The inductive strengthening of the properties of AgentGraph.  Each part *)
(* is a predicate of a pending node n and of the state s it will read.  It *)
(* holds of the checkpoint, and, once a node has run, of the state in      *)
(* flight and the node its checkpoint will route to.                       *)
(***************************************************************************)
EXTENDS AgentGraphProperties

Reviewing == {"mark_awaiting_approval", "await_approval"}
Executing == {"prepare_execution", "execute"}
Executed  == {"verify", "rolling_back"}

\* Nodes that look at a proposal, which is then grounded in the sandbox.
WithProposal == {"classify_risk", "revalidate"} \cup Reviewing \cup Executing \cup Executed

\* The fields a node reads are there.
Ready(n, s) ==
  /\ n \notin {"none", "diagnose", "END"} => s.observations # NoVal
  /\ n \in WithProposal => /\ s.proposed_action # NoVal
                           /\ s.action_parameters # NoVal
                           /\ ~FingerprintRaises(s.proposed_action)
  /\ n \in {"execute"} \cup Executed => s.idempotency_key = s.proposed_action
  /\ n \in Executed => s.execution_result # NoVal /\ s.compensation # NoVal

\* The fingerprint of a proposal under review is that of the snapshot it was
\* proposed against.
Anchored(n, s) ==
  n \in {"classify_risk"} \cup Reviewing =>
    s.state_fingerprint = compute_fingerprint(s.observations, s.proposed_action)

IsGated(s) == s.risk_tier_final # "low" \/ s.proposed_action.tool \in FORCED_HIGH_TOOLS

Consented(s, c) == c # NoVal /\ c.action = s.proposed_action

\* Past the review, a gated action is the one the reviewer consented to (c).
Cleared(n, s, c) ==
  /\ n = "revalidate" => Consented(s, c)
  /\ n \in Executing /\ IsGated(s) => Consented(s, c)

\* Past the revalidation, what the consent rested on was swept and is the same.
Swept(n, s, c) ==
  REVALIDATE =>
    /\ n = "revalidate" => c.fields = s.state_fingerprint
    /\ n \in Executing /\ IsGated(s) =>
         /\ c.swept
         /\ c.fields = compute_fingerprint(s.observations, s.proposed_action)

\* The three together, of the node n pending over the state s.
Guard(n, s, c) == Anchored(n, s) /\ Cleared(n, s, c) /\ Swept(n, s, c)

Phases ==
  /\ pc \in {"perform", "record"} => next = "execute"
  /\ pc # "idle" => next \notin {"none", "END"}
  /\ pc = "perform" => ~ArgumentMissing(st.proposed_action, st.action_parameters)
  /\ pc \in {"record", "ran", "logged"} => upd # NoVal
  /\ pc = "record" => /\ upd = [st EXCEPT !.status = "EXECUTING",
                                          !.execution_result = upd.execution_result,
                                          !.compensation = upd.compensation]
                      /\ upd.execution_result # NoVal /\ upd.compensation # NoVal

InFlight == pc \in {"ran", "logged"}

TypeInv ==
  /\ TypeOK
  /\ Phases
  /\ Ready(next, st)
  /\ InFlight => Ready(Route(next, upd), upd)

GateInv ==
  /\ Guard(next, st, consent)
  /\ InFlight => Guard(Route(next, upd), upd, consent)

-----------------------------------------------------------------------------
(* The ledger, the replan budget and the audit chain.                      *)

\* The one side effect of a that its key, or the tool call about to be
\* recorded, accounts for.
Accounted(a) == ledger[a] # NoVal \/ (pc = "record" /\ st.proposed_action = a)

LedgerInv ==
  /\ pc \in {"perform", "record"} => ledger[st.proposed_action] = NoVal
  /\ pc = "record" => applied[st.proposed_action] >= 1
  /\ \A a \in Acts : /\ ledger[a] # NoVal => applied[a] >= 1
                     /\ applied[a] <= torn.effect + (IF Accounted(a) THEN 1 ELSE 0)

\* Only a run about to escalate, or over, can have used its budget up.
Room(n, s, extra) ==
  /\ s.replan_cycles <= MAX_REPLAN_CYCLES + extra
  /\ n \notin {"escalate", "END"} => s.replan_cycles < MAX_REPLAN_CYCLES + extra

BudgetInv ==
  /\ starts = 0 => next = "none"
  /\ Room(next, st, Extra)
  /\ InFlight => Room(Route(next, upd), upd, Extra)

\* The last record names the status the next one will start from.
ChainInv ==
  torn.commit = 0 =>
    /\ audit.complete
    /\ IF pc = "logged" THEN audit.last = upd.status ELSE audit.last \in {NoVal, st.status}

-----------------------------------------------------------------------------
(* The life of a run: which status each node is pending at.                *)

Approval == {"approved", "edited"}

\* The node n is pending over a state that took one of the ways that lead to it.
Placed(n, s) ==
  CASE n = "propose_action" ->
         \/ s.status = "DIAGNOSING"
         \/ s.status = "REPLANNING" /\ s.replan_cycles < MAX_REPLAN_CYCLES
    [] n = "classify_risk" -> s.status = "ACTION_PROPOSED" /\ ~s.invalid_proposal_reason
    [] n = "mark_awaiting_approval" -> s.status = "RISK_CLASSIFIED" /\ s.risk_tier_final # "low"
    [] n = "await_approval" -> s.status = "AWAITING_APPROVAL" /\ s.risk_tier_final # "low"
    [] n = "revalidate" ->
         /\ s.status = "AWAITING_APPROVAL" /\ s.risk_tier_final # "low"
         /\ s.approval_decision \in Approval /\ REVALIDATE
    [] n = "prepare_execution" ->
         \/ s.status = "RISK_CLASSIFIED" /\ s.risk_tier_final = "low"
         \/ s.risk_tier_final # "low" /\ s.approval_decision \in Approval /\ ~s.drift_detected
              /\ s.status = IF REVALIDATE THEN "REVALIDATING" ELSE "AWAITING_APPROVAL"
    [] n \in {"execute", "verify"} -> s.status = "EXECUTING"
    [] n = "rolling_back" -> s.status = "VERIFYING" /\ s.verification_passed = FALSE
    [] n = "completed"    -> s.status = "VERIFYING" /\ s.verification_passed = TRUE
    [] n = "rolled_back"  -> s.status = "ROLLING_BACK" /\ s.verification_passed = FALSE
    [] n = "replan" ->
         \/ s.status = "ACTION_PROPOSED" /\ s.invalid_proposal_reason
         \/ s.status = "AWAITING_APPROVAL" /\ s.approval_decision = "rejected"
         \/ s.status = "REVALIDATING" /\ s.drift_detected /\ s.approval_decision \in Approval
         \/ s.status = "ROLLED_BACK" /\ s.verification_passed = FALSE
    [] n = "escalate" ->
         \/ s.status = "AWAITING_APPROVAL" /\ s.approval_decision = "timeout"
         \/ s.status = "REPLANNING" /\ s.replan_cycles >= MAX_REPLAN_CYCLES
    [] n = "END" -> s.status \in {"COMPLETED", "ESCALATED"}
    [] OTHER -> TRUE

\* The status a node gives the run.
Entered(n) ==
  CASE n = "diagnose"       -> "DIAGNOSING"
    [] n = "propose_action" -> "ACTION_PROPOSED"
    [] n = "classify_risk"  -> "RISK_CLASSIFIED"
    [] n \in Reviewing      -> "AWAITING_APPROVAL"
    [] n = "revalidate"     -> "REVALIDATING"
    [] n \in Executing      -> "EXECUTING"
    [] n = "verify"         -> "VERIFYING"
    [] n = "rolling_back"   -> "ROLLING_BACK"
    [] n = "rolled_back"    -> "ROLLED_BACK"
    [] n = "replan"         -> "REPLANNING"
    [] n = "completed"      -> "COMPLETED"
    [] OTHER                -> "ESCALATED"

\* What node n made of the state s: each field has one node that writes it.
Ran(n, s, u) ==
  /\ u.status = Entered(n)
  /\ u.replan_cycles = IF n = "replan" THEN s.replan_cycles + 1 ELSE s.replan_cycles
  /\ n # "propose_action" => (u.invalid_proposal_reason <=> s.invalid_proposal_reason)
  /\ n \notin {"propose_action", "await_approval"} => u.proposed_action = s.proposed_action
  /\ n # "classify_risk" => u.risk_tier_final = s.risk_tier_final
  /\ IF n = "await_approval" THEN u.approval_decision # NoVal
                             ELSE u.approval_decision = s.approval_decision
  /\ n # "revalidate" => (u.drift_detected <=> s.drift_detected)
  /\ IF n = "verify" THEN u.verification_passed \in BOOLEAN
                     ELSE u.verification_passed = s.verification_passed

\* With revalidation off nothing is ever found to have drifted.
LifeInv ==
  /\ Placed(next, st)
  /\ InFlight => Ran(next, st, upd)
  /\ ~REVALIDATE => ~st.drift_detected

-----------------------------------------------------------------------------
(* Why a run replans, what it has undone, what it has done.                *)

\* Nodes at which the current proposal is still to be reviewed, and those past
\* the execution whose cycle may fail.
Unreviewed == {"none", "diagnose", "propose_action", "classify_risk"} \cup Reviewing
PastAction(n, s) ==
  n \in {"execute", "rolled_back"} \cup Executed \/ (n = "replan" /\ s.status = "ROLLED_BACK")

Valid(n, s) == n \in WithProposal \cup {"rolled_back"} \/ (n = "replan" /\ s.status # "ACTION_PROPOSED")

\* A decision or a drift verdict that is left over has a cycle, or a start, that
\* left it.
Leftover(s) ==
  s.approval_decision = "rejected" \/ s.drift_detected => s.replan_cycles > 0 \/ starts > 1

Told(n, s) ==
  /\ Valid(n, s) => ~s.invalid_proposal_reason
  /\ n \in Unreviewed => Leftover(s)
  /\ s.risk_tier_final = "low" /\ (n = "prepare_execution" \/ PastAction(n, s)) => Leftover(s)
  /\ s.risk_tier_final # "low" /\ PastAction(n, s) =>
       s.approval_decision \in Approval /\ ~s.drift_detected

ReasonInv ==
  /\ starts = 0 => next = "none"
  /\ next = "none" => st = NewState
  /\ Told(next, st)
  /\ InFlight => Told(Route(next, upd), upd)
  /\ InFlight /\ next = "replan" => upd.replan_context = replan_reason

\* The rollback that is pending.
Owed == IF next = "rolling_back" /\ ~InFlight THEN 1 ELSE 0

UndoInv ==
  /\ undone.failures <= undone.compensations + torn.rollback + Owed
  /\ undone.compensations + Owed <= undone.failures + torn.undo

\* A node that follows the execution, and a run that completed, name an action
\* that was performed.
Done(n, s) ==
  /\ n \in {"verify", "completed"} \/ s.status = "COMPLETED" =>
       s.proposed_action \in Acts /\ applied[s.proposed_action] >= 1
  /\ s.status = "COMPLETED" => s.verification_passed = TRUE

DoneInv == Done(next, st) /\ (InFlight => Done(Route(next, upd), upd))

-----------------------------------------------------------------------------
(* What a run gives back.                                                  *)

Found     == Configuration(InitialWorld)
Untouched == Configuration(world) = Found

\* Applying c would leave what the run found.
GivesBack(c) == Configuration(apply_compensation(world, c)) = Found

\* Execute has acted, in this attempt or before a kill, or is about to.
ExecuteTrace ==
  LET recorded == ledger[st.idempotency_key] IN
  /\ pc = "record" => AsksFor(upd.compensation, Found)
  /\ pc = "record" \/ InFlight => GivesBack(upd.compensation)
  /\ recorded # NoVal => GivesBack(recorded.compensation)
  /\ recorded = NoVal => pc = "record" \/ Untouched

Trace ==
  /\ \A a \in Acts : ledger[a] # NoVal => AsksFor(ledger[a].compensation, Found)
  /\ next = "execute" => ExecuteTrace
  /\ next \in Executed => GivesBack(st.compensation)
  /\ next = "verify" /\ InFlight => upd.compensation = st.compensation
  /\ next = "rolling_back" /\ InFlight => Untouched
  /\ next \notin {"execute", "verify", "rolling_back", "completed"} =>
       Untouched \/ (next = "END" /\ st.status = "COMPLETED")

TraceInv == Undisturbed => Trace
=============================================================================
