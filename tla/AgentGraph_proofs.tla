-------------------------- MODULE AgentGraph_proofs --------------------------
(***************************************************************************)
(* Proofs about one run of the agent, for every value of the constants:    *)
(* its type correctness, and the approval gate: a gated action is the one  *)
(* the reviewer consented to, and what the consent rested on was swept     *)
(* again and had not changed.                                              *)
(*                                                                         *)
(* GateInv is inductive relative to TypeInv.  It follows a proposal from   *)
(* the sweep it is anchored to (Anchored), over the consent it is cleared  *)
(* by (Cleared), to the second sweep (Swept).                              *)
(***************************************************************************)
EXTENDS AgentGraphInvariants, Sandbox_proofs

\* Every action a proposal or an edit can name is an action.
LEMMA ActsAreActions == Acts \subseteq Action
BY AgentGraphAssumption DEF Acts

\* Routing never leaves the nodes of the graph (build_graph).
LEMMA RouteType ==
  ASSUME NEW n, NEW s
  PROVE  Route(n, s) \in NODES \cup {"END"}
BY DEF Route, NODES, route_after_proposal, route_after_risk_classification,
   route_after_approval, route_after_revalidation, route_after_verification,
   route_after_replan

\* A node whose update is well typed, and leaves what the next node reads,
\* keeps the invariant: the node stays pending until its checkpoint.
LEMMA ReturnKeepsType ==
  ASSUME TypeInv, NEW s \in AgentState, Return(s), pc # "idle",
         Ready(Route(next, s), s),
         world' \in World, consent' \in Maybe(Consents),
         undone' \in [compensations : Nat, failures : Nat],
         UNCHANGED <<ledger, audit, applied, attempts, torn, crashes, drifts, starts>>
  PROVE  TypeInv'
<1>1. next' = next /\ st' = st /\ decision' = decision /\ pc' = "ran" /\ upd' = s
  BY DEF Return
<1>2. s # NoVal
  BY NoneAssumption
<1>3. TypeOK'
  BY <1>1 DEF TypeInv, TypeOK, Maybe
<1>4. Phases'
  BY <1>1, <1>2 DEF TypeInv, Phases
<1>5. Ready(next', st')
  BY <1>1 DEF TypeInv
<1>6. Ready(Route(next', upd'), upd')
  BY <1>1
<1> QED
  BY <1>3, <1>4, <1>5, <1>6 DEF TypeInv

-----------------------------------------------------------------------------
(* The nodes.                                                              *)

\* diagnose leaves a sweep for the proposal to work from.
LEMMA DiagnoseType == TypeInv /\ diagnose => TypeInv'
<1> SUFFICES ASSUME TypeInv, diagnose
             PROVE  TypeInv'
  OBVIOUS
<1> DEFINE o == gather_observations(world)
           s == [st EXCEPT !.status = "DIAGNOSING", !.observations = o]
<1>1. o \in Observations /\ o # NoVal
  BY SweepType, NoneAssumption DEF TypeInv, TypeOK
<1>2. /\ next = "diagnose" /\ pc # "idle" /\ Return(s)
      /\ UNCHANGED <<world, ledger, audit, history>>
  BY DEF diagnose, At, Elsewhere
<1> HIDE DEF o
<1>3. st \in AgentState /\ "DIAGNOSING" \in Maybe(States) /\ o \in Maybe(Observations)
  BY <1>1 DEF TypeInv, TypeOK, Maybe, States
<1>4. s \in AgentState /\ s.observations = o
  BY <1>3 DEF AgentState
<1> HIDE DEF s
<1>5. Ready(Route(next, s), s)
  BY <1>1, <1>2, <1>4 DEF Route, Ready, WithProposal, Reviewing, Executing, Executed
<1> QED
  BY <1>2, <1>4, <1>5, ReturnKeepsType DEF TypeInv, TypeOK, history

\* propose_action sends on to classification only what the sandbox can
\* fingerprint (validate_proposal).
LEMMA ProposeType == TypeInv /\ propose_action => TypeInv'
<1> SUFFICES ASSUME TypeInv, propose_action
             PROVE  TypeInv'
  OBVIOUS
<1>1. PICK p \in Proposals :
        Return([st EXCEPT
          !.status            = "ACTION_PROPOSED",
          !.proposed_action   = p.action,
          !.action_parameters = p.parameters,
          !.invalid_proposal_reason = ~validate_proposal(p.action),
          !.state_fingerprint = IF validate_proposal(p.action)
                                  THEN compute_fingerprint(st.observations, p.action)
                                  ELSE NoVal])
  BY DEF propose_action
<1> DEFINE valid == validate_proposal(p.action)
           f == IF valid THEN compute_fingerprint(st.observations, p.action) ELSE NoVal
           s == [st EXCEPT !.status = "ACTION_PROPOSED",
                           !.proposed_action = p.action, !.action_parameters = p.parameters,
                           !.invalid_proposal_reason = ~valid, !.state_fingerprint = f]
<1>2. /\ next = "propose_action" /\ pc # "idle" /\ Return(s)
      /\ consent' = NoVal /\ UNCHANGED <<world, ledger, audit>>
      /\ UNCHANGED <<applied, attempts, undone, torn, crashes, drifts, starts>>
  BY <1>1 DEF propose_action, At, Elsewhere
<1>3. /\ p.action \in Acts /\ p.action \in Action /\ p.action # NoVal
      /\ p.parameters \in Params /\ p.parameters # NoVal
  BY AgentGraphAssumption, NoneAssumption DEF Acts
<1>4. st.observations # NoVal /\ st.observations \in Observations
  BY <1>2 DEF TypeInv, TypeOK, Ready, AgentState, Maybe
<1>5. valid => ~FingerprintRaises(p.action)
  BY <1>3, ValidMeansFingerprintable
<1>6. f \in Maybe(Fingerprints) /\ valid \in BOOLEAN
  BY <1>3, <1>4, <1>5, FingerprintType DEF Maybe, validate_proposal
<1> HIDE DEF f, valid
<1>7. /\ st \in AgentState /\ "ACTION_PROPOSED" \in Maybe(States)
      /\ p.action \in Maybe(Acts) /\ p.parameters \in Maybe(Params)
  BY <1>3 DEF TypeInv, TypeOK, Maybe, States
<1>8. /\ s \in AgentState /\ s.observations = st.observations
      /\ s.proposed_action = p.action /\ s.action_parameters = p.parameters
      /\ s.invalid_proposal_reason = ~valid
  BY <1>6, <1>7 DEF AgentState
<1> HIDE DEF s
<1>9. Ready(Route(next, s), s)
  <2>1. CASE valid
    <3>1. Route(next, s) = "classify_risk"
      BY <1>2, <1>8, <2>1 DEF Route, route_after_proposal
    <3> QED
      BY <1>3, <1>4, <1>5, <1>8, <2>1, <3>1
      DEF Ready, WithProposal, Reviewing, Executing, Executed
  <2>2. CASE ~valid
    <3>1. Route(next, s) = "replan"
      BY <1>2, <1>8, <2>2 DEF Route, route_after_proposal
    <3> QED
      BY <1>4, <1>8, <3>1 DEF Ready, WithProposal, Reviewing, Executing, Executed
  <2> QED
    BY <2>1, <2>2
<1> QED
  BY <1>2, <1>8, <1>9, ReturnKeepsType DEF TypeInv, TypeOK, Maybe

\* classify_risk keeps the proposal and gives it a tier.
LEMMA ClassifyType == TypeInv /\ classify_risk => TypeInv'
<1> SUFFICES ASSUME TypeInv, classify_risk
             PROVE  TypeInv'
  OBVIOUS
<1>1. PICK llm_tier \in RiskTiers :
        Return([st EXCEPT
          !.status          = "RISK_CLASSIFIED",
          !.risk_tier_final = apply_policy(st.proposed_action.tool, llm_tier,
                                situational_features(st.observations, st.proposed_action))])
  BY DEF classify_risk
<1> DEFINE tier == apply_policy(st.proposed_action.tool, llm_tier,
                     situational_features(st.observations, st.proposed_action))
           s == [st EXCEPT !.status = "RISK_CLASSIFIED", !.risk_tier_final = tier]
<1>2. /\ next = "classify_risk" /\ pc # "idle" /\ Return(s)
      /\ UNCHANGED <<world, ledger, audit, history>>
  BY <1>1 DEF classify_risk, At, Elsewhere
<1>3. tier \in Maybe(RiskTiers)
  BY PolicyTier DEF Maybe
<1> HIDE DEF tier
<1>4. st \in AgentState /\ "RISK_CLASSIFIED" \in Maybe(States)
  BY DEF TypeInv, TypeOK, Maybe, States
<1>5. /\ s \in AgentState /\ s.observations = st.observations
      /\ s.proposed_action = st.proposed_action
      /\ s.action_parameters = st.action_parameters
  BY <1>3, <1>4 DEF AgentState
<1> HIDE DEF s
<1>6. Route(next, s) \in {"prepare_execution", "mark_awaiting_approval"}
  BY <1>2 DEF Route, route_after_risk_classification
<1>7. Ready(Route(next, s), s)
  BY <1>2, <1>5, <1>6 DEF TypeInv, Ready, WithProposal, Reviewing, Executing, Executed
<1> QED
  BY <1>2, <1>5, <1>7, ReturnKeepsType DEF TypeInv, TypeOK, history

\* mark_awaiting_approval keeps what is under review.
LEMMA MarkType == TypeInv /\ mark_awaiting_approval => TypeInv'
<1> SUFFICES ASSUME TypeInv, mark_awaiting_approval
             PROVE  TypeInv'
  OBVIOUS
<1> DEFINE s == [st EXCEPT !.status = "AWAITING_APPROVAL"]
<1>1. /\ next = "mark_awaiting_approval" /\ pc # "idle" /\ Return(s)
      /\ UNCHANGED <<world, ledger, audit, history>>
  BY DEF mark_awaiting_approval, At, Elsewhere
<1>2. /\ st \in AgentState /\ "AWAITING_APPROVAL" \in Maybe(States)
  BY DEF TypeInv, TypeOK, Maybe, States
<1>3. /\ s \in AgentState /\ s.observations = st.observations
      /\ s.proposed_action = st.proposed_action
      /\ s.action_parameters = st.action_parameters
  BY <1>2 DEF AgentState
<1> HIDE DEF s
<1>4. Ready(Route(next, s), s)
  BY <1>1, <1>3 DEF TypeInv, Route, Ready, WithProposal, Reviewing, Executing, Executed
<1> QED
  BY <1>1, <1>3, <1>4, ReturnKeepsType DEF TypeInv, TypeOK, history

\* await_approval leaves an action the sandbox can fingerprint, edited or not,
\* and records what the reviewer consented to.
LEMMA AwaitType == TypeInv /\ await_approval => TypeInv'
<1> SUFFICES ASSUME TypeInv, await_approval
             PROVE  TypeInv'
  OBVIOUS
<1> DEFINE f == IF decision.edited_action = NoVal THEN st.state_fingerprint
                ELSE compute_fingerprint(st.observations, Decided)
           s == [st EXCEPT !.approval_decision = decision.decision,
                           !.proposed_action = Decided, !.state_fingerprint = f]
<1>1. st \in AgentState
  BY DEF TypeInv, TypeOK
<1>2. /\ next = "await_approval" /\ pc # "idle" /\ Return(s)
      /\ decision # NoVal
      /\ decision.edited_action # NoVal => ~FingerprintRaises(decision.edited_action)
      /\ UNCHANGED <<world, ledger, audit>>
      /\ UNCHANGED <<applied, attempts, undone, torn, crashes, drifts, starts>>
  BY <1>1 DEF await_approval, At, Elsewhere, AgentState
<1>3. /\ st.observations # NoVal /\ st.observations \in Observations
      /\ st.proposed_action # NoVal /\ st.proposed_action \in Acts
      /\ st.action_parameters # NoVal /\ ~FingerprintRaises(st.proposed_action)
  BY <1>1, <1>2 DEF TypeInv, Ready, AgentState, Maybe, WithProposal, Reviewing
<1>4. /\ decision.decision \in Maybe({"approved", "edited", "rejected", "timeout"})
      /\ decision.edited_action # NoVal => decision.edited_action \in Acts
  BY <1>2 DEF TypeInv, TypeOK, Decisions, Maybe, Acts
<1>5. /\ Decided \in Acts /\ Decided \in Action /\ Decided # NoVal
      /\ ~FingerprintRaises(Decided)
  BY <1>2, <1>3, <1>4, ActsAreActions, AgentGraphAssumption DEF Decided
<1>6. compute_fingerprint(st.observations, Decided) \in Fingerprints
  BY <1>3, <1>5, FingerprintType
<1>7. f \in Maybe(Fingerprints)
  BY <1>1, <1>6 DEF AgentState, Maybe
<1>8. consent' \in Maybe(Consents)
  BY <1>5, <1>6 DEF await_approval, Consents, Maybe
<1> HIDE DEF f
<1>9. Decided \in Maybe(Acts)
  BY <1>5 DEF Maybe
<1>10. /\ s \in AgentState /\ s.observations = st.observations
       /\ s.proposed_action = Decided
       /\ s.action_parameters = st.action_parameters
  BY <1>1, <1>4, <1>7, <1>9 DEF AgentState
<1> HIDE DEF s
<1>11. Route(next, s) \in {"revalidate", "prepare_execution", "replan", "escalate"}
  BY <1>2 DEF Route, route_after_approval
<1>12. Ready(Route(next, s), s)
  BY <1>3, <1>5, <1>10, <1>11 DEF Ready, WithProposal, Reviewing, Executing, Executed
<1> QED
  BY <1>2, <1>8, <1>10, <1>12, ReturnKeepsType DEF TypeInv, TypeOK

\* revalidate sweeps again and keeps the proposal.
LEMMA RevalidateType == TypeInv /\ revalidate => TypeInv'
<1> SUFFICES ASSUME TypeInv, revalidate
             PROVE  TypeInv'
  OBVIOUS
<1> DEFINE o == gather_observations(world)
           f == compute_fingerprint(o, st.proposed_action)
           drift == f # st.state_fingerprint
           s == [st EXCEPT !.status = "REVALIDATING", !.observations = o,
                           !.state_fingerprint = f, !.drift_detected = drift]
<1>1. /\ next = "revalidate" /\ pc # "idle" /\ Return(s)
      /\ UNCHANGED <<world, ledger, audit>>
      /\ UNCHANGED <<applied, attempts, undone, torn, crashes, drifts, starts>>
  BY DEF revalidate, At, Elsewhere
<1>2. /\ st \in AgentState /\ st.proposed_action # NoVal /\ st.proposed_action \in Acts
      /\ st.action_parameters # NoVal /\ ~FingerprintRaises(st.proposed_action)
  BY <1>1 DEF TypeInv, TypeOK, Ready, AgentState, Maybe, WithProposal
<1>3. o \in Observations /\ o # NoVal
  BY SweepType, NoneAssumption DEF TypeInv, TypeOK
<1>4. consent' \in Maybe(Consents)
  <2>1. CASE consent = NoVal
    BY <2>1 DEF revalidate, Maybe
  <2>2. CASE consent # NoVal
    <3>1. consent \in Consents /\ consent' = [consent EXCEPT !.swept = TRUE]
      BY <2>2 DEF revalidate, TypeInv, TypeOK, Maybe
    <3> QED
      BY <3>1 DEF Consents, Maybe
  <2> QED
    BY <2>1, <2>2
<1> HIDE DEF o
<1>5. f \in Fingerprints
  BY <1>2, <1>3, ActsAreActions, FingerprintType
<1>6. drift \in BOOLEAN
  OBVIOUS
<1> HIDE DEF f, drift
<1>7. /\ o \in Maybe(Observations) /\ f \in Maybe(Fingerprints)
      /\ "REVALIDATING" \in Maybe(States)
  BY <1>3, <1>5 DEF Maybe, States
<1>8. /\ s \in AgentState /\ s.observations = o
      /\ s.proposed_action = st.proposed_action
      /\ s.action_parameters = st.action_parameters
  BY <1>2, <1>6, <1>7 DEF AgentState
<1> HIDE DEF s
<1>9. Route(next, s) \in {"replan", "prepare_execution"}
  BY <1>1 DEF Route, route_after_revalidation
<1>10. Ready(Route(next, s), s)
  BY <1>2, <1>3, <1>8, <1>9 DEF Ready, WithProposal, Reviewing, Executing, Executed
<1> QED
  BY <1>1, <1>4, <1>8, <1>10, ReturnKeepsType DEF TypeInv, TypeOK

\* prepare_execution names the key after the action.
LEMMA PrepareType == TypeInv /\ prepare_execution => TypeInv'
<1> SUFFICES ASSUME TypeInv, prepare_execution
             PROVE  TypeInv'
  OBVIOUS
<1> DEFINE s == [st EXCEPT !.status = "EXECUTING", !.idempotency_key = st.proposed_action]
<1>1. /\ next = "prepare_execution" /\ pc # "idle" /\ Return(s)
      /\ UNCHANGED <<world, ledger, audit, history>>
  BY DEF prepare_execution, At, Elsewhere
<1>2. /\ st \in AgentState /\ "EXECUTING" \in Maybe(States)
      /\ st.proposed_action \in Maybe(Acts)
  BY DEF TypeInv, TypeOK, Maybe, States, AgentState
<1>3. /\ s \in AgentState /\ s.observations = st.observations
      /\ s.proposed_action = st.proposed_action
      /\ s.action_parameters = st.action_parameters
      /\ s.idempotency_key = st.proposed_action
  BY <1>2 DEF AgentState
<1> HIDE DEF s
<1>4. Ready(Route(next, s), s)
  BY <1>1, <1>3 DEF TypeInv, Route, Ready, WithProposal, Reviewing, Executing, Executed
<1> QED
  BY <1>1, <1>3, <1>4, ReturnKeepsType DEF TypeInv, TypeOK, history

\* What execute starts from.
LEMMA ExecuteReads ==
  ASSUME TypeInv, next = "execute"
  PROVE  /\ st \in AgentState /\ st.observations # NoVal
         /\ st.proposed_action # NoVal /\ st.proposed_action \in Acts
         /\ st.proposed_action \in Action
         /\ st.action_parameters # NoVal /\ st.action_parameters \in Params
         /\ ~FingerprintRaises(st.proposed_action)
         /\ st.idempotency_key = st.proposed_action
<1>1. st \in AgentState
  BY DEF TypeInv, TypeOK
<1> QED
  BY <1>1, ActsAreActions DEF TypeInv, Ready, WithProposal, Executing, AgentState, Maybe

\* What execute leaves, from the ledger or from the tool, is ready to verify.
LEMMA OutcomeReady ==
  ASSUME TypeInv, next = "execute", NEW o \in Outcomes
  PROVE  /\ WithOutcome(o) \in AgentState
         /\ WithOutcome(o).execution_result = o.deleted
         /\ WithOutcome(o).compensation = o.compensation
         /\ o.deleted # NoVal /\ o.compensation # NoVal
         /\ Ready("verify", WithOutcome(o))
<1> DEFINE s == WithOutcome(o)
<1>1. /\ st \in AgentState /\ "EXECUTING" \in Maybe(States)
      /\ o.deleted \in Maybe(SUBSET RecordIds) /\ o.compensation \in Maybe(Compensations)
      /\ o.deleted # NoVal /\ o.compensation # NoVal
  BY NoneAssumption DEF TypeInv, TypeOK, Maybe, States, Outcomes
<1>2. /\ s \in AgentState /\ s.observations = st.observations
      /\ s.proposed_action = st.proposed_action
      /\ s.action_parameters = st.action_parameters
      /\ s.idempotency_key = st.idempotency_key
      /\ s.execution_result = o.deleted /\ s.compensation = o.compensation
  BY <1>1 DEF AgentState, WithOutcome
<1> HIDE DEF s
<1>3. Ready("verify", s)
  BY <1>1, <1>2, ExecuteReads DEF Ready, WithProposal, Reviewing, Executing, Executed
<1> QED
  BY <1>1, <1>2, <1>3 DEF s

\* A replay answers with the recorded outcome.
LEMMA ReplayType == TypeInv /\ execute_replay => TypeInv'
<1> SUFFICES ASSUME TypeInv, execute_replay
             PROVE  TypeInv'
  OBVIOUS
<1> DEFINE o == ledger[st.idempotency_key]
<1>1. /\ next = "execute" /\ pc # "idle" /\ Return(WithOutcome(o)) /\ o # NoVal
      /\ UNCHANGED <<world, ledger, audit, history>>
  BY DEF execute_replay, At, Elsewhere
<1>2. o \in Outcomes
  BY <1>1, ExecuteReads DEF TypeInv, TypeOK, Maybe
<1> HIDE DEF o
<1>3. WithOutcome(o) \in AgentState /\ Ready("verify", WithOutcome(o))
  BY <1>1, <1>2, OutcomeReady
<1>4. Route(next, WithOutcome(o)) = "verify"
  BY <1>1 DEF Route
<1> QED
  BY <1>1, <1>3, <1>4, ReturnKeepsType DEF TypeInv, TypeOK, history

\* A key nobody used goes on to the tool, the call being well formed.
LEMMA LookupType == TypeInv /\ execute_lookup => TypeInv'
<1> SUFFICES ASSUME TypeInv, execute_lookup
             PROVE  TypeInv'
  OBVIOUS
<1>1. /\ next = "execute" /\ pc' = "perform"
      /\ ~ArgumentMissing(st.proposed_action, st.action_parameters)
      /\ UNCHANGED <<next, st, upd, decision, world, ledger, audit, history>>
  BY DEF execute_lookup, At, Elsewhere
<1>2. TypeOK'
  BY <1>1 DEF TypeInv, TypeOK, history
<1>3. Phases' /\ ~InFlight'
  BY <1>1 DEF TypeInv, Phases, InFlight
<1> QED
  BY <1>1, <1>2, <1>3 DEF TypeInv

\* The tool leaves a sandbox and an outcome the ledger can hold.
LEMMA PerformStepType == TypeInv /\ execute_perform => TypeInv'
<1> SUFFICES ASSUME TypeInv, execute_perform
             PROVE  TypeInv'
  OBVIOUS
<1> DEFINE o == OutcomeOf(world, st.proposed_action, st.action_parameters)
<1>1. /\ pc = "perform" /\ next = "execute" /\ pc' = "record"
      /\ ~PerformRaises(world, st.proposed_action)
      /\ ~ArgumentMissing(st.proposed_action, st.action_parameters)
      /\ world' = Perform(world, st.proposed_action, st.action_parameters)
      /\ upd' = WithOutcome(o)
      /\ applied' = [applied EXCEPT ![st.proposed_action] = @ + 1]
      /\ UNCHANGED <<next, st, decision, ledger, audit>>
      /\ UNCHANGED <<consent, attempts, undone, torn, crashes, drifts, starts>>
  BY DEF execute_perform, TypeInv, Phases
<1>2. world \in World
  BY DEF TypeInv, TypeOK
<1>3. world' \in World /\ o \in Outcomes
  BY <1>1, <1>2, ExecuteReads, PerformType, OutcomeType
<1> HIDE DEF o
<1>4. /\ WithOutcome(o) \in AgentState /\ WithOutcome(o) # NoVal
      /\ WithOutcome(o).execution_result = o.deleted
      /\ WithOutcome(o).compensation = o.compensation
      /\ o.deleted # NoVal /\ o.compensation # NoVal
  BY <1>1, <1>3, OutcomeReady, NoneAssumption
<1>5. applied' \in [Acts -> Nat]
  BY <1>1, ExecuteReads DEF TypeInv, TypeOK
<1>6. TypeOK'
  <2>1. upd' \in Maybe(AgentState)
    BY <1>1, <1>4 DEF Maybe
  <2> QED
    BY <1>1, <1>3, <1>5, <2>1 DEF TypeInv, TypeOK
<1>7. Phases'
  <2>1. upd' = [st' EXCEPT !.status = "EXECUTING",
                           !.execution_result = upd'.execution_result,
                           !.compensation = upd'.compensation]
    BY <1>1, <1>4 DEF WithOutcome
  <2>2. upd' # NoVal /\ upd'.execution_result # NoVal /\ upd'.compensation # NoVal
    BY <1>1, <1>4
  <2> QED
    BY <1>1, <2>1, <2>2 DEF Phases
<1>8. Ready(next', st') /\ ~InFlight'
  BY <1>1 DEF TypeInv, InFlight
<1> QED
  BY <1>6, <1>7, <1>8 DEF TypeInv

\* The ledger write keeps the outcome in flight.
LEMMA RecordType == TypeInv /\ execute_record => TypeInv'
<1> SUFFICES ASSUME TypeInv, execute_record
             PROVE  TypeInv'
  OBVIOUS
<1> DEFINE o == [deleted |-> upd.execution_result, compensation |-> upd.compensation]
<1>1. /\ pc = "record" /\ next = "execute" /\ pc' = "ran"
      /\ ledger' = [ledger EXCEPT ![st.idempotency_key] = IF @ # NoVal THEN @ ELSE o]
      /\ upd # NoVal /\ upd.execution_result # NoVal /\ upd.compensation # NoVal
      /\ upd = [st EXCEPT !.status = "EXECUTING",
                          !.execution_result = upd.execution_result,
                          !.compensation = upd.compensation]
      /\ UNCHANGED <<next, st, upd, decision, world, audit, history>>
  BY DEF execute_record, TypeInv, Phases
<1>2. upd \in AgentState
  BY <1>1 DEF TypeInv, TypeOK, Maybe
<1>3. o \in Outcomes
  BY <1>1, <1>2 DEF AgentState, Maybe, Outcomes
<1>4. upd = WithOutcome(o)
  BY <1>1 DEF WithOutcome
<1> HIDE DEF o
<1>5. ledger' \in [Acts -> Maybe(Outcomes)]
  BY <1>1, <1>3 DEF TypeInv, TypeOK, Maybe
<1>6. TypeOK'
  BY <1>1, <1>5 DEF TypeInv, TypeOK, history
<1>7. Phases' /\ Ready(next', st')
  BY <1>1 DEF TypeInv, Phases
<1>8. Ready(Route(next', upd'), upd')
  BY <1>1, <1>3, <1>4, OutcomeReady DEF Route
<1> QED
  BY <1>6, <1>7, <1>8 DEF TypeInv

\* verify keeps what a rollback would need.
LEMMA VerifyType == TypeInv /\ verify => TypeInv'
<1> SUFFICES ASSUME TypeInv, verify
             PROVE  TypeInv'
  OBVIOUS
<1> DEFINE v == verify_action(world, st.proposed_action, st.execution_result)
           s == [st EXCEPT !.status = "VERIFYING", !.verification_passed = v]
<1>1. /\ next = "verify" /\ pc # "idle" /\ Return(s)
      /\ UNCHANGED <<world, ledger, audit, history>>
  BY DEF verify, At, Elsewhere
<1>2. v \in BOOLEAN
  BY DEF verify_action
<1> HIDE DEF v
<1>3. /\ st \in AgentState /\ "VERIFYING" \in Maybe(States) /\ v \in Maybe(BOOLEAN)
  BY <1>2 DEF TypeInv, TypeOK, Maybe, States
<1>4. /\ s \in AgentState /\ s.observations = st.observations
      /\ s.proposed_action = st.proposed_action
      /\ s.action_parameters = st.action_parameters
      /\ s.idempotency_key = st.idempotency_key
      /\ s.execution_result = st.execution_result /\ s.compensation = st.compensation
  BY <1>3 DEF AgentState
<1> HIDE DEF s
<1>5. Route(next, s) \in {"completed", "rolling_back"}
  BY <1>1 DEF Route, route_after_verification
<1>6. Ready(Route(next, s), s)
  BY <1>1, <1>4, <1>5 DEF TypeInv, Ready, WithProposal, Reviewing, Executing, Executed
<1> QED
  BY <1>1, <1>4, <1>6, ReturnKeepsType DEF TypeInv, TypeOK, history

\* rolling_back leaves a sandbox.
LEMMA RollingBackType == TypeInv /\ rolling_back => TypeInv'
<1> SUFFICES ASSUME TypeInv, rolling_back
             PROVE  TypeInv'
  OBVIOUS
<1> DEFINE s == [st EXCEPT !.status = "ROLLING_BACK"]
<1>1. /\ next = "rolling_back" /\ pc # "idle" /\ Return(s)
      /\ world' = apply_compensation(world, st.compensation)
      /\ undone' = [undone EXCEPT !.compensations = @ + 1]
      /\ UNCHANGED <<ledger, audit, consent, applied, attempts>>
      /\ UNCHANGED <<torn, crashes, drifts, starts>>
  BY DEF rolling_back, At
<1>2. /\ st \in AgentState /\ "ROLLING_BACK" \in Maybe(States)
      /\ st.compensation # NoVal /\ st.observations # NoVal
  BY <1>1 DEF TypeInv, TypeOK, Maybe, States, Ready, Executed
<1>3. world' \in World
  <2>1. st.compensation \in Compensations /\ world \in World
    BY <1>2 DEF AgentState, Maybe, TypeInv, TypeOK
  <2> QED
    BY <1>1, <2>1, UndoType
<1>4. undone' \in [compensations : Nat, failures : Nat]
  BY <1>1 DEF TypeInv, TypeOK
<1>5. s \in AgentState /\ s.observations = st.observations
  BY <1>2 DEF AgentState
<1> HIDE DEF s
<1>6. Ready(Route(next, s), s)
  BY <1>1, <1>2, <1>5 DEF Route, Ready, WithProposal, Reviewing, Executing, Executed
<1> QED
  BY <1>1, <1>3, <1>4, <1>5, <1>6, ReturnKeepsType DEF TypeInv, TypeOK

\* rolled_back keeps the observations.
LEMMA RolledBackType == TypeInv /\ rolled_back => TypeInv'
<1> SUFFICES ASSUME TypeInv, rolled_back
             PROVE  TypeInv'
  OBVIOUS
<1> DEFINE s == [st EXCEPT !.status = "ROLLED_BACK"]
<1>1. /\ next = "rolled_back" /\ pc # "idle" /\ Return(s)
      /\ UNCHANGED <<world, ledger, audit, history>>
  BY DEF rolled_back, At, Elsewhere
<1>2. /\ st \in AgentState /\ "ROLLED_BACK" \in Maybe(States)
  BY DEF TypeInv, TypeOK, Maybe, States
<1>3. /\ s \in AgentState /\ s.observations = st.observations
      /\ s.proposed_action = st.proposed_action
      /\ s.action_parameters = st.action_parameters
  BY <1>2 DEF AgentState
<1> HIDE DEF s
<1>4. Ready(Route(next, s), s)
  BY <1>1, <1>3 DEF TypeInv, Route, Ready, WithProposal, Reviewing, Executing, Executed
<1> QED
  BY <1>1, <1>3, <1>4, ReturnKeepsType DEF TypeInv, TypeOK, history

\* completed ends the run.
LEMMA CompletedType == TypeInv /\ completed => TypeInv'
<1> SUFFICES ASSUME TypeInv, completed
             PROVE  TypeInv'
  OBVIOUS
<1> DEFINE s == [st EXCEPT !.status = "COMPLETED", !.final_state = "COMPLETED"]
<1>1. /\ next = "completed" /\ pc # "idle" /\ Return(s)
      /\ UNCHANGED <<world, ledger, audit, history>>
  BY DEF completed, At, Elsewhere
<1>2. /\ st \in AgentState /\ "COMPLETED" \in Maybe(States)
      /\ "COMPLETED" \in Maybe({"COMPLETED", "ESCALATED"})
  BY DEF TypeInv, TypeOK, Maybe, States
<1>3. /\ s \in AgentState /\ s.observations = st.observations
      /\ s.proposed_action = st.proposed_action
      /\ s.action_parameters = st.action_parameters
  BY <1>2 DEF AgentState
<1> HIDE DEF s
<1>4. Ready(Route(next, s), s)
  BY <1>1, <1>3 DEF TypeInv, Route, Ready, WithProposal, Reviewing, Executing, Executed
<1> QED
  BY <1>1, <1>3, <1>4, ReturnKeepsType DEF TypeInv, TypeOK, history

\* escalate ends the run.
LEMMA EscalateType == TypeInv /\ escalate => TypeInv'
<1> SUFFICES ASSUME TypeInv, escalate
             PROVE  TypeInv'
  OBVIOUS
<1> DEFINE s == [st EXCEPT !.status = "ESCALATED", !.final_state = "ESCALATED"]
<1>1. /\ next = "escalate" /\ pc # "idle" /\ Return(s)
      /\ UNCHANGED <<world, ledger, audit, history>>
  BY DEF escalate, At, Elsewhere
<1>2. /\ st \in AgentState /\ "ESCALATED" \in Maybe(States)
      /\ "ESCALATED" \in Maybe({"COMPLETED", "ESCALATED"})
  BY DEF TypeInv, TypeOK, Maybe, States
<1>3. /\ s \in AgentState /\ s.observations = st.observations
      /\ s.proposed_action = st.proposed_action
      /\ s.action_parameters = st.action_parameters
  BY <1>2 DEF AgentState
<1> HIDE DEF s
<1>4. Ready(Route(next, s), s)
  BY <1>1, <1>3 DEF TypeInv, Route, Ready, WithProposal, Reviewing, Executing, Executed
<1> QED
  BY <1>1, <1>3, <1>4, ReturnKeepsType DEF TypeInv, TypeOK, history

\* replan counts a cycle and gives a reason.
LEMMA ReplanType == TypeInv /\ replan => TypeInv'
<1> SUFFICES ASSUME TypeInv, replan
             PROVE  TypeInv'
  OBVIOUS
<1> DEFINE r == replan_reason
           s == [st EXCEPT !.status = "REPLANNING", !.replan_cycles = @ + 1,
                           !.replan_context = r]
<1>1. /\ next = "replan" /\ pc # "idle" /\ Return(s)
      /\ UNCHANGED <<world, ledger, audit, history>>
  BY DEF replan, At, Elsewhere
<1>2. r \in Maybe(Reasons)
  BY DEF replan_reason, Reasons, Maybe
<1> HIDE DEF r
<1>3. /\ st \in AgentState /\ "REPLANNING" \in Maybe(States)
      /\ st.replan_cycles + 1 \in Nat /\ st.observations # NoVal
  BY <1>1 DEF TypeInv, TypeOK, Maybe, States, AgentState, Ready
<1>4. s \in AgentState /\ s.observations = st.observations
  BY <1>2, <1>3 DEF AgentState
<1> HIDE DEF s
<1>5. Route(next, s) \in {"escalate", "propose_action"}
  BY <1>1 DEF Route, route_after_replan
<1>6. Ready(Route(next, s), s)
  BY <1>3, <1>4, <1>5 DEF Ready, WithProposal, Reviewing, Executing, Executed
<1> QED
  BY <1>1, <1>4, <1>6, ReturnKeepsType DEF TypeInv, TypeOK, history

\* A node that raises or suspends stays pending in the same checkpoint.
LEMMA AbandonType ==
  ASSUME TypeInv, Abandon, Elsewhere,
         torn' \in [effect : Nat, undo : Nat, commit : Nat, rollback : Nat],
         crashes' \in Nat,
         UNCHANGED <<consent, applied, attempts, undone, drifts, starts>>
  PROVE  TypeInv'
<1>1. /\ pc' = "idle" /\ upd' = NoVal /\ decision' = NoVal
      /\ UNCHANGED <<next, st, world, ledger, audit>>
  BY DEF Abandon, Elsewhere
<1>2. TypeOK'
  BY <1>1 DEF TypeInv, TypeOK, Maybe
<1>3. Phases' /\ Ready(next', st') /\ ~InFlight'
  BY <1>1 DEF TypeInv, Phases, InFlight
<1> QED
  BY <1>2, <1>3 DEF TypeInv

\* ... whichever node it is (interrupt, the raising paths).
LEMMA PendingType ==
  TypeInv /\ (Suspend \/ EditRaises \/ ExecuteRaises \/ RollbackRaises) => TypeInv'
<1> SUFFICES ASSUME TypeInv, Suspend \/ EditRaises \/ ExecuteRaises \/ RollbackRaises
             PROVE  TypeInv'
  OBVIOUS
<1>1. Abandon /\ Elsewhere /\ UNCHANGED history
  BY DEF Suspend, EditRaises, ExecuteRaises, RollbackRaises
<1> QED
  BY <1>1, AbandonType DEF history, TypeInv, TypeOK

-----------------------------------------------------------------------------
(* The audit hook, the checkpoint and the processes.                       *)

\* The audit record carries the status of the update.
LEMMA AuditType == TypeInv /\ WriteAudit => TypeInv'
<1> SUFFICES ASSUME TypeInv, WriteAudit
             PROVE  TypeInv'
  OBVIOUS
<1>1. /\ pc = "ran" /\ pc' = "logged"
      /\ audit' = [last     |-> upd.status,
                   complete |-> audit.complete /\ (audit.last = NoVal \/ st.status = audit.last)]
      /\ UNCHANGED <<next, st, upd, decision, world, ledger, history>>
  BY DEF WriteAudit
<1>2. upd \in AgentState
  BY <1>1 DEF TypeInv, TypeOK, Phases, Maybe
<1>3. audit' \in [last : Maybe(States), complete : BOOLEAN]
  <2>1. upd.status \in Maybe(States)
    BY <1>2 DEF AgentState
  <2>2. (audit.complete /\ (audit.last = NoVal \/ st.status = audit.last)) \in BOOLEAN
    OBVIOUS
  <2> QED
    BY <1>1, <2>1, <2>2
<1>4. TypeOK'
  BY <1>1, <1>3 DEF TypeInv, TypeOK, history
<1>5. /\ Phases' /\ Ready(next', st')
      /\ Ready(Route(next', upd'), upd')
  BY <1>1 DEF TypeInv, Phases, InFlight
<1> QED
  BY <1>4, <1>5 DEF TypeInv

\* The checkpoint moves to a node that is ready.
LEMMA CheckpointType == TypeInv /\ Checkpoint => TypeInv'
<1> SUFFICES ASSUME TypeInv, Checkpoint
             PROVE  TypeInv'
  OBVIOUS
<1>1. /\ pc = "logged" /\ st' = upd /\ next' = Route(next, upd)
      /\ pc' = IF next' = "END" THEN "idle" ELSE "enter"
      /\ upd' = NoVal /\ decision' = NoVal
      /\ UNCHANGED <<world, ledger, audit, consent, applied, torn, crashes, drifts, starts>>
  BY DEF Checkpoint, Elsewhere
<1>2. upd \in AgentState
  BY <1>1 DEF TypeInv, TypeOK, Phases, Maybe
<1>3. next' \in NODES \cup {"END"} /\ next' # "none"
  BY <1>1, RouteType DEF NODES
<1>4. attempts' \in [Acts -> Nat]
  <2>1. attempts \in [Acts -> Nat]
    BY DEF TypeInv, TypeOK
  <2>2. \/ attempts' = attempts
        \/ attempts' = [attempts EXCEPT ![upd.proposed_action] = @ + 1]
    BY DEF Checkpoint
  <2> QED
    BY <2>1, <2>2
<1>5. undone' \in [compensations : Nat, failures : Nat]
  <2>1. undone \in [compensations : Nat, failures : Nat]
    BY DEF TypeInv, TypeOK
  <2>2. undone' = undone \/ undone' = [undone EXCEPT !.failures = @ + 1]
    BY DEF Checkpoint
  <2> QED
    BY <2>1, <2>2
<1>6. TypeOK'
  BY <1>1, <1>2, <1>3, <1>4, <1>5 DEF TypeInv, TypeOK, Maybe
<1>7. Phases' /\ ~InFlight'
  BY <1>1, <1>3 DEF Phases, InFlight
<1>8. Ready(next', st')
  BY <1>1 DEF TypeInv, InFlight
<1> QED
  BY <1>6, <1>7, <1>8 DEF TypeInv

\* start_workflow begins at diagnose, which needs nothing.
LEMMA StartType == TypeInv /\ Start => TypeInv'
<1> SUFFICES ASSUME TypeInv, Start
             PROVE  TypeInv'
  OBVIOUS
<1>1. /\ next' = "diagnose" /\ pc' = "enter" /\ starts' = starts + 1
      /\ UNCHANGED <<st, upd, decision, world, ledger, audit>>
      /\ UNCHANGED <<consent, applied, attempts, undone, crashes, drifts>>
  BY DEF Start, Elsewhere
<1>2. torn' \in [effect : Nat, undo : Nat, commit : Nat, rollback : Nat]
  BY DEF Start, TypeInv, TypeOK
<1>3. TypeOK'
  BY <1>1, <1>2 DEF TypeInv, TypeOK, NODES
<1>4. Phases' /\ ~InFlight' /\ Ready(next', st')
  BY <1>1 DEF Phases, InFlight, Ready, WithProposal, Reviewing, Executing, Executed
<1> QED
  BY <1>3, <1>4 DEF TypeInv

\* resume_workflow brings a decision at most.
LEMMA ResumeType == TypeInv /\ Resume => TypeInv'
<1> SUFFICES ASSUME TypeInv, Resume
             PROVE  TypeInv'
  OBVIOUS
<1>1. /\ pc' = "enter" /\ next \notin {"none", "END"} /\ decision' \in Maybe(Decisions)
      /\ UNCHANGED <<next, st, upd, world, ledger, audit, history>>
  BY DEF Resume, Elsewhere, Maybe
<1>2. TypeOK'
  BY <1>1 DEF TypeInv, TypeOK, history
<1>3. Phases' /\ ~InFlight' /\ Ready(next', st')
  BY <1>1 DEF TypeInv, Phases, InFlight
<1> QED
  BY <1>2, <1>3 DEF TypeInv

\* A kill leaves the checkpoint.
LEMMA CrashType == TypeInv /\ Crash => TypeInv'
<1> SUFFICES ASSUME TypeInv, Crash
             PROVE  TypeInv'
  OBVIOUS
<1>1. crashes' \in Nat
  BY DEF Crash, TypeInv, TypeOK
<1>2. torn' \in [effect : Nat, undo : Nat, commit : Nat, rollback : Nat]
  <2> DEFINE effect == IF pc = "record" THEN torn.effect + 1 ELSE torn.effect
             undo == IF next = "rolling_back" /\ pc \in {"ran", "logged"}
                       THEN torn.undo + 1 ELSE torn.undo
             commit == IF pc = "logged" THEN torn.commit + 1 ELSE torn.commit
  <2>1. torn \in [effect : Nat, undo : Nat, commit : Nat, rollback : Nat]
    BY DEF TypeInv, TypeOK
  <2>2. torn' = [torn EXCEPT !.effect = effect, !.undo = undo, !.commit = commit]
    BY <2>1 DEF Crash
  <2>3. effect \in Nat /\ undo \in Nat /\ commit \in Nat
    BY <2>1
  <2> HIDE DEF effect, undo, commit
  <2> QED
    BY <2>1, <2>2, <2>3
<1> QED
  BY <1>1, <1>2, AbandonType DEF Crash

\* Whatever changes the sandbox from outside leaves a sandbox.
LEMMA DriftType == TypeInv /\ Drift => TypeInv'
<1> SUFFICES ASSUME TypeInv, Drift
             PROVE  TypeInv'
  OBVIOUS
<1>1. /\ drifts' = drifts + 1
      /\ UNCHANGED <<next, st, pc, upd, decision, ledger, audit>>
      /\ UNCHANGED <<consent, applied, attempts, undone, torn, crashes, starts>>
  BY DEF Drift, agentVars
<1>2. world \in World
  BY DEF TypeInv, TypeOK
<1>3. world' \in World
  <2>1. ASSUME NEW s \in Services, ServiceDrift(s)
        PROVE  world' \in World
    <3> DEFINE sv == world.services[s]
    <3>1. sv \in ServiceState
      BY <1>2 DEF World
    <3>2. \A level \in FaultLevels : /\ apply_fault(sv, level) \in ServiceState
                                     /\ apply_disk_fault(sv, level) \in ServiceState
      BY <3>1, AgentGraphAssumption, EndpointTypes
    <3>3. Len(sv.version_history) >= 2 => rollback(sv) \in ServiceState
      BY <3>1, RollbackType
    <3>4. PICK sw \in ServiceState : world' = OnService(world, s, sw)
      BY <2>1, <3>2, <3>3, BaselineType DEF ServiceDrift
    <3> QED
      BY <1>2, <3>4, OnServiceType
  <2>2. ASSUME NEW kind \in RECORD_KINDS,
               world' = delete(world, OfKind(world.records, kind))
        PROVE  world' \in World
    BY <1>2, <2>2 DEF World, delete
  <2> QED
    BY <2>1, <2>2 DEF Drift
<1>4. TypeOK'
  BY <1>1, <1>3 DEF TypeInv, TypeOK
<1>5. Phases' /\ Ready(next', st') /\ (InFlight' => Ready(Route(next', upd'), upd'))
  BY <1>1 DEF TypeInv, Phases, InFlight
<1> QED
  BY <1>4, <1>5 DEF TypeInv

-----------------------------------------------------------------------------
(* The theorem.                                                            *)

\* The run starts well typed.
LEMMA InitType == Init => TypeInv
<1> SUFFICES ASSUME Init
             PROVE  TypeInv
  OBVIOUS
<1>1. NewState \in AgentState
  BY DEF NewState, AgentState, Maybe
<1>2. TypeOK
  BY <1>1, AgentGraphAssumption DEF Init, TypeOK, Maybe
<1>3. Phases /\ ~InFlight /\ Ready(next, st)
  BY DEF Init, Phases, InFlight, Ready, WithProposal, Reviewing, Executing, Executed
<1> QED
  BY <1>2, <1>3 DEF TypeInv

\* Every step keeps it.
LEMMA NextType == TypeInv /\ [Next]_vars => TypeInv'
<1> SUFFICES ASSUME TypeInv, [Next]_vars
             PROVE  TypeInv'
  OBVIOUS
<1>1. CASE Node
  BY <1>1, DiagnoseType, ProposeType, ClassifyType, MarkType, AwaitType, RevalidateType,
     PrepareType, ReplayType, LookupType, PerformStepType, RecordType, VerifyType,
     RollingBackType, RolledBackType, ReplanType, CompletedType, EscalateType, PendingType
  DEF Node
<1>2. CASE WriteAudit \/ Checkpoint \/ Start \/ Resume \/ Crash \/ Drift
  BY <1>2, AuditType, CheckpointType, StartType, ResumeType, CrashType, DriftType
<1>3. CASE UNCHANGED vars
  <2>1. UNCHANGED <<next, st, pc, upd, decision, world, ledger, audit, history>>
    BY <1>3 DEF vars, agentVars
  <2>2. TypeOK'
    BY <2>1 DEF TypeInv, TypeOK, history
  <2>3. Phases' /\ Ready(next', st') /\ (InFlight' => Ready(Route(next', upd'), upd'))
    BY <2>1 DEF TypeInv, Phases, InFlight
  <2> QED
    BY <2>2, <2>3 DEF TypeInv
<1> QED
  BY <1>1, <1>2, <1>3 DEF Next, Process

\* In every reachable state of a run, with any services, proposals, edits and
\* bounds: the types hold, and the node pending in the checkpoint finds in it
\* every field it reads, so no rerun after a kill meets a missing value.
THEOREM RunStaysTyped == Spec => []TypeInv
<1> QED
  BY InitType, NextType, PTL DEF Spec

\* The types alone, as the run of the gate checks them.
THEOREM TypeCorrect == Spec => []TypeOK
<1>1. TypeInv => TypeOK
  BY DEF TypeInv
<1> QED
  BY <1>1, RunStaysTyped, PTL

-----------------------------------------------------------------------------
(* The approval gate.                                                      *)

\* The nodes between a proposal and its side effect; the others put no
\* obligation on consent.
Guarded == {"classify_risk", "revalidate"} \cup Reviewing \cup Executing

\* A pending node that is not one of them holds nothing to be kept.
LEMMA UnguardedHolds ==
  ASSUME NEW n, NEW s, NEW c, n \notin Guarded
  PROVE  Guard(n, s, c)
BY DEF Guarded, Guard, Anchored, Cleared, Swept, Executing, Reviewing

\* A node whose update leaves the next one guarded keeps the gate.
LEMMA ReturnKeepsGate ==
  ASSUME GateInv, NEW s, Return(s), consent' = consent,
         Guard(Route(next, s), s, consent)
  PROVE  GateInv'
BY DEF GateInv, Return, InFlight

\* A step after which nothing is in flight, the checkpoint and the consent
\* being as they were, keeps the gate.
LEMMA IdleKeepsGate ==
  ASSUME GateInv, UNCHANGED <<next, st, consent>>, ~InFlight'
  PROVE  GateInv'
BY DEF GateInv

-----------------------------------------------------------------------------
(* The nodes up to the execution.                                          *)

\* A proposal is anchored to the snapshot it was made from.
LEMMA ProposeGate == TypeInv /\ GateInv /\ propose_action => GateInv'
<1> SUFFICES ASSUME TypeInv, GateInv, propose_action
             PROVE  GateInv'
  OBVIOUS
<1>1. PICK p \in Proposals :
        Return([st EXCEPT
          !.status            = "ACTION_PROPOSED",
          !.proposed_action   = p.action,
          !.action_parameters = p.parameters,
          !.invalid_proposal_reason = ~validate_proposal(p.action),
          !.state_fingerprint = IF validate_proposal(p.action)
                                  THEN compute_fingerprint(st.observations, p.action)
                                  ELSE NoVal])
  BY DEF propose_action
<1> DEFINE valid == validate_proposal(p.action)
           f == IF valid THEN compute_fingerprint(st.observations, p.action) ELSE NoVal
           s == [st EXCEPT !.status = "ACTION_PROPOSED",
                           !.proposed_action = p.action, !.action_parameters = p.parameters,
                           !.invalid_proposal_reason = ~valid, !.state_fingerprint = f]
<1>2. next = "propose_action" /\ Return(s) /\ consent' = NoVal
  BY <1>1 DEF propose_action, At
<1>3. st \in AgentState
  BY DEF TypeInv, TypeOK
<1>4. valid => f = compute_fingerprint(st.observations, p.action)
  OBVIOUS
<1> HIDE DEF valid, f
<1>5. /\ s.observations = st.observations /\ s.proposed_action = p.action
      /\ s.state_fingerprint = f /\ s.invalid_proposal_reason = ~valid
  BY <1>3 DEF AgentState
<1> HIDE DEF s
<1>6. Guard(next, st, NoVal)
  BY <1>2, UnguardedHolds DEF Guarded, Reviewing, Executing
<1>7. Guard(Route(next, s), s, NoVal)
  <2>1. CASE valid
    <3>1. Route(next, s) = "classify_risk"
      BY <1>2, <1>5, <2>1 DEF Route, route_after_proposal
    <3> QED
      BY <1>4, <1>5, <2>1, <3>1 DEF Guard, Anchored, Cleared, Swept, Executing
  <2>2. CASE ~valid
    <3>1. Route(next, s) = "replan"
      BY <1>2, <1>5, <2>2 DEF Route, route_after_proposal
    <3> QED
      BY <3>1, UnguardedHolds DEF Guarded, Reviewing, Executing
  <2> QED
    BY <2>1, <2>2
<1> QED
  BY <1>2, <1>6, <1>7 DEF GateInv, Return, InFlight

\* Classified low, an action is of a tool that is not forced high; otherwise it
\* goes to review still anchored.
LEMMA ClassifyGate == TypeInv /\ GateInv /\ classify_risk => GateInv'
<1> SUFFICES ASSUME TypeInv, GateInv, classify_risk
             PROVE  GateInv'
  OBVIOUS
<1>1. PICK llm_tier \in RiskTiers :
        Return([st EXCEPT
          !.status          = "RISK_CLASSIFIED",
          !.risk_tier_final = apply_policy(st.proposed_action.tool, llm_tier,
                                situational_features(st.observations, st.proposed_action))])
  BY DEF classify_risk
<1> DEFINE tier == apply_policy(st.proposed_action.tool, llm_tier,
                     situational_features(st.observations, st.proposed_action))
           s == [st EXCEPT !.status = "RISK_CLASSIFIED", !.risk_tier_final = tier]
<1>2. /\ next = "classify_risk" /\ Return(s) /\ consent' = consent
      /\ tier = "low" => st.proposed_action.tool \notin FORCED_HIGH_TOOLS
  BY <1>1, PolicyTier DEF classify_risk, At, history
<1>3. st \in AgentState
  BY DEF TypeInv, TypeOK
<1> HIDE DEF tier
<1>4. /\ s.observations = st.observations /\ s.proposed_action = st.proposed_action
      /\ s.state_fingerprint = st.state_fingerprint /\ s.risk_tier_final = tier
  BY <1>3 DEF AgentState
<1> HIDE DEF s
<1>5. s.state_fingerprint = compute_fingerprint(s.observations, s.proposed_action)
  BY <1>2, <1>4 DEF GateInv, Guard, Anchored
<1>6. Guard(Route(next, s), s, consent)
  <2>1. CASE tier = "low"
    <3>1. Route(next, s) = "prepare_execution" /\ ~IsGated(s)
      BY <1>2, <1>4, <2>1 DEF Route, route_after_risk_classification, IsGated
    <3> QED
      BY <3>1 DEF Guard, Anchored, Cleared, Swept, Reviewing
  <2>2. CASE tier # "low"
    <3>1. Route(next, s) = "mark_awaiting_approval"
      BY <1>2, <1>4, <2>2 DEF Route, route_after_risk_classification
    <3> QED
      BY <1>5, <3>1 DEF Guard, Anchored, Cleared, Swept, Executing
  <2> QED
    BY <2>1, <2>2
<1> QED
  BY <1>2, <1>6, ReturnKeepsGate

\* Entering the review changes the status only.
LEMMA MarkGate == TypeInv /\ GateInv /\ mark_awaiting_approval => GateInv'
<1> SUFFICES ASSUME TypeInv, GateInv, mark_awaiting_approval
             PROVE  GateInv'
  OBVIOUS
<1> DEFINE s == [st EXCEPT !.status = "AWAITING_APPROVAL"]
<1>1. next = "mark_awaiting_approval" /\ Return(s) /\ consent' = consent
  BY DEF mark_awaiting_approval, At, history
<1>2. st \in AgentState
  BY DEF TypeInv, TypeOK
<1>3. /\ s.observations = st.observations /\ s.proposed_action = st.proposed_action
      /\ s.state_fingerprint = st.state_fingerprint
  BY <1>2 DEF AgentState
<1> HIDE DEF s
<1>4. s.state_fingerprint = compute_fingerprint(s.observations, s.proposed_action)
  BY <1>1, <1>3 DEF GateInv, Guard, Anchored, Reviewing
<1>5. Route(next, s) = "await_approval"
  BY <1>1 DEF Route
<1>6. Guard(Route(next, s), s, consent)
  BY <1>4, <1>5 DEF Guard, Anchored, Cleared, Swept, Executing
<1> QED
  BY <1>1, <1>6, ReturnKeepsGate

\* What leaves the review approved is what was consented to, over the fields it
\* is anchored to.
LEMMA AwaitGate == TypeInv /\ GateInv /\ await_approval => GateInv'
<1> SUFFICES ASSUME TypeInv, GateInv, await_approval
             PROVE  GateInv'
  OBVIOUS
<1> DEFINE g == compute_fingerprint(st.observations, Decided)
           f == IF decision.edited_action = NoVal THEN st.state_fingerprint ELSE g
           s == [st EXCEPT !.approval_decision = decision.decision,
                           !.proposed_action = Decided, !.state_fingerprint = f]
           c == [action |-> Decided, fields |-> g, swept |-> FALSE]
<1>1. st \in AgentState
  BY DEF TypeInv, TypeOK
<1>2. /\ next = "await_approval" /\ Return(s)
      /\ consent' = IF decision.decision \in {"approved", "edited"} THEN c ELSE NoVal
  BY <1>1 DEF await_approval, At, AgentState
<1>3. f = g
  <2>1. CASE decision.edited_action = NoVal
    BY <1>2, <2>1 DEF GateInv, Guard, Anchored, Reviewing, Decided
  <2>2. CASE decision.edited_action # NoVal
    BY <2>2
  <2> QED
    BY <2>1, <2>2
<1> HIDE DEF f
<1>4. /\ s.proposed_action = Decided /\ s.state_fingerprint = f
      /\ s.approval_decision = decision.decision
  BY <1>1 DEF AgentState
<1>5. c.action = Decided /\ c.fields = g
  OBVIOUS
<1>6. c # NoVal
  <2>1. c \in Consents
    <3>1. next = "await_approval" /\ decision # NoVal
          /\ (decision.edited_action # NoVal => ~FingerprintRaises(decision.edited_action))
      BY DEF await_approval, At
    <3>2. /\ Decided \in Acts /\ ~FingerprintRaises(Decided)
          /\ st.observations \in Observations
      BY <1>1, <3>1 DEF TypeInv, TypeOK, Ready, Decided, Decisions, Acts, AgentState, Maybe,
         WithProposal, Reviewing
    <3> QED
      BY <3>2, ActsAreActions, FingerprintType DEF Consents
  <2> QED
    BY <2>1, NoneAssumption
<1> HIDE DEF s, c, g
<1>7. Guard(next, st, consent')
  BY <1>2 DEF GateInv, Guard, Anchored, Cleared, Swept, Executing
<1>8. Guard(Route(next, s), s, consent')
  <2>1. CASE decision.decision \in {"approved", "edited"}
    <3>1. Route(next, s) = IF REVALIDATE THEN "revalidate" ELSE "prepare_execution"
      BY <1>2, <1>4, <2>1 DEF Route, route_after_approval
    <3>2. Consented(s, consent') /\ consent'.fields = s.state_fingerprint
      BY <1>2, <1>3, <1>4, <1>5, <1>6, <2>1 DEF Consented
    <3> QED
      BY <3>1, <3>2 DEF Guard, Anchored, Cleared, Swept, Reviewing, Executing
  <2>2. CASE decision.decision \notin {"approved", "edited"}
    <3>1. Route(next, s) \in {"replan", "escalate"}
      BY <1>2, <1>4, <2>2 DEF Route, route_after_approval
    <3> QED
      BY <3>1, UnguardedHolds DEF Guarded, Reviewing, Executing
  <2> QED
    BY <2>1, <2>2
<1> QED
  BY <1>2, <1>7, <1>8 DEF GateInv, Return, InFlight

\* A sweep that found the fields unchanged confirms the consent over the
\* snapshot the action will execute from.
LEMMA RevalidateGate == TypeInv /\ GateInv /\ revalidate => GateInv'
<1> SUFFICES ASSUME TypeInv, GateInv, revalidate
             PROVE  GateInv'
  OBVIOUS
<1> DEFINE o == gather_observations(world)
           f == compute_fingerprint(o, st.proposed_action)
           drift == f # st.state_fingerprint
           s == [st EXCEPT !.status = "REVALIDATING", !.observations = o,
                           !.state_fingerprint = f, !.drift_detected = drift]
<1>1. st \in AgentState
  BY DEF TypeInv, TypeOK
<1>2. /\ next = "revalidate" /\ Return(s)
      /\ consent' = IF consent = NoVal THEN NoVal
                    ELSE [consent EXCEPT !.swept = TRUE]
  BY DEF revalidate, At
<1>3. /\ consent # NoVal /\ consent \in Consents
      /\ consent.action = st.proposed_action
      /\ REVALIDATE => consent.fields = st.state_fingerprint
  BY <1>2 DEF GateInv, Guard, Cleared, Consented, Swept, TypeInv, TypeOK, Maybe
<1> DEFINE c == [consent EXCEPT !.swept = TRUE]
<1>4. /\ consent' = c /\ c \in Consents
      /\ c.action = consent.action /\ c.fields = consent.fields /\ c.swept = TRUE
  BY <1>2, <1>3 DEF Consents
<1>5. c # NoVal
  BY <1>4, NoneAssumption
<1>6. ~drift => f = st.state_fingerprint
  OBVIOUS
<1>7. f = compute_fingerprint(o, st.proposed_action)
  OBVIOUS
<1> HIDE DEF o, f, drift, c
<1>8. /\ s.observations = o /\ s.proposed_action = st.proposed_action
      /\ s.drift_detected = drift
  BY <1>1 DEF AgentState
<1> HIDE DEF s
<1>9. Guard(next, st, consent')
  BY <1>2, <1>3, <1>4, <1>5 DEF Guard, Anchored, Cleared, Consented, Swept, Reviewing, Executing
<1>10. Guard(Route(next, s), s, consent')
  <2>1. CASE drift
    <3>1. Route(next, s) = "replan"
      BY <1>2, <1>8, <2>1 DEF Route, route_after_revalidation
    <3> QED
      BY <3>1, UnguardedHolds DEF Guarded, Reviewing, Executing
  <2>2. CASE ~drift
    <3>1. Route(next, s) = "prepare_execution"
      BY <1>2, <1>8, <2>2 DEF Route, route_after_revalidation
    <3>2. Consented(s, c)
      BY <1>3, <1>4, <1>5, <1>8 DEF Consented
    <3>3. REVALIDATE => /\ c.swept
                        /\ c.fields = compute_fingerprint(s.observations, s.proposed_action)
      BY <1>3, <1>4, <1>6, <1>7, <1>8, <2>2
    <3> QED
      BY <1>4, <3>1, <3>2, <3>3 DEF Guard, Anchored, Cleared, Swept, Reviewing
  <2> QED
    BY <2>1, <2>2
<1> QED
  BY <1>2, <1>9, <1>10 DEF GateInv, Return, InFlight

\* Naming the key changes nothing the gate reads.
LEMMA PrepareGate == TypeInv /\ GateInv /\ prepare_execution => GateInv'
<1> SUFFICES ASSUME TypeInv, GateInv, prepare_execution
             PROVE  GateInv'
  OBVIOUS
<1> DEFINE s == [st EXCEPT !.status = "EXECUTING", !.idempotency_key = st.proposed_action]
<1>1. next = "prepare_execution" /\ Return(s) /\ consent' = consent
  BY DEF prepare_execution, At, history
<1>2. st \in AgentState
  BY DEF TypeInv, TypeOK
<1>3. /\ s.observations = st.observations /\ s.proposed_action = st.proposed_action
      /\ s.risk_tier_final = st.risk_tier_final
  BY <1>2 DEF AgentState
<1> HIDE DEF s
<1>4. Route(next, s) = "execute"
  BY <1>1 DEF Route
<1>5. IsGated(s) <=> IsGated(st)
  BY <1>3 DEF IsGated
<1>6. Guard("prepare_execution", st, consent)
  BY <1>1 DEF GateInv
<1>7. Guard("execute", s, consent)
  BY <1>3, <1>5, <1>6 DEF Guard, Anchored, Cleared, Consented, Swept, Reviewing, Executing
<1> QED
  BY <1>1, <1>4, <1>7, ReturnKeepsGate

-----------------------------------------------------------------------------
(* The other steps.                                                        *)

\* Nodes that lead out of the guarded ones.
LEMMA FreeGate ==
  /\ GateInv
  /\ \/ diagnose \/ execute_replay \/ verify \/ rolling_back \/ rolled_back
     \/ replan \/ completed \/ escalate
  => GateInv'
<1> SUFFICES ASSUME GateInv,
                    \/ diagnose \/ execute_replay \/ verify \/ rolling_back \/ rolled_back
                    \/ replan \/ completed \/ escalate
             PROVE  GateInv'
  OBVIOUS
<1>1. /\ next \in {"diagnose", "execute", "verify", "rolling_back", "rolled_back",
                   "replan", "completed", "escalate"}
      /\ consent' = consent
      /\ \E s : Return(s)
  BY DEF diagnose, execute_replay, verify, rolling_back, rolled_back, replan,
         completed, escalate, At, history
<1>2. PICK s : Return(s)
  BY <1>1
<1>3. Route(next, s) \notin Guarded
  BY <1>1 DEF Route, Guarded, Reviewing, Executing, route_after_verification,
         route_after_replan
<1>4. Guard(Route(next, s), s, consent)
  BY <1>3, UnguardedHolds
<1> QED
  BY <1>1, <1>2, <1>4, ReturnKeepsGate

\* The steps inside execute keep the checkpoint and the consent; what follows
\* is verify.
LEMMA ExecuteGate ==
  TypeInv /\ GateInv /\ (execute_lookup \/ execute_perform \/ execute_record) => GateInv'
<1> SUFFICES ASSUME TypeInv, GateInv, execute_lookup \/ execute_perform \/ execute_record
             PROVE  GateInv'
  OBVIOUS
<1>1. UNCHANGED <<next, st, consent>>
  BY DEF execute_lookup, execute_perform, execute_record, history
<1>2. CASE execute_lookup \/ execute_perform
  <2>1. ~InFlight'
    BY <1>2 DEF execute_lookup, execute_perform, InFlight
  <2> QED
    BY <1>1, <2>1, IdleKeepsGate
<1>3. CASE execute_record
  <2>1. next = "execute"
    BY <1>3 DEF execute_record, TypeInv, Phases
  <2>2. Route(next', upd') \notin Guarded
    BY <1>1, <2>1 DEF Route, Guarded, Reviewing, Executing
  <2>3. Guard(Route(next', upd'), upd', consent')
    BY <2>2, UnguardedHolds
  <2> QED
    BY <1>1, <2>3 DEF GateInv
<1> QED
  BY <1>2, <1>3

\* Suspending, raising or being killed leaves the checkpoint and the consent.
LEMMA AbandonGate ==
  GateInv /\ (Suspend \/ EditRaises \/ ExecuteRaises \/ RollbackRaises \/ Crash) => GateInv'
<1> SUFFICES ASSUME GateInv,
                    Suspend \/ EditRaises \/ ExecuteRaises \/ RollbackRaises \/ Crash
             PROVE  GateInv'
  OBVIOUS
<1>1. UNCHANGED <<next, st, consent>> /\ ~InFlight'
  BY DEF Suspend, EditRaises, ExecuteRaises, RollbackRaises, Crash, Abandon, history, InFlight
<1> QED
  BY <1>1, IdleKeepsGate

\* The audit record, the checkpoint and the sandbox.
LEMMA CommitGate ==
  TypeInv /\ GateInv /\ (WriteAudit \/ Checkpoint \/ Drift) => GateInv'
<1> SUFFICES ASSUME TypeInv, GateInv, WriteAudit \/ Checkpoint \/ Drift
             PROVE  GateInv'
  OBVIOUS
<1>1. CASE WriteAudit
  BY <1>1 DEF WriteAudit, GateInv, InFlight, history
<1>2. CASE Checkpoint
  <2>1. /\ InFlight /\ st' = upd /\ next' = Route(next, upd) /\ consent' = consent
        /\ ~InFlight'
    BY <1>2 DEF Checkpoint, InFlight
  <2> QED
    BY <2>1 DEF GateInv
<1>3. CASE Drift
  BY <1>3 DEF Drift, agentVars, GateInv, InFlight
<1> QED
  BY <1>1, <1>2, <1>3

\* A new process starts over from diagnose, or takes the pending node up.
LEMMA DriveGate == TypeInv /\ GateInv /\ (Start \/ Resume) => GateInv'
<1> SUFFICES ASSUME TypeInv, GateInv, Start \/ Resume
             PROVE  GateInv'
  OBVIOUS
<1>1. CASE Start
  <2>1. next' \notin Guarded /\ ~InFlight'
    BY <1>1 DEF Start, Guarded, Reviewing, Executing, InFlight
  <2>2. Guard(next', st', consent')
    BY <2>1, UnguardedHolds
  <2> QED
    BY <2>1, <2>2 DEF GateInv
<1>2. CASE Resume
  BY <1>2 DEF Resume, history, InFlight, GateInv
<1> QED
  BY <1>1, <1>2

-----------------------------------------------------------------------------
(* The theorems.                                                           *)

\* Nothing is pending when the run is created.
LEMMA InitGate == Init => GateInv
BY UnguardedHolds DEF Init, GateInv, InFlight, Guarded, Reviewing, Executing

\* Every step keeps the gate.
LEMMA NextGate == TypeInv /\ GateInv /\ [Next]_vars => GateInv'
<1> SUFFICES ASSUME TypeInv, GateInv, [Next]_vars
             PROVE  GateInv'
  OBVIOUS
<1>1. CASE Next
  BY <1>1, ProposeGate, ClassifyGate, MarkGate, AwaitGate, RevalidateGate, PrepareGate,
     FreeGate, ExecuteGate, AbandonGate, CommitGate, DriveGate
  DEF Next, Process, Node
<1>2. CASE UNCHANGED vars
  BY <1>2 DEF vars, agentVars, history, GateInv, InFlight
<1> QED
  BY <1>1, <1>2

\* A side effect is that of the checkpointed proposal, in the node execute.
LEMMA OnlyExecuteActs ==
  ASSUME TypeInv, [Next]_vars, NEW a \in Acts, Happens(a)
  PROVE  next = "execute" /\ a = st.proposed_action
<1>1. applied' # applied
  BY DEF Happens
<1>2. execute_perform
  BY <1>1 DEF Next, Process, Node, diagnose, propose_action, classify_risk,
     mark_awaiting_approval, Suspend, await_approval, EditRaises, revalidate,
     prepare_execution, execute_replay, execute_lookup, execute_record, ExecuteRaises,
     verify, rolling_back, RollbackRaises, rolled_back, replan, completed, escalate,
     WriteAudit, Checkpoint, Start, Resume, Crash, Drift, vars, history
<1>3. next = "execute" /\ applied' = [applied EXCEPT ![st.proposed_action] = @ + 1]
  BY <1>2 DEF execute_perform, TypeInv, Phases
<1>4. applied \in [Acts -> Nat]
  BY DEF TypeInv, TypeOK
<1> QED
  BY <1>3, <1>4 DEF Happens

\* The invariant holds throughout a run.
LEMMA GateHolds == Spec => [](TypeInv /\ GateInv)
<1>1. Init => TypeInv /\ GateInv
  BY InitType, InitGate
<1>2. TypeInv /\ GateInv /\ [Next]_vars => (TypeInv /\ GateInv)'
  BY NextType, NextGate
<1> QED
  BY <1>1, <1>2, PTL DEF Spec

\* For any proposals, edits, decisions, kills, restarts and changes of the
\* sandbox: no medium- or high-risk action, and never one of a tool forced
\* high, happens without a human's consent to exactly that action.
THEOREM NoActionWithoutConsent == Spec => HumanGate
<1>1. TypeInv /\ GateInv /\ [Next]_vars =>
        [\A a \in Acts : Happens(a) /\ Gated(a) =>
           consent # NoVal /\ consent.action = a]_vars
  <2> SUFFICES ASSUME TypeInv, GateInv, [Next]_vars, NEW a \in Acts, Happens(a), Gated(a)
               PROVE  consent # NoVal /\ consent.action = a
    OBVIOUS
  <2>1. next = "execute" /\ a = st.proposed_action
    BY OnlyExecuteActs
  <2>2. IsGated(st)
    BY <2>1 DEF Gated, IsGated
  <2> QED
    BY <2>1, <2>2 DEF GateInv, Guard, Cleared, Consented, Executing
<1> QED
  BY <1>1, GateHolds, PTL DEF Spec, HumanGate

\* With revalidation on, a gated action happens only over fields that were
\* swept after the consent and found to be those it was given for.
THEOREM NoActionOnUnseenDrift == REVALIDATE => (Spec => NoUnseenDrift)
<1> SUFFICES ASSUME REVALIDATE
             PROVE  Spec => NoUnseenDrift
  OBVIOUS
<1>1. TypeInv /\ GateInv /\ [Next]_vars =>
        [\A a \in Acts : Happens(a) /\ Gated(a) =>
           /\ consent # NoVal /\ consent.swept
           /\ consent.fields = compute_fingerprint(st.observations, a)]_vars
  <2> SUFFICES ASSUME TypeInv, GateInv, [Next]_vars, NEW a \in Acts, Happens(a), Gated(a)
               PROVE  /\ consent # NoVal /\ consent.swept
                      /\ consent.fields = compute_fingerprint(st.observations, a)
    OBVIOUS
  <2>1. next = "execute" /\ a = st.proposed_action
    BY OnlyExecuteActs
  <2>2. IsGated(st)
    BY <2>1 DEF Gated, IsGated
  <2> QED
    BY <2>1, <2>2 DEF GateInv, Guard, Cleared, Consented, Swept, Executing
<1> QED
  BY <1>1, GateHolds, PTL DEF Spec, NoUnseenDrift
=============================================================================
