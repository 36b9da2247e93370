----------------------------- MODULE AgentGraph -----------------------------
(***************************************************************************)
(* One run of the remediation agent: the nodes of src/agent/nodes.py wired *)
(* as in src/agent/graph.py, driven by start_workflow and resume_workflow  *)
(* over a checkpoint that LangGraph saves after every node, each node      *)
(* wrapped by the audit hook, in a sandbox that may change under it and in *)
(* a process that may be killed between any two of its steps.              *)
(*                                                                         *)
(* A node runs in phases.  "enter": the node's state is the checkpoint and *)
(* nothing of it has happened yet.  "ran": its body is done, its update is *)
(* in memory.  "logged": its audit record is written.  The checkpoint then *)
(* commits the update and moves to the next node.  execute has two more    *)
(* phases, "perform" and "record", around the tool's real side effect.     *)
(* "idle": no process is driving the run.  Killing the process loses the   *)
(* phase and the update and keeps the checkpoint, so the node reruns from  *)
(* its beginning.                                                          *)
(***************************************************************************)
EXTENDS RiskPolicy, Fingerprint

CONSTANTS
  Proposals,          \* what the reasoner may propose: [action, parameters]
  Edits,              \* the actions a reviewer may edit a proposal into
  FaultLevels,        \* the levels an outside change may move a metric to
  MAX_REPLAN_CYCLES,
  REVALIDATE,         \* build_graph(..., revalidate=)
  DURABLE_LEDGER,     \* the store is PostgresExecutedActionsStore
  InitialWorld,       \* the sandbox when the run is created
  \* bounds of the model
  MaxCrashes, MaxDrifts, MaxStarts

Acts == {p.action : p \in Proposals} \cup Edits

\* A process that is killed takes a ledger it has in memory along.
ASSUME AgentGraphAssumption ==
  /\ Proposals \subseteq [action : Action, parameters : Params]
  /\ Edits \subseteq Action
  /\ FaultLevels \subseteq Levels
  /\ MAX_REPLAN_CYCLES \in Nat \ {0}
  /\ REVALIDATE \in BOOLEAN /\ DURABLE_LEDGER \in BOOLEAN
  /\ InitialWorld \in World
  /\ NoVal \notin Action
  /\ MaxCrashes \in Nat /\ MaxDrifts \in Nat /\ MaxStarts \in Nat

VARIABLES
  next,      \* the node pending in the checkpoint; "none" before the first start
  st,        \* the checkpointed AgentState
  pc,        \* the phase of the node in flight, "idle" when no process runs
  upd,       \* {**state, **update} of the node in flight
  decision,  \* the resume value of the invocation in flight, if any
  world,     \* the sandbox
  ledger,    \* executed_actions: the outcome recorded under each key
  audit,     \* the audit log, folded to what is_complete_chain reads of it
  (* History: not read by any action's guard except the bounds.            *)
  consent,   \* the approval the current proposal rests on (Consents)
  applied,   \* how often each action's side effect really happened
  attempts,  \* how often prepare_execution opened an attempt on each action
  undone,    \* compensations applied, failed verifications
  torn,      \* work cut in two: kills between a side effect and what makes it
             \* durable, and rollbacks that were pending when the run was restarted
  crashes, drifts, starts

agentVars == <<next, st, pc, upd, decision>>
history   == <<consent, applied, attempts, undone, torn, crashes, drifts, starts>>
vars      == <<agentVars, world, ledger, audit, history>>

States == {"DIAGNOSING", "ACTION_PROPOSED", "RISK_CLASSIFIED", "AWAITING_APPROVAL",
           "REVALIDATING", "REPLANNING", "EXECUTING", "VERIFYING",
           "ROLLING_BACK", "ROLLED_BACK", "ESCALATED", "COMPLETED"}

NODES == {"diagnose", "propose_action", "classify_risk", "mark_awaiting_approval",
          "await_approval", "revalidate", "prepare_execution", "execute", "verify",
          "rolling_back", "rolled_back", "replan", "escalate", "completed"}

Decisions == [decision : {"approved", "edited", "rejected", "timeout"},
              edited_action : Edits \cup {NoVal}]

Reasons == {"invalid", "rejected", "drift", "not_fixed", "unresolved"}

Maybe(S) == {NoVal} \cup S

AgentState ==
  [status                  : Maybe(States),
   observations            : Maybe(Observations),
   proposed_action         : Maybe(Acts),
   action_parameters       : Maybe(Params),
   state_fingerprint       : Maybe(Fingerprints),
   invalid_proposal_reason : BOOLEAN,
   risk_tier_final         : Maybe(RiskTiers),
   approval_decision       : Maybe({"approved", "edited", "rejected", "timeout"}),
   drift_detected          : BOOLEAN,
   idempotency_key         : Maybe(Acts),
   execution_result        : Maybe(SUBSET RecordIds),
   compensation            : Maybe(Compensations),
   verification_passed     : Maybe(BOOLEAN),
   replan_cycles           : Nat,
   replan_context          : Maybe(Reasons),
   final_state             : Maybe({"COMPLETED", "ESCALATED"})]

\* An approval: of which action, over which fields, swept again since, swept
\* by the invocation that is running.
Consents == [action : Acts, fields : Fingerprints, swept : BOOLEAN]

\* None is none of the values it stands in for.
ASSUME NoneAssumption ==
  /\ NoVal \notin Params /\ NoVal \notin Observations /\ NoVal \notin Compensations
  /\ NoVal \notin Outcomes /\ NoVal \notin AgentState /\ NoVal \notin Consents
  /\ NoVal \notin States /\ NoVal \notin {"approved", "edited", "rejected", "timeout"}
  /\ \A ids \in SUBSET RecordIds : NoVal # ids

NewState ==
  [status |-> NoVal, observations |-> NoVal, proposed_action |-> NoVal,
   action_parameters |-> NoVal, state_fingerprint |-> NoVal,
   invalid_proposal_reason |-> FALSE, risk_tier_final |-> NoVal,
   approval_decision |-> NoVal, drift_detected |-> FALSE,
   idempotency_key |-> NoVal, execution_result |-> NoVal,
   compensation |-> NoVal, verification_passed |-> NoVal,
   replan_cycles |-> 0, replan_context |-> NoVal, final_state |-> NoVal]

Init ==
  /\ next = "none" /\ st = NewState
  /\ pc = "idle" /\ upd = NoVal /\ decision = NoVal
  /\ world = InitialWorld
  /\ ledger = [a \in Acts |-> NoVal]
  /\ audit = [last |-> NoVal, complete |-> TRUE]
  /\ consent = NoVal
  /\ applied = [a \in Acts |-> 0]
  /\ attempts = [a \in Acts |-> 0]
  /\ undone = [compensations |-> 0, failures |-> 0]
  /\ torn = [effect |-> 0, undo |-> 0, commit |-> 0, rollback |-> 0]
  /\ crashes = 0 /\ drifts = 0 /\ starts = 0

-----------------------------------------------------------------------------
(* What every node shares.                                                 *)

At(n) == pc = "enter" /\ next = n

\* The node function returns: its update is merged over the state.
Return(s) ==
  /\ pc' = "ran" /\ upd' = s
  /\ UNCHANGED <<next, st, decision>>

\* The invocation is over with the node still pending: the node raised,
\* interrupt() suspended it, or the process was killed.
Abandon ==
  /\ pc' = "idle" /\ upd' = NoVal /\ decision' = NoVal
  /\ UNCHANGED <<next, st>>

Elsewhere == UNCHANGED <<world, ledger, audit>>

-----------------------------------------------------------------------------
(* The nodes.                                                              *)

diagnose ==
  /\ At("diagnose")
  /\ Return([st EXCEPT !.status = "DIAGNOSING",
                        !.observations = gather_observations(world)])
  /\ Elsewhere /\ UNCHANGED history

\* The reasoner is free to propose anything, whatever it is told.
propose_action ==
  /\ At("propose_action")
  /\ \E p \in Proposals :
       Return([st EXCEPT
         !.status            = "ACTION_PROPOSED",
         !.proposed_action   = p.action,
         !.action_parameters = p.parameters,
         !.invalid_proposal_reason = ~validate_proposal(p.action),
         !.state_fingerprint = IF validate_proposal(p.action)
                                 THEN compute_fingerprint(st.observations, p.action)
                                 ELSE NoVal])
  /\ consent' = NoVal
  /\ Elsewhere
  /\ UNCHANGED <<applied, attempts, undone, torn, crashes, drifts, starts>>

\* The classifier is free to return any tier.
classify_risk ==
  /\ At("classify_risk")
  /\ \E llm_tier \in RiskTiers :
       Return([st EXCEPT
         !.status          = "RISK_CLASSIFIED",
         !.risk_tier_final = apply_policy(st.proposed_action.tool, llm_tier,
                               situational_features(st.observations, st.proposed_action))])
  /\ Elsewhere /\ UNCHANGED history

mark_awaiting_approval ==
  /\ At("mark_awaiting_approval")
  /\ Return([st EXCEPT !.status = "AWAITING_APPROVAL"])
  /\ Elsewhere /\ UNCHANGED history

\* interrupt(): without a resume value the run is suspended here.
Suspend ==
  /\ At("await_approval") /\ decision = NoVal
  /\ Abandon
  /\ Elsewhere /\ UNCHANGED history

Decided ==
  IF decision.edited_action = NoVal THEN st.proposed_action ELSE decision.edited_action

\* An edited action replaces the proposed one whatever the decision says and
\* keeps its parameters and its tier.
await_approval ==
  /\ At("await_approval") /\ decision # NoVal
  /\ decision.edited_action # NoVal => ~FingerprintRaises(decision.edited_action)
  /\ Return([st EXCEPT
       !.approval_decision = decision.decision,
       !.proposed_action   = Decided,
       !.state_fingerprint = IF decision.edited_action = NoVal THEN @
                             ELSE compute_fingerprint(st.observations, Decided)])
  /\ consent' = IF decision.decision \in {"approved", "edited"}
                  THEN [action |-> Decided,
                        fields |-> compute_fingerprint(st.observations, Decided),
                        swept  |-> FALSE]
                  ELSE NoVal
  /\ Elsewhere
  /\ UNCHANGED <<applied, attempts, undone, torn, crashes, drifts, starts>>

\* compute_fingerprint looks the edited target up and does not find it.
EditRaises ==
  /\ At("await_approval") /\ decision # NoVal
  /\ decision.edited_action # NoVal
  /\ FingerprintRaises(decision.edited_action)
  /\ Abandon
  /\ Elsewhere /\ UNCHANGED history

\* Mutant: the sweep that is compared is the one of the proposal.
revalidate_Cached ==
  /\ At("revalidate")
  /\ Return([st EXCEPT !.status = "REVALIDATING", !.drift_detected = FALSE])
  /\ consent' = IF consent = NoVal THEN NoVal ELSE [consent EXCEPT !.swept = TRUE]
  /\ Elsewhere
  /\ UNCHANGED <<applied, attempts, undone, torn, crashes, drifts, starts>>

revalidate ==
  /\ At("revalidate")
  /\ LET fresh == gather_observations(world)
         fresh_fingerprint == compute_fingerprint(fresh, st.proposed_action)
     IN Return([st EXCEPT
          !.status            = "REVALIDATING",
          !.observations      = fresh,
          !.state_fingerprint = fresh_fingerprint,
          !.drift_detected    = fresh_fingerprint # st.state_fingerprint])
  /\ consent' = IF consent = NoVal THEN NoVal ELSE [consent EXCEPT !.swept = TRUE]
  /\ Elsewhere
  /\ UNCHANGED <<applied, attempts, undone, torn, crashes, drifts, starts>>

\* The key is the run and the action, without its parameters; with one run
\* it is the action.
prepare_execution ==
  /\ At("prepare_execution")
  /\ Return([st EXCEPT !.status = "EXECUTING", !.idempotency_key = st.proposed_action])
  /\ Elsewhere /\ UNCHANGED history

-----------------------------------------------------------------------------
(* execute: look the key up, act, record.                                  *)

WithOutcome(o) ==
  [st EXCEPT !.status           = "EXECUTING",
             !.execution_result = o.deleted,
             !.compensation     = o.compensation]

\* A row Postgres answers with has its JSONB columns as the text they were
\* recorded as, which the dict fields of MutationResult refuse.
ReplayRaises == DURABLE_LEDGER /\ ledger[st.idempotency_key] # NoVal

execute_replay ==
  /\ At("execute")
  /\ ~ArgumentMissing(st.proposed_action, st.action_parameters)
  /\ ledger[st.idempotency_key] # NoVal /\ ~ReplayRaises
  /\ Return(WithOutcome(ledger[st.idempotency_key]))
  /\ Elsewhere /\ UNCHANGED history

\* Mutant: the ledger is not consulted.
execute_lookup_Unkeyed ==
  /\ At("execute")
  /\ ~ArgumentMissing(st.proposed_action, st.action_parameters)
  /\ pc' = "perform"
  /\ UNCHANGED <<next, st, upd, decision>>
  /\ Elsewhere /\ UNCHANGED history

execute_lookup ==
  /\ At("execute")
  /\ ~ArgumentMissing(st.proposed_action, st.action_parameters)
  /\ ledger[st.idempotency_key] = NoVal
  /\ pc' = "perform"
  /\ UNCHANGED <<next, st, upd, decision>>
  /\ Elsewhere /\ UNCHANGED history

execute_perform ==
  /\ pc = "perform"
  /\ ~PerformRaises(world, st.proposed_action)
  /\ world' = Perform(world, st.proposed_action, st.action_parameters)
  /\ upd' = WithOutcome(OutcomeOf(world, st.proposed_action, st.action_parameters))
  /\ pc' = "record"
  /\ applied' = [applied EXCEPT ![st.proposed_action] = @ + 1]
  /\ UNCHANGED <<next, st, decision, ledger, audit>>
  /\ UNCHANGED <<consent, attempts, undone, torn, crashes, drifts, starts>>

\* Mutant: the outcome is not persisted.
execute_record_Lost ==
  /\ pc = "record" /\ pc' = "ran"
  /\ UNCHANGED <<next, st, upd, decision, world, ledger, audit, history>>

\* The first outcome recorded under a key stays.
execute_record ==
  /\ pc = "record"
  /\ ledger' = [ledger EXCEPT ![st.idempotency_key] =
                  IF @ # NoVal THEN @
                  ELSE [deleted      |-> upd.execution_result,
                        compensation |-> upd.compensation]]
  /\ pc' = "ran"
  /\ UNCHANGED <<next, st, upd, decision, world, audit>>
  /\ UNCHANGED history

ExecuteRaises ==
  /\ \/ /\ At("execute")
        /\ ArgumentMissing(st.proposed_action, st.action_parameters) \/ ReplayRaises
     \/ pc = "perform" /\ PerformRaises(world, st.proposed_action)
  /\ Abandon
  /\ Elsewhere /\ UNCHANGED history

-----------------------------------------------------------------------------
(* The nodes after execute.                                                *)

verify ==
  /\ At("verify")
  /\ Return([st EXCEPT
       !.status = "VERIFYING",
       !.verification_passed = verify_action(world, st.proposed_action, st.execution_result)])
  /\ Elsewhere /\ UNCHANGED history

rolling_back ==
  /\ At("rolling_back")
  /\ ~CompensationRaises(st.compensation)
  /\ world' = apply_compensation(world, st.compensation)
  /\ Return([st EXCEPT !.status = "ROLLING_BACK"])
  /\ undone' = [undone EXCEPT !.compensations = @ + 1]
  /\ UNCHANGED <<ledger, audit>>
  /\ UNCHANGED <<consent, applied, attempts, torn, crashes, drifts, starts>>

RollbackRaises ==
  /\ At("rolling_back")
  /\ CompensationRaises(st.compensation)
  /\ Abandon
  /\ Elsewhere /\ UNCHANGED history

rolled_back ==
  /\ At("rolled_back")
  /\ Return([st EXCEPT !.status = "ROLLED_BACK"])
  /\ Elsewhere /\ UNCHANGED history

\* Mutant: drift is looked at before the rejection.
replan_reason_DriftFirst ==
  CASE st.invalid_proposal_reason -> "invalid"
    [] ~st.invalid_proposal_reason /\ st.drift_detected -> "drift"
    [] ~st.invalid_proposal_reason /\ ~st.drift_detected
         /\ st.approval_decision = "rejected" -> "rejected"
    [] ~st.invalid_proposal_reason /\ ~st.drift_detected
         /\ st.approval_decision # "rejected" /\ st.verification_passed = FALSE -> "not_fixed"
    [] OTHER -> "unresolved"

replan_reason ==
  CASE st.invalid_proposal_reason -> "invalid"
    [] ~st.invalid_proposal_reason /\ st.approval_decision = "rejected" -> "rejected"
    [] ~st.invalid_proposal_reason /\ st.approval_decision # "rejected"
         /\ st.drift_detected -> "drift"
    [] ~st.invalid_proposal_reason /\ st.approval_decision # "rejected"
         /\ ~st.drift_detected /\ st.verification_passed = FALSE -> "not_fixed"
    [] OTHER -> "unresolved"

replan ==
  /\ At("replan")
  /\ Return([st EXCEPT !.status         = "REPLANNING",
                        !.replan_cycles  = @ + 1,
                        !.replan_context = replan_reason])
  /\ Elsewhere /\ UNCHANGED history

completed ==
  /\ At("completed")
  /\ Return([st EXCEPT !.status = "COMPLETED", !.final_state = "COMPLETED"])
  /\ Elsewhere /\ UNCHANGED history

escalate ==
  /\ At("escalate")
  /\ Return([st EXCEPT !.status = "ESCALATED", !.final_state = "ESCALATED"])
  /\ Elsewhere /\ UNCHANGED history

-----------------------------------------------------------------------------
(* The audit hook, and LangGraph's checkpoint with the edges of the graph. *)

\* Mutant: rolled_back is wired without with_audit.
WriteAudit_SkipsRolledBack ==
  /\ pc = "ran"
  /\ pc' = "logged"
  /\ audit' = IF next = "rolled_back" THEN audit
              ELSE [last     |-> upd.status,
                    complete |-> audit.complete /\ (audit.last = NoVal \/ st.status = audit.last)]
  /\ UNCHANGED <<next, st, upd, decision, world, ledger>>
  /\ UNCHANGED history

WriteAudit ==
  /\ pc = "ran"
  /\ pc' = "logged"
  /\ audit' = [last     |-> upd.status,
               complete |-> audit.complete /\ (audit.last = NoVal \/ st.status = audit.last)]
  /\ UNCHANGED <<next, st, upd, decision, world, ledger>>
  /\ UNCHANGED history

route_after_proposal(s) == IF s.invalid_proposal_reason THEN "replan" ELSE "classify_risk"

\* Mutant: only the high tier is gated.
route_after_risk_classification_HighOnly(s) ==
  IF s.risk_tier_final # "high" THEN "prepare_execution" ELSE "mark_awaiting_approval"

route_after_risk_classification(s) ==
  IF s.risk_tier_final = "low" THEN "prepare_execution" ELSE "mark_awaiting_approval"

\* Mutants: a misspelt node; a rejection that skips replan; a timeout that
\* asks again.
route_after_approval_Misspelt(s) ==
  CASE s.approval_decision \in {"approved", "edited"} ->
         IF REVALIDATE THEN "revalidate" ELSE "prepare_execution"
    [] s.approval_decision = "rejected" -> "replan"
    [] OTHER -> "escalated"
route_after_approval_SkipsReplan(s) ==
  CASE s.approval_decision \in {"approved", "edited"} ->
         IF REVALIDATE THEN "revalidate" ELSE "prepare_execution"
    [] s.approval_decision = "rejected" -> "propose_action"
    [] OTHER -> "escalate"
route_after_approval_AsksAgain(s) ==
  CASE s.approval_decision \in {"approved", "edited"} ->
         IF REVALIDATE THEN "revalidate" ELSE "prepare_execution"
    [] s.approval_decision = "rejected" -> "replan"
    [] OTHER -> "mark_awaiting_approval"

route_after_approval(s) ==
  CASE s.approval_decision \in {"approved", "edited"} ->
         IF REVALIDATE THEN "revalidate" ELSE "prepare_execution"
    [] s.approval_decision = "rejected" -> "replan"
    [] OTHER -> "escalate"

\* Mutant: drift is detected and ignored.
route_after_revalidation_Ignored(s) == "prepare_execution"

route_after_revalidation(s) == IF s.drift_detected THEN "replan" ELSE "prepare_execution"

\* Mutants: the verdict is not read; a failure goes straight to replan.
route_after_verification_Unread(s) == "completed"
route_after_verification_SkipsRollback(s) ==
  IF s.verification_passed = TRUE THEN "completed" ELSE "replan"

route_after_verification(s) ==
  IF s.verification_passed = TRUE THEN "completed" ELSE "rolling_back"

\* Mutant: > for >=.
route_after_replan_OffByOne(s) ==
  IF s.replan_cycles > MAX_REPLAN_CYCLES THEN "escalate" ELSE "propose_action"

route_after_replan(s) ==
  IF s.replan_cycles >= MAX_REPLAN_CYCLES THEN "escalate" ELSE "propose_action"

Route(n, s) ==
  CASE n = "diagnose"               -> "propose_action"
    [] n = "propose_action"         -> route_after_proposal(s)
    [] n = "classify_risk"          -> route_after_risk_classification(s)
    [] n = "mark_awaiting_approval" -> "await_approval"
    [] n = "await_approval"         -> route_after_approval(s)
    [] n = "revalidate"             -> route_after_revalidation(s)
    [] n = "prepare_execution"      -> "execute"
    [] n = "execute"                -> "verify"
    [] n = "verify"                 -> route_after_verification(s)
    [] n = "rolling_back"           -> "rolled_back"
    [] n = "rolled_back"            -> "replan"
    [] n = "replan"                 -> route_after_replan(s)
    [] OTHER                        -> "END"

Checkpoint ==
  /\ pc = "logged"
  /\ st' = upd
  /\ next' = Route(next, upd)
  /\ pc' = IF next' = "END" THEN "idle" ELSE "enter"
  /\ upd' = NoVal /\ decision' = NoVal
  /\ attempts' = IF next = "prepare_execution"
                   THEN [attempts EXCEPT ![upd.proposed_action] = @ + 1] ELSE attempts
  /\ undone' = IF next = "verify" /\ upd.verification_passed # TRUE
                 THEN [undone EXCEPT !.failures = @ + 1] ELSE undone
  /\ Elsewhere
  /\ UNCHANGED <<consent, applied, torn, crashes, drifts, starts>>

-----------------------------------------------------------------------------
(* The processes that drive the run, and what happens around them.         *)

\* start_workflow.  On a thread that already exists LangGraph drops the
\* pending node, goes back to START and keeps every field of the state.  No
\* caller in the repository passes an initial_state that sets one.
Start ==
  /\ pc = "idle" /\ starts < MaxStarts
  /\ next' = "diagnose" /\ pc' = "enter"
  /\ starts' = starts + 1
  /\ torn' = [torn EXCEPT !.rollback = IF next = "rolling_back" THEN @ + 1 ELSE @]
  /\ UNCHANGED <<st, upd, decision>>
  /\ Elsewhere
  /\ UNCHANGED <<consent, applied, attempts, undone, crashes, drifts>>

\* resume_workflow.  The decision reaches interrupt() only when await_approval
\* is the pending node; otherwise the pending node just reruns.
Resume ==
  /\ pc = "idle" /\ next \notin {"none", "END"}
  /\ pc' = "enter"
  /\ \/ next = "await_approval" /\ decision' \in Decisions
     \/ next # "await_approval" /\ decision' = NoVal
  /\ UNCHANGED <<next, st, upd>>
  /\ Elsewhere
  /\ UNCHANGED history

\* The process is killed; or it lives on, ledger in memory included, but its call
\* is cancelled or the answer to what it asked for is lost.
Crash ==
  /\ pc # "idle" /\ crashes < MaxCrashes
  /\ Abandon
  /\ crashes' = crashes + 1
  /\ torn' = [torn EXCEPT
       !.effect = IF pc = "record" THEN @ + 1 ELSE @,
       !.undo   = IF next = "rolling_back" /\ pc \in {"ran", "logged"} THEN @ + 1 ELSE @,
       !.commit = IF pc = "logged" THEN @ + 1 ELSE @]
  /\ Elsewhere
  /\ UNCHANGED <<consent, applied, attempts, undone, drifts, starts>>

\* The sandbox changes for reasons of its own: a fault strikes a service, an
\* operator resets it or rolls its release back, the rows of a kind go away.
ServiceDrift(s) ==
  LET sv == world.services[s] IN
  \/ \E level \in FaultLevels : world' = OnService(world, s, apply_fault(sv, level))
  \/ s \in DiskServices /\ \E level \in FaultLevels :
       world' = OnService(world, s, apply_disk_fault(sv, level))
  \/ world' = OnService(world, s, reset)
  \/ Len(sv.version_history) >= 2 /\ world' = OnService(world, s, rollback(sv))

Drift ==
  /\ drifts < MaxDrifts
  /\ \/ \E s \in Services : ServiceDrift(s)
     \/ \E kind \in RECORD_KINDS :
          world' = delete(world, OfKind(world.records, kind))
  /\ drifts' = drifts + 1
  /\ UNCHANGED <<agentVars, ledger, audit>>
  /\ UNCHANGED <<consent, applied, attempts, undone, torn, crashes, starts>>

Node ==
  \/ diagnose \/ propose_action \/ classify_risk \/ mark_awaiting_approval
  \/ Suspend \/ await_approval \/ EditRaises \/ revalidate \/ prepare_execution
  \/ execute_replay \/ execute_lookup \/ execute_perform \/ execute_record
  \/ ExecuteRaises \/ verify \/ rolling_back \/ RollbackRaises \/ rolled_back
  \/ replan \/ completed \/ escalate

Process == Node \/ WriteAudit \/ Checkpoint

Next == Process \/ Start \/ Resume \/ Crash \/ Drift

Spec == Init /\ [][Next]_vars

\* The event loop keeps running the node in flight.
FairSpec == Spec /\ WF_vars(Process)

\* ... and somebody keeps resuming a run that has not ended.
DrivenSpec == FairSpec /\ WF_vars(Resume)
=============================================================================
