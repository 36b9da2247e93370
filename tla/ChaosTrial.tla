----------------------------- MODULE ChaosTrial -----------------------------
(***************************************************************************)
(* The chaos harness over one run of the agent (src/chaos/harness.py): a   *)
(* trial resets the services, starts an agent process that is to die at a  *)
(* given point, lets a second process start the run again or resume it,    *)
(* and judges what that process printed.  The reasoner and the classifier  *)
(* of an agent process (src/chaos/agent_process.py) are scripted: every    *)
(* proposal is the trial's restart, every tier the one in the environment. *)
(*                                                                         *)
(* The kill is assumed to land inside the window mark() opens for it, and  *)
(* the records and the ledger are those of one run: run ids are fresh.     *)
(***************************************************************************)
EXTENDS AgentGraph

VARIABLES
  trial,     \* the trial that runs
  stage,     \* where it is
  passed,    \* KillPointResult.passed
  restart_count_after_kill

trialVars == <<trial, stage, passed, restart_count_after_kill>>
chaosVars == <<vars, trialVars>>

-----------------------------------------------------------------------------
(* The trials.  kill_at is the marker the first process is killed at,      *)
(* "suspended" when it ends by itself once the run is suspended; tier is   *)
(* its CHAOS_TIER; again is how the second process drives the run; once    *)
(* asks that the restart be not repeated.                                  *)

trial_during_diagnosing ==
  [kill_at |-> "DIAGNOSING", tier |-> "low", target |-> "service_a", disk_full |-> FALSE,
   again |-> "start", expected |-> {"COMPLETED"}, once |-> FALSE]

trial_immediately_after_interrupt ==
  [kill_at |-> "suspended", tier |-> "medium", target |-> "service_a", disk_full |-> FALSE,
   again |-> "resume", expected |-> {"COMPLETED"}, once |-> FALSE]

\* Nothing runs during the wait, so that the two trials are one.
trial_during_approval_wait == trial_immediately_after_interrupt

trial_mid_executing ==
  [kill_at |-> "EXECUTING", tier |-> "low", target |-> "service_a", disk_full |-> FALSE,
   again |-> "start", expected |-> {"COMPLETED"}, once |-> TRUE]

trial_during_rolling_back ==
  [kill_at |-> "ROLLING_BACK", tier |-> "low", target |-> "service_c", disk_full |-> TRUE,
   again |-> "start", expected |-> {"ESCALATED", "COMPLETED"}, once |-> FALSE]

TRIALS == {trial_during_diagnosing, trial_immediately_after_interrupt,
           trial_during_approval_wait, trial_mid_executing, trial_during_rolling_back}

-----------------------------------------------------------------------------
(* The agent process.                                                      *)

\* Where mark() prints the marker and waits to be killed: before diagnose
\* sweeps, after execute acted and recorded, after the compensation.
Marked ==
  \/ trial.kill_at = "DIAGNOSING"   /\ next = "diagnose"     /\ pc = "enter"
  \/ trial.kill_at = "EXECUTING"    /\ next = "execute"      /\ pc = "ran"
  \/ trial.kill_at = "ROLLING_BACK" /\ next = "rolling_back" /\ pc = "ran"

ScriptedReasoner ==
  At("propose_action") =>
    upd'.proposed_action = [tool |-> "restart_service", target |-> trial.target]

\* The second process has CHAOS_TIER=low, set or by default.
ScriptedRiskClassifier ==
  At("classify_risk") =>
    upd'.risk_tier_final =
      apply_policy("restart_service", IF stage = "first" THEN trial.tier ELSE "low",
                   situational_features(st.observations, st.proposed_action))

agent_process ==
  /\ stage \in {"first", "second"}
  /\ ~(stage = "first" /\ Marked)
  /\ Process /\ ScriptedReasoner /\ ScriptedRiskClassifier
  /\ UNCHANGED trialVars

-----------------------------------------------------------------------------
(* The harness.                                                            *)

ChaosInit ==
  /\ Init
  /\ trial \in TRIALS
  /\ stage = "new" /\ passed = FALSE /\ restart_count_after_kill = 0

\* The services keep what the trial before left in them until this reset.
reset_and_inject ==
  /\ stage = "new" /\ stage' = "ready"
  /\ world' = [world EXCEPT !.services =
       [s \in Services |->
          IF trial.disk_full /\ s = trial.target
            THEN apply_disk_fault(reset, "severe") ELSE reset]]
  /\ UNCHANGED <<agentVars, ledger, audit, history>>
  /\ UNCHANGED <<trial, passed, restart_count_after_kill>>

launch ==
  /\ stage = "ready" /\ stage' = "first"
  /\ Start
  /\ UNCHANGED <<trial, passed, restart_count_after_kill>>

_watch_for_marker_and_kill ==
  /\ stage = "first" /\ Marked
  /\ Crash
  /\ stage' = "killed"
  /\ restart_count_after_kill' = world.services[trial.target].restart_count
  /\ UNCHANGED <<trial, passed>>

\* The run is suspended: the process exits, or dies, with nothing left to do.
exits_suspended ==
  /\ stage = "first" /\ trial.kill_at = "suspended"
  /\ pc = "idle" /\ next = "await_approval"
  /\ stage' = "killed"
  /\ UNCHANGED <<vars, trial, passed, restart_count_after_kill>>

\* The process ended before the point the trial is about.
missed ==
  /\ stage = "first" /\ pc = "idle"
  /\ ~(trial.kill_at = "suspended" /\ next = "await_approval")
  /\ stage' = "reported" /\ passed' = FALSE
  /\ UNCHANGED <<vars, trial, restart_count_after_kill>>

relaunch ==
  /\ stage = "killed" /\ stage' = "second"
  /\ \/ trial.again = "start" /\ Start
     \/ /\ trial.again = "resume" /\ Resume
        /\ decision' = [decision |-> "approved", edited_action |-> NoVal]
  /\ UNCHANGED <<trial, passed, restart_count_after_kill>>

\* The second process printed the status of its result; one that raised
\* (a node is pending which is no interrupt) printed nothing.
judged ==
  /\ stage = "second" /\ pc = "idle"
  /\ stage' = "reported"
  /\ passed' = /\ next \in {"await_approval", "END"}
               /\ st.status \in trial.expected
               /\ trial.once => world.services[trial.target].restart_count
                                  = restart_count_after_kill
  /\ UNCHANGED <<vars, trial, restart_count_after_kill>>

ChaosNext ==
  \/ reset_and_inject \/ launch \/ agent_process \/ _watch_for_marker_and_kill
  \/ exits_suspended \/ missed \/ relaunch \/ judged

ChaosSpec == ChaosInit /\ [][ChaosNext]_chaosVars

-----------------------------------------------------------------------------
\* test_chaos_harness.py:16, README.md:114: every kill point passes (TRIALS
\* of src/chaos/harness.py).
TrialsPass == stage = "reported" => passed
=============================================================================
