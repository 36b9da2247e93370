---------------------------- MODULE RunLifecycle ----------------------------
(***************************************************************************)
(* The abstract life of a run: the state machine diagram of the README     *)
(* (statuses of src/agent/state.py) with the branch each status leaves by. *)
(* A run is at a status and carries the answer that decides where it goes: *)
(* the tier, the reviewer's decision, the drift verdict, the verification. *)
(* Nothing here knows of nodes, checkpoints, processes or kills.           *)
(***************************************************************************)
EXTENDS Naturals

CONSTANTS MAX_REPLAN_CYCLES, REVALIDATE

VARIABLES status, answer, cycles

\* What may decide the way out of each status.
Answers(s) ==
  CASE s = "ACTION_PROPOSED"   -> {"valid", "invalid"}
    [] s = "RISK_CLASSIFIED"   -> {"low", "gated"}
    [] s = "AWAITING_APPROVAL" -> {"pending"}
    [] s = "REVALIDATING"      -> {"drift", "fresh"}
    [] s = "VERIFYING"         -> {"passed", "failed"}
    [] OTHER                   -> {"none"}

Approved == IF REVALIDATE THEN "REVALIDATING" ELSE "EXECUTING"

Edges ==
  {<<"CREATED", "none", "DIAGNOSING">>,
   <<"DIAGNOSING", "none", "ACTION_PROPOSED">>,
   <<"ACTION_PROPOSED", "valid", "RISK_CLASSIFIED">>,
   <<"ACTION_PROPOSED", "invalid", "REPLANNING">>,
   <<"RISK_CLASSIFIED", "low", "EXECUTING">>,
   <<"RISK_CLASSIFIED", "gated", "AWAITING_APPROVAL">>,
   <<"AWAITING_APPROVAL", "approved", Approved>>,
   <<"AWAITING_APPROVAL", "edited", Approved>>,
   <<"AWAITING_APPROVAL", "rejected", "REPLANNING">>,
   <<"AWAITING_APPROVAL", "timeout", "ESCALATED">>,
   <<"REVALIDATING", "fresh", "EXECUTING">>,
   <<"REVALIDATING", "drift", "REPLANNING">>,
   <<"EXECUTING", "none", "VERIFYING">>,
   <<"VERIFYING", "passed", "COMPLETED">>,
   <<"VERIFYING", "failed", "ROLLING_BACK">>,
   <<"ROLLING_BACK", "none", "ROLLED_BACK">>,
   <<"ROLLED_BACK", "none", "REPLANNING">>,
   <<"REPLANNING", "none", "ACTION_PROPOSED">>,
   <<"REPLANNING", "none", "ESCALATED">>}

Init == status = "CREATED" /\ answer = "none" /\ cycles = 0

\* The run follows an edge of the diagram; REPLANNING leaves for ESCALATED
\* exactly when the budget of replans is used up.
Follow ==
  \E e \in Edges :
    /\ status = e[1] /\ answer = e[2]
    /\ status = "REPLANNING" =>
         (e[3] = "ESCALATED") <=> (cycles >= MAX_REPLAN_CYCLES)
    /\ status' = e[3]
    /\ answer' \in Answers(e[3])
    /\ cycles' = IF e[3] = "REPLANNING" THEN cycles + 1 ELSE cycles

\* A reviewer answers a pending approval, once.
Decide ==
  /\ status = "AWAITING_APPROVAL" /\ answer = "pending"
  /\ answer' \in {"approved", "edited", "rejected", "timeout"}
  /\ UNCHANGED <<status, cycles>>

\* The run is started over; its replan count is kept.
StartOver ==
  /\ status' = "CREATED" /\ answer' = "none"
  /\ UNCHANGED cycles

Next == Follow \/ Decide \/ StartOver

Spec == Init /\ [][Next]_<<status, answer, cycles>>
=============================================================================
