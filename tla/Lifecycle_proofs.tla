--------------------------- MODULE Lifecycle_proofs ---------------------------
(***************************************************************************)
(* Proofs about what a run leaves behind it and about its course, for      *)
(* every value of the constants: the idempotency ledger, the replan budget *)
(* and the audit chain; it implements the abstract life of RunLifecycle,   *)
(* it replans for the reason it gives, every failure is undone, and        *)
(* COMPLETED means done.                                                   *)
(*                                                                         *)
(* Each invariant is inductive relative to TypeInv, which supplies the     *)
(* types and, inside execute, that the key is the action's.  Ran says what *)
(* one node changes; Placed says at which status a node can be pending.    *)
(* The rest follows at the checkpoint, where the state in flight becomes   *)
(* the state and the node its route.                                       *)
(***************************************************************************)
EXTENDS AgentGraph_proofs

\* The steps that neither enter nor leave the phases around a side effect.
Plainly ==
  \/ diagnose \/ propose_action \/ classify_risk \/ mark_awaiting_approval
  \/ Suspend \/ await_approval \/ EditRaises \/ revalidate \/ prepare_execution
  \/ execute_replay \/ ExecuteRaises \/ verify \/ rolling_back \/ RollbackRaises
  \/ rolled_back \/ replan \/ completed \/ escalate

\* They leave the ledger, the effects and the audit log alone.
LEMMA PlainSteps ==
  ASSUME Plainly
  PROVE  /\ pc' \in {"ran", "idle"} /\ pc # "logged"
         /\ UNCHANGED <<next, st, ledger, applied, torn, audit, starts>>
<1>1. pc' \in {"ran", "idle"} /\ UNCHANGED <<next, st, ledger, applied, torn, audit, starts>>
  BY DEF Plainly, diagnose, propose_action, classify_risk, mark_awaiting_approval,
     Suspend, await_approval, EditRaises, revalidate, prepare_execution, execute_replay,
     ExecuteRaises, verify, rolling_back, RollbackRaises, rolled_back, replan, completed,
     escalate, Return, Abandon, Elsewhere, history
<1>2. pc # "logged"
  BY DEF Plainly, diagnose, propose_action, classify_risk, mark_awaiting_approval,
     Suspend, await_approval, EditRaises, revalidate, prepare_execution, execute_replay,
     ExecuteRaises, verify, rolling_back, RollbackRaises, rolled_back, replan, completed,
     escalate, At
<1> QED
  BY <1>1, <1>2

-----------------------------------------------------------------------------
(* The ledger.                                                             *)

\* What the ledger's steps start from.
LEMMA LedgerTypes ==
  ASSUME TypeInv
  PROVE  /\ ledger \in [Acts -> Maybe(Outcomes)] /\ applied \in [Acts -> Nat]
         /\ torn \in [effect : Nat, undo : Nat, commit : Nat, rollback : Nat]
         /\ pc \in {"perform", "record"} => /\ next = "execute"
                                            /\ st.proposed_action \in Acts
                                            /\ st.idempotency_key = st.proposed_action
<1>1. pc \in {"perform", "record"} => next = "execute"
  BY DEF TypeInv, Phases
<1> QED
  BY <1>1, ExecuteReads DEF TypeInv, TypeOK

\* Steps outside execute, whatever they do to the checkpoint, that leave the
\* ledger, the effects and the tears alone.
LEMMA LedgerKept ==
  ASSUME LedgerInv, pc # "record", pc' \notin {"perform", "record"},
         UNCHANGED <<ledger, applied, torn>>
  PROVE  LedgerInv'
<1>1. \A a \in Acts : Accounted(a)' <=> Accounted(a)
  BY DEF Accounted
<1> QED
  BY <1>1 DEF LedgerInv

\* The tool is reached only with an unused key.
LEMMA LookupLedger == TypeInv /\ LedgerInv /\ execute_lookup => LedgerInv'
<1> SUFFICES ASSUME TypeInv, LedgerInv, execute_lookup
             PROVE  LedgerInv'
  OBVIOUS
<1>1. /\ pc = "enter" /\ next = "execute" /\ pc' = "perform"
      /\ ledger[st.idempotency_key] = NoVal
      /\ UNCHANGED <<st, ledger, applied, torn>>
  BY DEF execute_lookup, At, Elsewhere, history
<1>2. st.idempotency_key = st.proposed_action
  BY <1>1, ExecuteReads
<1>3. \A a \in Acts : Accounted(a)' <=> Accounted(a)
  BY <1>1 DEF Accounted
<1> QED
  BY <1>1, <1>2, <1>3 DEF LedgerInv

\* One more effect, for which the pending record accounts.
LEMMA PerformLedger == TypeInv /\ LedgerInv /\ execute_perform => LedgerInv'
<1> SUFFICES ASSUME TypeInv, LedgerInv, execute_perform
             PROVE  LedgerInv'
  OBVIOUS
<1> DEFINE b == st.proposed_action
<1>1. /\ pc = "perform" /\ pc' = "record"
      /\ applied' = [applied EXCEPT ![b] = @ + 1]
      /\ UNCHANGED <<st, ledger, torn>>
  BY DEF execute_perform
<1>2. b \in Acts /\ ledger[b] = NoVal /\ applied \in [Acts -> Nat] /\ torn.effect \in Nat
  BY <1>1, LedgerTypes DEF LedgerInv
<1>3. applied'[b] = applied[b] + 1 /\ applied[b] <= torn.effect
  BY <1>1, <1>2 DEF LedgerInv, Accounted
<1>4. ASSUME NEW a \in Acts
      PROVE  /\ ledger'[a] # NoVal => applied'[a] >= 1
             /\ applied'[a] <= torn'.effect + (IF Accounted(a)' THEN 1 ELSE 0)
  <2>1. CASE a = b
    BY <1>1, <1>2, <1>3, <2>1 DEF Accounted
  <2>2. CASE a # b
    <3>1. applied'[a] = applied[a] /\ (Accounted(a)' <=> Accounted(a))
      BY <1>1, <1>2, <2>2 DEF Accounted
    <3> QED
      BY <1>1, <3>1 DEF LedgerInv
  <2> QED
    BY <2>1, <2>2
<1>5. applied'[b] >= 1
  BY <1>2, <1>3
<1> QED
  BY <1>1, <1>2, <1>4, <1>5 DEF LedgerInv

\* The record takes over from the pending one.
LEMMA RecordLedger == TypeInv /\ LedgerInv /\ execute_record => LedgerInv'
<1> SUFFICES ASSUME TypeInv, LedgerInv, execute_record
             PROVE  LedgerInv'
  OBVIOUS
<1> DEFINE b == st.proposed_action
           o == [deleted |-> upd.execution_result, compensation |-> upd.compensation]
<1>1. /\ pc = "record" /\ pc' = "ran"
      /\ ledger' = [ledger EXCEPT ![st.idempotency_key] = IF @ # NoVal THEN @ ELSE o]
      /\ UNCHANGED <<st, applied, torn>>
  BY DEF execute_record, history
<1>2. /\ b \in Acts /\ st.idempotency_key = b /\ ledger[b] = NoVal /\ applied[b] >= 1
      /\ ledger \in [Acts -> Maybe(Outcomes)]
  BY <1>1, LedgerTypes DEF LedgerInv
<1>3. o # NoVal
  <2>1. /\ upd \in AgentState /\ upd.execution_result # NoVal /\ upd.compensation # NoVal
    BY <1>1 DEF TypeInv, TypeOK, Phases, Maybe
  <2>2. o \in Outcomes
    BY <2>1 DEF AgentState, Maybe, Outcomes
  <2> QED
    BY <2>2, NoneAssumption
<1> HIDE DEF o
<1>4. ledger' = [ledger EXCEPT ![b] = o]
  BY <1>1, <1>2
<1>5. \A a \in Acts : Accounted(a)' <=> Accounted(a)
  BY <1>1, <1>2, <1>3, <1>4 DEF Accounted
<1>6. \A a \in Acts : ledger'[a] # NoVal => applied[a] >= 1
  BY <1>2, <1>4 DEF LedgerInv
<1> QED
  BY <1>1, <1>5, <1>6 DEF LedgerInv

\* A kill loses the pending record and counts the tear.
LEMMA CrashLedger == TypeInv /\ LedgerInv /\ Crash => LedgerInv'
<1> SUFFICES ASSUME TypeInv, LedgerInv, Crash
             PROVE  LedgerInv'
  OBVIOUS
<1>1. /\ pc' = "idle" /\ UNCHANGED <<st, ledger, applied>>
      /\ torn'.effect = IF pc = "record" THEN torn.effect + 1 ELSE torn.effect
  BY LedgerTypes DEF Crash, Abandon, Elsewhere
<1>2. applied \in [Acts -> Nat] /\ torn.effect \in Nat
  BY LedgerTypes
<1>3. CASE pc = "record"
  BY <1>1, <1>2, <1>3 DEF LedgerInv, Accounted
<1>4. CASE pc # "record"
  BY <1>1, <1>2, <1>4 DEF LedgerInv, Accounted
<1> QED
  BY <1>3, <1>4

\* Every step keeps the ledger's invariant.
LEMMA NextLedger == TypeInv /\ LedgerInv /\ [Next]_vars => LedgerInv'
<1> SUFFICES ASSUME TypeInv, LedgerInv, [Next]_vars
             PROVE  LedgerInv'
  OBVIOUS
<1>1. CASE Plainly
  <2>1. pc # "record"
    BY <1>1 DEF Plainly, diagnose, propose_action, classify_risk, mark_awaiting_approval,
       Suspend, await_approval, EditRaises, revalidate, prepare_execution, execute_replay,
       ExecuteRaises, verify, rolling_back, RollbackRaises, rolled_back, replan, completed,
       escalate, At
  <2> QED
    BY <1>1, <2>1, PlainSteps, LedgerKept
<1>2. CASE WriteAudit \/ Checkpoint \/ Resume
  BY <1>2, LedgerKept DEF WriteAudit, Checkpoint, Resume, Elsewhere, history
<1>3. CASE Start
  <2>1. /\ pc = "idle" /\ pc' = "enter" /\ UNCHANGED <<st, ledger, applied>>
        /\ torn'.effect = torn.effect
    BY <1>3, LedgerTypes DEF Start, Elsewhere
  <2>2. \A a \in Acts : Accounted(a)' <=> Accounted(a)
    BY <2>1 DEF Accounted
  <2> QED
    BY <2>1, <2>2 DEF LedgerInv
<1>4. CASE Drift \/ UNCHANGED vars
  <2>1. UNCHANGED <<pc, st, ledger, applied, torn>>
    BY <1>4 DEF Drift, agentVars, vars, history
  <2>2. \A a \in Acts : Accounted(a)' <=> Accounted(a)
    BY <2>1 DEF Accounted
  <2> QED
    BY <2>1, <2>2 DEF LedgerInv
<1> QED
  BY <1>1, <1>2, <1>3, <1>4, LookupLedger, PerformLedger, RecordLedger, CrashLedger
  DEF Next, Process, Node, Plainly

\* The ledger starts empty.
LEMMA InitLedger == Init => LedgerInv
BY DEF Init, LedgerInv, Accounted

\* The invariant holds throughout a run.
LEMMA LedgerHolds == Spec => [](TypeInv /\ LedgerInv)
<1>1. Init => TypeInv /\ LedgerInv
  BY InitType, InitLedger
<1>2. TypeInv /\ LedgerInv /\ [Next]_vars => (TypeInv /\ LedgerInv)'
  BY NextType, NextLedger
<1> QED
  BY <1>1, <1>2, PTL DEF Spec

\* For any number of kills, restarts, replans and edits: under one key a side
\* effect happens once more than the process was killed between the tool call
\* and the ledger write, at most.
THEOREM DuplicatesNeedATear == Spec => []DuplicateOnlyIfTorn
<1>1. TypeInv /\ LedgerInv => DuplicateOnlyIfTorn
  BY LedgerTypes DEF LedgerInv, DuplicateOnlyIfTorn
<1> QED
  BY <1>1, LedgerHolds, PTL

\* ... and the ledger claims nothing that did not happen, and misses nothing
\* that did but for a pending or a torn record.
THEOREM LedgerTellsTheTruth == Spec => []LedgerIsTrue
<1>1. TypeInv /\ LedgerInv => LedgerIsTrue
  <2> SUFFICES ASSUME TypeInv, LedgerInv, NEW a \in Acts
               PROVE  /\ ledger[a] # NoVal => applied[a] >= 1
                      /\ applied[a] >= 1 /\ ledger[a] = NoVal =>
                           torn.effect >= 1 \/ (pc = "record" /\ st.proposed_action = a)
    BY DEF LedgerIsTrue
  <2> QED
    BY LedgerTypes DEF LedgerInv, Accounted
<1> QED
  BY <1>1, LedgerHolds, PTL

-----------------------------------------------------------------------------
(* The replan budget.                                                      *)

\* A node other than replan leaves the count as it finds it.
LEMMA CountKept ==
  ASSUME TypeInv, Plainly \/ execute_record, ~replan, InFlight'
  PROVE  upd'.replan_cycles = st.replan_cycles
<1>1. st \in AgentState
  BY DEF TypeInv, TypeOK
<1>2. CASE Plainly
  <2>1. pc' # "idle"
    BY DEF InFlight
  <2>2. ~(Suspend \/ EditRaises \/ ExecuteRaises \/ RollbackRaises)
    BY <2>1 DEF Suspend, EditRaises, ExecuteRaises, RollbackRaises, Abandon
  <2>3. CASE diagnose \/ propose_action \/ classify_risk \/ mark_awaiting_approval
    BY <1>1, <2>3 DEF diagnose, propose_action, classify_risk, mark_awaiting_approval,
       Return, AgentState
  <2>4. CASE await_approval \/ revalidate \/ prepare_execution
    BY <1>1, <2>4 DEF await_approval, revalidate, prepare_execution, Return, AgentState
  <2>5. CASE execute_replay \/ verify \/ rolling_back
    BY <1>1, <2>5 DEF execute_replay, WithOutcome, verify, rolling_back, Return, AgentState
  <2>6. CASE rolled_back \/ completed \/ escalate
    BY <1>1, <2>6 DEF rolled_back, completed, escalate, Return, AgentState
  <2> QED
    BY <1>2, <2>2, <2>3, <2>4, <2>5, <2>6 DEF Plainly
<1>3. CASE execute_record
  <2>1. /\ upd' = upd
        /\ upd = [st EXCEPT !.status = "EXECUTING",
                            !.execution_result = upd.execution_result,
                            !.compensation = upd.compensation]
    BY <1>3 DEF execute_record, TypeInv, Phases
  <2> QED
    BY <1>1, <2>1 DEF AgentState
<1> QED
  BY <1>2, <1>3

\* The budget's terms are numbers.
LEMMA BudgetTypes ==
  ASSUME TypeInv
  PROVE  /\ st.replan_cycles \in Nat /\ starts \in Nat /\ Extra \in Nat
         /\ MAX_REPLAN_CYCLES \in Nat \ {0}
BY AgentGraphAssumption DEF TypeInv, TypeOK, AgentState, Extra

\* Only replan leads to escalate by the budget, and only escalate to the end.
LEMMA RoomAhead ==
  ASSUME TypeInv, BudgetInv, next \notin {"escalate", "END"},
         NEW n, NEW s, s.replan_cycles = st.replan_cycles
  PROVE  Room(n, s, Extra)
BY BudgetTypes DEF BudgetInv, Room

\* Every step keeps the budget.
LEMMA NextBudget == TypeInv /\ BudgetInv /\ [Next]_vars => BudgetInv'
<1> SUFFICES ASSUME TypeInv, BudgetInv, [Next]_vars
             PROVE  BudgetInv'
  OBVIOUS
<1>1. CASE Plainly \/ execute_record
  <2>1. UNCHANGED <<next, st, starts>>
    BY <1>1, PlainSteps DEF execute_record, history
  <2>2. Extra' = Extra
    BY <2>1 DEF Extra
  <2>3. InFlight' => Room(Route(next, upd'), upd', Extra)
    <3> SUFFICES ASSUME InFlight'
                 PROVE  Room(Route(next, upd'), upd', Extra)
      OBVIOUS
    <3>1. CASE replan
      <4> DEFINE s == [st EXCEPT !.status = "REPLANNING", !.replan_cycles = @ + 1,
                                 !.replan_context = replan_reason]
      <4>1. next = "replan" /\ upd' = s
        BY <3>1 DEF replan, At, Return
      <4>2. s.replan_cycles = st.replan_cycles + 1
        BY DEF TypeInv, TypeOK, AgentState
      <4> HIDE DEF s
      <4>3. st.replan_cycles < MAX_REPLAN_CYCLES + Extra
        BY <4>1 DEF BudgetInv, Room
      <4>4. Route(next, s) = IF s.replan_cycles >= MAX_REPLAN_CYCLES
                               THEN "escalate" ELSE "propose_action"
        BY <4>1 DEF Route, route_after_replan
      <4> QED
        BY <4>1, <4>2, <4>3, <4>4, BudgetTypes DEF Room
    <3>2. CASE ~replan
      <4>1. upd'.replan_cycles = st.replan_cycles
        BY <1>1, <3>2, CountKept
      <4>2. CASE next = "escalate"
        <5>1. Route(next, upd') = "END"
          BY <4>2 DEF Route
        <5> QED
          BY <4>1, <5>1 DEF BudgetInv, Room
      <4>3. CASE next # "escalate"
        <5>1. next # "END"
          BY <1>1 DEF Plainly, diagnose, propose_action, classify_risk,
             mark_awaiting_approval, Suspend, await_approval, EditRaises, revalidate,
             prepare_execution, execute_replay, ExecuteRaises, verify, rolling_back,
             RollbackRaises, rolled_back, replan, completed, escalate, execute_record,
             At, TypeInv, Phases
        <5> QED
          BY <4>1, <4>3, <5>1, RoomAhead
      <4> QED
        BY <4>2, <4>3
    <3> QED
      BY <3>1, <3>2
  <2> QED
    BY <2>1, <2>2, <2>3 DEF BudgetInv
<1>2. CASE execute_lookup \/ execute_perform \/ Crash \/ Resume
  BY <1>2 DEF execute_lookup, execute_perform, Crash, Resume, Abandon, history,
     BudgetInv, InFlight, Extra
<1>3. CASE Checkpoint
  <2>1. /\ InFlight /\ next' = Route(next, upd) /\ st' = upd /\ ~InFlight' /\ starts' = starts
        /\ next \notin {"none", "END"}
    BY <1>3 DEF Checkpoint, InFlight, TypeInv, Phases
  <2>2. Extra' = Extra
    BY <2>1 DEF Extra
  <2> QED
    BY <2>1, <2>2 DEF BudgetInv
<1>4. CASE Start
  <2>1. /\ starts' = starts + 1 /\ next' = "diagnose" /\ st' = st /\ ~InFlight'
    BY <1>4 DEF Start, InFlight
  <2>2. st.replan_cycles < MAX_REPLAN_CYCLES + Extra'
    <3>1. CASE starts = 0
      BY <2>1, <3>1, BudgetTypes DEF BudgetInv, Room, Extra
    <3>2. CASE starts # 0
      BY <2>1, <3>2, BudgetTypes DEF BudgetInv, Room, Extra
    <3> QED
      BY <3>1, <3>2
  <2>3. Extra' \in Nat
    BY <2>1, BudgetTypes DEF Extra
  <2> QED
    BY <2>1, <2>2, <2>3, BudgetTypes DEF BudgetInv, Room
<1>5. CASE WriteAudit \/ Drift \/ UNCHANGED vars
  BY <1>5 DEF WriteAudit, Drift, vars, agentVars, history, BudgetInv, InFlight, Extra
<1> QED
  BY <1>1, <1>2, <1>3, <1>4, <1>5 DEF Next, Process, Node, Plainly

\* A new run has its whole budget.
LEMMA InitBudget == Init => BudgetInv
BY AgentGraphAssumption DEF Init, NewState, BudgetInv, Room, Extra, InFlight

\* Whatever cap, decisions, kills and failures: a run that was started once
\* replans MAX_REPLAN_CYCLES times at most, and every restart buys one more.
THEOREM ReplansAreBounded == Spec => []ReplanBudget
<1>1. Init => TypeInv /\ BudgetInv
  BY InitType, InitBudget
<1>2. TypeInv /\ BudgetInv /\ [Next]_vars => (TypeInv /\ BudgetInv)'
  BY NextType, NextBudget
<1>3. BudgetInv => ReplanBudget
  BY DEF BudgetInv, Room, ReplanBudget, Extra
<1> QED
  BY <1>1, <1>2, <1>3, PTL DEF Spec

-----------------------------------------------------------------------------
(* The audit chain.                                                        *)

\* Every step keeps the chain.
LEMMA NextChain == TypeInv /\ ChainInv /\ [Next]_vars => ChainInv'
<1> SUFFICES ASSUME TypeInv, ChainInv, [Next]_vars
             PROVE  ChainInv'
  OBVIOUS
<1>1. CASE Plainly \/ execute_lookup \/ execute_perform \/ execute_record
  <2>1. /\ pc # "logged" /\ pc' # "logged" /\ UNCHANGED <<st, torn, audit>>
    BY <1>1, PlainSteps DEF execute_lookup, execute_perform, execute_record, At, Elsewhere,
       history
  <2> QED
    BY <2>1 DEF ChainInv
<1>2. CASE WriteAudit
  BY <1>2 DEF WriteAudit, history, ChainInv
<1>3. CASE Checkpoint
  BY <1>3 DEF Checkpoint, Elsewhere, ChainInv
<1>4. CASE Start \/ Resume
  <2>1. /\ pc = "idle" /\ pc' # "logged" /\ UNCHANGED <<st, audit>>
        /\ torn'.commit = torn.commit
    BY <1>4, LedgerTypes DEF Start, Resume, Elsewhere, history
  <2> QED
    BY <2>1 DEF ChainInv
<1>5. CASE Crash
  <2>1. /\ pc' = "idle" /\ UNCHANGED <<st, audit>>
        /\ torn'.commit = IF pc = "logged" THEN torn.commit + 1 ELSE torn.commit
        /\ torn.commit \in Nat
    BY <1>5, LedgerTypes DEF Crash, Abandon, Elsewhere
  <2> QED
    BY <2>1 DEF ChainInv
<1>6. CASE Drift \/ UNCHANGED vars
  BY <1>6 DEF Drift, vars, agentVars, history, ChainInv
<1> QED
  BY <1>1, <1>2, <1>3, <1>4, <1>5, <1>6 DEF Next, Process, Node, Plainly

\* Through any suspensions, exceptions, restarts and kills elsewhere, the chain
\* of the audit log breaks only where a kill fell between a record and the
\* checkpoint of the same transition.
THEOREM GapsNeedATear == Spec => []GapOnlyIfTorn
<1>1. Init => TypeInv /\ ChainInv
  <2>1. Init => ChainInv
    BY DEF Init, ChainInv
  <2> QED
    BY <2>1, InitType
<1>2. TypeInv /\ ChainInv /\ [Next]_vars => (TypeInv /\ ChainInv)'
  BY NextType, NextChain
<1>3. ChainInv => GapOnlyIfTorn
  BY DEF ChainInv, GapOnlyIfTorn
<1> QED
  BY <1>1, <1>2, <1>3, PTL DEF Spec

-----------------------------------------------------------------------------
(* The course of a run.                                                    *)

\* A node that returned changed what Ran says, and nothing else.
LEMMA NodeRan ==
  ASSUME TypeInv, LifeInv, Plainly \/ execute_record, InFlight'
  PROVE  /\ Ran(next, st, upd') /\ UNCHANGED <<next, st>>
         /\ next = "replan" => upd'.replan_context = replan_reason
<1>1. st \in AgentState
  BY DEF TypeInv, TypeOK
<1>2. UNCHANGED <<next, st>>
  BY PlainSteps DEF execute_record, history
<1>3. ~(Suspend \/ EditRaises \/ ExecuteRaises \/ RollbackRaises)
  BY DEF InFlight, Suspend, EditRaises, ExecuteRaises, RollbackRaises, Abandon
<1>4. CASE diagnose \/ mark_awaiting_approval \/ prepare_execution \/ rolling_back
           \/ rolled_back \/ completed \/ escalate
  BY <1>1, <1>2, <1>4 DEF diagnose, mark_awaiting_approval, prepare_execution, rolling_back,
     rolled_back, completed, escalate, At, Return, Ran, Entered, Reviewing, Executing, AgentState
<1>5. CASE propose_action \/ classify_risk
  BY <1>1, <1>2, <1>5 DEF propose_action, classify_risk, At, Return, Ran, Entered, Reviewing,
     Executing, AgentState
<1>6. CASE await_approval
  <2>1. decision.decision # NoVal
    BY <1>6, NoneAssumption DEF await_approval, TypeInv, TypeOK, Maybe, Decisions
  <2>2. next = "await_approval" /\ st.status = "AWAITING_APPROVAL"
    BY <1>6 DEF await_approval, At, LifeInv, Placed
  <2> QED
    BY <1>1, <1>2, <1>6, <2>1, <2>2 DEF await_approval, At, Return, Ran, Entered, Reviewing, Executing,
       AgentState
<1>7. CASE revalidate
  BY <1>1, <1>2, <1>7 DEF revalidate, At, Return, Ran, Entered, Reviewing, Executing, AgentState
<1>8. CASE execute_replay
  BY <1>1, <1>2, <1>8 DEF execute_replay, WithOutcome, At, Return, Ran, Entered, Reviewing,
     Executing, AgentState
<1>9. CASE verify
  <2>1. verify_action(world, st.proposed_action, st.execution_result) \in BOOLEAN
    BY DEF verify_action
  <2> QED
    BY <1>1, <1>2, <1>9, <2>1 DEF verify, At, Return, Ran, Entered, Reviewing, Executing,
       AgentState
<1>10. CASE replan
  <2> DEFINE r == replan_reason
  <2>1. next = "replan" /\ upd' = [st EXCEPT !.status = "REPLANNING", !.replan_cycles = @ + 1,
                                             !.replan_context = r]
    BY <1>10 DEF replan, At, Return
  <2> HIDE DEF r
  <2>2. upd'.replan_context = r
    BY <1>1, <2>1 DEF AgentState
  <2>3. Ran(next, st, upd')
    BY <1>1, <2>1 DEF Ran, Entered, Reviewing, Executing, AgentState
  <2> QED
    BY <1>2, <2>2, <2>3 DEF r
<1>11. CASE execute_record
  <2>1. /\ upd' = upd /\ next = "execute"
        /\ upd = [st EXCEPT !.status = "EXECUTING",
                            !.execution_result = upd.execution_result,
                            !.compensation = upd.compensation]
    BY <1>11 DEF execute_record, TypeInv, Phases
  <2> QED
    BY <1>1, <1>2, <2>1 DEF Ran, Entered, Reviewing, Executing, AgentState
<1> QED
  BY <1>3, <1>4, <1>5, <1>6, <1>7, <1>8, <1>9, <1>10, <1>11 DEF Plainly

\* The route a node's update takes leads to a node placed there.
LEMMA PlacedAhead ==
  ASSUME NEW n, NEW s \in AgentState, NEW u \in AgentState, n \notin {"none", "END"},
         n \in NODES, Placed(n, s), Ran(n, s, u), ~REVALIDATE => ~s.drift_detected
  PROVE  Placed(Route(n, u), u)
<1>1. CASE n \in {"diagnose", "classify_risk", "rolling_back", "rolled_back", "completed", "escalate"}
  BY <1>1 DEF Placed, Ran, Entered, Route, Reviewing, Executing, route_after_risk_classification
<1>2. CASE n = "propose_action"
  BY <1>2 DEF Placed, Ran, Entered, Route, Reviewing, Executing, route_after_proposal
<1>3. CASE n = "mark_awaiting_approval"
  BY <1>3 DEF Placed, Ran, Entered, Route, Reviewing, Executing
<1>4. CASE n = "await_approval"
  <2>1. u.approval_decision \in {"approved", "edited", "rejected", "timeout"}
    BY <1>4 DEF Ran, AgentState, Maybe
  <2>2. Route(n, u) = CASE u.approval_decision \in Approval ->
                             (IF REVALIDATE THEN "revalidate" ELSE "prepare_execution")
                        [] u.approval_decision = "rejected" -> "replan"
                        [] OTHER -> "escalate"
    BY <1>4 DEF Route, route_after_approval, Approval
  <2>3. /\ u.status = "AWAITING_APPROVAL" /\ u.risk_tier_final # "low"
        /\ ~REVALIDATE => ~u.drift_detected
    BY <1>4 DEF Placed, Ran, Entered, Reviewing, Executing
  <2> QED
    BY <2>1, <2>2, <2>3 DEF Placed, Approval
<1>5. CASE n = "revalidate"
  BY <1>5 DEF Placed, Ran, Entered, Route, Reviewing, Executing, route_after_revalidation
<1>6. CASE n \in {"prepare_execution", "execute"}
  BY <1>6 DEF Placed, Ran, Entered, Route, Reviewing, Executing
<1>7. CASE n = "verify"
  BY <1>7 DEF Placed, Ran, Entered, Route, Reviewing, Executing, route_after_verification
<1>8. CASE n = "replan"
  BY <1>8, AgentGraphAssumption DEF Placed, Ran, Entered, Route, Reviewing, Executing, route_after_replan, AgentState
<1> QED
  BY <1>1, <1>2, <1>3, <1>4, <1>5, <1>6, <1>7, <1>8 DEF NODES

\* What the checkpoint starts from.
LEMMA CheckpointReads ==
  ASSUME TypeInv, Checkpoint
  PROVE  /\ InFlight /\ ~InFlight' /\ next \in NODES \ {"none", "END"}
         /\ st \in AgentState /\ upd \in AgentState
         /\ st' = upd /\ next' = Route(next, upd)
         /\ UNCHANGED <<applied, torn, starts>>
<1>1. upd # NoVal /\ next \in NODES \cup {"none", "END"} /\ next \notin {"none", "END"}
  BY DEF Checkpoint, TypeInv, TypeOK, Phases
<1> QED
  BY <1>1 DEF Checkpoint, InFlight, TypeInv, TypeOK, Maybe, Elsewhere

\* Every step keeps each node pending where it belongs.
LEMMA NextLife == TypeInv /\ LifeInv /\ [Next]_vars => LifeInv'
<1> SUFFICES ASSUME TypeInv, LifeInv, [Next]_vars
             PROVE  LifeInv'
  OBVIOUS
<1>1. CASE Plainly \/ execute_record
  <2>1. UNCHANGED <<next, st>>
    BY <1>1, PlainSteps DEF execute_record, history
  <2> QED
    BY <1>1, <2>1, NodeRan DEF LifeInv
<1>2. CASE execute_lookup \/ execute_perform \/ Crash \/ Resume
  BY <1>2 DEF execute_lookup, execute_perform, Crash, Resume, Abandon, LifeInv, InFlight
<1>3. CASE Checkpoint
  <2>1. Placed(next', st')
    BY <1>3, CheckpointReads, PlacedAhead DEF LifeInv
  <2>2. ~REVALIDATE => ~st'.drift_detected
    BY <1>3, CheckpointReads DEF LifeInv, Ran, Placed
  <2> QED
    BY <1>3, <2>1, <2>2, CheckpointReads DEF LifeInv
<1>4. CASE Start
  <2>1. next' = "diagnose" /\ st' = st /\ ~InFlight'
    BY <1>4 DEF Start, InFlight
  <2> QED
    BY <2>1 DEF LifeInv, Placed
<1>5. CASE WriteAudit \/ Drift \/ UNCHANGED vars
  BY <1>5 DEF WriteAudit, Drift, vars, agentVars, LifeInv, InFlight
<1> QED
  BY <1>1, <1>2, <1>3, <1>4, <1>5 DEF Next, Process, Node, Plainly

\* A run that was not started is nowhere.
LEMMA InitLife == Init => LifeInv
BY DEF Init, NewState, LifeInv, Placed, InFlight

-----------------------------------------------------------------------------
(* The run implements RunLifecycle.                                        *)

\* What the abstract life sees of a checkpoint.
LEMMA CheckpointLife ==
  ASSUME TypeInv, LifeInv, Checkpoint
  PROVE  /\ LifeStatus = IF next = "diagnose" THEN "CREATED" ELSE st.status
         /\ LifeStatus' = upd.status
         /\ st'.replan_cycles = upd.replan_cycles
         /\ Placed(next, st) /\ Ran(next, st, upd)
<1>1. Route(next, upd) \notin {"none", "diagnose"}
  BY DEF Route, route_after_proposal, route_after_risk_classification, route_after_approval,
     route_after_revalidation, route_after_verification, route_after_replan
<1> QED
  BY <1>1, CheckpointReads DEF LifeStatus, LifeInv

\* A checkpoint follows an edge of the diagram, answers the pending approval,
\* or, between the two nodes of EXECUTING, is not seen.
LEMMA CheckpointFollows ==
  ASSUME TypeInv, LifeInv, Checkpoint
  PROVE  Life!Next \/ UNCHANGED <<LifeStatus, LifeAnswer, st.replan_cycles>>
<1> DEFINE s == LifeStatus  a == LifeAnswer  c == st.replan_cycles
<1>1. /\ next \in NODES \ {"none", "END"} /\ st \in AgentState /\ upd \in AgentState
      /\ st' = upd /\ next' = Route(next, upd)
      /\ s = (IF next = "diagnose" THEN "CREATED" ELSE st.status)
      /\ s' = upd.status /\ c' = upd.replan_cycles
      /\ Placed(next, st) /\ Ran(next, st, upd)
  BY CheckpointReads, CheckpointLife
<1>2. c \in Nat /\ MAX_REPLAN_CYCLES \in Nat
  BY <1>1, AgentGraphAssumption DEF AgentState
<1>3. CASE next = "diagnose"
  <2>1. s = "CREATED"
    BY <1>1, <1>3 DEF Placed
  <2>2. s' = "DIAGNOSING" /\ c' = c
    BY <1>1, <1>3 DEF Ran, Entered, Reviewing, Executing
  <2>3. a = "none"
    BY <1>1, <1>3, <2>1 DEF LifeAnswer, Placed
  <2>4. a' = "none"
    BY <1>1, <1>3, <2>2 DEF LifeAnswer, Route
  <2> QED
    BY <1>2, <2>1, <2>2, <2>3, <2>4 DEF Life!Next, Life!Follow, Life!Edges, Life!Answers, Life!Approved
<1>4. CASE next = "propose_action"
  <2>1. s = "DIAGNOSING" \/ (s = "REPLANNING" /\ c < MAX_REPLAN_CYCLES)
    BY <1>1, <1>4 DEF Placed
  <2>2. s' = "ACTION_PROPOSED" /\ c' = c
    BY <1>1, <1>4 DEF Ran, Entered, Reviewing, Executing
  <2>3. a = "none"
    BY <1>1, <1>4, <2>1 DEF LifeAnswer, Placed
  <2>4. a' \in {"valid", "invalid"}
    BY <1>1, <1>4, <2>2 DEF LifeAnswer, Route
  <2> QED
    BY <1>2, <2>1, <2>2, <2>3, <2>4 DEF Life!Next, Life!Follow, Life!Edges, Life!Answers, Life!Approved
<1>5. CASE next = "classify_risk"
  <2>1. s = "ACTION_PROPOSED"
    BY <1>1, <1>5 DEF Placed
  <2>2. s' = "RISK_CLASSIFIED" /\ c' = c
    BY <1>1, <1>5 DEF Ran, Entered, Reviewing, Executing
  <2>3. a = "valid"
    BY <1>1, <1>5, <2>1 DEF LifeAnswer, Placed
  <2>4. a' \in {"low", "gated"}
    BY <1>1, <1>5, <2>2 DEF LifeAnswer, Route
  <2> QED
    BY <1>2, <2>1, <2>2, <2>3, <2>4 DEF Life!Next, Life!Follow, Life!Edges, Life!Answers, Life!Approved
<1>6. CASE next = "mark_awaiting_approval"
  <2>1. s = "RISK_CLASSIFIED"
    BY <1>1, <1>6 DEF Placed
  <2>2. s' = "AWAITING_APPROVAL" /\ c' = c
    BY <1>1, <1>6 DEF Ran, Entered, Reviewing, Executing
  <2>3. a = "gated"
    BY <1>1, <1>6, <2>1 DEF LifeAnswer, Placed
  <2>4. a' = "pending"
    BY <1>1, <1>6, <2>2 DEF LifeAnswer, Route
  <2> QED
    BY <1>2, <2>1, <2>2, <2>3, <2>4 DEF Life!Next, Life!Follow, Life!Edges, Life!Answers, Life!Approved
<1>7. CASE next = "await_approval"
  <2>1. s = "AWAITING_APPROVAL" /\ a = "pending"
    BY <1>1, <1>7 DEF Placed, LifeAnswer
  <2>2. s' = "AWAITING_APPROVAL" /\ c' = c
    BY <1>1, <1>7 DEF Ran, Entered, Reviewing, Executing
  <2>3. upd.approval_decision \in {"approved", "edited", "rejected", "timeout"}
    BY <1>1, <1>7 DEF Ran, AgentState, Maybe
  <2>4. next' # "await_approval"
    BY <1>1, <1>7 DEF Route, route_after_approval
  <2>5. a' = upd.approval_decision
    BY <1>1, <2>2, <2>4 DEF LifeAnswer
  <2> QED
    BY <2>1, <2>2, <2>3, <2>5 DEF Life!Next, Life!Decide
<1>8. CASE next = "revalidate"
  <2>1. s = "AWAITING_APPROVAL" /\ a \in Approval /\ REVALIDATE
    BY <1>1, <1>8 DEF Placed, LifeAnswer, Approval
  <2>2. s' = "REVALIDATING" /\ c' = c
    BY <1>1, <1>8 DEF Ran, Entered, Reviewing, Executing
  <2>3. a' \in {"drift", "fresh"}
    BY <2>2 DEF LifeAnswer
  <2> QED
    BY <2>1, <2>2, <2>3
    DEF Approval, Life!Next, Life!Follow, Life!Edges, Life!Answers, Life!Approved
<1>9. CASE next = "prepare_execution"
  <2>1. \/ s = "RISK_CLASSIFIED" /\ a = "low"
        \/ s = "AWAITING_APPROVAL" /\ a \in Approval /\ ~REVALIDATE
        \/ s = "REVALIDATING" /\ a = "fresh"
    BY <1>1, <1>9 DEF Placed, LifeAnswer, Approval
  <2>2. s' = "EXECUTING" /\ c' = c
    BY <1>1, <1>9 DEF Ran, Entered, Reviewing, Executing
  <2>3. a' = "none"
    BY <2>2 DEF LifeAnswer
  <2> QED
    BY <2>1, <2>2, <2>3
    DEF Approval, Life!Next, Life!Follow, Life!Edges, Life!Answers, Life!Approved
<1>10. CASE next = "execute"
  <2>1. s = "EXECUTING" /\ s' = "EXECUTING" /\ c' = c
    BY <1>1, <1>10 DEF Placed, Ran, Entered, Reviewing, Executing
  <2>2. a = "none" /\ a' = "none"
    BY <2>1 DEF LifeAnswer
  <2> QED
    BY <2>1, <2>2
<1>11. CASE next = "verify"
  <2>1. s = "EXECUTING"
    BY <1>1, <1>11 DEF Placed
  <2>2. s' = "VERIFYING" /\ c' = c
    BY <1>1, <1>11 DEF Ran, Entered, Reviewing, Executing
  <2>3. a = "none"
    BY <1>1, <1>11, <2>1 DEF LifeAnswer, Placed
  <2>4. a' \in {"passed", "failed"}
    BY <1>1, <1>11, <2>2 DEF LifeAnswer, Route
  <2> QED
    BY <1>2, <2>1, <2>2, <2>3, <2>4 DEF Life!Next, Life!Follow, Life!Edges, Life!Answers, Life!Approved
<1>12. CASE next = "rolling_back"
  <2>1. s = "VERIFYING"
    BY <1>1, <1>12 DEF Placed
  <2>2. s' = "ROLLING_BACK" /\ c' = c
    BY <1>1, <1>12 DEF Ran, Entered, Reviewing, Executing
  <2>3. a = "failed"
    BY <1>1, <1>12, <2>1 DEF LifeAnswer, Placed
  <2>4. a' = "none"
    BY <1>1, <1>12, <2>2 DEF LifeAnswer, Route
  <2> QED
    BY <1>2, <2>1, <2>2, <2>3, <2>4 DEF Life!Next, Life!Follow, Life!Edges, Life!Answers, Life!Approved
<1>13. CASE next = "rolled_back"
  <2>1. s = "ROLLING_BACK"
    BY <1>1, <1>13 DEF Placed
  <2>2. s' = "ROLLED_BACK" /\ c' = c
    BY <1>1, <1>13 DEF Ran, Entered, Reviewing, Executing
  <2>3. a = "none"
    BY <1>1, <1>13, <2>1 DEF LifeAnswer, Placed
  <2>4. a' = "none"
    BY <1>1, <1>13, <2>2 DEF LifeAnswer, Route
  <2> QED
    BY <1>2, <2>1, <2>2, <2>3, <2>4 DEF Life!Next, Life!Follow, Life!Edges, Life!Answers, Life!Approved
<1>14. CASE next = "completed"
  <2>1. s = "VERIFYING"
    BY <1>1, <1>14 DEF Placed
  <2>2. s' = "COMPLETED" /\ c' = c
    BY <1>1, <1>14 DEF Ran, Entered, Reviewing, Executing
  <2>3. a = "passed"
    BY <1>1, <1>14, <2>1 DEF LifeAnswer, Placed
  <2>4. a' = "none"
    BY <1>1, <1>14, <2>2 DEF LifeAnswer, Route
  <2> QED
    BY <1>2, <2>1, <2>2, <2>3, <2>4 DEF Life!Next, Life!Follow, Life!Edges, Life!Answers, Life!Approved
<1>15. CASE next = "replan"
  <2>1. \/ s = "ACTION_PROPOSED" /\ a = "invalid"
        \/ s = "AWAITING_APPROVAL" /\ a = "rejected"
        \/ s = "REVALIDATING" /\ a = "drift"
        \/ s = "ROLLED_BACK" /\ a = "none"
    BY <1>1, <1>15 DEF Placed, LifeAnswer
  <2>2. s' = "REPLANNING" /\ c' = c + 1
    BY <1>1, <1>15 DEF Ran, Entered, Reviewing, Executing
  <2>3. a' = "none"
    BY <2>2 DEF LifeAnswer
  <2> QED
    BY <2>1, <2>2, <2>3 DEF Life!Next, Life!Follow, Life!Edges, Life!Answers
<1>16. CASE next = "escalate"
  <2>1. \/ s = "AWAITING_APPROVAL" /\ a = "timeout"
        \/ s = "REPLANNING" /\ a = "none" /\ c >= MAX_REPLAN_CYCLES
    BY <1>1, <1>16 DEF Placed, LifeAnswer
  <2>2. s' = "ESCALATED" /\ c' = c
    BY <1>1, <1>16 DEF Ran, Entered, Reviewing, Executing
  <2>3. a' = "none"
    BY <2>2 DEF LifeAnswer
  <2> QED
    BY <1>2, <2>1, <2>2, <2>3 DEF Life!Next, Life!Follow, Life!Edges, Life!Answers
<1> QED
  BY <1>1, <1>3, <1>4, <1>5, <1>6, <1>7, <1>8, <1>9, <1>10, <1>11, <1>12, <1>13, <1>14, <1>15, <1>16 DEF NODES

\* Every step of the run is a step of its abstract life, or none.
LEMMA StepFollows ==
  TypeInv /\ LifeInv /\ [Next]_vars =>
    [Life!Next]_<<LifeStatus, LifeAnswer, st.replan_cycles>>
<1> SUFFICES ASSUME TypeInv, LifeInv, [Next]_vars
             PROVE  Life!Next \/ UNCHANGED <<LifeStatus, LifeAnswer, st.replan_cycles>>
  OBVIOUS
<1>1. CASE Checkpoint
  BY <1>1, CheckpointFollows
<1>2. CASE Start
  <2>1. next' = "diagnose" /\ st' = st
    BY <1>2 DEF Start
  <2>2. LifeStatus' = "CREATED"
    BY <2>1 DEF LifeStatus
  <2>3. LifeAnswer' = "none"
    BY <2>2 DEF LifeAnswer
  <2> QED
    BY <2>1, <2>2, <2>3 DEF Life!Next, Life!StartOver
<1>3. CASE ~Checkpoint /\ ~Start
  <2>1. UNCHANGED <<next, st>>
    BY <1>3, PlainSteps DEF Next, Process, Node, Plainly, execute_lookup, execute_perform,
       execute_record, WriteAudit, Resume, Crash, Abandon, Drift, vars, agentVars, history
  <2>2. UNCHANGED LifeStatus
    BY <2>1 DEF LifeStatus
  <2>3. UNCHANGED LifeAnswer
    BY <2>1, <2>2 DEF LifeAnswer
  <2> QED
    BY <2>1, <2>2, <2>3
<1> QED
  BY <1>1, <1>2, <1>3

\* A run that was not started is at the beginning of its life.
LEMMA InitFollows == Init => Life!Init
<1> SUFFICES ASSUME Init
             PROVE  Life!Init
  OBVIOUS
<1>1. LifeStatus = "CREATED" /\ st.replan_cycles = 0
  BY DEF Init, NewState, LifeStatus
<1>2. LifeAnswer = "none"
  BY <1>1 DEF LifeAnswer
<1> QED
  BY <1>1, <1>2 DEF Life!Init

\* For any kills, restarts, edits and changes of the sandbox the run only moves
\* along the diagram, each time by the branch its answer names.
THEOREM RunsFollowTheirLife == Spec => FollowsLifecycle
<1>1. Init => TypeInv /\ LifeInv /\ Life!Init
  BY InitType, InitLife, InitFollows
<1>2. TypeInv /\ LifeInv /\ [Next]_vars => (TypeInv /\ LifeInv)'
  BY NextType, NextLife
<1> QED
  BY <1>1, <1>2, StepFollows, PTL DEF Spec, FollowsLifecycle, Life!Spec

-----------------------------------------------------------------------------
(* Why the run replans.                                                    *)

\* What is left over at a node's route is left over at the node, or this cycle's.
LEMMA ToldAhead ==
  ASSUME NEW n, NEW s \in AgentState, NEW u \in AgentState,
         n \in NODES, Placed(n, s), Ran(n, s, u), Told(n, s)
  PROVE  Told(Route(n, u), u)
<1> USE DEF Told, Valid, Leftover, Unreviewed, PastAction, WithProposal, Reviewing, Executing,
            Executed
<1>1. u.replan_cycles \in Nat /\ s.replan_cycles \in Nat
  BY DEF AgentState
<1>2. CASE n \in {"diagnose", "mark_awaiting_approval", "completed", "escalate"}
  BY <1>2 DEF Ran, Route
<1>3. CASE n = "propose_action"
  BY <1>3 DEF Ran, Entered, Route, route_after_proposal
<1>4. CASE n = "classify_risk"
  BY <1>4 DEF Ran, Route, route_after_risk_classification
<1>5. CASE n = "await_approval"
  BY <1>5 DEF Placed, Ran, Entered, Route, route_after_approval
<1>6. CASE n = "revalidate"
  BY <1>6 DEF Placed, Ran, Entered, Route, route_after_revalidation
<1>7. CASE n = "prepare_execution"
  BY <1>7 DEF Placed, Ran, Route
<1>8. CASE n \in {"execute", "rolling_back", "rolled_back"}
  BY <1>8 DEF Ran, Entered, Route
<1>9. CASE n = "verify"
  BY <1>9 DEF Ran, Route, route_after_verification
<1>10. CASE n = "replan"
  BY <1>1, <1>10 DEF Ran, Route, route_after_replan
<1> QED
  BY <1>2, <1>3, <1>4, <1>5, <1>6, <1>7, <1>8, <1>9, <1>10 DEF NODES

\* Every step keeps track of what is left over.
LEMMA NextReason == TypeInv /\ LifeInv /\ ReasonInv /\ [Next]_vars => ReasonInv'
<1> SUFFICES ASSUME TypeInv, LifeInv, ReasonInv, [Next]_vars
             PROVE  ReasonInv'
  OBVIOUS
<1>1. CASE Plainly \/ execute_record
  <2>1. UNCHANGED <<next, st, starts>>
    BY <1>1, PlainSteps DEF execute_record, history
  <2>2. ASSUME InFlight'
        PROVE  /\ Told(Route(next, upd'), upd')
               /\ next = "replan" => upd'.replan_context = replan_reason
    <3>1. /\ Ran(next, st, upd')
          /\ next = "replan" => upd'.replan_context = replan_reason
      BY <1>1, <2>2, NodeRan
    <3>2. st \in AgentState /\ upd' \in AgentState /\ next \in NODES
      <4>1. TypeInv'
        BY NextType
      <4>2. upd' \in AgentState
        BY <2>2, <4>1 DEF TypeInv, TypeOK, Phases, InFlight, Maybe
      <4>3. next \notin {"none", "END"}
        BY <2>1, <2>2, <4>1 DEF TypeInv, Phases, InFlight
      <4> QED
        BY <4>2, <4>3 DEF TypeInv, TypeOK
    <3> QED
      BY <3>1, <3>2, ToldAhead DEF LifeInv, ReasonInv
  <2>3. Told(next, st)' /\ (replan_reason' = replan_reason)
    BY <2>1 DEF ReasonInv, Told, Leftover, replan_reason
  <2>4. InFlight' => Told(Route(next, upd), upd)'
    BY <2>1, <2>2 DEF Told, Leftover
  <2> QED
    BY <2>1, <2>2, <2>3, <2>4 DEF ReasonInv
<1>2. CASE execute_lookup \/ execute_perform \/ Crash \/ Resume
  BY <1>2 DEF execute_lookup, execute_perform, Crash, Resume, Abandon, history, ReasonInv,
     InFlight, Told, Leftover
<1>3. CASE Checkpoint
  <2>1. Told(next, st)'
    BY <1>3, CheckpointReads DEF ReasonInv, Told, Leftover
  <2>2. next' # "none" /\ next # "none"
    BY <1>3, CheckpointReads, RouteType DEF NODES
  <2> QED
    BY <1>3, <2>1, <2>2, CheckpointReads DEF ReasonInv
<1>4. CASE Start
  <2>1. next' = "diagnose" /\ st' = st /\ ~InFlight' /\ starts' = starts + 1 /\ starts \in Nat
    BY <1>4 DEF Start, InFlight, TypeInv, TypeOK
  <2>2. Leftover(st)'
    <3>1. CASE starts = 0
      BY <2>1, <3>1, NoneAssumption DEF ReasonInv, NewState, Leftover
    <3>2. CASE starts # 0
      BY <2>1, <3>2 DEF Leftover
    <3> QED
      BY <3>1, <3>2
  <2> QED
    BY <2>1, <2>2 DEF ReasonInv, Told, Valid, Unreviewed, PastAction, WithProposal, Reviewing,
       Executing, Executed
<1>5. CASE WriteAudit \/ Drift \/ UNCHANGED vars
  BY <1>5 DEF WriteAudit, Drift, vars, agentVars, history, ReasonInv, InFlight, Told, Leftover,
     replan_reason
<1> QED
  BY <1>1, <1>2, <1>3, <1>4, <1>5 DEF Next, Process, Node, Plainly

\* Nothing is left over at first.
LEMMA InitReason == Init => ReasonInv
BY NoneAssumption DEF Init, NewState, ReasonInv, Told, Valid, Leftover, PastAction,
   WithProposal, Reviewing, Executing, Executed, InFlight

\* A step that replans is the checkpoint of replan.
LEMMA ReplanGivesCause ==
  ASSUME TypeInv, LifeInv, ReasonInv, [Next]_vars, Replans
  PROVE  \/ st'.replan_context = Cause
         \/ Cause = "not_fixed" /\ ReviewedEarlierOnly
              /\ st'.replan_context \in {"rejected", "drift"}
<1>1. st.replan_cycles \in Nat
  BY DEF TypeInv, TypeOK, AgentState
<1>2. Checkpoint
  <2>1. st' # st
    BY <1>1 DEF Replans
  <2> QED
    BY <2>1, PlainSteps DEF Next, Process, Node, Plainly, execute_lookup, execute_perform,
       execute_record, WriteAudit, Start, Resume, Crash, Abandon, Drift, vars, agentVars, history
<1>3. next = "replan" /\ st'.replan_context = replan_reason
  BY <1>1, <1>2, CheckpointReads DEF Replans, LifeInv, Ran, ReasonInv
<1>4. Placed("replan", st) /\ Told("replan", st)
  BY <1>3 DEF LifeInv, ReasonInv
<1> USE DEF Told, Valid, PastAction, Placed, Cause, replan_reason
<1>5. CASE st.status = "ACTION_PROPOSED"
  BY <1>3, <1>4, <1>5
<1>6. CASE st.status = "AWAITING_APPROVAL"
  BY <1>3, <1>4, <1>6
<1>7. CASE st.status = "REVALIDATING"
  BY <1>3, <1>4, <1>7 DEF Approval
<1>8. CASE st.status = "ROLLED_BACK"
  <2>1. /\ ~st.invalid_proposal_reason /\ st.verification_passed = FALSE
        /\ Cause = "not_fixed"
    BY <1>4, <1>8
  <2>2. CASE st.approval_decision = "rejected" \/ st.drift_detected
    <3>1. ReviewedEarlierOnly
      BY <1>4, <1>8, <2>2 DEF Leftover, ReviewedEarlierOnly, Approval
    <3> QED
      BY <1>3, <2>1, <2>2, <3>1
  <2>3. CASE ~(st.approval_decision = "rejected" \/ st.drift_detected)
    BY <1>3, <2>1, <2>3
  <2> QED
    BY <2>2, <2>3
<1> QED
  BY <1>4, <1>5, <1>6, <1>7, <1>8

\* The life and what is left over, throughout a run.
LEMMA LifeHolds == Spec => [](TypeInv /\ LifeInv /\ ReasonInv)
<1>1. Init => TypeInv /\ LifeInv /\ ReasonInv
  BY InitType, InitLife, InitReason
<1>2. TypeInv /\ LifeInv /\ ReasonInv /\ [Next]_vars => (TypeInv /\ LifeInv /\ ReasonInv)'
  BY NextType, NextLife, NextReason
<1> QED
  BY <1>1, <1>2, PTL DEF Spec

\* For any sequence of rejections, drifts, failures, kills and restarts the
\* reason given is this cycle's, or, to a low-risk action that failed, that of
\* a review before it.
THEOREM ReasonsAreOfTheirCycle == Spec => ReasonIsOfThisCycle
<1>1. TypeInv /\ LifeInv /\ ReasonInv /\ [Next]_vars =>
        [Replans => \/ st'.replan_context = Cause
                    \/ Cause = "not_fixed" /\ ReviewedEarlierOnly
                         /\ st'.replan_context \in {"rejected", "drift"}]_vars
  BY ReplanGivesCause
<1> QED
  BY <1>1, LifeHolds, PTL DEF Spec, ReasonIsOfThisCycle

-----------------------------------------------------------------------------
(* What the run has undone.                                                *)

\* The counters are numbers.
LEMMA UndoTypes ==
  ASSUME TypeInv
  PROVE  /\ undone \in [compensations : Nat, failures : Nat]
         /\ torn \in [effect : Nat, undo : Nat, commit : Nat, rollback : Nat]
         /\ Owed \in Nat
BY DEF TypeInv, TypeOK, Owed

\* A step that neither commits nor compensates and, at rolling_back, enters or
\* leaves no phase, owes what was owed.
LEMMA UndoKept ==
  ASSUME UndoInv, UNCHANGED <<undone, torn, next>>,
         next = "rolling_back" => (InFlight' <=> InFlight)
  PROVE  UndoInv'
<1>1. Owed' = Owed
  BY DEF Owed
<1> QED
  BY <1>1 DEF UndoInv

\* Every step keeps the account of failures and compensations.
LEMMA NextUndo == TypeInv /\ UndoInv /\ [Next]_vars => UndoInv'
<1> SUFFICES ASSUME TypeInv, UndoInv, [Next]_vars
             PROVE  UndoInv'
  OBVIOUS
<1>1. CASE rolling_back
  <2>1. /\ next = "rolling_back" /\ ~InFlight /\ next' = next /\ InFlight' /\ torn' = torn
        /\ undone' = [undone EXCEPT !.compensations = @ + 1]
    BY <1>1 DEF rolling_back, At, Return, InFlight
  <2>2. /\ undone'.compensations = undone.compensations + 1
        /\ undone'.failures = undone.failures /\ Owed = 1 /\ Owed' = 0
    BY <2>1, UndoTypes DEF Owed
  <2> QED
    BY <2>1, <2>2, UndoTypes DEF UndoInv
<1>2. CASE Plainly /\ ~rolling_back
  <2>1. UNCHANGED <<undone, torn, next>>
    BY <1>2, PlainSteps DEF Plainly, diagnose, propose_action, classify_risk,
       mark_awaiting_approval, Suspend, await_approval, EditRaises, revalidate,
       prepare_execution, execute_replay, ExecuteRaises, verify, RollbackRaises, rolled_back,
       replan, completed, escalate, history
  <2>2. next = "rolling_back" => RollbackRaises \/ ExecuteRaises
    BY <1>2, <2>1 DEF Plainly, diagnose, propose_action, classify_risk,
       mark_awaiting_approval, Suspend, await_approval, EditRaises, revalidate,
       prepare_execution, execute_replay, verify, rolled_back, replan, completed, escalate, At
  <2>3. next = "rolling_back" => ~InFlight /\ ~InFlight'
    BY <2>2 DEF RollbackRaises, ExecuteRaises, At, Abandon, InFlight
  <2> QED
    BY <2>1, <2>3, UndoKept
<1>3. CASE execute_lookup \/ execute_perform \/ execute_record
  <2>1. UNCHANGED <<undone, torn, next>> /\ next = "execute"
    BY <1>3 DEF execute_lookup, execute_perform, execute_record, At, history, TypeInv, Phases
  <2> QED
    BY <2>1, UndoKept
<1>4. CASE Checkpoint
  <2>1. InFlight /\ ~InFlight' /\ next' = Route(next, upd) /\ torn' = torn
    BY <1>4, CheckpointReads
  <2>2. CASE next = "verify" /\ upd.verification_passed # TRUE
    <3>1. next' = "rolling_back" /\ undone' = [undone EXCEPT !.failures = @ + 1]
      BY <1>4, <2>1, <2>2 DEF Checkpoint, Route, route_after_verification
    <3>2. /\ undone'.failures = undone.failures + 1
          /\ undone'.compensations = undone.compensations /\ Owed = 0 /\ Owed' = 1
      BY <2>1, <2>2, <3>1, UndoTypes DEF Owed
    <3> QED
      BY <2>1, <3>2, UndoTypes DEF UndoInv
  <2>3. CASE ~(next = "verify" /\ upd.verification_passed # TRUE)
    <3>1. next' # "rolling_back" /\ undone' = undone
      BY <1>4, <2>1, <2>3 DEF Checkpoint, Route, route_after_proposal,
         route_after_risk_classification, route_after_approval, route_after_revalidation,
         route_after_verification, route_after_replan
    <3>2. Owed = 0 /\ Owed' = 0
      BY <2>1, <3>1 DEF Owed
    <3> QED
      BY <2>1, <3>1, <3>2 DEF UndoInv
  <2> QED
    BY <2>2, <2>3
<1>5. CASE Start
  <2>1. /\ ~InFlight /\ next' = "diagnose" /\ undone' = undone
        /\ torn'.undo = torn.undo
        /\ torn'.rollback = IF next = "rolling_back" THEN torn.rollback + 1 ELSE torn.rollback
    BY <1>5, UndoTypes DEF Start, InFlight
  <2>2. Owed = (IF next = "rolling_back" THEN 1 ELSE 0) /\ Owed' = 0
    BY <2>1 DEF Owed
  <2> QED
    BY <2>1, <2>2, UndoTypes DEF UndoInv
<1>6. CASE Crash
  <2>1. /\ ~InFlight' /\ next' = next /\ undone' = undone /\ torn'.rollback = torn.rollback
        /\ torn'.undo = IF next = "rolling_back" /\ InFlight THEN torn.undo + 1 ELSE torn.undo
    BY <1>6, UndoTypes DEF Crash, Abandon, InFlight
  <2>2. CASE next = "rolling_back" /\ InFlight
    <3>1. Owed = 0 /\ Owed' = 1 /\ torn'.undo = torn.undo + 1
      BY <2>1, <2>2 DEF Owed
    <3> QED
      BY <2>1, <3>1, UndoTypes DEF UndoInv
  <2>3. CASE ~(next = "rolling_back" /\ InFlight)
    <3>1. Owed' = Owed /\ torn'.undo = torn.undo
      BY <2>1, <2>3 DEF Owed
    <3> QED
      BY <2>1, <3>1 DEF UndoInv
  <2> QED
    BY <2>2, <2>3
<1>7. CASE WriteAudit \/ Resume \/ Drift \/ UNCHANGED vars
  BY <1>7, UndoKept DEF WriteAudit, Resume, Drift, vars, agentVars, history, InFlight
<1> QED
  BY <1>1, <1>2, <1>3, <1>4, <1>5, <1>6, <1>7 DEF Next, Process, Node, Plainly

\* For any number of kills and restarts every failed verification is compensated
\* once, a compensation more for each kill after it, one less for each restart
\* that dropped it.
THEOREM FailuresAreUndone == Spec => []EveryFailureUndone
<1>1. Init => TypeInv /\ UndoInv
  <2>1. Init => UndoInv
    BY DEF Init, UndoInv, Owed
  <2> QED
    BY <2>1, InitType
<1>2. TypeInv /\ UndoInv /\ [Next]_vars => (TypeInv /\ UndoInv)'
  BY NextType, NextUndo
<1>3. TypeInv /\ UndoInv => EveryFailureUndone
  BY UndoTypes DEF UndoInv, EveryFailureUndone, Owed
<1> QED
  BY <1>1, <1>2, <1>3, PTL DEF Spec

-----------------------------------------------------------------------------
(* COMPLETED means done.                                                   *)

\* Effects are not taken back, so what was done stays done.
LEMMA DoneKept ==
  ASSUME NEW n, NEW s, Done(n, s), TypeInv, [Next]_vars
  PROVE  Done(n, s)'
<1>1. \A a \in Acts : applied[a] >= 1 => applied'[a] >= 1
  <2>1. CASE execute_perform
    <3>1. /\ applied' = [applied EXCEPT ![st.proposed_action] = @ + 1]
          /\ applied \in [Acts -> Nat]
      BY <2>1 DEF execute_perform, TypeInv, TypeOK
    <3> QED
      BY <3>1
  <2>2. CASE ~execute_perform
    <3>1. applied' = applied
      BY <2>2, PlainSteps DEF Next, Process, Node, Plainly, execute_lookup, execute_record,
         WriteAudit, Checkpoint, Start, Resume, Crash, Abandon, Drift, vars, history
    <3> QED
      BY <3>1
  <2> QED
    BY <2>1, <2>2
<1> QED
  BY <1>1 DEF Done

\* What a node makes of a state is done if what it needs was: execute leaves
\* behind an action that is in the ledger or has just been performed.
LEMMA NodeDone ==
  ASSUME TypeInv, LifeInv, LedgerInv, DoneInv, Plainly \/ execute_record, InFlight'
  PROVE  Done(Route(next, upd'), upd')
<1>1. Ran(next, st, upd') /\ Done(next, st) /\ Placed(next, st)
  BY NodeRan DEF LifeInv, DoneInv
<1>2. next \in NODES
  <2>1. next \notin {"none", "END"}
    BY DEF Plainly, diagnose, propose_action, classify_risk, mark_awaiting_approval, Suspend,
       await_approval, EditRaises, revalidate, prepare_execution, execute_replay, ExecuteRaises,
       verify, rolling_back, RollbackRaises, rolled_back, replan, completed, escalate,
       execute_record, At, TypeInv, Phases
  <2> QED
    BY <2>1 DEF TypeInv, TypeOK
<1>3. CASE next = "execute"
  <2>1. st.proposed_action \in Acts /\ st.idempotency_key = st.proposed_action
    BY <1>3, ExecuteReads
  <2>2. applied[st.proposed_action] >= 1
    <3>1. CASE execute_record
      BY <3>1 DEF execute_record, LedgerInv
    <3>2. CASE Plainly
      <4>1. execute_replay
        BY <1>3, <3>2 DEF Plainly, diagnose, propose_action, classify_risk,
           mark_awaiting_approval, Suspend, await_approval, EditRaises, revalidate,
           prepare_execution, ExecuteRaises, verify, rolling_back, RollbackRaises, rolled_back,
           replan, completed, escalate, At, Abandon, InFlight
      <4> QED
        BY <2>1, <4>1 DEF execute_replay, LedgerInv
    <3> QED
      BY <3>1, <3>2
  <2>3. UNCHANGED applied
    BY PlainSteps DEF execute_record, history
  <2> QED
    BY <1>1, <1>3, <2>1, <2>2 DEF Ran, Entered, Reviewing, Executing, Route, Done
<1>4. CASE next = "verify"
  BY <1>1, <1>4 DEF Ran, Entered, Reviewing, Executing, Done
<1>5. CASE next = "completed"
  BY <1>1, <1>5 DEF Ran, Placed, Done
<1>6. CASE next \notin {"execute", "verify", "completed"}
  <2>1. upd'.status # "COMPLETED"
    BY <1>1, <1>2, <1>6 DEF Ran, Entered, Reviewing, Executing, NODES
  <2>2. Route(next, upd') \notin {"verify", "completed"}
    BY <1>6 DEF Route, route_after_proposal, route_after_risk_classification,
       route_after_approval, route_after_revalidation, route_after_replan
  <2> QED
    BY <2>1, <2>2 DEF Done
<1> QED
  BY <1>3, <1>4, <1>5, <1>6

\* Every step keeps what was done.
LEMMA NextDone ==
  TypeInv /\ LifeInv /\ LedgerInv /\ DoneInv /\ [Next]_vars => DoneInv'
<1> SUFFICES ASSUME TypeInv, LifeInv, LedgerInv, DoneInv, [Next]_vars
             PROVE  DoneInv'
  OBVIOUS
<1>1. CASE Plainly \/ execute_record
  <2>1. UNCHANGED <<next, st, applied>>
    BY <1>1, PlainSteps DEF execute_record, history
  <2>2. Done(next, st)'
    BY <2>1 DEF DoneInv, Done
  <2>3. InFlight' => Done(Route(next, upd), upd)'
    <3>1. InFlight' => Done(Route(next, upd'), upd')
      BY <1>1, NodeDone
    <3> QED
      BY <2>1, <3>1 DEF Done
  <2> QED
    BY <2>2, <2>3 DEF DoneInv
<1>2. CASE execute_lookup \/ execute_perform
  <2>1. UNCHANGED <<next, st>> /\ ~InFlight'
    BY <1>2 DEF execute_lookup, execute_perform, InFlight
  <2>2. Done(next, st)'
    BY <2>1, DoneKept DEF DoneInv, Done
  <2> QED
    BY <2>1, <2>2 DEF DoneInv
<1>3. CASE Checkpoint
  BY <1>3, CheckpointReads DEF DoneInv, Done
<1>4. CASE Start
  <2>1. next' = "diagnose" /\ st' = st /\ ~InFlight' /\ applied' = applied
    BY <1>4 DEF Start, InFlight
  <2> QED
    BY <2>1 DEF DoneInv, Done
<1>5. CASE WriteAudit \/ Resume \/ Crash \/ Drift \/ UNCHANGED vars
  BY <1>5 DEF WriteAudit, Resume, Crash, Abandon, Drift, vars, agentVars, history, DoneInv,
     InFlight, Done
<1> QED
  BY <1>1, <1>2, <1>3, <1>4, <1>5 DEF Next, Process, Node, Plainly

\* Whatever happened on the way, a run that reports COMPLETED passed its
\* verification, and performed the action it names.
THEOREM CompletedRunsActed == Spec => []CompletedMeansDone
<1>1. Init => TypeInv /\ LifeInv /\ LedgerInv /\ DoneInv
  <2>1. Init => DoneInv
    BY NoneAssumption DEF Init, NewState, DoneInv, Done, InFlight, States
  <2> QED
    BY <2>1, InitType, InitLife, InitLedger
<1>2. TypeInv /\ LifeInv /\ LedgerInv /\ DoneInv /\ [Next]_vars =>
        (TypeInv /\ LifeInv /\ LedgerInv /\ DoneInv)'
  BY NextType, NextLife, NextLedger, NextDone
<1>3. DoneInv => CompletedMeansDone
  BY DEF DoneInv, Done, CompletedMeansDone
<1> QED
  BY <1>1, <1>2, <1>3, PTL DEF Spec

-----------------------------------------------------------------------------
(* What a run gives back.                                                  *)

\* Where the edges of the graph come from.
LEMMA RouteSources ==
  ASSUME NEW n \in NODES, NEW s
  PROVE  /\ Route(n, s) = "verify" <=> n = "execute"
         /\ Route(n, s) = "execute" <=> n = "prepare_execution"
         /\ Route(n, s) = "rolled_back" <=> n = "rolling_back"
         /\ Route(n, s) = "END" <=> n \in {"completed", "escalate"}
         /\ Route(n, s) \in {"completed", "rolling_back"} => n = "verify"
         /\ Route(n, s) = "await_approval" => n = "mark_awaiting_approval"
         /\ Route(n, s) = "revalidate" => n = "await_approval"
         /\ Route(n, s) = "classify_risk" => n = "propose_action"
         /\ Route(n, s) = "propose_action" => n \in {"diagnose", "replan"}
BY DEF NODES, Route, route_after_proposal, route_after_risk_classification,
   route_after_approval, route_after_revalidation, route_after_verification,
   route_after_replan

\* Steps that leave the world, the ledger and the checkpoint alone and make
\* nothing of the nodes whose work has to be given back.
LEMMA TraceKept ==
  ASSUME Trace, UNCHANGED <<next, st, world, ledger>>,
         \/ pc' \in {"idle", "enter", "perform"} /\ pc # "record"
         \/ pc' = "ran" /\ next \notin {"execute", "verify", "rolling_back"}
         \/ UNCHANGED <<pc, upd>>
         \/ pc = "ran" /\ pc' = "logged" /\ upd' = upd
  PROVE  Trace'
<1>1. CASE pc' \in {"idle", "enter", "perform"} /\ pc # "record"
  BY <1>1 DEF Trace, ExecuteTrace, InFlight, GivesBack, Untouched
<1>2. CASE pc' = "ran" /\ next \notin {"execute", "verify", "rolling_back"}
  BY <1>2 DEF Trace, GivesBack, Untouched, Executed
<1>3. CASE UNCHANGED <<pc, upd>> \/ (pc = "ran" /\ pc' = "logged" /\ upd' = upd)
  BY <1>3 DEF Trace, ExecuteTrace, InFlight, GivesBack, Untouched
<1> QED
  BY <1>1, <1>2, <1>3

\* A step after which nothing has disturbed the run was not disturbed before,
\* nor is it a change by others, a restart, or a kill between a side effect and
\* its record.
LEMMA StaysUndisturbed ==
  ASSUME TypeInv, BudgetInv, [Next]_vars, Undisturbed'
  PROVE  /\ Undisturbed /\ ~Drift
         /\ Start => next = "none"
         /\ Crash => pc # "record"
<1>1. /\ drifts \in Nat /\ starts \in Nat
      /\ torn \in [effect : Nat, undo : Nat, commit : Nat, rollback : Nat]
  BY DEF TypeInv, TypeOK
<1>2. CASE Start
  <2>1. starts' = starts + 1 /\ torn'.effect = torn.effect /\ drifts' = drifts
    BY <1>1, <1>2 DEF Start
  <2>2. starts = 0 /\ ~Drift
    BY <1>1, <2>1 DEF Undisturbed, Drift
  <2>3. pc = "idle" /\ pc' = "enter"
    BY <1>2 DEF Start
  <2> QED
    BY <2>1, <2>2, <2>3 DEF Undisturbed, BudgetInv, Crash, Abandon
<1>3. CASE Crash
  <2>1. /\ torn'.effect = IF pc = "record" THEN torn.effect + 1 ELSE torn.effect
        /\ UNCHANGED <<drifts, starts>>
    BY <1>1, <1>3 DEF Crash
  <2>2. ~Drift /\ ~Start
    BY <1>1, <1>3, <2>1 DEF Drift, Start
  <2> QED
    BY <1>1, <2>1, <2>2 DEF Undisturbed
<1>4. CASE ~Start /\ ~Crash
  <2>1. ~Drift
    BY <1>1 DEF Drift, Undisturbed
  <2>2. UNCHANGED <<torn, drifts, starts>>
    BY <1>4, <2>1 DEF Next, Process, Node, diagnose, propose_action, classify_risk,
       mark_awaiting_approval, Suspend, await_approval, EditRaises, revalidate,
       prepare_execution, execute_replay, execute_lookup, execute_perform, execute_record,
       ExecuteRaises, verify, rolling_back, RollbackRaises, rolled_back, replan, completed,
       escalate, WriteAudit, Checkpoint, Resume, vars, history
  <2> QED
    BY <1>4, <2>1, <2>2 DEF Undisturbed
<1> QED
  BY <1>2, <1>3, <1>4

\* What execute records is what the tool changed, and nothing else was changed.
LEMMA PerformTrace ==
  ASSUME TypeInv, LedgerInv, Trace, execute_perform
  PROVE  Trace'
<1> DEFINE a == st.proposed_action
           p == st.action_parameters
           c == CompensationOf(world, a, p)
<1>1. /\ pc = "perform" /\ next = "execute" /\ pc' = "record"
      /\ ~PerformRaises(world, a) /\ ~ArgumentMissing(a, p)
      /\ world' = Perform(world, a, p)
      /\ upd' = WithOutcome(OutcomeOf(world, a, p))
      /\ UNCHANGED <<next, st, ledger>>
  BY DEF execute_perform, TypeInv, Phases
<1>2. /\ world \in World /\ a \in Action /\ p \in Params
      /\ st.idempotency_key = a /\ ledger[a] = NoVal
  BY <1>1, ExecuteReads DEF TypeInv, TypeOK, LedgerInv
<1>3. upd'.compensation = c
  <2>1. OutcomeOf(world, a, p) \in Outcomes
    BY <1>1, <1>2, OutcomeType
  <2>2. OutcomeOf(world, a, p).compensation = c
    BY DEF OutcomeOf
  <2> QED
    BY <1>1, <2>1, <2>2, OutcomeReady
<1>4. Untouched
  BY <1>1, <1>2 DEF Trace, ExecuteTrace
<1>5. AsksFor(c, Found)
  BY <1>1, <1>2, <1>4, CompensationAsks DEF Untouched
<1>6. Configuration(apply_compensation(world', c)) = Found
  BY <1>1, <1>2, <1>4, CompensationRestores DEF Untouched
<1> HIDE DEF c
<1>7. ExecuteTrace'
  <2>1. GivesBack(upd.compensation)'
    BY <1>3, <1>6 DEF GivesBack
  <2>2. AsksFor(upd'.compensation, Found)
    BY <1>3, <1>5
  <2> QED
    BY <1>1, <1>2, <2>1, <2>2 DEF ExecuteTrace, InFlight
<1> QED
  BY <1>1, <1>7 DEF Trace, Executed

\* The ledger keeps the compensation with the outcome.
LEMMA RecordTrace ==
  ASSUME TypeInv, LedgerInv, Trace, execute_record
  PROVE  Trace'
<1> DEFINE a == st.proposed_action
           o == [deleted |-> upd.execution_result, compensation |-> upd.compensation]
<1>1. /\ pc = "record" /\ next = "execute" /\ pc' = "ran"
      /\ ledger' = [ledger EXCEPT ![st.idempotency_key] = IF @ # NoVal THEN @ ELSE o]
      /\ UNCHANGED <<next, st, upd, world>>
  BY DEF execute_record, TypeInv, Phases
<1>2. /\ a \in Acts /\ st.idempotency_key = a /\ ledger[a] = NoVal
      /\ ledger \in [Acts -> Maybe(Outcomes)]
  BY <1>1, ExecuteReads DEF TypeInv, TypeOK, LedgerInv
<1>3. GivesBack(upd.compensation) /\ AsksFor(upd.compensation, Found)
  BY <1>1 DEF Trace, ExecuteTrace
<1>4. o.compensation = upd.compensation
  OBVIOUS
<1> HIDE DEF o
<1>5. ledger' = [ledger EXCEPT ![a] = o]
  BY <1>1, <1>2
<1>6. ledger'[a] = o /\ \A b \in Acts : b # a => ledger'[b] = ledger[b]
  BY <1>2, <1>5
<1>7. \A b \in Acts : ledger'[b] # NoVal => AsksFor(ledger'[b].compensation, Found)
  BY <1>2, <1>3, <1>4, <1>6 DEF Trace
<1>8. o # NoVal
  <2>1. /\ upd \in AgentState /\ upd.execution_result # NoVal /\ upd.compensation # NoVal
    BY <1>1 DEF TypeInv, TypeOK, Phases, Maybe
  <2>2. o \in Outcomes
    BY <2>1 DEF o, AgentState, Maybe, Outcomes
  <2> QED
    BY <2>2, NoneAssumption
<1>9. ExecuteTrace'
  <2>1. ledger'[st'.idempotency_key] = o /\ pc' = "ran"
    BY <1>1, <1>2, <1>6
  <2>2. /\ GivesBack(upd.compensation)'
        /\ GivesBack(ledger[st.idempotency_key].compensation)'
    BY <1>1, <1>3, <1>4, <2>1 DEF GivesBack
  <2> QED
    BY <1>8, <2>1, <2>2 DEF ExecuteTrace
<1> QED
  BY <1>1, <1>7, <1>9 DEF Trace, Executed

\* A replay answers with the compensation of what it does not do again.
LEMMA ReplayTrace ==
  ASSUME TypeInv, Trace, execute_replay
  PROVE  Trace'
<1> DEFINE o == ledger[st.idempotency_key]
<1>1. /\ next = "execute" /\ pc = "enter" /\ pc' = "ran" /\ o # NoVal
      /\ upd' = WithOutcome(o)
      /\ UNCHANGED <<next, st, world, ledger>>
  BY DEF execute_replay, At, Return, Elsewhere
<1>2. o \in Outcomes
  BY <1>1, ExecuteReads DEF TypeInv, TypeOK, Maybe
<1>3. GivesBack(o.compensation)
  BY <1>1 DEF Trace, ExecuteTrace
<1> HIDE DEF o
<1>4. upd'.compensation = o.compensation
  BY <1>1, <1>2, OutcomeReady
<1>5. ExecuteTrace'
  <2>1. ledger'[st'.idempotency_key] = o
    BY <1>1 DEF o
  <2>2. GivesBack(upd.compensation)' /\ GivesBack(ledger[st.idempotency_key].compensation)'
    BY <1>1, <1>3, <1>4, <2>1 DEF GivesBack
  <2> QED
    BY <1>1, <2>1, <2>2 DEF ExecuteTrace
<1> QED
  BY <1>1, <1>5 DEF Trace, Executed

\* A rollback gives back all that was changed; a second one, after a kill, finds
\* nothing left to do.
LEMMA RollbackTrace ==
  ASSUME TypeInv, Trace, rolling_back
  PROVE  Trace'
<1>1. /\ next = "rolling_back" /\ pc' = "ran"
      /\ world' = apply_compensation(world, st.compensation)
      /\ UNCHANGED <<next, st, ledger>>
  BY DEF rolling_back, At, Return
<1>2. world \in World /\ st.compensation \in Compensations
  BY <1>1 DEF TypeInv, TypeOK, Ready, Executed, AgentState, Maybe
<1>3. Configuration(world') = Found
  BY <1>1 DEF Trace, Executed, GivesBack
<1>4. apply_compensation(world', st.compensation) = world'
  BY <1>1, <1>2, CompensationIdempotent
<1>5. Untouched' /\ GivesBack(st.compensation)'
  BY <1>1, <1>3, <1>4 DEF Untouched, GivesBack
<1> QED
  BY <1>1, <1>5 DEF Trace

\* A checkpoint hands the obligation to the next node, or finds it met.
LEMMA CheckpointTrace ==
  ASSUME TypeInv, LifeInv, Trace, Checkpoint
  PROVE  Trace'
<1>1. /\ InFlight /\ ~InFlight' /\ next \in NODES /\ pc' # "record"
      /\ st' = upd /\ next' = Route(next, upd) /\ UNCHANGED <<world, ledger>>
      /\ upd \in AgentState
  BY CheckpointReads DEF Checkpoint, Elsewhere
<1>2. Ran(next, st, upd)
  BY <1>1 DEF LifeInv
<1>3. \A a \in Acts : ledger'[a] # NoVal => AsksFor(ledger'[a].compensation, Found)
  BY <1>1 DEF Trace
<1>4. CASE next = "prepare_execution"
  <2>1. next' = "execute" /\ Untouched'
    BY <1>1, <1>4, RouteSources DEF Trace, Untouched
  <2>2. Ready("execute", upd)
    BY <1>1, <1>4, RouteSources DEF TypeInv
  <2>3. upd.idempotency_key \in Acts
    BY <1>1, <2>2 DEF Ready, WithProposal, Executing, AgentState, Maybe
  <2>4. ledger[upd.idempotency_key] # NoVal =>
          GivesBack(ledger[upd.idempotency_key].compensation)
    <3> SUFFICES ASSUME ledger[upd.idempotency_key] # NoVal
                 PROVE  GivesBack(ledger[upd.idempotency_key].compensation)
      OBVIOUS
    <3> DEFINE c == ledger[upd.idempotency_key].compensation
    <3>1. AsksFor(c, Found)
      BY <2>3 DEF Trace
    <3>2. c \in Compensations /\ world \in World
      BY <2>3 DEF TypeInv, TypeOK, Maybe, Outcomes
    <3>3. Configuration(world) = Found
      BY <1>1, <2>1 DEF Untouched
    <3> HIDE DEF c
    <3>4. Configuration(apply_compensation(world, c)) = Found
      BY <3>1, <3>2, <3>3, NothingToGiveBack
    <3> QED
      BY <3>4 DEF c, GivesBack
  <2>5. ExecuteTrace'
    BY <1>1, <2>1, <2>4 DEF ExecuteTrace, GivesBack, InFlight
  <2> QED
    BY <1>3, <2>1, <2>5 DEF Trace, Executed
<1>5. CASE next = "execute"
  <2>1. next' = "verify" /\ GivesBack(upd.compensation)
    BY <1>1, <1>5, RouteSources DEF Trace, ExecuteTrace
  <2> QED
    BY <1>1, <1>3, <2>1 DEF Trace, GivesBack
<1>6. CASE next = "verify"
  <2>1. next' \in {"completed", "rolling_back"}
    BY <1>1, <1>6 DEF Route, route_after_verification
  <2>2. GivesBack(upd.compensation)
    BY <1>1, <1>6 DEF Trace, Executed
  <2> QED
    BY <1>1, <1>3, <2>1, <2>2 DEF Trace, GivesBack, Executed
<1>7. CASE next = "completed"
  <2>1. next' = "END" /\ st'.status = "COMPLETED"
    BY <1>1, <1>2, <1>7, RouteSources DEF Ran, Entered, Reviewing, Executing
  <2> QED
    BY <1>3, <2>1 DEF Trace, Executed
<1>8. CASE next \notin {"prepare_execution", "execute", "verify", "completed"}
  <2>1. Untouched'
    BY <1>1, <1>8 DEF Trace, Untouched, NODES
  <2>2. next' \notin {"execute", "verify", "rolling_back", "completed"}
    BY <1>1, <1>8, RouteSources
  <2> QED
    BY <1>3, <2>1, <2>2 DEF Trace, Executed
<1> QED
  BY <1>4, <1>5, <1>6, <1>7, <1>8

\* Every step keeps what is to be given back within reach.
LEMMA NextTrace ==
  TypeInv /\ LifeInv /\ LedgerInv /\ BudgetInv /\ TraceInv /\ [Next]_vars => TraceInv'
<1> SUFFICES ASSUME TypeInv, LifeInv, LedgerInv, BudgetInv, TraceInv, [Next]_vars, Undisturbed'
             PROVE  Trace'
  BY DEF TraceInv
<1>1. Trace /\ ~Drift /\ (Start => next = "none") /\ (Crash => pc # "record")
  BY StaysUndisturbed DEF TraceInv
<1>2. CASE execute_replay \/ execute_perform \/ execute_record \/ rolling_back \/ Checkpoint
  BY <1>1, <1>2, ReplayTrace, PerformTrace, RecordTrace, RollbackTrace, CheckpointTrace
<1>3. CASE verify
  <2>1. /\ next = "verify" /\ pc' = "ran" /\ UNCHANGED <<next, st, world, ledger>>
        /\ upd' = [st EXCEPT !.status = "VERIFYING",
             !.verification_passed = verify_action(world, st.proposed_action, st.execution_result)]
    BY <1>3 DEF verify, At, Return, Elsewhere
  <2>2. upd'.compensation = st'.compensation
    BY <2>1 DEF TypeInv, TypeOK, AgentState
  <2> QED
    BY <1>1, <2>1, <2>2 DEF Trace, Executed, GivesBack
<1>4. CASE \/ diagnose \/ propose_action \/ classify_risk \/ mark_awaiting_approval
           \/ await_approval \/ revalidate \/ prepare_execution \/ rolled_back
           \/ replan \/ completed \/ escalate
  <2>1. /\ pc' = "ran" /\ next \notin {"execute", "verify", "rolling_back"}
        /\ UNCHANGED <<next, st, world, ledger>>
    BY <1>4 DEF diagnose, propose_action, classify_risk, mark_awaiting_approval,
       await_approval, revalidate, prepare_execution, rolled_back, replan, completed,
       escalate, At, Return, Elsewhere
  <2> QED
    BY <1>1, <2>1, TraceKept
<1>5. CASE \/ Suspend \/ EditRaises \/ ExecuteRaises \/ RollbackRaises \/ execute_lookup
           \/ Resume \/ Crash
  <2>1. /\ pc' \in {"idle", "enter", "perform"} /\ pc # "record"
        /\ UNCHANGED <<next, st, world, ledger>>
    BY <1>1, <1>5 DEF Suspend, EditRaises, ExecuteRaises, RollbackRaises, execute_lookup,
       Resume, Crash, At, Abandon, Elsewhere
  <2> QED
    BY <1>1, <2>1, TraceKept
<1>6. CASE Start
  <2>1. next = "none" /\ next' = "diagnose" /\ UNCHANGED <<st, world, ledger>>
    BY <1>1, <1>6 DEF Start, Elsewhere
  <2> QED
    BY <1>1, <2>1 DEF Trace, Untouched, Executed
<1>7. CASE WriteAudit \/ UNCHANGED vars
  <2>1. /\ UNCHANGED <<pc, upd>> \/ (pc = "ran" /\ pc' = "logged" /\ upd' = upd)
        /\ UNCHANGED <<next, st, world, ledger>>
    BY <1>7 DEF WriteAudit, vars, agentVars
  <2> QED
    BY <1>1, <2>1, TraceKept
<1> QED
  BY <1>1, <1>2, <1>3, <1>4, <1>5, <1>6, <1>7 DEF Next, Process, Node

\* Whatever the run proposed, was approved for, tried and failed at, and
\* however often it was killed, past its rollback the sandbox is configured as
\* it was found.
THEOREM FailedRunsLeaveNoTrace == Spec => []OnlySuccessLeavesATrace
<1>1. Init => TypeInv /\ LifeInv /\ LedgerInv /\ BudgetInv /\ TraceInv
  <2>1. Init => TraceInv
    BY DEF Init, TraceInv, Trace, Untouched, Found, InFlight, Executed
  <2> QED
    BY <2>1, InitType, InitLife, InitLedger, InitBudget
<1>2. TypeInv /\ LifeInv /\ LedgerInv /\ BudgetInv /\ TraceInv /\ [Next]_vars =>
        (TypeInv /\ LifeInv /\ LedgerInv /\ BudgetInv /\ TraceInv)'
  BY NextType, NextLife, NextLedger, NextBudget, NextTrace
<1>3. TraceInv => OnlySuccessLeavesATrace
  BY DEF TraceInv, Trace, Untouched, Found, OnlySuccessLeavesATrace
<1> QED
  BY <1>1, <1>2, <1>3, PTL DEF Spec

-----------------------------------------------------------------------------
(* A drive of the run is bounded.                                          *)

\* The measure's terms are numbers.
LEMMA NodesLeftType ==
  ASSUME NEW n
  PROVE  NodesLeft(n) \in 0 .. 14
BY DEF NodesLeft

\* Six phases, from idle to enter.
LEMMA PhasesLeftType ==
  ASSUME NEW p
  PROVE  PhasesLeft(p) \in 0 .. 5
BY DEF PhasesLeft

\* The table of the nodes, read entry by entry.
LEMMA NodesLeftOf ==
  /\ NodesLeft("diagnose") = 13 /\ NodesLeft("propose_action") = 12
  /\ NodesLeft("classify_risk") = 11 /\ NodesLeft("mark_awaiting_approval") = 10
  /\ NodesLeft("await_approval") = 9 /\ NodesLeft("revalidate") = 8
  /\ NodesLeft("prepare_execution") = 7 /\ NodesLeft("execute") = 6
  /\ NodesLeft("verify") = 5 /\ NodesLeft("rolling_back") = 4
  /\ NodesLeft("rolled_back") = 3 /\ NodesLeft("replan") = 2
  /\ NodesLeft("completed") = 1 /\ NodesLeft("escalate") = 1
  /\ NodesLeft("END") = 0
BY DEF NodesLeft

\* Every edge but the one out of replan leads closer to the end of the cycle.
LEMMA RouteDescends ==
  ASSUME NEW n \in NODES, n # "replan", NEW s
  PROVE  NodesLeft(Route(n, s)) < NodesLeft(n)
<1>1. CASE n \in {"diagnose", "propose_action", "classify_risk", "mark_awaiting_approval"}
  BY <1>1, NodesLeftOf DEF Route, route_after_proposal, route_after_risk_classification
<1>2. CASE n \in {"await_approval", "revalidate"}
  BY <1>2, NodesLeftOf DEF Route, route_after_approval, route_after_revalidation
<1>3. CASE n \in {"prepare_execution", "execute", "verify", "rolling_back", "rolled_back"}
  BY <1>3, NodesLeftOf DEF Route, route_after_verification
<1>4. CASE n \in {"completed", "escalate"}
  BY <1>4, NodesLeftOf DEF Route
<1> QED
  BY <1>1, <1>2, <1>3, <1>4 DEF NODES

\* A node, and the audit hook, only go on to a later phase.
LEMMA PhasesDescend ==
  ASSUME TypeInv, Node \/ WriteAudit
  PROVE  /\ PhasesLeft(pc') < PhasesLeft(pc)
         /\ UNCHANGED <<next, st, starts>>
<1>1. \/ pc = "enter" /\ pc' \in {"perform", "ran", "idle"}
      \/ pc = "perform" /\ pc' \in {"record", "idle"}
      \/ pc = "record" /\ pc' = "ran"
      \/ pc = "ran" /\ pc' = "logged"
  BY DEF Node, diagnose, propose_action, classify_risk, mark_awaiting_approval, Suspend,
     await_approval, EditRaises, revalidate, prepare_execution, execute_replay, execute_lookup,
     execute_perform, execute_record, ExecuteRaises, verify, rolling_back, RollbackRaises,
     rolled_back, replan, completed, escalate, WriteAudit, At, Return, Abandon
<1>2. UNCHANGED <<next, st, starts>>
  BY PlainSteps DEF Node, Plainly, execute_lookup, execute_perform, execute_record, WriteAudit,
     history
<1>3. PhasesLeft(pc') < PhasesLeft(pc)
  BY <1>1 DEF PhasesLeft
<1> QED
  BY <1>2, <1>3

\* Every step of a process uses up some of what is left of the run.
LEMMA ProcessSpends ==
  ASSUME TypeInv, LifeInv, BudgetInv, BudgetInv', TypeInv', Process
  PROVE  0 <= StepsLeft' /\ StepsLeft' < StepsLeft
<1>1. /\ st.replan_cycles \in Nat /\ st'.replan_cycles \in Nat
      /\ Extra \in Nat /\ MAX_REPLAN_CYCLES \in Nat
      /\ st.replan_cycles <= MAX_REPLAN_CYCLES + Extra
      /\ st'.replan_cycles <= MAX_REPLAN_CYCLES + Extra'
  BY BudgetTypes DEF BudgetInv, Room, TypeInv, TypeOK, AgentState
<1>2. /\ NodesLeft(next) \in 0 .. 14 /\ NodesLeft(next') \in 0 .. 14
      /\ PhasesLeft(pc) \in 0 .. 5 /\ PhasesLeft(pc') \in 0 .. 5
  BY NodesLeftType, PhasesLeftType
<1>3. CASE Node \/ WriteAudit
  <2>1. PhasesLeft(pc') < PhasesLeft(pc) /\ UNCHANGED <<next, st, starts>>
    BY <1>3, PhasesDescend
  <2>2. Extra' = Extra
    BY <2>1 DEF Extra
  <2> QED
    BY <1>1, <1>2, <2>1, <2>2 DEF StepsLeft
<1>4. CASE Checkpoint
  <2>1. /\ next \in NODES /\ InFlight /\ st' = upd /\ next' = Route(next, upd)
        /\ starts' = starts
    BY <1>4, CheckpointReads
  <2>2. Extra' = Extra
    BY <2>1 DEF Extra
  <2>3. st'.replan_cycles = IF next = "replan" THEN st.replan_cycles + 1 ELSE st.replan_cycles
    BY <2>1 DEF LifeInv, Ran
  <2>4. CASE next = "replan"
    <3>1. st'.replan_cycles = st.replan_cycles + 1
      BY <2>3, <2>4
    <3> QED
      BY <1>1, <1>2, <2>2, <3>1 DEF StepsLeft
  <2>5. CASE next # "replan"
    <3>1. NodesLeft(next') < NodesLeft(next) /\ st'.replan_cycles = st.replan_cycles
      BY <2>1, <2>3, <2>5, RouteDescends
    <3>2. PhasesLeft(pc) = 1
      BY <1>4 DEF Checkpoint, PhasesLeft
    <3> QED
      BY <1>1, <1>2, <2>2, <3>1, <3>2 DEF StepsLeft
  <2> QED
    BY <2>4, <2>5
<1> QED
  BY <1>3, <1>4 DEF Process

\* No process drives a run for ever, for every cap, every decision and every
\* failure: what DrivenRunsEnd needs of the code, apart from its being resumed.
THEOREM ADriveIsBounded == Spec => DrivesAreBounded
<1>1. Init => TypeInv /\ LifeInv /\ BudgetInv
  BY InitType, InitLife, InitBudget
<1>2. TypeInv /\ LifeInv /\ BudgetInv /\ [Next]_vars => (TypeInv /\ LifeInv /\ BudgetInv)'
  BY NextType, NextLife, NextBudget
<1>3. TypeInv /\ LifeInv /\ BudgetInv /\ (TypeInv /\ LifeInv /\ BudgetInv)' /\ [Next]_vars
        => [Process => 0 <= StepsLeft' /\ StepsLeft' < StepsLeft]_vars
  BY ProcessSpends
<1> QED
  BY <1>1, <1>2, <1>3, PTL DEF Spec, DrivesAreBounded
=============================================================================
