----------------------------- MODULE LoadTest -----------------------------
(***************************************************************************)
(* The load test (src/eval/load_test.py): N runs of the agent over one     *)
(* fresh sandbox, all proposing the same restart of the same service.      *)
(* Behind a semaphore every run is started until it suspends for approval; *)
(* when all have, all are approved in a burst behind the same semaphore.   *)
(*                                                                         *)
(* The runs share the sandbox and the ledger and nothing else, so a step   *)
(* here is what one run does between two accesses to either.  The reasoner *)
(* and the classifier are scripts: every proposal is PROPOSAL and every tier *)
(* is medium, so a run always suspends.                                    *)
(***************************************************************************)
EXTENDS Fingerprint

CONSTANTS
  Runs,         \* run_ids
  CONCURRENCY,  \* the semaphore's initial value
  PROPOSAL        \* what _LoadTestReasoner proposes

ASSUME LoadTestAssumption ==
  /\ IsFiniteSet(Runs)
  /\ CONCURRENCY \in Nat \ {0}
  /\ PROPOSAL.tool = "restart_service" /\ PROPOSAL.target \in Services

VARIABLES
  stage,        \* where _run is: "starting", "burst" or "reported"
  free,         \* the value of the semaphore
  phase,        \* where each run is
  fingerprint,  \* the state_fingerprint of each run
  ledger,       \* the keys executed_actions has an outcome for
  sandbox,
  report,       \* suspended_count and completed_count
  peak          \* history: the most runs that were suspended at once

loadVars == <<stage, free, phase, fingerprint, ledger, sandbox, report, peak>>

Phases == {"queued", "started", "proposed", "suspended", "resumed", "revalidated",
           "perform", "record", "performed", "completed", "replanned"}

InPhase(p) == {i \in Runs : phase[i] = p}

\* The runs that are suspended and wait for their approval.
Held == Cardinality(InPhase("suspended"))

\* The idempotency key: the run's id and its action.
\* Mutant: the run's id is left out.
Key_ActionOnly(i) == <<PROPOSAL>>
Key(i) == <<i, PROPOSAL>>

LoadInit ==
  /\ stage = "starting" /\ free = CONCURRENCY
  /\ phase = [i \in Runs |-> "queued"]
  /\ fingerprint = [i \in Runs |-> NoVal]
  /\ ledger = {}
  /\ sandbox = [services |-> [s \in Services |-> Baseline], records |-> RecordIds]
  /\ report = [suspended_count |-> 0, completed_count |-> 0]
  /\ peak = 0

Move(i, from, to) == phase[i] = from /\ phase' = [phase EXCEPT ![i] = to]

Alone == UNCHANGED <<stage, report, peak>>

-----------------------------------------------------------------------------
(* start_workflow behind the semaphore.                                    *)

\* Mutant: the semaphore never blocks.
acquire_Unblocked(i) ==
  /\ free' = free - 1
  /\ \/ Move(i, "queued", "started")
     \/ stage = "burst" /\ Move(i, "suspended", "resumed")
  /\ UNCHANGED <<fingerprint, ledger, sandbox>> /\ Alone

acquire(i) ==
  /\ free > 0 /\ free' = free - 1
  /\ \/ Move(i, "queued", "started")
     \/ stage = "burst" /\ Move(i, "suspended", "resumed")
  /\ UNCHANGED <<fingerprint, ledger, sandbox>> /\ Alone

\* diagnose sweeps, propose_action and classify_risk only read that sweep.
propose(i) ==
  /\ Move(i, "started", "proposed")
  /\ fingerprint' = [fingerprint EXCEPT ![i] =
                       compute_fingerprint(gather_observations(sandbox), PROPOSAL)]
  /\ UNCHANGED <<free, ledger, sandbox>> /\ Alone

\* start_workflow returns and the semaphore is released.
\* Mutant: the slot is kept for as long as the run is suspended.
suspend_KeepsSlot(i) ==
  /\ Move(i, "proposed", "suspended")
  /\ peak' = IF peak > Held' THEN peak ELSE Held'
  /\ UNCHANGED <<free, stage, report, fingerprint, ledger, sandbox>>

suspend(i) ==
  /\ Move(i, "proposed", "suspended") /\ free' = free + 1
  /\ peak' = IF peak > Held' THEN peak ELSE Held'
  /\ UNCHANGED <<stage, report, fingerprint, ledger, sandbox>>

\* Both calls of gather wait for all of their runs.
\* Mutant: the first to arrive ends the wait.
Gathered_First(done) == \E i \in Runs : phase[i] \in done
Gathered(done) == \A i \in Runs : phase[i] \in done

burst ==
  /\ stage = "starting" /\ Gathered({"suspended"})
  /\ stage' = "burst"
  /\ report' = [report EXCEPT !.suspended_count = Held]
  /\ UNCHANGED <<free, phase, fingerprint, ledger, sandbox, peak>>

-----------------------------------------------------------------------------
(* resume_workflow, every decision an approval.                            *)

\* A run whose fingerprint changed replans, proposes the same action again
\* and suspends again: the resume returns.
revalidate(i) ==
  LET fresh == compute_fingerprint(gather_observations(sandbox), PROPOSAL) IN
  /\ IF fresh = fingerprint[i]
       THEN Move(i, "resumed", "revalidated") /\ UNCHANGED free
       ELSE Move(i, "resumed", "replanned") /\ free' = free + 1
  /\ fingerprint' = [fingerprint EXCEPT ![i] = fresh]
  /\ UNCHANGED <<ledger, sandbox>> /\ Alone

\* _run_idempotent: an outcome recorded under the key replaces the call.
lookup(i) ==
  /\ IF Key(i) \in ledger THEN Move(i, "revalidated", "performed")
                          ELSE Move(i, "revalidated", "perform")
  /\ UNCHANGED <<free, fingerprint, ledger, sandbox>> /\ Alone

perform(i) ==
  /\ Move(i, "perform", "record")
  /\ sandbox' = OnService(sandbox, PROPOSAL.target, restart(sandbox.services[PROPOSAL.target]))
  /\ UNCHANGED <<free, fingerprint, ledger>> /\ Alone

record(i) ==
  /\ Move(i, "record", "performed")
  /\ ledger' = ledger \cup {Key(i)}
  /\ UNCHANGED <<free, fingerprint, sandbox>> /\ Alone

\* A failed verification rolls back (a restart has nothing to undo), replans
\* and suspends again.
verify(i) ==
  /\ IF verify_action(sandbox, PROPOSAL, {}) THEN Move(i, "performed", "completed")
                                           ELSE Move(i, "performed", "replanned")
  /\ free' = free + 1
  /\ UNCHANGED <<fingerprint, ledger, sandbox>> /\ Alone

reported ==
  /\ stage = "burst" /\ Gathered({"completed", "replanned"})
  /\ stage' = "reported"
  /\ report' = [report EXCEPT !.completed_count = Cardinality(InPhase("completed"))]
  /\ UNCHANGED <<free, phase, fingerprint, ledger, sandbox, peak>>

Workflow(i) ==
  \/ acquire(i) \/ propose(i) \/ suspend(i) \/ revalidate(i)
  \/ lookup(i) \/ perform(i) \/ record(i) \/ verify(i)

LoadNext == burst \/ reported \/ \E i \in Runs : Workflow(i)

LoadSpec == LoadInit /\ [][LoadNext]_loadVars

\* One event loop runs every coroutine that can run.
FairLoadSpec == LoadSpec /\ WF_loadVars(LoadNext)

-----------------------------------------------------------------------------
N == Cardinality(Runs)

\* Types, and the semaphore: never more runs in flight than CONCURRENCY
\* (load_test.py:90, _bounded).
LoadTypeOK ==
  /\ stage \in {"starting", "burst", "reported"} /\ free \in 0 .. CONCURRENCY
  /\ phase \in [Runs -> Phases]
  /\ fingerprint \in [Runs -> Fingerprints \cup {NoVal}]
  /\ ledger \subseteq {Key(i) : i \in Runs}
  /\ sandbox \in World
  /\ report \in [suspended_count : 0 .. N, completed_count : 0 .. N]
  /\ peak \in 0 .. N

\* load_test.py:142-143, 172-173: all_suspended and state_intact.  The runs
\* restart the service under one another between the proposal and the
\* revalidation of each, and no restart is drift to the others.
StateIntact ==
  stage = "reported" => report.suspended_count = N /\ report.completed_count = N

\* Every run of the burst restarted the service itself, none was answered with
\* the outcome another run left in the ledger they share, and the service lost
\* no restart.
OneRestartEach ==
  stage = "reported" =>
    sandbox.services[PROPOSAL.target].restart_count = report.completed_count

\* metrics.py:289, max_concurrent_suspended: the n published as the number of
\* runs suspended at once really was, however small the semaphore.
AllHeldAtOnce == stage = "reported" => peak = N

\* The test ends: no run keeps a slot another one waits for.
LoadTestEnds == <>(stage = "reported")
=============================================================================
