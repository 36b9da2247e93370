-------------------------- MODULE LoadTest_proofs --------------------------
(***************************************************************************)
(* A load test of any size, behind a semaphore of any size, is intact.     *)
(*                                                                         *)
(* The invariant counts: the slots taken are the runs in flight, the       *)
(* restarts of the service are the runs past their tool call, and the      *)
(* ledger has the keys of those past its record.  The sandbox is then the  *)
(* fresh one but for that counter, so every sweep, whenever it is made,    *)
(* has the fingerprint of the first one.                                   *)
(***************************************************************************)
EXTENDS LoadTest, Sandbox_proofs, FiniteSetTheorems

InPhases(P) == {i \in Runs : phase[i] \in P}

Busy     == {"started", "proposed", "resumed", "revalidated", "perform", "record", "performed"}
Acted    == {"record", "performed", "completed"}
Recorded == {"performed", "completed"}
Starting == {"queued", "started", "proposed", "suspended"}

\* The sandbox after k restarts of the service.
After(k) ==
  [services |-> [s \in Services |->
     IF s = PROPOSAL.target THEN [Baseline EXCEPT !.restart_count = k] ELSE Baseline],
   records |-> RecordIds]

\* The fingerprint of the proposal in a sandbox where nothing is wrong.
Healthy == <<"health", "healthy", "baseline">>

TestType ==
  /\ stage \in {"starting", "burst", "reported"} /\ free \in Nat
  /\ phase \in [Runs -> Phases]
  /\ fingerprint \in [Runs -> {NoVal, Healthy}]
  /\ report \in [suspended_count : 0 .. N, completed_count : 0 .. N]
  /\ peak \in 0 .. N

SlotsInv == free + Cardinality(InPhases(Busy)) = CONCURRENCY

SandboxInv == sandbox = After(Cardinality(InPhases(Acted)))

LedgerInv == ledger = {Key(i) : i \in InPhases(Recorded)}

RunsInv ==
  \A i \in Runs : /\ phase[i] # "replanned"
                  /\ phase[i] \notin {"queued", "started"} => fingerprint[i] = Healthy

StagesInv ==
  /\ stage = "starting" => Held <= peak /\ \A i \in Runs : phase[i] \in Starting
  /\ stage # "starting" =>
       /\ peak = N /\ report.suspended_count = N
       /\ \A i \in Runs : phase[i] \notin {"queued", "started", "proposed"}
  /\ stage = "reported" =>
       report.completed_count = N /\ \A i \in Runs : phase[i] = "completed"

LoadInv == TestType /\ SlotsInv /\ SandboxInv /\ LedgerInv /\ RunsInv /\ StagesInv

-----------------------------------------------------------------------------
(* Counting runs.                                                          *)

LEMMA RunsFinite ==
  ASSUME NEW S \in SUBSET Runs
  PROVE  IsFiniteSet(S) /\ Cardinality(S) \in 0 .. N
<1>1. IsFiniteSet(Runs)
  BY LoadTestAssumption
<1>2. IsFiniteSet(S) /\ Cardinality(S) <= Cardinality(Runs)
  BY <1>1, FS_Subset
<1>3. Cardinality(S) \in Nat /\ Cardinality(Runs) \in Nat
  BY <1>1, <1>2, FS_CardinalityType
<1> QED
  BY <1>2, <1>3 DEF N

LEMMA CountType ==
  ASSUME NEW P
  PROVE  Cardinality(InPhases(P)) \in 0 .. N /\ Cardinality(InPhases(P))' \in 0 .. N
<1>1. InPhases(P) \in SUBSET Runs /\ InPhases(P)' \in SUBSET Runs
  BY DEF InPhases
<1> QED
  BY <1>1, RunsFinite

LEMMA MoveFacts ==
  ASSUME TestType, NEW i \in Runs, NEW from, NEW to \in Phases, Move(i, from, to)
  PROVE  /\ phase' \in [Runs -> Phases]
         /\ phase[i] = from /\ phase'[i] = to
         /\ \A j \in Runs : j # i => phase'[j] = phase[j]
BY DEF TestType, Move

\* A run that moves enters and leaves what it moves into and out of.
LEMMA MoveCounts ==
  ASSUME TestType, NEW i \in Runs, NEW from, NEW to \in Phases, Move(i, from, to), NEW P
  PROVE  Cardinality(InPhases(P))' =
           CASE from \in P /\ to \notin P -> Cardinality(InPhases(P)) - 1
             [] from \notin P /\ to \in P -> Cardinality(InPhases(P)) + 1
             [] OTHER -> Cardinality(InPhases(P))
<1>1. IsFiniteSet(InPhases(P))
  <2>1. InPhases(P) \in SUBSET Runs
    BY DEF InPhases
  <2> QED
    BY <2>1, RunsFinite
<1>2. CASE from \in P /\ to \notin P
  <2>1. i \in InPhases(P) /\ InPhases(P)' = InPhases(P) \ {i}
    BY <1>2, MoveFacts DEF InPhases
  <2> QED
    BY <1>1, <1>2, <2>1, FS_RemoveElement
<1>3. CASE from \notin P /\ to \in P
  <2>1. i \notin InPhases(P) /\ InPhases(P)' = InPhases(P) \cup {i}
    BY <1>3, MoveFacts DEF InPhases
  <2> QED
    BY <1>1, <1>3, <2>1, FS_AddElement
<1>4. CASE from \in P <=> to \in P
  <2>1. InPhases(P)' = InPhases(P)
    BY <1>4, MoveFacts DEF InPhases
  <2> QED
    BY <1>4, <2>1
<1> QED
  BY <1>2, <1>3, <1>4

LEMMA HeldCounts == Held = Cardinality(InPhases({"suspended"}))
<1>1. InPhase("suspended") = InPhases({"suspended"})
  BY DEF InPhase, InPhases
<1> QED
  BY <1>1 DEF Held

\* When all runs are in a phase, N of them are.
LEMMA AllInPhase ==
  ASSUME NEW p, \A i \in Runs : phase[i] = p
  PROVE  Cardinality(InPhase(p)) = N
<1>1. InPhase(p) = Runs
  BY DEF InPhase
<1> QED
  BY <1>1 DEF N

-----------------------------------------------------------------------------
(* The sandbox.                                                            *)

LEMMA AfterFacts ==
  ASSUME NEW k \in Nat
  PROVE  /\ After(k).services[PROPOSAL.target].restart_count = k
         /\ Status(PROPOSAL.target, After(k).services[PROPOSAL.target]) = "healthy"
         /\ compute_fingerprint(gather_observations(After(k)), PROPOSAL) = Healthy
         /\ verify_action(After(k), PROPOSAL, {})
<1> DEFINE sv == After(k).services[PROPOSAL.target]
<1>1. sv = [Baseline EXCEPT !.restart_count = k]
  BY LoadTestAssumption DEF After
<1>2. sv.restart_count = k /\ sv.load = "baseline" /\ sv.disk = "baseline"
  BY <1>1 DEF Baseline
<1>3. Status(PROPOSAL.target, sv) = "healthy"
  BY <1>2 DEF Status
<1>4. compute_fingerprint(gather_observations(After(k)), PROPOSAL) = Healthy
  BY <1>2, <1>3, LoadTestAssumption
  DEF compute_fingerprint, relevant_fields, gather_observations, service_obs, Healthy
<1>5. verify_action(After(k), PROPOSAL, {})
  BY <1>3, LoadTestAssumption DEF verify_action
<1> QED
  BY <1>2, <1>3, <1>4, <1>5

LEMMA RestartAfter ==
  ASSUME NEW k \in Nat
  PROVE  OnService(After(k), PROPOSAL.target, restart(After(k).services[PROPOSAL.target]))
           = After(k + 1)
<1> DEFINE sv == After(k).services[PROPOSAL.target]
<1>1. sv = [Baseline EXCEPT !.restart_count = k]
  BY LoadTestAssumption DEF After
<1>2. restart(sv) = [Baseline EXCEPT !.restart_count = k + 1]
  BY <1>1 DEF restart, Baseline
<1> DEFINE next == [After(k).services EXCEPT ![PROPOSAL.target] = restart(sv)]
<1>3. next = After(k + 1).services
  <2>1. After(k).services = [s \in Services |->
          IF s = PROPOSAL.target THEN [Baseline EXCEPT !.restart_count = k] ELSE Baseline]
    BY DEF After
  <2>2. next = [s \in Services |-> IF s = PROPOSAL.target THEN restart(sv) ELSE Baseline]
    BY <2>1
  <2> QED
    BY <1>2, <2>2 DEF After
<1>4. OnService(After(k), PROPOSAL.target, restart(sv)) =
        [After(k) EXCEPT !.services = next]
  BY Zenon DEF OnService
<1>5. After(k + 1) = [services |-> After(k + 1).services, records |-> RecordIds]
  BY DEF After
<1>6. [After(k) EXCEPT !.services = next] = [services |-> next, records |-> RecordIds]
  <2> HIDE DEF next
  <2> DEFINE g == After(k).services
  <2>1. After(k) = [services |-> g, records |-> RecordIds]
    BY DEF After
  <2> HIDE DEF g
  <2> QED
    BY <2>1
<1> HIDE DEF next
<1> QED
  BY <1>3, <1>4, <1>5, <1>6

LEMMA SandboxNow ==
  ASSUME SandboxInv
  PROVE  \E k \in Nat : k = Cardinality(InPhases(Acted)) /\ sandbox = After(k)
BY CountType DEF SandboxInv

\* Whatever the others have restarted, a sweep is the fingerprint of a healthy
\* service, and a verification finds it healthy.
LEMMA SweptHealthy ==
  ASSUME SandboxInv
  PROVE  /\ compute_fingerprint(gather_observations(sandbox), PROPOSAL) = Healthy
         /\ verify_action(sandbox, PROPOSAL, {})
BY SandboxNow, AfterFacts

-----------------------------------------------------------------------------
(* The invariant.                                                          *)

LEMMA InitLoad == LoadInit => LoadInv
<1> SUFFICES ASSUME LoadInit PROVE LoadInv
  OBVIOUS
<1> USE DEF LoadInit
<1>1. N \in Nat
  BY RunsFinite DEF N
<1>2. TestType
  BY <1>1, LoadTestAssumption DEF TestType, Phases
<1>3. /\ InPhases(Busy) = {} /\ InPhases(Acted) = {} /\ InPhases(Recorded) = {}
      /\ InPhases({"suspended"}) = {}
  BY DEF InPhases, Busy, Acted, Recorded
<1>4. SlotsInv
  BY <1>3, FS_EmptySet, LoadTestAssumption DEF SlotsInv
<1>5. SandboxInv
  <2>1. [Baseline EXCEPT !.restart_count = 0] = Baseline
    BY DEF Baseline
  <2>2. sandbox = After(0)
    BY <2>1 DEF After
  <2> QED
    BY <1>3, <2>2, FS_EmptySet DEF SandboxInv
<1>6. LedgerInv
  BY <1>3 DEF LedgerInv
<1>7. RunsInv
  BY DEF RunsInv
<1>8. StagesInv
  BY <1>3, HeldCounts, FS_EmptySet DEF StagesInv, Starting
<1> QED
  BY <1>2, <1>4, <1>5, <1>6, <1>7, <1>8 DEF LoadInv

\* What a step of one run is: a move, with the slot it takes or frees.
Moves(i, from, to) ==
  /\ Move(i, from, to)
  /\ free' = CASE from \notin Busy /\ to \in Busy -> free - 1
               [] from \in Busy /\ to \notin Busy -> free + 1
               [] OTHER -> free

\* In a state of the invariant no run replans, and none finds its key taken.
LEMMA RunSteps ==
  ASSUME LoadInv, NEW i \in Runs, Workflow(i)
  PROVE  \/ free > 0 /\ Moves(i, "queued", "started") /\ acquire(i)
         \/ free > 0 /\ stage = "burst" /\ Moves(i, "suspended", "resumed") /\ acquire(i)
         \/ Moves(i, "started", "proposed") /\ propose(i)
         \/ Moves(i, "proposed", "suspended") /\ suspend(i)
         \/ Moves(i, "resumed", "revalidated") /\ revalidate(i)
         \/ Moves(i, "revalidated", "perform") /\ lookup(i)
         \/ Moves(i, "perform", "record") /\ perform(i)
         \/ Moves(i, "record", "performed") /\ record(i)
         \/ Moves(i, "performed", "completed") /\ verify(i)
<1> USE DEF Moves, Busy
<1>1. CASE acquire(i)
  BY <1>1 DEF acquire
<1>2. CASE propose(i)
  BY <1>2 DEF propose
<1>3. CASE suspend(i)
  BY <1>3 DEF suspend
<1>4. CASE revalidate(i)
  <2>1. phase[i] = "resumed"
    BY <1>4 DEF revalidate, Move
  <2>2. fingerprint[i] = Healthy
    BY <2>1 DEF LoadInv, RunsInv
  <2>3. compute_fingerprint(gather_observations(sandbox), PROPOSAL) = Healthy
    BY SweptHealthy DEF LoadInv
  <2> QED
    BY <1>4, <2>2, <2>3 DEF revalidate
<1>5. CASE lookup(i)
  <2>1. phase[i] = "revalidated"
    BY <1>5 DEF lookup, Move
  <2>2. Key(i) \notin ledger
    BY <2>1 DEF LoadInv, LedgerInv, Key, InPhases, Recorded
  <2> QED
    BY <1>5, <2>2 DEF lookup
<1>6. CASE perform(i)
  BY <1>6 DEF perform
<1>7. CASE record(i)
  BY <1>7 DEF record
<1>8. CASE verify(i)
  <2>1. verify_action(sandbox, PROPOSAL, {})
    BY SweptHealthy DEF LoadInv
  <2> QED
    BY <1>8, <2>1 DEF verify
<1> QED
  BY <1>1, <1>2, <1>3, <1>4, <1>5, <1>6, <1>7, <1>8 DEF Workflow

LEMMA SlotsKept ==
  ASSUME LoadInv, NEW i \in Runs, NEW from, NEW to \in Phases, Moves(i, from, to),
         from \notin Busy /\ to \in Busy => free > 0
  PROVE  SlotsInv' /\ free' \in Nat
<1>1. TestType /\ SlotsInv /\ free \in Nat
  BY DEF LoadInv, TestType
<1> DEFINE busy == Cardinality(InPhases(Busy))
<1>2. busy \in Nat
  BY CountType, RunsFinite DEF N
<1>3. Move(i, from, to)
  BY DEF Moves
<1>4. busy' = CASE from \in Busy /\ to \notin Busy -> busy - 1
                [] from \notin Busy /\ to \in Busy -> busy + 1
                [] OTHER -> busy
  BY <1>1, <1>3, MoveCounts
<1>5. free' = CASE from \notin Busy /\ to \in Busy -> free - 1
                [] from \in Busy /\ to \notin Busy -> free + 1
                [] OTHER -> free
  BY DEF Moves
<1>6. free + busy = CONCURRENCY
  BY <1>1 DEF SlotsInv
<1>7. free' + busy' = CONCURRENCY /\ free' \in Nat
  <2> HIDE DEF busy
  <2>1. CASE from \in Busy /\ to \notin Busy
    BY <1>1, <1>2, <1>4, <1>5, <1>6, <2>1
  <2>2. CASE from \notin Busy /\ to \in Busy
    BY <1>1, <1>2, <1>4, <1>5, <1>6, <2>2
  <2>3. CASE from \in Busy <=> to \in Busy
    BY <1>1, <1>4, <1>5, <1>6, <2>3
  <2> QED
    BY <2>1, <2>2, <2>3
<1> QED
  BY <1>7 DEF SlotsInv

\* The phases a run is moved between, whoever moves it.
LEMMA RunSlots ==
  ASSUME LoadInv, NEW i \in Runs, Workflow(i)
  PROVE  SlotsInv' /\ free' \in Nat /\ phase' \in [Runs -> Phases]
<1>1. ASSUME NEW from, NEW to \in Phases, Moves(i, from, to),
             from \notin Busy /\ to \in Busy => free > 0
      PROVE  SlotsInv' /\ free' \in Nat /\ phase' \in [Runs -> Phases]
  <2>1. TestType /\ Move(i, from, to)
    BY <1>1 DEF LoadInv, Moves
  <2>2. phase' \in [Runs -> Phases]
    BY <2>1, MoveFacts
  <2> QED
    BY <1>1, <2>2, SlotsKept
<1> USE DEF Phases, Busy
<1>2. CASE free > 0 /\ Moves(i, "queued", "started")
  BY <1>1, <1>2
<1>3. CASE free > 0 /\ Moves(i, "suspended", "resumed")
  BY <1>1, <1>3
<1>4. CASE Moves(i, "started", "proposed")
  BY <1>1, <1>4
<1>5. CASE Moves(i, "proposed", "suspended")
  BY <1>1, <1>5
<1>6. CASE Moves(i, "resumed", "revalidated")
  BY <1>1, <1>6
<1>7. CASE Moves(i, "revalidated", "perform")
  BY <1>1, <1>7
<1>8. CASE Moves(i, "perform", "record")
  BY <1>1, <1>8
<1>9. CASE Moves(i, "record", "performed")
  BY <1>1, <1>9
<1>10. CASE Moves(i, "performed", "completed")
  BY <1>1, <1>10
<1> HIDE DEF Phases, Busy
<1> QED
  BY <1>2, <1>3, <1>4, <1>5, <1>6, <1>7, <1>8, <1>9, <1>10, RunSteps

LEMMA RunSandbox ==
  ASSUME LoadInv, NEW i \in Runs, Workflow(i)
  PROVE  SandboxInv'
<1>1. TestType /\ SandboxInv
  BY DEF LoadInv
<1> DEFINE acted == Cardinality(InPhases(Acted))
<1>2. PICK k \in Nat : k = acted /\ sandbox = After(k)
  BY <1>1, SandboxNow
<1>3. CASE perform(i)
  <2>1. Move(i, "perform", "record") /\ "record" \in Phases
    BY <1>3 DEF perform, Phases
  <2>2. acted' = acted + 1
    BY <1>1, <2>1, MoveCounts DEF Acted
  <2>3. sandbox' = After(k + 1)
    BY <1>2, <1>3, RestartAfter DEF perform
  <2> QED
    BY <1>2, <2>2, <2>3 DEF SandboxInv
<1>4. ASSUME NEW from, NEW to \in Phases, Moves(i, from, to), sandbox' = sandbox,
             from \in Acted <=> to \in Acted
      PROVE  SandboxInv'
  <2>1. acted' = acted
    BY <1>1, <1>4, MoveCounts DEF Moves
  <2> QED
    BY <1>1, <1>4, <2>1 DEF SandboxInv, After
<1> USE DEF Phases, Acted
<1>5. CASE Moves(i, "queued", "started") /\ acquire(i)
  BY <1>4, <1>5 DEF acquire
<1>6. CASE Moves(i, "suspended", "resumed") /\ acquire(i)
  BY <1>4, <1>6 DEF acquire
<1>7. CASE Moves(i, "started", "proposed") /\ propose(i)
  BY <1>4, <1>7 DEF propose
<1>8. CASE Moves(i, "proposed", "suspended") /\ suspend(i)
  BY <1>4, <1>8 DEF suspend
<1>9. CASE Moves(i, "resumed", "revalidated") /\ revalidate(i)
  BY <1>4, <1>9 DEF revalidate
<1>10. CASE Moves(i, "revalidated", "perform") /\ lookup(i)
  BY <1>4, <1>10 DEF lookup
<1>11. CASE Moves(i, "record", "performed") /\ record(i)
  BY <1>4, <1>11 DEF record
<1>12. CASE Moves(i, "performed", "completed") /\ verify(i)
  BY <1>4, <1>12 DEF verify
<1> HIDE DEF Phases, Acted
<1> QED
  BY <1>3, <1>5, <1>6, <1>7, <1>8, <1>9, <1>10, <1>11, <1>12, RunSteps

LEMMA RunLedger ==
  ASSUME LoadInv, NEW i \in Runs, Workflow(i)
  PROVE  LedgerInv'
<1>1. TestType /\ LedgerInv
  BY DEF LoadInv
<1>2. ASSUME NEW from, NEW to \in Phases, Moves(i, from, to), ledger' = ledger,
             from \in Recorded <=> to \in Recorded
      PROVE  LedgerInv'
  <2>1. InPhases(Recorded)' = InPhases(Recorded)
    BY <1>1, <1>2, MoveFacts DEF Moves, InPhases
  <2> QED
    BY <1>1, <1>2, <2>1 DEF LedgerInv, Key
<1>3. CASE Moves(i, "record", "performed") /\ record(i)
  <2>1. InPhases(Recorded)' = InPhases(Recorded) \cup {i}
    BY <1>1, <1>3, MoveFacts DEF Moves, InPhases, Recorded, Phases
  <2>2. ledger' = ledger \cup {Key(i)}
    BY <1>3 DEF record
  <2> QED
    BY <1>1, <2>1, <2>2 DEF LedgerInv, Key
<1> USE DEF Phases, Recorded
<1>4. CASE Moves(i, "queued", "started") /\ acquire(i)
  BY <1>2, <1>4 DEF acquire
<1>5. CASE Moves(i, "suspended", "resumed") /\ acquire(i)
  BY <1>2, <1>5 DEF acquire
<1>6. CASE Moves(i, "started", "proposed") /\ propose(i)
  BY <1>2, <1>6 DEF propose
<1>7. CASE Moves(i, "proposed", "suspended") /\ suspend(i)
  BY <1>2, <1>7 DEF suspend
<1>8. CASE Moves(i, "resumed", "revalidated") /\ revalidate(i)
  BY <1>2, <1>8 DEF revalidate
<1>9. CASE Moves(i, "revalidated", "perform") /\ lookup(i)
  BY <1>2, <1>9 DEF lookup
<1>10. CASE Moves(i, "perform", "record") /\ perform(i)
  BY <1>2, <1>10 DEF perform
<1>11. CASE Moves(i, "performed", "completed") /\ verify(i)
  BY <1>2, <1>11 DEF verify
<1> HIDE DEF Phases, Recorded
<1> QED
  BY <1>3, <1>4, <1>5, <1>6, <1>7, <1>8, <1>9, <1>10, <1>11, RunSteps

\* Every sweep is the fingerprint of a healthy service, the first as the last.
LEMMA RunPrints ==
  ASSUME LoadInv, NEW i \in Runs, Workflow(i)
  PROVE  fingerprint' \in [Runs -> {NoVal, Healthy}] /\ RunsInv'
<1>1. TestType /\ RunsInv /\ SandboxInv
  BY DEF LoadInv
<1>2. CASE \E from, to \in Phases : /\ Moves(i, from, to)
                                    /\ to \notin {"queued", "started", "replanned"}
                                    /\ fingerprint' = [fingerprint EXCEPT ![i] = Healthy]
  BY <1>1, <1>2, MoveFacts DEF Moves, RunsInv, TestType
<1>3. CASE \E from, to \in Phases : /\ Moves(i, from, to)
                                    /\ to # "replanned"
                                    /\ from \in {"queued", "started"} => to = "started"
                                    /\ fingerprint' = fingerprint
  BY <1>1, <1>3, MoveFacts DEF Moves, RunsInv, TestType
<1>4. compute_fingerprint(gather_observations(sandbox), PROPOSAL) = Healthy
  BY <1>1, SweptHealthy
<1> USE DEF Phases
<1>5. CASE Moves(i, "started", "proposed") /\ propose(i)
  BY <1>2, <1>4, <1>5 DEF propose
<1>6. CASE Moves(i, "resumed", "revalidated") /\ revalidate(i)
  BY <1>2, <1>4, <1>6 DEF revalidate
<1>7. CASE Moves(i, "queued", "started") /\ acquire(i)
  BY <1>3, <1>7 DEF acquire
<1>8. CASE Moves(i, "suspended", "resumed") /\ acquire(i)
  BY <1>3, <1>8 DEF acquire
<1>9. CASE Moves(i, "proposed", "suspended") /\ suspend(i)
  BY <1>3, <1>9 DEF suspend
<1>10. CASE Moves(i, "revalidated", "perform") /\ lookup(i)
  BY <1>3, <1>10 DEF lookup
<1>11. CASE Moves(i, "perform", "record") /\ perform(i)
  BY <1>3, <1>11 DEF perform
<1>12. CASE Moves(i, "record", "performed") /\ record(i)
  BY <1>3, <1>12 DEF record
<1>13. CASE Moves(i, "performed", "completed") /\ verify(i)
  BY <1>3, <1>13 DEF verify
<1> HIDE DEF Phases
<1> QED
  BY <1>5, <1>6, <1>7, <1>8, <1>9, <1>10, <1>11, <1>12, <1>13, RunSteps

\* The stage and the report are not the runs' to change, and only a run that
\* suspends moves the peak.
LEMMA RunStages ==
  ASSUME LoadInv, NEW i \in Runs, Workflow(i)
  PROVE  /\ stage' = stage /\ report' = report /\ peak' \in 0 .. N
         /\ StagesInv'
<1>1. TestType /\ StagesInv
  BY DEF LoadInv
<1>2. stage' = stage /\ report' = report
  BY DEF Workflow, acquire, propose, suspend, revalidate, lookup, perform, record, verify, Alone
<1> DEFINE held == Cardinality(InPhases({"suspended"}))
<1>3. Held' = held' /\ Held' \in 0 .. N /\ N \in Nat
  <2>1. Held' = held'
    BY HeldCounts DEF InPhase, InPhases, Held
  <2> QED
    BY <2>1, CountType, RunsFinite DEF N
<1>4. CASE Moves(i, "proposed", "suspended") /\ suspend(i)
  <2>1. peak' = IF peak > Held' THEN peak ELSE Held'
    BY <1>4 DEF suspend
  <2>2. Held' <= peak' /\ peak' \in 0 .. N
    BY <1>1, <1>3, <2>1 DEF TestType
  <2>3. stage = "starting"
    BY <1>1, <1>4 DEF Moves, Move, StagesInv
  <2>4. \A j \in Runs : phase'[j] \in Starting
    BY <1>1, <1>4, <2>3, MoveFacts DEF Moves, StagesInv, Starting, Phases
  <2> QED
    BY <1>2, <2>2, <2>3, <2>4 DEF StagesInv
<1>5. CASE \E from, to \in Phases :
             /\ Moves(i, from, to) /\ peak' = peak
             /\ from # "completed" /\ to # "suspended"
             /\ from \in Starting => \/ to \in Starting
                                     \/ from = "suspended" /\ stage = "burst"
             /\ from \notin {"queued", "started", "proposed"} =>
                  to \notin {"queued", "started", "proposed"}
  <2>1. PICK from \in Phases, to \in Phases :
             /\ Moves(i, from, to) /\ peak' = peak
             /\ from # "completed" /\ to # "suspended"
             /\ from \in Starting => \/ to \in Starting
                                     \/ from = "suspended" /\ stage = "burst"
             /\ from \notin {"queued", "started", "proposed"} =>
                  to \notin {"queued", "started", "proposed"}
    BY <1>5
  <2>2. /\ phase[i] = from /\ phase'[i] = to
        /\ \A j \in Runs : j # i => phase'[j] = phase[j]
    BY <1>1, <2>1, MoveFacts DEF Moves
  <2>3. stage # "reported"
    BY <1>1, <2>1, <2>2 DEF StagesInv
  <2>4. peak' \in 0 .. N
    BY <1>1, <2>1 DEF TestType
  <2>5. CASE stage = "starting"
    <3>1. from \in Starting /\ to \in Starting
      BY <1>1, <2>1, <2>2, <2>5 DEF StagesInv
    <3>2. \A j \in Runs : phase'[j] \in Starting
      BY <1>1, <2>2, <2>5, <3>1 DEF StagesInv
    <3>3. held' = held \/ held' = held - 1
      <4>1. Move(i, from, to) /\ to \notin {"suspended"}
        BY <2>1 DEF Moves
      <4> QED
        BY <1>1, <4>1, MoveCounts
    <3>4. held \in 0 .. N /\ held <= peak /\ peak \in 0 .. N
      BY <1>1, <2>5, HeldCounts, CountType DEF StagesInv, TestType
    <3>5. held' <= peak
      <4> HIDE DEF held
      <4> QED
        BY <1>3, <3>3, <3>4
    <3>6. Held' <= peak'
      BY <1>3, <2>1, <3>5
    <3> QED
      BY <1>2, <2>4, <2>5, <3>2, <3>6 DEF StagesInv
  <2>6. CASE stage = "burst"
    <3>1. \A j \in Runs : phase'[j] \notin {"queued", "started", "proposed"}
      BY <1>1, <2>1, <2>2, <2>6 DEF StagesInv
    <3> QED
      BY <1>1, <1>2, <2>1, <2>4, <2>6, <3>1 DEF StagesInv
  <2> QED
    BY <1>1, <2>3, <2>5, <2>6 DEF TestType
<1> USE DEF Phases, Starting, Alone
<1>6. CASE Moves(i, "queued", "started") /\ acquire(i)
  BY <1>5, <1>6 DEF acquire
<1>7. CASE stage = "burst" /\ Moves(i, "suspended", "resumed") /\ acquire(i)
  BY <1>5, <1>7 DEF acquire
<1>8. CASE Moves(i, "started", "proposed") /\ propose(i)
  BY <1>5, <1>8 DEF propose
<1>9. CASE Moves(i, "resumed", "revalidated") /\ revalidate(i)
  BY <1>5, <1>9 DEF revalidate
<1>10. CASE Moves(i, "revalidated", "perform") /\ lookup(i)
  BY <1>5, <1>10 DEF lookup
<1>11. CASE Moves(i, "perform", "record") /\ perform(i)
  BY <1>5, <1>11 DEF perform
<1>12. CASE Moves(i, "record", "performed") /\ record(i)
  BY <1>5, <1>12 DEF record
<1>13. CASE Moves(i, "performed", "completed") /\ verify(i)
  BY <1>5, <1>13 DEF verify
<1> HIDE DEF Phases, Starting, Alone
<1> QED
  BY <1>4, <1>6, <1>7, <1>8, <1>9, <1>10, <1>11, <1>12, <1>13, RunSteps

LEMMA RunStep ==
  ASSUME LoadInv, NEW i \in Runs, Workflow(i)
  PROVE  LoadInv'
<1>1. TestType'
  BY RunSlots, RunPrints, RunStages DEF LoadInv, TestType, N
<1> QED
  BY <1>1, RunSlots, RunSandbox, RunLedger, RunPrints, RunStages DEF LoadInv

LEMMA BurstStep ==
  ASSUME LoadInv, burst
  PROVE  LoadInv'
<1>1. TestType /\ StagesInv /\ \A i \in Runs : phase[i] = "suspended"
  BY DEF LoadInv, burst, Gathered
<1>2. Held = N /\ N \in Nat
  BY <1>1, AllInPhase, RunsFinite DEF Held, N
<1>3. UNCHANGED <<free, phase, fingerprint, ledger, sandbox, peak>> /\ stage' = "burst"
  BY DEF burst
<1>4. peak = N
  BY <1>1, <1>2 DEF StagesInv, TestType, burst
<1>5. report' = [report EXCEPT !.suspended_count = N]
  BY <1>2 DEF burst
<1>6. TestType'
  BY <1>1, <1>2, <1>3, <1>5 DEF TestType, N
<1>7. StagesInv'
  BY <1>1, <1>3, <1>4, <1>5 DEF StagesInv, TestType, N
<1>8. SlotsInv' /\ SandboxInv' /\ LedgerInv' /\ RunsInv'
  BY <1>3 DEF LoadInv, SlotsInv, SandboxInv, After, LedgerInv, Key, RunsInv, InPhases
<1> QED
  BY <1>6, <1>7, <1>8 DEF LoadInv

LEMMA ReportedStep ==
  ASSUME LoadInv, reported
  PROVE  LoadInv'
<1>1. TestType /\ StagesInv /\ \A i \in Runs : phase[i] = "completed"
  BY DEF LoadInv, RunsInv, reported, Gathered
<1>2. Cardinality(InPhase("completed")) = N /\ N \in Nat
  BY <1>1, AllInPhase, RunsFinite DEF N
<1>3. UNCHANGED <<free, phase, fingerprint, ledger, sandbox, peak>> /\ stage' = "reported"
  BY DEF reported
<1>4. report' = [report EXCEPT !.completed_count = N]
  BY <1>2 DEF reported
<1>5. TestType'
  BY <1>1, <1>2, <1>3, <1>4 DEF TestType, N
<1>6. StagesInv'
  BY <1>1, <1>3, <1>4 DEF StagesInv, TestType, N, reported
<1>7. SlotsInv' /\ SandboxInv' /\ LedgerInv' /\ RunsInv'
  BY <1>3 DEF LoadInv, SlotsInv, SandboxInv, After, LedgerInv, Key, RunsInv, InPhases
<1> QED
  BY <1>5, <1>6, <1>7 DEF LoadInv

THEOREM LoadInvHolds == LoadSpec => []LoadInv
<1>1. LoadInv /\ [LoadNext]_loadVars => LoadInv'
  <2> SUFFICES ASSUME LoadInv, [LoadNext]_loadVars
               PROVE  LoadInv'
    OBVIOUS
  <2>1. CASE UNCHANGED loadVars
    BY <2>1 DEF loadVars, LoadInv, TestType, SlotsInv, SandboxInv, After, LedgerInv, Key,
                RunsInv, StagesInv, InPhases, InPhase, Held, N
  <2>2. CASE burst
    BY <2>2, BurstStep
  <2>3. CASE reported
    BY <2>3, ReportedStep
  <2>4. CASE \E i \in Runs : Workflow(i)
    BY <2>4, RunStep
  <2> QED
    BY <2>1, <2>2, <2>3, <2>4 DEF LoadNext
<1> QED
  BY <1>1, InitLoad, PTL DEF LoadSpec

-----------------------------------------------------------------------------
(* What a reported test says, for every number of runs and of slots.       *)

\* All runs suspended and all completed: no restart of one is drift to another
\* (load_test.py, suspended_count and completed_count).
THEOREM LoadTestIsIntact == LoadSpec => []StateIntact
<1>1. LoadInv => StateIntact
  BY DEF LoadInv, StagesInv, StateIntact
<1> QED
  BY <1>1, LoadInvHolds, PTL

\* The service was restarted once for each completed run: the keys of the
\* ledger tell the runs apart.
THEOREM RestartsAreCounted == LoadSpec => []OneRestartEach
<1>1. LoadInv => OneRestartEach
  <2> SUFFICES ASSUME LoadInv, stage = "reported"
               PROVE  sandbox.services[PROPOSAL.target].restart_count = report.completed_count
    BY DEF OneRestartEach
  <2>1. report.completed_count = N /\ \A i \in Runs : phase[i] = "completed"
    BY DEF LoadInv, StagesInv
  <2>2. InPhases(Acted) = Runs
    BY <2>1 DEF InPhases, Acted
  <2>3. N \in Nat /\ sandbox = After(N)
    BY <2>2, RunsFinite DEF LoadInv, SandboxInv, N
  <2> QED
    BY <2>1, <2>3, AfterFacts
<1> QED
  BY <1>1, LoadInvHolds, PTL

\* All runs were suspended at one moment, however few slots there are.
THEOREM AllAreHeldAtOnce == LoadSpec => []AllHeldAtOnce
<1>1. LoadInv => AllHeldAtOnce
  BY DEF LoadInv, StagesInv, AllHeldAtOnce
<1> QED
  BY <1>1, LoadInvHolds, PTL

\* The semaphore is what it counts, and the test keeps its types.
THEOREM LoadTypes == LoadSpec => []LoadTypeOK
<1>1. LoadInv => LoadTypeOK
  <2> SUFFICES ASSUME LoadInv PROVE LoadTypeOK
    OBVIOUS
  <2>1. TestType /\ SlotsInv /\ LedgerInv /\ SandboxInv
    BY DEF LoadInv
  <2>2. free \in 0 .. CONCURRENCY
    <3> DEFINE busy == Cardinality(InPhases(Busy))
    <3>1. busy \in Nat /\ free \in Nat /\ free + busy = CONCURRENCY /\ CONCURRENCY \in Nat
      BY <2>1, CountType, RunsFinite, LoadTestAssumption DEF TestType, SlotsInv, N
    <3> HIDE DEF busy
    <3> QED
      BY <3>1
  <2>3. Healthy \in Fingerprints
    BY DEF Healthy, Fingerprints, HealthStatus, Levels
  <2>4. sandbox \in World
    <3>1. PICK k \in Nat : sandbox = After(k)
      BY <2>1, SandboxNow
    <3>2. Baseline \in ServiceState /\ [Baseline EXCEPT !.restart_count = k] \in ServiceState
      BY <3>1, BaselineType DEF reset, ServiceState
    <3> QED
      BY <3>1, <3>2 DEF After, World
  <2>5. ledger \subseteq {Key(i) : i \in Runs}
    BY <2>1 DEF LedgerInv, InPhases
  <2> QED
    BY <2>1, <2>2, <2>3, <2>4, <2>5 DEF LoadTypeOK, TestType
<1> QED
  BY <1>1, LoadInvHolds, PTL
=============================================================================
