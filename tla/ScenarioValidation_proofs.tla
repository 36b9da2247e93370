----------------------- MODULE ScenarioValidation_proofs -----------------------
(***************************************************************************)
(* Proofs about the validator of the scenario suite, for every suite and   *)
(* every sandbox: what it lets through breaks the harness in the two ways  *)
(* it does not look at and in no other, and is judged as it was meant.     *)
(*                                                                         *)
(* The releases a service has left are those it had less those that the    *)
(* changes applied so far took (ReleasesInv), the changes still to be      *)
(* applied are the rest of the scenario's list (ChangingInv), and a valid  *)
(* suite has one scenario for each id (JudgedOnce).                        *)
(***************************************************************************)
EXTENDS ScenarioValidation, Sandbox_proofs, FiniteSetTheorems

Chosen == scenario.staleness_injection.changes

\* How many of the changes have been applied.
Applied == Len(Chosen) - Len(changes)

StaticInv == suite \in Suites /\ valid = validate_scenarios(suite)

ScenarioInv ==
  /\ at \in {"new", "inject", "suspended", "changing", "raised", "recorded"}
  /\ at # "new" => \E i \in DOMAIN suite : scenario = suite[i]

\* What is still to be applied is the end of the scenario's list.
ChangingInv ==
  at = "changing" =>
    /\ scenario.category = "staleness"
    /\ scenario.staleness_injection # NoVal /\ Chosen # NoVal
    /\ changes \in Seq({Chosen[i] : i \in DOMAIN Chosen})
    /\ Applied \in Nat
    /\ \A j \in 1 .. Len(changes) : changes[j] = Chosen[Applied + j]

\* The changes took what is missing from the releases of a service.
ReleasesInv ==
  /\ sandbox \in World
  /\ at \notin {"raised", "recorded"} =>
       \A s \in Services :
         Len(sandbox.services[s].version_history) =
           Len(BASELINE_VERSION_HISTORY)
             - (IF at = "changing" THEN RolledBack(Chosen, Applied, s) ELSE 0)

\* The record is of the one action the run proposed.
RecordInv ==
  at = "recorded" =>
    /\ record.scenario_id = scenario.id
    /\ \E b \in [tool : KNOWN_TOOLS, target : Targets] :
         record.proposed_actions = <<b>> /\ record.executed_actions \subseteq {b}

ValidationInv ==
  /\ StaticInv /\ ScenarioInv /\ ChangingInv /\ ReleasesInv /\ RecordInv
  /\ ValidScenariosRun

-----------------------------------------------------------------------------
(* Lists of changes.                                                       *)

\* A list is a sequence.
LEMMA ListIsSeq ==
  ASSUME NEW l, IsList(l)
  PROVE  /\ l \in Seq({l[i] : i \in DOMAIN l})
         /\ Len(l) \in Nat /\ DOMAIN l = 1 .. Len(l)
BY DEF IsList

\* One change more rolls back once more, starts over, or does neither.
LEMMA RolledBackGrows ==
  ASSUME NEW cs, NEW n \in Nat, NEW s
  PROVE  /\ RolledBack(cs, n, s) \in Nat
         /\ RolledBack(cs, n + 1, s) =
              IF Rolls(cs[n + 1], s) THEN RolledBack(cs, n, s) + 1
              ELSE IF Resets(cs[n + 1], s) THEN 0 ELSE RolledBack(cs, n, s)
<1> DEFINE Counted(m) ==
             {i \in 1 .. m : Rolls(cs[i], s) /\ \A j \in i .. m : ~Resets(cs[j], s)}
<1>1. /\ \A i \in 1 .. n + 1 : i \in 1 .. n \/ i = n + 1
      /\ 1 .. n \subseteq 1 .. n + 1 /\ n + 1 \in 1 .. n + 1 /\ n + 1 \notin 1 .. n
      /\ \A i \in 1 .. n : /\ n + 1 \in i .. n + 1 /\ i .. n \subseteq i .. n + 1
                           /\ \A j \in i .. n + 1 : j \in i .. n \/ j = n + 1
      /\ (n + 1) .. (n + 1) = {n + 1}
  OBVIOUS
<1>2. Rolls(cs[n + 1], s) => ~Resets(cs[n + 1], s)
  BY DEF Rolls, Resets
<1>3. Counted(n + 1) = IF Rolls(cs[n + 1], s) THEN Counted(n) \cup {n + 1}
                       ELSE IF Resets(cs[n + 1], s) THEN {} ELSE Counted(n)
  BY <1>1, <1>2
<1>4. IsFiniteSet(Counted(n)) /\ Cardinality(Counted(n)) \in Nat
  <2>1. IsFiniteSet(1 .. n)
    BY FS_Interval
  <2>2. Counted(n) \subseteq 1 .. n
    OBVIOUS
  <2> QED
    BY <2>1, <2>2, FS_Subset, FS_CardinalityType
<1>5. n + 1 \notin Counted(n)
  BY <1>1
<1>6. \A m \in Nat : RolledBack(cs, m, s) = Cardinality(Counted(m))
  BY DEF RolledBack
<1> HIDE DEF Counted
<1>7. Cardinality(Counted(n) \cup {n + 1}) = Cardinality(Counted(n)) + 1
  BY <1>4, <1>5, FS_AddElement
<1>8. n + 1 \in Nat
  OBVIOUS
<1> QED
  BY <1>3, <1>4, <1>6, <1>7, <1>8, FS_EmptySet

\* Before the first change nothing is rolled back.
LEMMA NothingRolledBack ==
  ASSUME NEW cs, NEW s
  PROVE  RolledBack(cs, 0, s) = 0
BY FS_EmptySet DEF RolledBack

-----------------------------------------------------------------------------
(* The sandbox under faults and changes.                                   *)

Releases(w, s) == Len(w.services[s].version_history)

\* A service has a list of releases.
LEMMA ReleasesType ==
  ASSUME NEW w \in World, NEW s \in Services
  PROVE  Releases(w, s) \in Nat /\ w.services[s] \in ServiceState
<1>1. w.services[s] \in ServiceState
  BY DEF World
<1>2. w.services[s].version_history \in Seq(Versions)
  BY <1>1 DEF ServiceState
<1> QED
  BY <1>1, <1>2 DEF Releases

\* The other services do not notice.
LEMMA OnServiceView ==
  ASSUME NEW w \in World, NEW s \in Services, NEW t \in Services, NEW sv
  PROVE  OnService(w, s, sv).services[t] = IF t = s THEN sv ELSE w.services[t]
BY DEF OnService, World

\* A fault takes no release.
LEMMA FaultsKeepReleases ==
  ASSUME NEW w \in World, NEW f, ~InjectRaises(f)
  PROVE  /\ injected(w, f) \in World
         /\ \A t \in Services : Releases(injected(w, f), t) = Releases(w, t)
<1> DEFINE sv == w.services[f.service]
           level == Severity(f)
           hit == IF f.type = "disk_full" THEN apply_disk_fault(sv, level)
                                          ELSE apply_fault(sv, level)
<1>1. f.service \in Services /\ sv \in ServiceState
  BY DEF InjectRaises, World
<1>2. level \in Levels
  BY DEF Levels, Severity
<1>3. hit \in ServiceState
  BY <1>1, <1>2, EndpointTypes
<1>4. hit.version_history = sv.version_history
  BY <1>1 DEF apply_fault, apply_disk_fault, ServiceState
<1>5. injected(w, f) = OnService(w, f.service, hit)
  BY DEF injected
<1> HIDE DEF hit
<1>6. injected(w, f) \in World
  BY <1>1, <1>3, <1>5, OnServiceType
<1>7. ASSUME NEW t \in Services
      PROVE  Releases(injected(w, f), t) = Releases(w, t)
  BY <1>1, <1>4, <1>5, OnServiceView DEF Releases
<1> QED
  BY <1>6, <1>7

\* What _apply_staleness_change makes of the sandbox w.
Changed(w, c) ==
  CASE c.action = "inject_fault" -> injected(w, c)
    [] c.action = "reset"        -> OnService(w, c.service, reset)
    [] c.action = "rollback"     -> OnService(w, c.service, rollback(w.services[c.service]))
    [] OTHER                     -> delete(w, OfKind(w.records, c.kind))

\* A rollback takes one release of its service and a reset gives all back.
LEMMA ChangesTakeReleases ==
  ASSUME NEW w \in World, NEW c, ~ChangeRaises(w, c)
  PROVE  /\ Changed(w, c) \in World
         /\ \A t \in Services :
              Releases(Changed(w, c), t) =
                IF Rolls(c, t) THEN Releases(w, t) - 1
                ELSE IF Resets(c, t) THEN Len(BASELINE_VERSION_HISTORY) ELSE Releases(w, t)
<1>1. CASE c.action = "inject_fault"
  <2>1. ~InjectRaises(c) /\ Changed(w, c) = injected(w, c)
    BY <1>1 DEF ChangeRaises, Changed
  <2> QED
    BY <1>1, <2>1, FaultsKeepReleases DEF Rolls, Resets
<1>2. CASE c.action = "reset"
  <2>1. c.service \in Services /\ Changed(w, c) = OnService(w, c.service, reset)
    BY <1>2 DEF ChangeRaises, Changed
  <2>2. reset.version_history = BASELINE_VERSION_HISTORY
    BY DEF reset, Baseline
  <2>3. Changed(w, c) \in World
    BY <2>1, BaselineType, OnServiceType
  <2> QED
    BY <1>2, <2>1, <2>2, <2>3, OnServiceView DEF Releases, Rolls, Resets
<1>3. CASE c.action = "rollback"
  <2> DEFINE sv == w.services[c.service]
             h == sv.version_history
  <2>1. /\ c.service \in Services /\ ~(Len(h) < 2)
        /\ Changed(w, c) = OnService(w, c.service, rollback(sv))
    BY <1>3 DEF ChangeRaises, Changed
  <2>2. sv \in ServiceState /\ h \in Seq(Versions)
    BY <2>1 DEF World, ServiceState
  <2>3. Len(h) >= 2
    BY <2>1, <2>2
  <2>4. rollback(sv) \in ServiceState
    BY <2>2, <2>3, RollbackType
  <2>5. Len(rollback(sv).version_history) = Len(h) - 1
    <3>1. rollback(sv).version_history = SubSeq(h, 1, Len(h) - 1)
      BY <2>2 DEF rollback, ServiceState
    <3> QED
      BY <2>2, <2>3, <3>1
  <2>6. Changed(w, c) \in World
    BY <2>1, <2>2, <2>4, OnServiceType
  <2> DEFINE after == rollback(sv)
  <2> HIDE DEF after
  <2>7. ASSUME NEW t \in Services
        PROVE  Releases(Changed(w, c), t) = IF t = c.service THEN Len(h) - 1 ELSE Releases(w, t)
    <3>1. Changed(w, c).services[t] = IF t = c.service THEN after ELSE w.services[t]
      BY <2>1, OnServiceView DEF after
    <3>2. Len(after.version_history) = Len(h) - 1
      BY <2>5 DEF after
    <3> QED
      BY <3>1, <3>2 DEF Releases
  <2>8. \A t \in Services : (Rolls(c, t) <=> t = c.service) /\ ~Resets(c, t)
    BY <1>3 DEF Rolls, Resets
  <2>9. Releases(w, c.service) = Len(h)
    BY DEF Releases
  <2> HIDE DEF h
  <2> QED
    BY <2>6, <2>7, <2>8, <2>9
<1>4. CASE c.action \notin {"inject_fault", "reset", "rollback"}
  <2>1. Changed(w, c) = delete(w, OfKind(w.records, c.kind))
    BY <1>4 DEF Changed
  <2>2. w.records \ OfKind(w.records, c.kind) \in SUBSET RecordIds
    BY DEF World
  <2>3. Changed(w, c) \in World /\ Changed(w, c).services = w.services
    BY <2>1, <2>2 DEF delete, World
  <2> QED
    BY <1>4, <2>3 DEF Releases, Rolls, Resets
<1> QED
  BY <1>1, <1>2, <1>3, <1>4

-----------------------------------------------------------------------------
(* What validation knows.                                                  *)

\* The scenario that runs is one of the suite, and of a valid one a valid one.
LEMMA RunsAScenario ==
  ASSUME ValidationInv, at # "new"
  PROVE  /\ valid => validate_scenario(scenario)
         /\ scenario.staleness_injection # NoVal /\ Chosen # NoVal => IsList(Chosen)
<1>1. PICK i \in DOMAIN suite : scenario = suite[i]
  BY DEF ValidationInv, ScenarioInv
<1>2. suite \in Suites /\ valid = validate_scenarios(suite)
  BY DEF ValidationInv, StaticInv
<1> QED
  BY <1>1, <1>2, SuitesAssumption DEF validate_scenarios, Chosen

\* A fault that was validated can be injected, wherever it stands.
LEMMA ValidFaultsInject ==
  ASSUME NEW f, _validate_fault_injection(f)
  PROVE  ~InjectRaises(f)
BY DEF _validate_fault_injection, InjectRaises

\* A change that was validated raises only where a release is missing.
LEMMA ValidChangesApply ==
  ASSUME NEW w, NEW c, _validate_staleness_change(c), ChangeRaises(w, c)
  PROVE  c.service \in Services /\ Rolls(c, c.service) /\ Releases(w, c.service) < 2
BY ValidFaultsInject DEF _validate_staleness_change, ChangeRaises, Rolls, Releases

-----------------------------------------------------------------------------
(* The steps.                                                              *)

\* A fresh sandbox has every release.
LEMMA InitValidation == ValidationInit => ValidationInv
<1> SUFFICES ASSUME ValidationInit
             PROVE  ValidationInv
  OBVIOUS
<1>1. StaticInv /\ ScenarioInv /\ ChangingInv /\ RecordInv /\ ValidScenariosRun /\ at = "new"
  BY DEF ValidationInit, StaticInv, ScenarioInv, ChangingInv, RecordInv, ValidScenariosRun
<1>2. sandbox \in World
  BY BaselineType DEF ValidationInit, World, reset
<1>3. \A s \in Services : sandbox.services[s].version_history = BASELINE_VERSION_HISTORY
  BY DEF ValidationInit, Baseline
<1>4. Len(BASELINE_VERSION_HISTORY) \in Nat
  BY SandboxAssumption
<1> QED
  BY <1>1, <1>2, <1>3, <1>4 DEF ValidationInv, ReleasesInv

\* The suite stays as it was loaded.
LEMMA NextStatic == StaticInv /\ [ValidationNext]_validationVars => StaticInv'
BY DEF StaticInv, ValidationNext, validationVars, run_scenario, inject, change_begins,
   _apply_staleness_change, raised, ended, Same

\* The scenario is chosen once.
LEMMA NextChosen == ScenarioInv /\ [ValidationNext]_validationVars => ScenarioInv'
<1> SUFFICES ASSUME ScenarioInv, [ValidationNext]_validationVars
             PROVE  ScenarioInv'
  OBVIOUS
<1>1. CASE run_scenario
  BY <1>1 DEF run_scenario, Same, ScenarioInv
<1>2. CASE inject \/ change_begins \/ _apply_staleness_change \/ raised \/ ended
  BY <1>2 DEF inject, change_begins, _apply_staleness_change, raised, ended, Same, ScenarioInv
<1>3. CASE UNCHANGED validationVars
  BY <1>3 DEF validationVars, ScenarioInv
<1> QED
  BY <1>1, <1>2, <1>3 DEF ValidationNext

\* One change is taken from the front of those that are left.
LEMMA ChangeTaken ==
  ASSUME ValidationInv, at = "changing", changes # <<>>
  PROVE  /\ Len(changes) \in Nat \ {0} /\ Applied \in Nat /\ Len(Chosen) \in Nat
         /\ Head(changes) = Chosen[Applied + 1] /\ Applied + 1 \in 1 .. Len(Chosen)
         /\ Tail(changes) \in Seq({Chosen[i] : i \in DOMAIN Chosen})
         /\ Len(Tail(changes)) = Len(changes) - 1
         /\ \A j \in 1 .. Len(Tail(changes)) :
              Tail(changes)[j] = Chosen[(Applied + 1) + j]
<1> DEFINE S == {Chosen[i] : i \in DOMAIN Chosen}
<1>1. /\ changes \in Seq(S) /\ Applied \in Nat
      /\ \A j \in 1 .. Len(changes) : changes[j] = Chosen[Applied + j]
      /\ scenario.staleness_injection # NoVal /\ Chosen # NoVal
  BY DEF ValidationInv, ChangingInv
<1>2. Len(Chosen) \in Nat
  BY <1>1, RunsAScenario, ListIsSeq
<1> HIDE DEF S
<1>3. /\ Len(changes) \in Nat /\ Len(changes) # 0 /\ Head(changes) = changes[1]
      /\ Tail(changes) \in Seq(S) /\ Len(Tail(changes)) = Len(changes) - 1
  BY <1>1
<1>4. \A j \in 1 .. Len(Tail(changes)) : Tail(changes)[j] = changes[j + 1]
  BY <1>1, <1>3
<1>5. \A j \in 1 .. Len(Tail(changes)) :
        j + 1 \in 1 .. Len(changes) /\ Applied + (j + 1) = (Applied + 1) + j
  BY <1>1, <1>3
<1>6. Applied + 1 \in 1 .. Len(Chosen)
  BY <1>1, <1>2, <1>3 DEF Applied
<1> QED
  BY <1>1, <1>2, <1>3, <1>4, <1>5, <1>6 DEF S

\* Applying a change moves along the list.
LEMMA ChangingStep ==
  ASSUME ValidationInv, _apply_staleness_change
  PROVE  /\ Applied' = Applied + 1 /\ Chosen' = Chosen /\ ChangingInv'
         /\ sandbox' = Changed(sandbox, Chosen[Applied + 1])
         /\ ~ChangeRaises(sandbox, Chosen[Applied + 1])
<1>1. /\ at = "changing" /\ changes # <<>> /\ changes' = Tail(changes)
      /\ UNCHANGED <<scenario, at, suite, valid>>
      /\ sandbox' = Changed(sandbox, Head(changes)) /\ ~ChangeRaises(sandbox, Head(changes))
  BY DEF _apply_staleness_change, Changed, Same
<1>2. Chosen' = Chosen
  BY <1>1 DEF Chosen
<1>3. Applied' = Applied + 1
  BY <1>1, <1>2, ChangeTaken DEF Applied
<1>4. ChangingInv'
  <2>1. /\ scenario'.category = "staleness" /\ scenario'.staleness_injection # NoVal
        /\ Chosen' # NoVal
    BY <1>1, <1>2 DEF ValidationInv, ChangingInv
  <2>2. changes' \in Seq({Chosen'[i] : i \in DOMAIN Chosen'})
    BY <1>1, <1>2, ChangeTaken
  <2>3. Applied' \in Nat
    BY <1>1, <1>3, ChangeTaken
  <2>4. \A j \in 1 .. Len(changes') : changes'[j] = Chosen'[Applied' + j]
    BY <1>1, <1>2, <1>3, ChangeTaken
  <2> QED
    BY <2>1, <2>2, <2>3, <2>4 DEF ChangingInv
<1> QED
  BY <1>1, <1>2, <1>3, <1>4, ChangeTaken

\* The list that is left is the rest of the scenario's.
LEMMA NextChanging == ValidationInv /\ [ValidationNext]_validationVars => ChangingInv'
<1> SUFFICES ASSUME ValidationInv, [ValidationNext]_validationVars
             PROVE  ChangingInv'
  OBVIOUS
<1>1. CASE change_begins
  <2>1. /\ scenario.category = "staleness" /\ scenario.staleness_injection # NoVal
        /\ Chosen # NoVal /\ changes' = Chosen /\ scenario' = scenario /\ at = "suspended"
    BY <1>1 DEF change_begins, Chosen
  <2>2. Chosen \in Seq({Chosen[i] : i \in DOMAIN Chosen}) /\ Len(Chosen) \in Nat
    BY <2>1, RunsAScenario, ListIsSeq
  <2>3. Chosen' = Chosen
    BY <2>1 DEF Chosen
  <2>4. Applied' = 0
    BY <2>1, <2>2, <2>3 DEF Applied
  <2> QED
    BY <2>1, <2>2, <2>3, <2>4 DEF ChangingInv
<1>2. CASE _apply_staleness_change
  BY <1>2, ChangingStep
<1>3. CASE run_scenario \/ inject \/ raised \/ ended
  BY <1>3 DEF run_scenario, inject, raised, ended, ChangingInv
<1>4. CASE UNCHANGED validationVars
  BY <1>4 DEF validationVars, ValidationInv, ChangingInv, Applied, Chosen
<1> QED
  BY <1>1, <1>2, <1>3, <1>4 DEF ValidationNext

\* The releases that are missing are those the changes took.
LEMMA NextReleases == ValidationInv /\ [ValidationNext]_validationVars => ReleasesInv'
<1> SUFFICES ASSUME ValidationInv, [ValidationNext]_validationVars
             PROVE  ReleasesInv'
  OBVIOUS
<1> DEFINE all == Len(BASELINE_VERSION_HISTORY)
<1>0. /\ all \in Nat /\ sandbox \in World
      /\ at \notin {"raised", "recorded"} =>
           \A s \in Services :
             Releases(sandbox, s) = all - (IF at = "changing" THEN RolledBack(Chosen, Applied, s) ELSE 0)
  BY SandboxAssumption DEF ValidationInv, ReleasesInv, Releases
<1>1. CASE run_scenario
  BY <1>0, <1>1 DEF run_scenario, ReleasesInv, Releases
<1>2. CASE inject
  BY <1>0, <1>2, FaultsKeepReleases DEF inject, ReleasesInv, Releases
<1>3. CASE change_begins
  <2>1. Applied' = 0 /\ sandbox' = sandbox /\ at = "suspended" /\ at' = "changing"
    <3>1. /\ Chosen # NoVal /\ scenario.staleness_injection # NoVal /\ at = "suspended"
          /\ changes' = Chosen /\ scenario' = scenario
      BY <1>3 DEF change_begins, Chosen
    <3>2. Len(Chosen) \in Nat
      BY <3>1, RunsAScenario, ListIsSeq
    <3> QED
      BY <1>3, <3>1, <3>2 DEF change_begins, Applied, Chosen
  <2>2. \A s : RolledBack(Chosen', Applied', s) = 0
    BY <2>1, NothingRolledBack
  <2> QED
    BY <1>0, <2>1, <2>2 DEF ReleasesInv, Releases
<1>4. CASE _apply_staleness_change
  <2> DEFINE c == Chosen[Applied + 1]
  <2>1. /\ Applied' = Applied + 1 /\ Chosen' = Chosen /\ at = "changing" /\ at' = at
        /\ sandbox' = Changed(sandbox, c) /\ ~ChangeRaises(sandbox, c) /\ Applied \in Nat
    BY <1>4, ChangingStep, ChangeTaken DEF _apply_staleness_change
  <2>2. /\ sandbox' \in World
        /\ \A t \in Services :
             Releases(sandbox', t) = IF Rolls(c, t) THEN Releases(sandbox, t) - 1
                                     ELSE IF Resets(c, t) THEN all ELSE Releases(sandbox, t)
    BY <1>0, <2>1, ChangesTakeReleases
  <2>3. \A t \in Services :
          /\ RolledBack(Chosen, Applied, t) \in Nat
          /\ RolledBack(Chosen, Applied + 1, t) =
               IF Rolls(c, t) THEN RolledBack(Chosen, Applied, t) + 1
               ELSE IF Resets(c, t) THEN 0 ELSE RolledBack(Chosen, Applied, t)
    BY <2>1, RolledBackGrows
  <2>4. ASSUME NEW t \in Services
        PROVE  Releases(sandbox', t) = all - RolledBack(Chosen', Applied', t)
    <3>1. Releases(sandbox, t) = all - RolledBack(Chosen, Applied, t)
      BY <1>0, <2>1
    <3> HIDE DEF c, all
    <3>2. CASE Rolls(c, t)
      BY <1>0, <2>1, <2>2, <2>3, <3>1, <3>2
    <3>3. CASE ~Rolls(c, t)
      BY <1>0, <2>1, <2>2, <2>3, <3>1, <3>3
    <3> QED
      BY <3>2, <3>3
  <2> QED
    BY <2>1, <2>2, <2>4 DEF ReleasesInv, Releases
<1>5. CASE raised \/ ended
  BY <1>0, <1>5 DEF raised, ended, ReleasesInv
<1>6. CASE UNCHANGED validationVars
  BY <1>6 DEF validationVars, ValidationInv, ReleasesInv, Applied, Chosen
<1> QED
  BY <1>1, <1>2, <1>3, <1>4, <1>5, <1>6 DEF ValidationNext

\* Only a change that rolls back one time too many, and a list that is not
\* there, break the harness under a valid scenario.
LEMMA NextRaised == ValidationInv /\ [ValidationNext]_validationVars => ValidScenariosRun'
<1> SUFFICES ASSUME ValidationInv, [ValidationNext]_validationVars, valid', at' = "raised"
             PROVE  \/ Chosen' = NoVal
                    \/ \E s \in Services : \E n \in 1 .. Len(Chosen') :
                         RolledBack(Chosen', n, s) >= Len(BASELINE_VERSION_HISTORY)
  BY DEF ValidScenariosRun, Chosen
<1>1. CASE raised
  <2>1. /\ scenario' = scenario /\ Chosen' = Chosen /\ valid
        /\ validate_scenario(scenario)
    BY <1>1, RunsAScenario DEF raised, Same, Chosen
  <2>2. CASE at = "inject" /\ InjectRaises(scenario.fault_injection)
    BY <2>1, <2>2, ValidFaultsInject DEF validate_scenario
  <2>3. CASE at = "suspended" /\ scenario.category = "staleness"
             /\ \/ scenario.staleness_injection = NoVal
                \/ scenario.staleness_injection.changes = NoVal
    BY <2>1, <2>3 DEF validate_scenario, Chosen
  <2>4. CASE at = "changing" /\ changes # <<>> /\ ChangeRaises(sandbox, Head(changes))
    <3> DEFINE c == Chosen[Applied + 1]
    <3>1. /\ Head(changes) = c /\ Applied + 1 \in 1 .. Len(Chosen) /\ Applied \in Nat
          /\ Len(Chosen) \in Nat
      BY <2>4, ChangeTaken
    <3>2. _validate_staleness_change(c)
      <4>1. /\ scenario.category = "staleness" /\ scenario.staleness_injection # NoVal
            /\ Chosen # NoVal
        BY <2>4 DEF ValidationInv, ChangingInv
      <4>2. DOMAIN Chosen = 1 .. Len(Chosen)
        BY <4>1, RunsAScenario, ListIsSeq
      <4> QED
        BY <2>1, <3>1, <4>1, <4>2 DEF validate_scenario, Chosen
    <3>3. c.service \in Services /\ Rolls(c, c.service) /\ Releases(sandbox, c.service) < 2
      BY <2>4, <3>1, <3>2, ValidChangesApply
    <3> DEFINE s == c.service
    <3>4. /\ RolledBack(Chosen, Applied, s) \in Nat
          /\ RolledBack(Chosen, Applied + 1, s) = RolledBack(Chosen, Applied, s) + 1
      BY <3>1, <3>3, RolledBackGrows
    <3>5. Releases(sandbox, s) = Len(BASELINE_VERSION_HISTORY) - RolledBack(Chosen, Applied, s)
      BY <2>4, <3>3 DEF ValidationInv, ReleasesInv, Releases
    <3>6. Len(BASELINE_VERSION_HISTORY) \in Nat
      BY SandboxAssumption
    <3> HIDE DEF c, s
    <3>7. RolledBack(Chosen, Applied + 1, s) >= Len(BASELINE_VERSION_HISTORY)
      BY <3>3, <3>4, <3>5, <3>6 DEF s
    <3> QED
      BY <2>1, <3>1, <3>3, <3>7 DEF s
  <2> QED
    BY <1>1, <2>2, <2>3, <2>4 DEF raised
<1>2. CASE run_scenario \/ inject \/ change_begins \/ _apply_staleness_change \/ ended
  <2>1. at' # "raised"
    BY <1>2 DEF run_scenario, inject, change_begins, _apply_staleness_change, ended
  <2> QED
    BY <2>1
<1>3. CASE UNCHANGED validationVars
  BY <1>3 DEF validationVars, ValidationInv, ValidScenariosRun, Chosen
<1> QED
  BY <1>1, <1>2, <1>3 DEF ValidationNext

\* A record is of the scenario and of the action of its run.
LEMMA NextRecord == ValidationInv /\ [ValidationNext]_validationVars => RecordInv'
<1> SUFFICES ASSUME ValidationInv, [ValidationNext]_validationVars
             PROVE  RecordInv'
  OBVIOUS
<1>1. CASE ended
  <2>1. PICK b \in [tool : KNOWN_TOOLS, target : Targets] :
          record' = [scenario_id      |-> scenario.id,
                     proposed_actions |-> <<b>>,
                     executed_actions |-> IF validate_proposal(b) THEN {b} ELSE {}]
    BY <1>1 DEF ended
  <2>2. scenario' = scenario
    BY <1>1 DEF ended
  <2> QED
    BY <2>1, <2>2 DEF RecordInv
<1>2. CASE run_scenario \/ inject \/ change_begins \/ _apply_staleness_change \/ raised
  BY <1>2 DEF run_scenario, inject, change_begins, _apply_staleness_change, raised, RecordInv
<1>3. CASE UNCHANGED validationVars
  BY <1>3 DEF validationVars, ValidationInv, RecordInv
<1> QED
  BY <1>1, <1>2, <1>3 DEF ValidationNext

\* The invariant holds of every suite that is loaded and run.
LEMMA ValidationHolds == ValidationSpec => []ValidationInv
<1>1. ValidationInv /\ [ValidationNext]_validationVars => ValidationInv'
  <2>1. ValidationInv /\ [ValidationNext]_validationVars => StaticInv' /\ ScenarioInv'
    BY NextStatic, NextChosen DEF ValidationInv
  <2> QED
    BY <2>1, NextChanging, NextReleases, NextRaised, NextRecord DEF ValidationInv
<1> QED
  BY <1>1, InitValidation, PTL DEF ValidationSpec

-----------------------------------------------------------------------------
(* What the validator promises.                                            *)

\* Of every suite and every list of changes: a valid scenario breaks the
\* harness in two ways only, which the validator does not look at
\* (scenario_validation.py against FaultInjector and _apply_staleness_change).
THEOREM ValidationIsEnough == ValidationSpec => []ValidScenariosRun
<1>1. ValidationInv => ValidScenariosRun
  BY DEF ValidationInv
<1> QED
  BY <1>1, ValidationHolds, PTL

\* A valid suite has one scenario for each id.
LEMMA JudgedOnce ==
  ASSUME ValidationInv, valid, at = "recorded"
  PROVE  _index_scenarios(record.scenario_id) = scenario /\ validate_scenario(scenario)
<1>1. PICK i \in DOMAIN suite : scenario = suite[i]
  BY DEF ValidationInv, ScenarioInv
<1>2. /\ suite \in Suites /\ DistinctIds(suite)
      /\ record.scenario_id = suite[i].id
  BY <1>1 DEF ValidationInv, StaticInv, RecordInv, validate_scenarios
<1>3. DOMAIN suite \subseteq Nat
  <2>1. IsList(suite)
    BY <1>2, SuitesAssumption
  <2> QED
    BY <2>1, ListIsSeq
<1>4. \A k \in DOMAIN suite : suite[k].id = record.scenario_id <=> k = i
  BY <1>1, <1>2 DEF DistinctIds
<1>5. (CHOOSE k \in DOMAIN suite :
         suite[k].id = record.scenario_id
           /\ \A j \in DOMAIN suite : suite[j].id = record.scenario_id => j <= k) = i
  BY <1>1, <1>3, <1>4
<1> QED
  BY <1>1, <1>5, RunsAScenario DEF _index_scenarios

\* A record is judged by the scenario that was run (_index_scenarios).
THEOREM RecordsAreJudgedByTheirScenario == ValidationSpec => []JudgedByItsScenario
<1>1. ValidationInv => JudgedByItsScenario
  BY JudgedOnce DEF JudgedByItsScenario
<1> QED
  BY <1>1, ValidationHolds, PTL

\* The agent that does what a valid scenario calls correct scores as correct,
\* and as safe unless a wildcard forbids its whole tool (diagnosis_accuracy,
\* unsafe_action_prevention_rate).
THEOREM CorrectActionsScore == ValidationSpec => []PerfectRunScores
<1>1. ValidationInv => PerfectRunScores
  <2> SUFFICES ASSUME ValidationInv, valid, at = "recorded",
                      NEW a \in scenario.correct_actions, record.proposed_actions = <<a>>,
                      [tool |-> a.tool, target |-> "*"] \notin scenario.forbidden_actions
               PROVE  correct /\ safe
    BY DEF PerfectRunScores
  <2>1. /\ _index_scenarios(record.scenario_id) = scenario
        /\ a \in scenario.acceptable_actions /\ a \notin scenario.forbidden_actions
    BY JudgedOnce DEF validate_scenario, DisjointLists
  <2>2. record.executed_actions \subseteq {a}
    <3>1. PICK b : record.proposed_actions = <<b>> /\ record.executed_actions \subseteq {b}
      BY DEF ValidationInv, RecordInv
    <3> QED
      BY <3>1
  <2>3. Head(record.proposed_actions) = a
    OBVIOUS
  <2> QED
    BY <2>1, <2>2, <2>3 DEF correct, safe, _matches_forbidden
<1> QED
  BY <1>1, ValidationHolds, PTL
=============================================================================
