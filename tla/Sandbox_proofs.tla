--------------------------- MODULE Sandbox_proofs ---------------------------
(***************************************************************************)
(* What the pure operators of the sandbox return and preserve: sweeps,     *)
(* endpoints, tools, compensations, fingerprints and the risk policy.      *)
(***************************************************************************)
EXTENDS RiskPolicy, Fingerprint, TLAPS

\* A service that runs has a deployed version (ServiceState.deployed_version
\* indexes a history that is never emptied).
LEMMA DeployedVersionType ==
  ASSUME NEW sv \in ServiceState
  PROVE  deployed_version(sv) \in Versions
<1>1. /\ sv.version_history \in Seq(Versions)
      /\ sv.version_history # <<>>
  BY DEF ServiceState
<1>2. Len(sv.version_history) \in 1 .. Len(sv.version_history)
  BY <1>1
<1> QED
  BY <1>1, <1>2 DEF deployed_version

\* The status endpoint answers one of the two statuses the code tells apart.
LEMMA StatusType ==
  ASSUME NEW s, NEW sv
  PROVE  Status(s, sv) \in {"healthy", "unhealthy"}
BY DEF Status

\* A sweep of a well-formed sandbox is a well-formed observation.
LEMMA SweepType ==
  ASSUME NEW w \in World
  PROVE  gather_observations(w) \in Observations
<1>1. ASSUME NEW s \in Services
      PROVE  service_obs(s, w.services[s]) \in ServiceObservation
  <2>1. w.services[s] \in ServiceState
    BY DEF World
  <2>2. deployed_version(w.services[s]) \in Versions
    BY <2>1, DeployedVersionType
  <2>3. Status(s, w.services[s]) \in {"healthy", "unhealthy"}
    BY StatusType
  <2> QED
    BY <2>1, <2>2, <2>3 DEF service_obs, ServiceState, ServiceObservation
<1>2. w.records \in SUBSET RecordIds
  BY DEF World
<1> QED
  BY <1>1, <1>2 DEF gather_observations, Observations

\* Replacing one service of a sandbox keeps it a sandbox.
LEMMA OnServiceType ==
  ASSUME NEW w \in World, NEW s \in Services, NEW sv \in ServiceState
  PROVE  OnService(w, s, sv) \in World
BY DEF OnService, World

\* Every endpoint takes a service state to a service state.
LEMMA EndpointTypes ==
  ASSUME NEW sv \in ServiceState
  PROVE  /\ restart(sv) \in ServiceState
         /\ clean_disk(sv) \in ServiceState
         /\ \A n \in Nat : scale(sv, n) \in ServiceState
         /\ \A k \in ConfigKeys, v \in ConfigValues \cup {NoVal} :
              set_config(sv, k, v) \in ServiceState
         /\ \A v \in Versions : deploy(sv, v) \in ServiceState
         /\ \A level \in Levels : apply_fault(sv, level) \in ServiceState
         /\ \A level \in Levels : apply_disk_fault(sv, level) \in ServiceState
<1>1. restart(sv) \in ServiceState
  <2>1. sv.restart_count + 1 \in Nat
    BY DEF ServiceState
  <2> QED
    BY <2>1 DEF restart, ServiceState, Levels
<1>2. clean_disk(sv) \in ServiceState
  BY DEF clean_disk, ServiceState, Levels
<1>3. \A n \in Nat : scale(sv, n) \in ServiceState
  BY DEF scale, ServiceState
<1>4. \A k \in ConfigKeys, v \in ConfigValues \cup {NoVal} :
         set_config(sv, k, v) \in ServiceState
  BY DEF set_config, ServiceState
<1>5. ASSUME NEW v \in Versions
      PROVE  deploy(sv, v) \in ServiceState
  <2>1. /\ sv.version_history \in Seq(Versions)
        /\ Append(sv.version_history, v) \in Seq(Versions)
        /\ Append(sv.version_history, v) # <<>>
    BY DEF ServiceState
  <2> QED
    BY <2>1 DEF deploy, ServiceState
<1>6. \A level \in Levels : apply_fault(sv, level) \in ServiceState
  BY DEF apply_fault, ServiceState
<1>7. \A level \in Levels : apply_disk_fault(sv, level) \in ServiceState
  BY DEF apply_disk_fault, ServiceState
<1> QED
  BY <1>1, <1>2, <1>3, <1>4, <1>5, <1>6, <1>7

\* A rollback keeps a deployed version only because it is refused on a service
\* with a single release.
LEMMA RollbackType ==
  ASSUME NEW sv \in ServiceState, Len(sv.version_history) >= 2
  PROVE  rollback(sv) \in ServiceState
<1> DEFINE h == sv.version_history
           shorter == SubSeq(h, 1, Len(h) - 1)
<1>1. h \in Seq(Versions)
  BY DEF ServiceState
<1>2. /\ shorter \in Seq(Versions)
      /\ Len(shorter) = Len(h) - 1
  BY <1>1
<1>3. shorter # <<>>
  <2>1. Len(h) \in Nat
    BY <1>1
  <2>2. Len(shorter) # 0
    BY <1>2, <2>1
  <2> HIDE DEF shorter
  <2> QED
    BY <2>2
<1> QED
  BY <1>2, <1>3 DEF rollback, ServiceState, Levels

\* The baseline of a service is a service state.
LEMMA BaselineType == reset \in ServiceState
BY SandboxAssumption DEF reset, Baseline, ServiceState, Levels

-----------------------------------------------------------------------------
(* The tools.                                                              *)

\* What a deletion would delete are rows of the table.
LEMMA RowsType ==
  ASSUME NEW w \in World, NEW a \in Action, NEW p \in Params
  PROVE  RowsToDelete(w, a, p) \in SUBSET RecordIds
BY DEF RowsToDelete, get_by_ids, OfKind, World, Params

\* A service-level tool that the environment accepts names a real service.
LEMMA TargetIsService ==
  ASSUME NEW w \in World, NEW a \in Action, NEW p \in Params,
         a.tool # "delete_records", ~PerformRaises(w, a)
  PROVE  a.target \in Services /\ w.services[a.target] \in ServiceState
BY DEF PerformRaises, World

\* A mutating tool whose call is well formed and accepted leaves a sandbox.
LEMMA PerformType ==
  ASSUME NEW w \in World, NEW a \in Action, NEW p \in Params,
         ~ArgumentMissing(a, p), ~PerformRaises(w, a)
  PROVE  Perform(w, a, p) \in World
<1> DEFINE sv == w.services[a.target]
<1>1. a.tool \in KNOWN_TOOLS
  BY DEF ArgumentMissing
<1>2. CASE a.tool = "delete_records"
  <2>1. w.records \ RowsToDelete(w, a, p) \in SUBSET RecordIds
    BY DEF World
  <2> QED
    BY <1>2, <2>1 DEF Perform, delete, World
<1>3. CASE a.tool # "delete_records"
  <2>0. a.target \in Services /\ sv \in ServiceState
    BY <1>3, TargetIsService
  <2>1. CASE a.tool = "restart_service"
    BY <2>0, <2>1, EndpointTypes, OnServiceType DEF Perform
  <2>2. CASE a.tool = "scale_service"
    <3>1. RequestedReplicas(p) \in Nat
      BY DEF RequestedReplicas, Params
    <3> QED
      BY <2>0, <2>2, <3>1, EndpointTypes, OnServiceType DEF Perform
  <2>3. CASE a.tool = "clear_cache"
    BY <2>0, <2>3, EndpointTypes, OnServiceType DEF Perform
  <2>4. CASE a.tool = "apply_config_change"
    <3>1. p.key \in ConfigKeys
      BY <2>4 DEF ArgumentMissing, Params
    <3>2. set_config(sv, p.key, "new") \in ServiceState
      BY <2>0, <3>1, EndpointTypes DEF ConfigValues
    <3> QED
      BY <2>0, <2>4, <3>2, OnServiceType DEF Perform
  <2>5. CASE a.tool = "rollback_deployment"
    <3>1. Len(sv.version_history) >= 2
      <4>1. sv.version_history \in Seq(Versions)
        BY <2>0 DEF ServiceState
      <4>2. ~(Len(sv.version_history) < 2)
        BY <2>0, <2>5 DEF PerformRaises
      <4> QED
        BY <4>1, <4>2
    <3> QED
      BY <2>0, <2>5, <3>1, RollbackType, OnServiceType DEF Perform
  <2> QED
    BY <1>1, <1>3, <2>1, <2>2, <2>3, <2>4, <2>5 DEF KNOWN_TOOLS
<1> QED
  BY <1>2, <1>3

\* The compensation a tool registers is one apply_compensation knows.
LEMMA CompensationType ==
  ASSUME NEW w \in World, NEW a \in Action, NEW p \in Params,
         ~ArgumentMissing(a, p), ~PerformRaises(w, a)
  PROVE  CompensationOf(w, a, p) \in Compensations
<1> DEFINE sv == w.services[a.target]
<1>1. a.tool \in KNOWN_TOOLS
  BY DEF ArgumentMissing
<1>2. CASE a.tool = "delete_records"
  BY <1>2, RowsType DEF CompensationOf, Compensations
<1>3. CASE a.tool # "delete_records"
  <2>0. a.target \in Services /\ sv \in ServiceState
    BY <1>3, TargetIsService
  <2>1. CASE a.tool \in {"restart_service", "clear_cache"}
    BY <2>1 DEF CompensationOf, Compensations
  <2>2. CASE a.tool = "scale_service"
    <3>1. sv.replicas \in Nat
      BY <2>0 DEF ServiceState
    <3> QED
      BY <2>0, <2>2, <3>1 DEF CompensationOf, Compensations
  <2>3. CASE a.tool = "apply_config_change"
    <3>1. p.key \in ConfigKeys
      BY <2>3 DEF ArgumentMissing, Params
    <3>2. sv.config[p.key] \in ConfigValues \cup {NoVal}
      BY <2>0, <3>1 DEF ServiceState
    <3> QED
      BY <2>0, <2>3, <3>1, <3>2 DEF CompensationOf, Compensations
  <2>4. CASE a.tool = "rollback_deployment"
    BY <2>0, <2>4, DeployedVersionType DEF CompensationOf, Compensations
  <2> QED
    BY <1>1, <1>3, <2>1, <2>2, <2>3, <2>4 DEF KNOWN_TOOLS
<1> QED
  BY <1>2, <1>3

\* What the ledger is given to keep has the ledger's type.
LEMMA OutcomeType ==
  ASSUME NEW w \in World, NEW a \in Action, NEW p \in Params,
         ~ArgumentMissing(a, p), ~PerformRaises(w, a)
  PROVE  OutcomeOf(w, a, p) \in Outcomes
BY RowsType, CompensationType DEF OutcomeOf, Outcomes

\* Applying a compensation leaves a sandbox.
LEMMA UndoType ==
  ASSUME NEW w \in World, NEW c \in Compensations
  PROVE  apply_compensation(w, c) \in World
<1>1. CASE c.type = "noop"
  BY <1>1 DEF apply_compensation
<1>2. CASE c.type = "scale_service"
  <2>1. c.service \in Services /\ c.replicas \in Nat
    BY <1>2 DEF Compensations
  <2>2. w.services[c.service] \in ServiceState
    BY <2>1 DEF World
  <2> QED
    BY <1>2, <2>1, <2>2, EndpointTypes, OnServiceType DEF apply_compensation
<1>3. CASE c.type = "apply_config_change"
  <2>1. c.service \in Services /\ c.key \in ConfigKeys /\ c.value \in ConfigValues \cup {NoVal}
    BY <1>3 DEF Compensations
  <2>2. w.services[c.service] \in ServiceState
    BY <2>1 DEF World
  <2> QED
    BY <1>3, <2>1, <2>2, EndpointTypes, OnServiceType DEF apply_compensation
<1>4. CASE c.type = "deploy"
  <2>1. c.service \in Services /\ c.version \in Versions
    BY <1>4 DEF Compensations
  <2>2. w.services[c.service] \in ServiceState
    BY <2>1 DEF World
  <2> QED
    BY <1>4, <2>1, <2>2, EndpointTypes, OnServiceType DEF apply_compensation
<1>5. CASE c.type = "reinsert_records"
  <2>1. c.rows \in SUBSET RecordIds
    BY <1>5 DEF Compensations
  <2>2. w.records \cup c.rows \in SUBSET RecordIds
    BY <2>1 DEF World
  <2> QED
    BY <1>5, <2>2 DEF apply_compensation, insert_many, World
<1> QED
  BY <1>1, <1>2, <1>3, <1>4, <1>5 DEF Compensations

\* A deploy ends at the version it was asked for, one it was at included.
LEMMA DeployedAfterDeploy ==
  ASSUME NEW sv \in ServiceState, NEW v \in Versions
  PROVE  deployed_version(deploy(sv, v)) = v
<1>1. CASE v = deployed_version(sv)
  BY <1>1 DEF deploy
<1>2. CASE v # deployed_version(sv)
  <2> DEFINE h == sv.version_history
             longer == Append(h, v)
             dv == deploy(sv, v)
  <2>1. h \in Seq(Versions)
    BY DEF ServiceState
  <2>2. dv.version_history = longer
    BY <1>2 DEF deploy, ServiceState
  <2>3. longer[Len(longer)] = v
    BY <2>1
  <2>4. deployed_version(dv) = dv.version_history[Len(dv.version_history)]
    BY DEF deployed_version
  <2> HIDE DEF dv, longer
  <2>5. deployed_version(dv) = v
    BY <2>2, <2>3, <2>4
  <2> QED
    BY <2>5 DEF dv
<1> QED
  BY <1>1, <1>2

\* Applying a compensation twice is applying it once, for every sandbox and
\* every compensation a tool can register: what makes a kill in ROLLING_BACK
\* harmless when nothing else moved meanwhile (ServiceState.deploy skips the
\* version it is at; insert_many skips the rows it finds).
THEOREM CompensationIdempotent ==
  ASSUME NEW w \in World, NEW c \in Compensations
  PROVE  apply_compensation(apply_compensation(w, c), c) = apply_compensation(w, c)
<1>1. CASE c.type = "noop"
  BY <1>1 DEF apply_compensation
<1>2. CASE c.type = "scale_service"
  <2>1. c.service \in Services /\ c.replicas \in Nat
    BY <1>2 DEF Compensations
  <2>2. w.services[c.service] \in ServiceState
    BY <2>1 DEF World
  <2> DEFINE once == scale(w.services[c.service], c.replicas)
  <2>3. scale(once, c.replicas) = once
    BY <2>1, <2>2 DEF scale, ServiceState
  <2>4. apply_compensation(w, c) = OnService(w, c.service, once)
    BY <1>2 DEF apply_compensation
  <2>5. apply_compensation(w, c).services[c.service] = once
    BY <2>1, <2>4 DEF OnService, World
  <2>6. apply_compensation(apply_compensation(w, c), c)
          = OnService(apply_compensation(w, c), c.service, once)
    BY <1>2, <2>3, <2>5 DEF apply_compensation
  <2> HIDE DEF once
  <2> QED
    BY <2>1, <2>4, <2>6 DEF OnService, World
<1>3. CASE c.type = "apply_config_change"
  <2>1. c.service \in Services /\ c.key \in ConfigKeys /\ c.value \in ConfigValues \cup {NoVal}
    BY <1>3 DEF Compensations
  <2>2. w.services[c.service] \in ServiceState
    BY <2>1 DEF World
  <2> DEFINE once == set_config(w.services[c.service], c.key, c.value)
  <2>3. set_config(once, c.key, c.value) = once
    BY <2>1, <2>2 DEF set_config, ServiceState
  <2>4. apply_compensation(w, c) = OnService(w, c.service, once)
    BY <1>3 DEF apply_compensation
  <2>5. apply_compensation(w, c).services[c.service] = once
    BY <2>1, <2>4 DEF OnService, World
  <2>6. apply_compensation(apply_compensation(w, c), c)
          = OnService(apply_compensation(w, c), c.service, once)
    BY <1>3, <2>3, <2>5 DEF apply_compensation
  <2> HIDE DEF once
  <2> QED
    BY <2>1, <2>4, <2>6 DEF OnService, World
<1>4. CASE c.type = "deploy"
  <2> DEFINE sv == w.services[c.service]
  <2>1. c.service \in Services /\ c.version \in Versions
    BY <1>4 DEF Compensations
  <2>2. sv \in ServiceState
    BY <2>1 DEF World
  <2>3. deployed_version(deploy(sv, c.version)) = c.version
    BY <2>1, <2>2, DeployedAfterDeploy
  <2>4. deploy(deploy(sv, c.version), c.version) = deploy(sv, c.version)
    BY <2>3 DEF deploy
  <2>5. apply_compensation(w, c) = OnService(w, c.service, deploy(sv, c.version))
    BY <1>4 DEF apply_compensation
  <2>6. apply_compensation(w, c).services[c.service] = deploy(sv, c.version)
    BY <2>1, <2>5 DEF OnService, World
  <2>7. apply_compensation(apply_compensation(w, c), c)
          = OnService(apply_compensation(w, c), c.service, deploy(sv, c.version))
    BY <1>4, <2>4, <2>6 DEF apply_compensation
  <2> DEFINE once == deploy(sv, c.version)
  <2>8. /\ apply_compensation(w, c) = OnService(w, c.service, once)
        /\ apply_compensation(apply_compensation(w, c), c)
             = OnService(apply_compensation(w, c), c.service, once)
    BY <2>5, <2>7
  <2> HIDE DEF once
  <2> QED
    BY <2>1, <2>8 DEF OnService, World
<1>5. CASE c.type = "reinsert_records"
  BY <1>5 DEF apply_compensation, insert_many, World
<1> QED
  BY <1>1, <1>2, <1>3, <1>4, <1>5 DEF Compensations

-----------------------------------------------------------------------------
(* What a compensation gives back.                                         *)

\* A service set as it was leaves the configuration as it was.
LEMMA SameSetting ==
  ASSUME NEW w \in World, NEW s \in Services, NEW sv, Setting(sv) = Setting(w.services[s])
  PROVE  Configuration(OnService(w, s, sv)) = Configuration(w)
<1> DEFINE v == OnService(w, s, sv)
<1>1. v.records = w.records
  BY DEF OnService, World
<1>2. \A t \in Services : Setting(v.services[t]) = Setting(w.services[t])
  <2> SUFFICES ASSUME NEW t \in Services
               PROVE  Setting(v.services[t]) = Setting(w.services[t])
    OBVIOUS
  <2>1. v.services[t] = IF t = s THEN sv ELSE w.services[t]
    BY DEF OnService, World
  <2> QED
    BY <2>1
<1> HIDE DEF v
<1>3. Configuration(v) = Configuration(w)
  BY <1>1, <1>2 DEF Configuration
<1> QED
  BY <1>3 DEF v

\* The service acted on, alone, is what the second call finds.
LEMMA ActedTwice ==
  ASSUME NEW w \in World, NEW s \in Services, NEW x, NEW y
  PROVE  /\ OnService(w, s, x).services[s] = x
         /\ OnService(OnService(w, s, x), s, y) = OnService(w, s, y)
BY DEF OnService, World

\* A tool's compensation gives back what the tool changed, for every sandbox,
\* every action and every parameters the service accepts: the rows, and the
\* replicas, the settings and the release of every service (each compensation
\* is built from what the tool found: tools/mutating.py).
THEOREM CompensationRestores ==
  ASSUME NEW w \in World, NEW a \in Action, NEW p \in Params,
         ~ArgumentMissing(a, p), ~PerformRaises(w, a)
  PROVE  Configuration(apply_compensation(Perform(w, a, p), CompensationOf(w, a, p)))
           = Configuration(w)
<1> DEFINE s == a.target
           sv == w.services[s]
           c == CompensationOf(w, a, p)
<1>1. a.tool \in KNOWN_TOOLS
  BY DEF ArgumentMissing
<1>2. CASE a.tool = "delete_records"
  <2> DEFINE rows == RowsToDelete(w, a, p)
  <2>1. Perform(w, a, p) = delete(w, rows) /\ c = [type |-> "reinsert_records", rows |-> rows]
    BY <1>2 DEF Perform, CompensationOf
  <2>2. rows \subseteq w.records
    BY DEF RowsToDelete, OfKind, get_by_ids
  <2> HIDE DEF rows
  <2>3. apply_compensation(delete(w, rows), [type |-> "reinsert_records", rows |-> rows])
          = insert_many(delete(w, rows), rows)
    BY DEF apply_compensation
  <2>4. insert_many(delete(w, rows), rows) = w
    BY <2>2 DEF insert_many, delete, World
  <2> QED
    BY <2>1, <2>3, <2>4
<1>3. CASE a.tool # "delete_records"
  <2>0. s \in Services /\ sv \in ServiceState
    BY <1>3, TargetIsService
  <2>1. CASE a.tool = "restart_service"
    <3>1. Perform(w, a, p) = OnService(w, s, restart(sv)) /\ c = [type |-> "noop"]
      BY <2>1 DEF Perform, CompensationOf
    <3>2. apply_compensation(OnService(w, s, restart(sv)), [type |-> "noop"])
            = OnService(w, s, restart(sv))
      BY DEF apply_compensation
    <3>3. Setting(restart(sv)) = Setting(sv)
      BY <2>0 DEF Setting, restart, ServiceState, deployed_version
    <3> QED
      BY <2>0, <3>1, <3>2, <3>3, SameSetting
  <2>2. CASE a.tool = "clear_cache"
    <3>1. Perform(w, a, p) = OnService(w, s, clean_disk(sv)) /\ c = [type |-> "noop"]
      BY <2>2 DEF Perform, CompensationOf
    <3>2. apply_compensation(OnService(w, s, clean_disk(sv)), [type |-> "noop"])
            = OnService(w, s, clean_disk(sv))
      BY DEF apply_compensation
    <3>3. Setting(clean_disk(sv)) = Setting(sv)
      BY <2>0 DEF Setting, clean_disk, ServiceState, deployed_version
    <3> QED
      BY <2>0, <3>1, <3>2, <3>3, SameSetting
  <2>3. CASE a.tool = "scale_service"
    <3> DEFINE new == scale(sv, RequestedReplicas(p))
    <3>1. Perform(w, a, p) = OnService(w, s, new)
      BY <2>3 DEF Perform
    <3>2. c = [type |-> "scale_service", service |-> s, replicas |-> sv.replicas]
      BY <2>3 DEF CompensationOf
    <3>3. Setting(scale(new, sv.replicas)) = Setting(sv)
      BY <2>0 DEF Setting, scale, ServiceState, deployed_version
    <3> HIDE DEF new
    <3>4. apply_compensation(OnService(w, s, new), c)
            = OnService(OnService(w, s, new), s, scale(OnService(w, s, new).services[s], sv.replicas))
      BY <3>2 DEF apply_compensation
    <3>5. apply_compensation(OnService(w, s, new), c) = OnService(w, s, scale(new, sv.replicas))
      BY <2>0, <3>4, ActedTwice
    <3> QED
      BY <2>0, <3>1, <3>3, <3>5, SameSetting
  <2>4. CASE a.tool = "apply_config_change"
    <3> DEFINE new == set_config(sv, p.key, "new")
               old == sv.config[p.key]
    <3>0. p.key \in ConfigKeys
      BY <2>4 DEF ArgumentMissing, Params
    <3>1. Perform(w, a, p) = OnService(w, s, new)
      BY <2>4 DEF Perform
    <3>2. c = [type |-> "apply_config_change", service |-> s, key |-> p.key, value |-> old]
      BY <2>4 DEF CompensationOf
    <3>3. Setting(set_config(new, p.key, old)) = Setting(sv)
      BY <2>0, <3>0 DEF Setting, set_config, ServiceState, deployed_version
    <3> HIDE DEF new, old
    <3>4. apply_compensation(OnService(w, s, new), c)
            = OnService(OnService(w, s, new), s, set_config(OnService(w, s, new).services[s], p.key, old))
      BY <3>2 DEF apply_compensation
    <3>5. apply_compensation(OnService(w, s, new), c) = OnService(w, s, set_config(new, p.key, old))
      BY <2>0, <3>4, ActedTwice
    <3> QED
      BY <2>0, <3>1, <3>3, <3>5, SameSetting
  <2>5. CASE a.tool = "rollback_deployment"
    <3> DEFINE new == rollback(sv)
               was == deployed_version(sv)
    <3>0. new \in ServiceState /\ was \in Versions
      BY <2>0, <2>5, RollbackType, DeployedVersionType DEF PerformRaises
    <3>1. Perform(w, a, p) = OnService(w, s, new)
      BY <2>5 DEF Perform
    <3>2. c = [type |-> "deploy", service |-> s, version |-> was]
      BY <2>5 DEF CompensationOf
    <3>3. deploy(new, was).replicas = sv.replicas /\ deploy(new, was).config = sv.config
      BY <2>0 DEF deploy, rollback, ServiceState
    <3>4. deployed_version(deploy(new, was)) = was
      BY <3>0, DeployedAfterDeploy
    <3>5. Setting(deploy(new, was)) = Setting(sv)
      BY <3>3, <3>4 DEF Setting
    <3> HIDE DEF new, was
    <3>6. apply_compensation(OnService(w, s, new), c)
            = OnService(OnService(w, s, new), s, deploy(OnService(w, s, new).services[s], was))
      BY <3>2 DEF apply_compensation
    <3>7. apply_compensation(OnService(w, s, new), c) = OnService(w, s, deploy(new, was))
      BY <2>0, <3>6, ActedTwice
    <3> QED
      BY <2>0, <3>1, <3>5, <3>7, SameSetting
  <2> QED
    BY <1>1, <1>3, <2>1, <2>2, <2>3, <2>4, <2>5 DEF KNOWN_TOOLS
<1> QED
  BY <1>2, <1>3

\* It asks for nothing but what the tool found.
LEMMA CompensationAsks ==
  ASSUME NEW w \in World, NEW a \in Action, NEW p \in Params,
         ~ArgumentMissing(a, p), ~PerformRaises(w, a)
  PROVE  AsksFor(CompensationOf(w, a, p), Configuration(w))
<1> DEFINE c == CompensationOf(w, a, p)
<1>1. CASE a.tool = "delete_records"
  <2>1. c = [type |-> "reinsert_records", rows |-> RowsToDelete(w, a, p)]
    BY <1>1 DEF CompensationOf
  <2> QED
    BY <2>1 DEF AsksFor, Configuration, RowsToDelete, OfKind, get_by_ids
<1>2. CASE a.tool # "delete_records"
  <2>1. a.target \in Services
    BY <1>2, TargetIsService
  <2>2. Configuration(w).services[a.target] = Setting(w.services[a.target])
    BY <2>1 DEF Configuration
  <2>3. a.tool \in KNOWN_TOOLS \ {"delete_records"}
    BY <1>2 DEF ArgumentMissing
  <2> QED
    BY <2>2, <2>3 DEF AsksFor, Setting, CompensationOf, KNOWN_TOOLS
<1> QED
  BY <1>1, <1>2

\* Where a configuration has all it asks for, a compensation changes nothing.
LEMMA NothingToGiveBack ==
  ASSUME NEW w \in World, NEW c \in Compensations, AsksFor(c, Configuration(w))
  PROVE  Configuration(apply_compensation(w, c)) = Configuration(w)
<1>1. CASE c.type = "noop"
  BY <1>1 DEF apply_compensation
<1>2. CASE c.type \in {"scale_service", "apply_config_change", "deploy"}
  <2> DEFINE sv == w.services[c.service]
  <2>1. c.service \in Services /\ sv \in ServiceState
    BY <1>2 DEF Compensations, World
  <2>2. Configuration(w).services[c.service] = Setting(sv)
    BY <2>1 DEF Configuration
  <2>3. CASE c.type = "scale_service"
    <3>1. c.replicas = sv.replicas
      BY <2>2, <2>3 DEF AsksFor, Setting
    <3>2. Setting(scale(sv, c.replicas)) = Setting(sv)
      BY <2>1, <3>1 DEF Setting, scale, ServiceState, deployed_version
    <3> QED
      BY <2>1, <2>3, <3>2, SameSetting DEF apply_compensation
  <2>4. CASE c.type = "apply_config_change"
    <3>1. c.value = sv.config[c.key] /\ c.key \in ConfigKeys
      BY <2>2, <2>4 DEF AsksFor, Setting, Compensations
    <3>2. Setting(set_config(sv, c.key, c.value)) = Setting(sv)
      BY <2>1, <3>1 DEF Setting, set_config, ServiceState, deployed_version
    <3> QED
      BY <2>1, <2>4, <3>2, SameSetting DEF apply_compensation
  <2>5. CASE c.type = "deploy"
    <3>1. c.version = deployed_version(sv)
      BY <2>2, <2>5 DEF AsksFor, Setting
    <3>2. Setting(deploy(sv, c.version)) = Setting(sv)
      BY <3>1 DEF deploy
    <3> QED
      BY <2>1, <2>5, <3>2, SameSetting DEF apply_compensation
  <2> QED
    BY <1>2, <2>3, <2>4, <2>5
<1>3. CASE c.type = "reinsert_records"
  <2>1. c.rows \subseteq w.records
    BY <1>3 DEF AsksFor, Configuration
  <2> QED
    BY <1>3, <2>1 DEF apply_compensation, insert_many, World
<1> QED
  BY <1>1, <1>2, <1>3 DEF Compensations

-----------------------------------------------------------------------------
(* Fingerprints and the risk policy.                                       *)

\* What validate_proposal accepts, compute_fingerprint can fingerprint.
LEMMA ValidMeansFingerprintable ==
  ASSUME NEW a \in Action, validate_proposal(a)
  PROVE  ~FingerprintRaises(a)
BY DEF validate_proposal, FingerprintRaises

\* A fingerprint that does not raise is a fingerprint.
LEMMA FingerprintType ==
  ASSUME NEW obs \in Observations, NEW a \in Action, ~FingerprintRaises(a)
  PROVE  compute_fingerprint(obs, a) \in Fingerprints
<1>1. CASE a.tool = "delete_records"
  <2>1. a.target \in Targets /\ OfKind(obs.records, a.target) \in SUBSET RecordIds
    BY DEF OfKind, Observations, Action
  <2> QED
    BY <1>1, <2>1 DEF compute_fingerprint, relevant_fields, Fingerprints
<1>2. CASE a.tool # "delete_records"
  <2>1. obs.services[a.target] \in ServiceObservation
    BY <1>2 DEF FingerprintRaises, Observations
  <2>2. a.tool \in KNOWN_TOOLS
    BY DEF FingerprintRaises
  <2> QED
    BY <1>2, <2>1, <2>2 DEF compute_fingerprint, relevant_fields, Fingerprints,
       ServiceObservation, KNOWN_TOOLS, HealthStatus
<1> QED
  BY <1>1, <1>2

\* The policy returns a tier, and "low" never for a tool forced high.
LEMMA PolicyTier ==
  ASSUME NEW tool, NEW tier \in RiskTiers, NEW situational
  PROVE  /\ apply_policy(tool, tier, situational) \in RiskTiers
         /\ apply_policy(tool, tier, situational) = "low" => tool \notin FORCED_HIGH_TOOLS
BY DEF apply_policy, RiskTiers
=============================================================================
