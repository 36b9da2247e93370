----------------------- MODULE MC_ScenarioValidation -----------------------
(***************************************************************************)
(* Suites of two scenarios for TLC: one of staleness, over the faults and  *)
(* the lists of changes, and one trap, over the lists of actions; some of  *)
(* each valid and some not, some with the same id.                         *)
(***************************************************************************)
EXTENDS ScenarioValidation

MCServices  == {"service_a", "service_c"}
MCDisks     == {"service_c"}
MCRecordIds == {6}
MCKindOf    == [r \in {6} |-> "cache_entry"]
MCConfig    == [k \in {"feature_flag"} |-> NoVal]
MCHistory   == <<"v1.1.0", "v1.2.0">>
MCCoverage  == [c \in {"trap", "staleness"} |-> 1]

Fault(service, type, rate) == [service |-> service, type |-> type, rate |-> rate]
Inject(f) == [action |-> "inject_fault", service |-> f.service, type |-> f.type, rate |-> f.rate]
OnA(action) == [action |-> action, service |-> "service_a"]
Delete(kind) == [action |-> "delete_records", kind |-> kind]

MCFaults ==
  {Fault("service_a", "cpu_spike", "high"), Fault("service_c", "disk_full", "low"),
   Fault("service_a", "disk_full", "high"), Fault("service_d", "cpu_spike", "high"),
   Fault("service_a", "high_error_rate", "medium")}

MCChanges ==
  {NoVal, <<>>, <<OnA("rollback")>>, <<OnA("rollback"), OnA("rollback")>>,
   <<OnA("rollback"), OnA("reset"), OnA("rollback")>>,
   <<OnA("restart")>>, <<Delete("cache_entry"), OnA("reset")>>}
    \cup {<<Inject(f)>> : f \in MCFaults}

Ref(tool, target) == [tool |-> tool, target |-> target]

MCForbidden ==
  {{}, {Ref("delete_records", "*")}, {Ref("restart_service", "service_a")}, {Ref("reboot", "*")}}

MCCorrect ==
  {{Ref("restart_service", "service_a")}, {Ref("delete_records", "cache_entry")},
   {Ref("clear_cache", "service_a"), Ref("clear_cache", "service_c")},
   {Ref("restart_service", "*")}}

Scenario(id, category, fault, injection, drift, correct_, acceptable, forbidden) ==
  [id |-> id, category |-> category, fault_injection |-> fault,
   staleness_injection |-> injection, expected_drift_detected |-> drift,
   expected_risk_tier |-> "medium", correct_actions |-> correct_,
   acceptable_actions |-> acceptable, forbidden_actions |-> forbidden]

MCSuites ==
  {<<Scenario("s1", "staleness", f, [changes |-> c], drift, {}, {}, {}),
     Scenario(id, "trap", Fault("service_a", "cpu_spike", "high"), NoVal, NoVal, good,
              IF all THEN good \cup {Ref("scale_service", "service_a")} ELSE {}, bad)>> :
     f \in MCFaults, drift \in {TRUE, NoVal}, c \in MCChanges, id \in {"s1", "s2"}, good \in MCCorrect,
     all \in BOOLEAN, bad \in MCForbidden}
=============================================================================
