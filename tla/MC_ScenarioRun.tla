--------------------------- MODULE MC_ScenarioRun ---------------------------
(***************************************************************************)
(* Instances of ScenarioRun for TLC: the sandbox of one service with both  *)
(* faults, and the kinds of changes of data/scenarios.json, the lists of   *)
(* two included, and one that rolls back more often than it can.           *)
(***************************************************************************)
EXTENDS ScenarioRun

MCServices     == {"service_c"}
MCKinds        == {"cache_entry"}
MCRecordIds    == {6}
MCKindOf       == [r \in {6} |-> "cache_entry"]
MCVersions     == {"v1.1.0", "v1.2.0"}
MCConfigKeys   == {"feature_flag"}
MCConfig       == [k \in {"feature_flag"} |-> NoVal]
MCHistory      == <<"v1.1.0", "v1.2.0">>

MCBothFaults ==
  [services |-> [s \in Services |-> [Baseline EXCEPT !.load = "severe", !.disk = "severe"]],
   records  |-> RecordIds]

Plain(tool, target) ==
  [action     |-> [tool |-> tool, target |-> target],
   parameters |-> [replicas |-> NoVal, key |-> NoVal, ids |-> NoVal]]

MCProposals == {Plain("restart_service", "service_c"), Plain("clear_cache", "service_c"),
                Plain("delete_records", "cache_entry"),
                Plain("rollback_deployment", "service_c")}

\* ... and one the agent refuses: its target is unknown.
MCUngrounded == MCProposals \cup {Plain("clear_cache", "unknown_target")}

Change(action, on) == [action |-> action, on |-> on]

MCInjections ==
  {<<>>,
   <<Change("reset", "service_c")>>,
   <<Change("rollback", "service_c")>>,
   <<Change("delete_records", "cache_entry")>>,
   <<Change("reset", "service_c"), Change("disk_full", "service_c")>>,
   <<Change("rollback", "service_c"), Change("rollback", "service_c")>>,
   <<Change("inject_fault", "service_c")>>}
=============================================================================
