--------------------------- MODULE MC_AgentGraph ---------------------------
(***************************************************************************)
(* Instances of AgentGraph for TLC: one service with a disk, one kind of   *)
(* rows, and small menus of proposals and edits.                           *)
(***************************************************************************)
EXTENDS AgentGraphInvariants

MCServices     == {"service_c"}
MCKinds        == {"cache_entry"}
MCRecordIds    == {6}
MCKindOf       == [r \in {6} |-> "cache_entry"]
MCVersions     == {"v1.1.0", "v1.2.0"}
MCConfigKeys   == {"feature_flag"}
MCConfig       == [k \in {"feature_flag"} |-> NoVal]
\* A key without a value, whose change cannot be undone, and one with a value.
MCTwoKeys      == {"feature_flag", "log_level"}
MCTwoConfig    == [k \in MCTwoKeys |-> IF k = "log_level" THEN "base" ELSE NoVal]
MCHistory      == <<"v1.1.0", "v1.2.0">>

Faulty(load, disk) ==
  [services |-> [s \in Services |-> [Baseline EXCEPT !.load = load, !.disk = disk]],
   records  |-> RecordIds]

MCLoaded   == Faulty("severe", "baseline")
MCDiskFull == Faulty("baseline", "severe")

NoParams == [replicas |-> NoVal, key |-> NoVal, ids |-> NoVal]
On(tool, target) == [tool |-> tool, target |-> target]
Plain(tool, target) == [action |-> On(tool, target), parameters |-> NoParams]

Restart  == Plain("restart_service", "service_c")
Clear    == Plain("clear_cache", "service_c")
Scale    == Plain("scale_service", "service_c")
Delete   == Plain("delete_records", "cache_entry")
Rollback == Plain("rollback_deployment", "service_c")
Config   == [Plain("apply_config_change", "service_c")
              EXCEPT !.parameters.key = "feature_flag"]
LogLevel == [Config EXCEPT !.parameters.key = "log_level"]
Ungrounded == Plain("restart_service", "unknown_target")

MCGateProposals == {Restart, Delete, Ungrounded}
MCGateEdits     == {Rollback.action, On("unknown_tool", "service_c")}
MCLedgerProposals == {Rollback, Config, LogLevel}
MCLedgerEdits     == {On("apply_config_change", "service_c"), On("unknown_tool", "service_c")}
MCRepeatProposals == {Restart, Scale}
MCFloorProposals  == {Restart, Clear}
=============================================================================
