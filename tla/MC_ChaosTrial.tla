--------------------------- MODULE MC_ChaosTrial ---------------------------
(***************************************************************************)
(* The instance of ChaosTrial for TLC: the two services its trials act on, *)
(* as the trial before left them.                                          *)
(***************************************************************************)
EXTENDS ChaosTrial

MCServices     == {"service_a", "service_c"}
MCDiskServices == {"service_c"}
MCRecordIds    == {6}
MCKindOf       == [r \in {6} |-> "cache_entry"]
MCConfig       == [k \in {"log_level"} |-> "base"]
MCHistory      == <<"v1.1.0", "v1.2.0">>

MCProposals ==
  {[action     |-> [tool |-> "restart_service", target |-> s],
    parameters |-> [replicas |-> NoVal, key |-> NoVal, ids |-> NoVal]] : s \in MCServices}

MCRestarted ==
  [services |-> [s \in Services |-> restart(Baseline)], records |-> RecordIds]
=============================================================================
