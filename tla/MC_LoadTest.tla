----------------------------- MODULE MC_LoadTest -----------------------------
(***************************************************************************)
(* An instance of LoadTest for TLC: four runs, a semaphore of two.         *)
(***************************************************************************)
EXTENDS LoadTest

MCServices     == {"service_a"}
MCRecordIds    == {6}
MCKindOf       == [r \in {6} |-> "cache_entry"]
MCConfig       == [k \in {"feature_flag"} |-> NoVal]
MCHistory      == <<"v1.1.0", "v1.2.0">>
MCProposal     == [tool |-> "restart_service", target |-> "service_a"]
=============================================================================
