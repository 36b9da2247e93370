\* One trial of each kill point, on services restarted by the trial before.
CONSTANTS
  Services <- MCServices
  DiskServices <- MCDiskServices
  RECORD_KINDS = {"cache_entry"}
  RecordIds <- MCRecordIds
  KindOf <- MCKindOf
  Versions = {"v1.1.0", "v1.2.0"}
  ConfigKeys = {"log_level"}
  BASELINE_CONFIG <- MCConfig
  BASELINE_VERSION_HISTORY <- MCHistory
  NoVal = NoVal
  Proposals <- MCProposals
  Edits = {}
  FaultLevels = {}
  MAX_REPLAN_CYCLES = 2
  REVALIDATE = TRUE
  DURABLE_LEDGER = TRUE
  InitialWorld <- MCRestarted
  MaxCrashes = 1
  MaxDrifts = 0
  MaxStarts = 2
SPECIFICATION ChaosSpec
INVARIANT TrialsPass
\* A trial that was judged is over.
CHECK_DEADLOCK FALSE
