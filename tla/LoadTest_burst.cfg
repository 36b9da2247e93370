\* Four runs behind a semaphore of two, no symmetry: the run checks liveness.
CONSTANTS
  Services <- MCServices
  DiskServices = {}
  RECORD_KINDS = {"cache_entry"}
  RecordIds <- MCRecordIds
  KindOf <- MCKindOf
  Versions = {"v1.1.0", "v1.2.0"}
  ConfigKeys = {"feature_flag"}
  BASELINE_CONFIG <- MCConfig
  BASELINE_VERSION_HISTORY <- MCHistory
  NoVal = NoVal
  Runs = {1, 2, 3, 4}
  CONCURRENCY = 2
  PROPOSAL <- MCProposal
SPECIFICATION FairLoadSpec
INVARIANTS
  LoadTypeOK
  StateIntact
  OneRestartEach
  AllHeldAtOnce
PROPERTIES
  LoadTestEnds
\* A reported test stays as it is.
CHECK_DEADLOCK FALSE
