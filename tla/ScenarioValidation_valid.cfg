\* The suites the validator lets through.
CONSTANTS
  Services <- MCServices
  DiskServices <- MCDisks
  RECORD_KINDS = {"cache_entry"}
  RecordIds <- MCRecordIds
  KindOf <- MCKindOf
  Versions = {"v1.1.0", "v1.2.0"}
  ConfigKeys = {"feature_flag"}
  BASELINE_CONFIG <- MCConfig
  BASELINE_VERSION_HISTORY <- MCHistory
  NoVal = NoVal
  Suites <- MCSuites
  REQUIRED_COVERAGE <- MCCoverage
SPECIFICATION ValidationSpec
INVARIANTS
  ValidScenariosRun
  PerfectRunScores
  JudgedByItsScenario
\* A scenario that was run, or raised, is over.
CHECK_DEADLOCK FALSE
