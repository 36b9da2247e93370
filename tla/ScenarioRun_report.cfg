\* One scenario of the suite, with revalidation on.
CONSTANTS
  Services <- MCServices
  DiskServices <- MCServices
  RECORD_KINDS <- MCKinds
  RecordIds <- MCRecordIds
  KindOf <- MCKindOf
  Versions <- MCVersions
  ConfigKeys <- MCConfigKeys
  BASELINE_CONFIG <- MCConfig
  BASELINE_VERSION_HISTORY <- MCHistory
  NoVal = NoVal
  Proposals <- MCUngrounded
  Edits = {}
  FaultLevels = {"severe"}
  MAX_REPLAN_CYCLES = 3
  REVALIDATE = TRUE
  DURABLE_LEDGER = FALSE
  InitialWorld <- MCBothFaults
  MaxCrashes = 0
  MaxDrifts = 0
  MaxStarts = 1
  StalenessInjections <- MCInjections
SPECIFICATION ScenarioSpec
INVARIANTS
  ReportIsTrue
  GateIsCompliant
  DriftIsReported
  NothingExecutedBlindly
  LogReplays
  TierIsOfItsTool
  CostIsLogged
PROPERTIES
  ScenariosEnd
\* A harness that has finished, or raised, stays as it is.
CHECK_DEADLOCK FALSE
