\* The approval gate, in memory: one call cut off, one change of the sandbox, one
\* restart.
CONSTANTS
  Services <- MCServices
  DiskServices <- MCServices
  RECORD_KINDS <- MCKinds
  RecordIds <- MCRecordIds
  KindOf <- MCKindOf
  Versions <- MCVersions
  ConfigKeys <- MCConfigKeys
  BASELINE_CONFIG <- MCConfig
  BASELINE_VERSION_HISTORY <- MCHistory
  NoVal = NoVal
  Proposals <- MCGateProposals
  Edits <- MCGateEdits
  FaultLevels = {"severe"}
  MAX_REPLAN_CYCLES = 2
  REVALIDATE = TRUE
  DURABLE_LEDGER = FALSE
  InitialWorld <- MCLoaded
  MaxCrashes = 1
  MaxDrifts = 1
  MaxStarts = 2
SPECIFICATION Spec
INVARIANTS
  TypeOK
  CompletedMeansDone
PROPERTIES
  HumanGate
  NoUnseenDrift
  FollowsLifecycle
  ReasonIsOfThisCycle
  DrivesAreBounded
\* A run that has ended, or that waits for a decision, may stay as it is.
CHECK_DEADLOCK FALSE
