\* What the documentation says; the counterexample is what the code does.
CONSTANTS
  Services <- MCServices
  DiskServices <- MCServices
  RECORD_KINDS <- MCKinds
  RecordIds <- MCRecordIds
  KindOf <- MCKindOf
  Versions <- MCVersions
  ConfigKeys <- MCConfigKeys
  BASELINE_CONFIG <- MCConfig
  BASELINE_VERSION_HISTORY <- MCHistory
  NoVal = NoVal
  Proposals <- MCFloorProposals
  Edits = {}
  FaultLevels = {"severe"}
  MAX_REPLAN_CYCLES = 3
  REVALIDATE = TRUE
  DURABLE_LEDGER = TRUE
  InitialWorld <- MCDiskFull
  MaxCrashes = 0
  MaxDrifts = 0
  MaxStarts = 1
SPECIFICATION Spec
INVARIANTS
  SecondActionNeverLow
\* A run that has ended, or that waits for a decision, may stay as it is.
CHECK_DEADLOCK FALSE
