\* Ledger, rollback, budget, audit chain and the end of a run that is kept being
\* resumed, under two kills and a restart.
CONSTANTS
  Services <- MCServices
  DiskServices <- MCServices
  RECORD_KINDS <- MCKinds
  RecordIds <- MCRecordIds
  KindOf <- MCKindOf
  Versions <- MCVersions
  ConfigKeys <- MCTwoKeys
  BASELINE_CONFIG <- MCTwoConfig
  BASELINE_VERSION_HISTORY <- MCHistory
  NoVal = NoVal
  Proposals <- MCLedgerProposals
  Edits <- MCLedgerEdits
  FaultLevels = {"severe"}
  MAX_REPLAN_CYCLES = 2
  REVALIDATE = TRUE
  DURABLE_LEDGER = TRUE
  InitialWorld <- MCLoaded
  MaxCrashes = 2
  MaxDrifts = 0
  MaxStarts = 2
SPECIFICATION DrivenSpec
INVARIANTS
  DuplicateOnlyIfTorn
  LedgerIsTrue
  EveryFailureUndone
  ReplanBudget
  GapOnlyIfTorn
  OnlySuccessLeavesATrace
PROPERTIES
  DrivenRunsEnd
\* A run that has ended, or that waits for a decision, may stay as it is.
CHECK_DEADLOCK FALSE
