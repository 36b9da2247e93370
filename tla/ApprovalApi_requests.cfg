\* Three requests over one run of a gated and an ungated action, one kill.
CONSTANTS
  NoVal = NoVal
  Requests = {r1, r2, r3}
  Actions = {gated, low}
  GatedActions = {gated}
  MAX_REPLAN_CYCLES = 2
  MaxKills = 1
SPECIFICATION FairSpec
INVARIANTS
  ApiTypeOK
  DuplicateOnlyIfRacedOrTorn
  QueueIsTrue
PROPERTIES
  EveryCallReplies
\* When every request has been answered nothing is left to do.
CHECK_DEADLOCK FALSE
