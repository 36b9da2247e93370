\* A reviewer's approval applies to an action nobody showed them.
CONSTANTS
  NoVal = NoVal
  Requests = {r1, r2, r3}
  Actions = {a, b}
  GatedActions = {a, b}
  MAX_REPLAN_CYCLES = 2
  MaxKills = 0
SPECIFICATION Spec
PROPERTIES
  ApprovedAsShown
\* When every request has been answered nothing is left to do.
CHECK_DEADLOCK FALSE
