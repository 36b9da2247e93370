\* Two modes, two scenarios, selections that overlap, one torn line.
CONSTANTS
  NoVal = NoVal
  Scenarios = {s1, s2}
  Stale = {s1}
  Modes = {"full", "no_revalidation"}
  Drifted <- MCDrifted
  Launches <- MCLaunches
  MaxTorn = 1
SPECIFICATION FairSpec
INVARIANTS
  NoScenarioTwice
  MirrorLacksOnlyTorn
PROPERTIES
  ResumeLosesNothing
  SummaryIsOfTheFiles
  PatientSuiteEnds
