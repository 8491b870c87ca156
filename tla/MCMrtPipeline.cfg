CONSTANTS
  MaxRuns = 3
  MaxDeaths = 1
  Configs <- MCConfigs
SPECIFICATION Spec
INVARIANTS OutputsAgree FailsOnlyThere
PROPERTY StartKept
