SPECIFICATION RSpec
CONSTANTS
  Files <- MCFiles
  Configs <- MCConfigs
  MaxCycles = 3
  Requests = {"r1", "r2"}
INVARIANTS DanglingOnlyWithoutFile LastLocationServed ReloadLosesNothing
 
