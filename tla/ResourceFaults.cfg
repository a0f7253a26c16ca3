SPECIFICATION FairSpec
CONSTANTS
  MaxId = 5
  MaxEdits = 1
  MaxFaults = 2
PROPERTY OthersKept
PROPERTY NoDuplicate
PROPERTY BootstrapKeeps
PROPERTY SetupComplete
PROPERTY Idempotent
PROPERTY Converges
