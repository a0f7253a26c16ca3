SPECIFICATION FairSpec
CONSTANTS
  i1 = i1
  i2 = i2
  a1 = a1
  Indexers = {i1, i2}
  Selected = {i1}
  Actions = {a1}
  Enabled = TRUE
  MaxEdits = 1
  MaxFaults = 2
INVARIANT NoHalfChangedFilterLive
PROPERTY FailedUpdateDisables
PROPERTY IndexersKept
PROPERTY BootstrapKeeps
PROPERTY Idempotent
PROPERTY Converges
