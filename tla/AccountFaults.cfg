SPECIFICATION FairSpec
CONSTANTS
  None = "none"
  Passwords = {"old", "new"}
  MaxRotations = 2
  MaxEdits = 2
  MaxFaults = 2
INVARIANT FingerprintTrue
INVARIANT PolicyUnlessBrokenOff
PROPERTY BootstrapKeeps
PROPERTY Idempotent
PROPERTY Converges
PROPERTY OwnSignInKept
