SPECIFICATION FairSpec
CONSTANTS
  movies = movies
  music = music
  p1 = p1
  p2 = p2
  p3 = p3
  Names = {movies}
  Paths = {p1, p2, p3}
  Declared <- MCDeclared
  Extras = {0, 1}
  MaxEdits = 1
  MaxFaults = 2
INVARIANT CoveredThroughOneRefusal
PROPERTY UndoneAsFound
PROPERTY ExtraKept
PROPERTY BootstrapKeeps
PROPERTY Idempotent
PROPERTY Converges
