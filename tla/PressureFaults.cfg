SPECIFICATION Spec
SYMMETRY TorrentSymmetry
CONSTANTS
  t1 = t1
  t2 = t2
  Torrents = {t1, t2}
  Queue = queue
  Clients = {"qbittorrent", "sabnzbd"}
  Capacity = 2
  PauseBytes = 1
  ResumeBytes = 2
  UserDuringPressure = TRUE
  MaxMoves = 2
  MaxApiFaults = 1
  MaxCrashes = 1
INVARIANT HeldIsOwned
PROPERTY UncertainPauseNotResumed
PROPERTY UserStopKept
PROPERTY NoToggling
PROPERTY KeepsContract
