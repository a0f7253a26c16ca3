SPECIFICATION FairHealthSpec
CONSTANTS
  t1 = t1
  Torrents = {t1}
  Queue = queue
  Clients = {"qbittorrent", "sabnzbd"}
  Capacity = 2
  PauseBytes = 1
  ResumeBytes = 2
  UserDuringPressure = TRUE
  MaxMoves = 1
  MaxAge = 0
  MaxApiFaults = 1
  MaxCrashes = 1
INVARIANT RestingHealthTellsPressure
PROPERTY ShortSpaceHolds
PROPERTY RoomReleases
