SPECIFICATION FairSpec
CONSTANTS
  app = app
  sync = sync
  timer = timer
  Units = {app, sync, timer}
  Timers = {timer}
  MaxEvents = 2
  MaxMishaps = 3
  Trigger <- MCTrigger
PROPERTY KeepsWindow
PROPERTY ForeignKept
PROPERTY DownOnlyIfUnclaimable
PROPERTY BackupsGoOn
