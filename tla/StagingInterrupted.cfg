SPECIFICATION FairSpec
CONSTANTS
  app = app
  sync = sync
  timer = timer
  Units = {app, sync, timer}
  Timers = {timer}
  MaxEvents = 0
  MaxMishaps = 2
  Trigger <- MCTrigger
PROPERTY InterruptedStagingResumed
