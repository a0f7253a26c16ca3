SPECIFICATION RestoreSpec
CONSTANTS
  app = app
  sync = sync
  timer = timer
  Units = {app, sync, timer}
  Timers = {timer}
  MaxEvents = 2
  MaxMishaps = 2
  Trigger <- MCTrigger
INVARIANT RestoreAlone
