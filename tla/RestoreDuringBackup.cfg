SPECIFICATION RestoreSpec
CONSTANTS
  app = app
  sync = sync
  timer = timer
  Units = {app, sync, timer}
  Timers = {timer}
  MaxEvents = 0
  MaxMishaps = 0
  Trigger <- MCTrigger
INVARIANT NoWriterDuringRestore
