\* Pause while the browser starts, before the initial action.
CONSTANTS
  MaxSteps = 2
  MaxFailures = 1
  FinalResponse = TRUE
  MaxActions = 1
  Personalization = FALSE
  InitialActions = TRUE
  Callbacks = FALSE
  MaxTasks = 1
  MaxPauses = 1
  MaxInterrupts = 0
SPECIFICATION Spec
INVARIANT InterruptNeverCrashesRun
\* An agent without a further task or a call on it stops.
CHECK_DEADLOCK FALSE
