\* Three tasks with an initial action, memory retrieval and status callbacks,
\* paused and stopped at any await.
CONSTANTS
  MaxSteps = 3
  MaxFailures = 1
  FinalResponse = TRUE
  MaxActions = 2
  Personalization = TRUE
  InitialActions = TRUE
  Callbacks = TRUE
  MaxTasks = 3
  MaxPauses = 1
  MaxInterrupts = 1
SPECIFICATION FairSpec
INVARIANTS TypeOK FailureBound StepsRecordedInOrder DoneOnlyExact DoneEndsRun
  ActsOnFreshOutput
PROPERTIES ResultsGivenUp RepeatedOnlyWithoutAnswer
  RunEnds StopEndsRunUnlessPaused
\* An agent without a further task or a call on it stops.
CHECK_DEADLOCK FALSE
