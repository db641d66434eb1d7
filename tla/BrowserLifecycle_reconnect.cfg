\* One task starts, stops and starts again.
CONSTANTS
  Callers = {c1}
  Nobody = Nobody
  KeepAlive = FALSE
  MaxRetries = 2
  MaxCalls = 3
  MaxLaunches = 2
SPECIFICATION Spec
PROPERTY StartIsHeard
\* Nobody has to make another call.
CHECK_DEADLOCK FALSE
