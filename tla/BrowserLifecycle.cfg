\* Two tasks make three calls that overlap or follow one another; two browser
\* processes, two attempts to launch one.
CONSTANTS
  Callers = {c1, c2}
  Nobody = Nobody
  KeepAlive = TRUE
  MaxRetries = 2
  MaxCalls = 3
  MaxLaunches = 2
SPECIFICATION FairSpec
INVARIANTS TypeOK OneWebsocket ConnectedToKnownBrowser ProfileRestored
PROPERTIES OnlyTheseBrowsersLost CallsReturn
\* Nobody has to make another call.
CHECK_DEADLOCK FALSE
