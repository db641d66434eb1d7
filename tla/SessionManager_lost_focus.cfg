\* The new focus is lost while its recovery awaits activateTarget.
CONSTANTS
  Targets = {p1, p2}
  Pages = {p1, p2}
  Sessions = {s1, s2, s3}
  Recoveries = {1, 2}
  NoTarget = NoTarget
SPECIFICATION Spec
PROPERTIES LossIsRecovered
\* The browser may run out of targets and sessions.
CHECK_DEADLOCK FALSE
