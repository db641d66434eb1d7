\* Two tabs and an iframe with two sessions between them: a target with two
\* sessions, a tab to fall back on, two recoveries that meet.
CONSTANTS
  Targets = {p1, p2, f1}
  Pages = {p1, p2}
  Sessions = {s1, s2}
  Recoveries = {1, 2}
  NoTarget = NoTarget
SPECIFICATION FairSpec
INVARIANTS TypeOK PoolConsistent FocusInPool
PROPERTIES RecoveryEnds AttachedSessionsRegistered
\* The browser may run out of targets and sessions.
CHECK_DEADLOCK FALSE
