\* AgentOccam with a budget of four steps, which is five with the one that is cut
\* off: enough to branch twice, prune and branch again.
SPECIFICATION FairSpec
CONSTANTS
  MaxSteps = 4
  MaxInvalid = 3
  Queries = {q}
  Notes = {n1}
  None = None
INVARIANTS
  TypeOK
  PlansOwnTheirSteps
PROPERTIES
  EndsUnlessNoteRepeated
\* act() returns, or an exception leaves it.
CHECK_DEADLOCK FALSE
