\* The pages of DomSerializerMC; a viewport of 4 and as much again beside it.
CONSTANTS
  Margin = 4
  MinIndex = 2
  MinFrame = 2
SPECIFICATION MCSpec
INVARIANTS OnlyVisibleOffered ClickableOffered
\* A page has been serialized.
CHECK_DEADLOCK FALSE
