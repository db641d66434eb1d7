\* Two tabs and one that may be opened, two documents each; a tab that opens,
\* navigates or closes by itself once; two steps of two actions.
CONSTANTS
  MaxTabs = 3
  MaxDocs = 2
  MaxPageEvents = 1
  MaxSteps = 2
  MaxActions = 2
SPECIFICATION Spec
INVARIANTS IndexesOfFocusedTab NavigatesFocusedTab
\* The last step ends, and Chrome has nothing more to report.
CHECK_DEADLOCK FALSE
