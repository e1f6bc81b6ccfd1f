SPECIFICATION Spec
CONSTANTS
  Refreshed <- MCRefreshed
  MaxEdits = 2
CHECK_DEADLOCK FALSE
INVARIANTS SelectedHasMessage
