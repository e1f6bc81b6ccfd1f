SPECIFICATION Spec
CONSTANTS
  MaxMember = 2
  MaxBytes = 3
  Named = {0, 1}
  MaxChanges = 3
CHECK_DEADLOCK FALSE
INVARIANT MembersCanBeSelected
