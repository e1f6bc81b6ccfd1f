SPECIFICATION Spec
CONSTANTS
  Names = {data}
  Replies = TRUE
  Dialogs = TRUE
  MaxMsgs = 4
  MaxChunk = 2
  MaxDepth = 2
INVARIANTS TypeOK NumbersIdentify ReportedAreKept
PROPERTIES DeletesOnlyListed
