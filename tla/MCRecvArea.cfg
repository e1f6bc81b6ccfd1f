SPECIFICATION AreaSpec
CONSTANTS
  data = data
  other = other
  Names = {data, other}
  Garbage = other
  Filters <- OneName
  Toggles = {"ShowSent", "ApplyFilter"}
  SendItem = SendItem
  NoMsg = NoMsg
  Replies = TRUE
  Dialogs = TRUE
  MaxMsgs = 3
  MaxChunk = 2
  MaxDepth = 2
INVARIANTS AreaTypeOK SelectionIsOne ShownAreStored ListShowsStore
PROPERTIES SelectionPinsPane
