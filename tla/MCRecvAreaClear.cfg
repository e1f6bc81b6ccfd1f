SPECIFICATION AreaSpec
CONSTANTS
  data = data
  other = other
  Names = {data, other}
  Garbage = other
  Filters <- OneName
  Toggles = {"ShowSent"}
  SendItem = SendItem
  NoMsg = NoMsg
  Replies = TRUE
  Dialogs = FALSE
  MaxMsgs = 3
  MaxChunk = 2
  MaxDepth = 2
INVARIANTS ClearedIsGone
