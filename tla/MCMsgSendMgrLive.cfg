SPECIFICATION FairSpec
CONSTANTS
  m1 = m1
  m2 = m2
  m3 = m3
  Msg = {m1, m2, m3}
  SendLists <- Lists
  TimerLimit = 4
  Dialogs = FALSE
  MaxFrames = 1
PROPERTIES NoStarvation FiniteSendingEnds
