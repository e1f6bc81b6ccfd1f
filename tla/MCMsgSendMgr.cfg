SPECIFICATION FairSpec
CONSTANTS
  m1 = m1
  m2 = m2
  m3 = m3
  Msg = {m1, m2, m3}
  SendLists <- Lists
  TimerLimit = 8
  Dialogs = TRUE
  MaxFrames = 2
INVARIANTS TypeOK AssertionsHold QueueKeepsTime TimerGuardsQueue
PROPERTIES KeepsSchedule
