SPECIFICATION Spec
CONSTANTS
  MaxPort = 2
  Names = {"d1", "d2"}
  NoName = "none"
  Clients = {"c1", "c2"}
  GarbageLimit = 2
  MinTransport = 2
  MaxBytes = 4
  MaxChunk = 2
  MaxListed = 1
  FormsOf <- MCFormsOf
  Noises = {"n"}
  MaxTime = 3
  DelayLimit = 16
  MaxMsgs = 3
  MaxSaves = 4
  MaxTmp = 4
  MaxSer = 3
  MaxType = 4
  Specials = {1, 3}
  Listed = {0, 2}
  MaxSize = 2
  TruncateLength = 1
  MaxMember = 2
  MaxLength = 3
  Named = {0, 1}
  MaxChanges = 2
CHECK_DEADLOCK FALSE
INVARIANTS SettingsAreKept BytesBecomeMessages ListsComeBack FilesSurvive WidgetsShowFields NoAssertionFails
PROPERTIES StepsKeep
