SPECIFICATION Spec
CONSTANTS
  PluginsOf <- MCPluginsOf
  Configurable = {"s1", "f1", "f2", "p1"}
  Broken = {"f3"}
  Searched = {"s1", "f1"}
  GivenLists <- MCGivenLists
  MessageTypes <- MCMessageTypes
  Matching = {"t2"}
  Typed = {1, 2, 3}
  TypesOf <- MCTypesOf
  Found = {2, 4}
  Refreshed <- MCRefreshed
  MaxRows = 3
  MaxChanges = 3
CHECK_DEADLOCK FALSE
INVARIANTS NoAssertionFails SendAreaAgrees PluginsAgree AcceptedComesBack HiddenIsFound ShowsMessage
PROPERTIES StepsKeep
