SPECIFICATION Spec
CONSTANTS
  Clients = {"c1", "c2"}
  MaxData = 2
CHECK_DEADLOCK FALSE
INVARIANTS TypeOK StatusIsDevice StreamsArrive CarriesEverything TtlAsAsked TalksToTheFirst
  EchoesInOrder PathIsChain ChainAgrees
PROPERTIES EverythingComesBack
