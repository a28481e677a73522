SPECIFICATION FairSpec
CONSTANTS
  Systems <- MCSystems
  BasePort = 10000
  PortsPerPartition = 1000
  Partition = 1
INVARIANTS
  TypeOK
  CyclesFound
  AllTablesFilled
  LinksHaveTwoEnds
  BuffersAgree
  ExpectedArrive
  EventsFit
  PortsApart
  RoutesAgree
  InitCountsRight
  LegalIsBooked
PROPERTIES
  BookkeepingEnds
CHECK_DEADLOCK FALSE
