SPECIFICATION Spec
CONSTANTS
  Procs <- MCProcs
  Hosts <- MCHosts
  HostOf <- MCHostOf
  Kind <- MCKind
  Position <- MCPosition
  DiskWriters = {}
  Systems <- MCSystems
  Rules <- MCRules
  Matches <- MCMatches
  Percent <- MCPercent
  AtLeast <- MCAtLeast
  Faults = {"died", "error", "timeout", "unreachable"}
INVARIANTS
  TypeOK
  RunMeetsRequirements
  RemovedAreDown
  

  
\* A boot whose process dies before it has answered does not end.
CHECK_DEADLOCK FALSE
