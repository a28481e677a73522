SPECIFICATION Spec
CONSTANTS
  Procs <- MCProcs
  Hosts <- MCHosts
  HostOf <- MCHostOf
  Kind <- MCKind
  Position <- MCPosition
  DiskWriters = {}
  Systems <- MCSystems
  Rules <- MCRules
  Matches <- MCMatches
  Percent <- MCPercent
  AtLeast <- MCAtLeast
  Faults = {"error"}
PROPERTY ErrorNoticed
