SPECIFICATION Spec
CONSTANTS
  Procs <- MCProcs
  Subsystems <- MCSubsystems
  Listed <- MCListed
  Sub <- MCSub
  Type <- MCType
  Priorities <- MCPriorities
  First = "br1"
  Mishaps = {"busy", "failed", "timeout", "died"}
INVARIANTS
  TypeOK
  AchievedByAll
  SourcesFirst
  DataIsTaken
PROPERTIES
  CommandEnds
  ImplementsFleet
