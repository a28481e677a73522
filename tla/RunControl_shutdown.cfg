SPECIFICATION Spec
CONSTANTS
  Requests = {"booting", "configuring", "shutting"}
  Faults = {}
  KillSignals = FALSE
INVARIANT StateIsNamed
