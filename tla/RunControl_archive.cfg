SPECIFICATION Spec
CONSTANTS
  Requests = {"booting", "configuring", "starting", "stopping", "terminating"}
  Faults = {"archive"}
  KillSignals = FALSE
PROPERTY StoppedIsLeftByRequest
