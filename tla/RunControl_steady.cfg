SPECIFICATION Spec
CONSTANTS
  Requests = {"booting", "configuring", "starting", "stopping", "pausing", "resuming", "terminating", "enabling", "disabling"}
  Faults = {"boot", "config", "start", "stop", "terminate"}
  KillSignals = FALSE
INVARIANTS
  OneTransitionAtATime
  StateMatchesProcesses
  BootForgetsNoProcess
PROPERTIES
  ImplementsOperatorView
