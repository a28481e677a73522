SPECIFICATION Spec
CONSTANTS
  Requests = {"booting", "configuring", "recovering", "trace_get"}
  Faults = {"boot", "config", "archive", "start", "stop", "terminate", "command", "trace", "monitor", "kill", "pids"}
  KillSignals = TRUE
INVARIANTS
  TypeOK
  NoStrandedTransition
  RecoveryWindsDown
  NoHandlerOnException
PROPERTIES
  TransitionEnds
  ExceptionHandled
\* The program may exit.
CHECK_DEADLOCK FALSE
