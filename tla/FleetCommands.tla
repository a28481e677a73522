---------------------------- MODULE FleetCommands ----------------------------
(***************************************************************************)
(* do_command, as the handlers of the run control see it: the artdaq        *)
(* processes are one value, and a command is one step, which takes all of   *)
(* them where the command leads to, or leaves them in a mixture and raises. *)
(* RunControl is built on these steps; DoCommand has them in detail, and    *)
(* implements them.                                                         *)
(***************************************************************************)
CONSTANT Faults  \* the kinds of failure the environment may inject

VARIABLES
    exception,   \* self.exception
    fleet        \* self.procinfos and the processes behind them

(* The artdaq processes.  "none": procinfos is empty.  "listed": procinfos is
   filled and no process was launched for it.  "mixed": the processes are up,
   in states that differ or that nobody knows. *)
Up         == {"booted", "ready", "running", "paused", "mixed"}
FleetState == {"none", "listed"} \cup Up

CommandFrom == [configuring |-> "booted", starting |-> "ready",
                stopping |-> "running", pausing |-> "running",
                resuming |-> "paused", shutting |-> "ready"]
CommandTo   == [configuring |-> "ready", starting |-> "running",
                stopping |-> "ready", pausing |-> "paused",
                resuming |-> "running", shutting |-> "booted"]

\* artdaq processes take a command only in the state it starts from.  With no
\* process there is nothing to wait for and the command succeeds.
CommandMay(c)  == fleet \in {"none", CommandFrom[c]}
CommandMust(c) == fleet = "none" \/ (fleet = CommandFrom[c] /\ "command" \notin Faults)

CommandDone(c) ==
    /\ CommandMay(c)
    /\ fleet' = IF fleet = "none" THEN "none" ELSE CommandTo[c]
    /\ UNCHANGED exception

\* self.exception tells a call that raised from a process that answered, but
\* is not in its target state; do_command raises for both.
CommandBreaks(c) ==
    /\ ~CommandMust(c)
    /\ fleet' = IF fleet \in Up THEN "mixed" ELSE fleet
    /\ exception' \in IF fleet = "listed" THEN {TRUE} ELSE BOOLEAN

=============================================================================
