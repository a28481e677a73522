----------------------------- MODULE RunControl -----------------------------
(***************************************************************************)
(* The run-control core of DAQInterface: the state machine of              *)
(* rc/control/component.py, driven by the two threads that share it.       *)
(*                                                                         *)
(*   - The XML-RPC server thread (rc/io/rpc.py) serves one request at a    *)
(*     time: it compares the state with dict_state_from, overwrites the    *)
(*     state, then run_params, then raises a __do_* flag, with no lock.    *)
(*   - The runner thread (rc/threading) calls DAQInterface.runner, which   *)
(*     consumes one flag per call, in a fixed order, and runs its handler. *)
(*     A handler ends by completing or reverting the state change, or in   *)
(*     do_recover, called by the handler or by runner's except clause.     *)
(*   - The main thread's signal handler raises the recover flag and polls  *)
(*     the state before it exits the program.                              *)
(*                                                                         *)
(* A handler is split where it reads or writes what the other threads      *)
(* share, and where a failure of one of its calls takes another path.  The *)
(* artdaq processes are one value, "fleet", and a command to them is one   *)
(* step (FleetCommands); modules of their own detail what it does to each. *)
(***************************************************************************)
EXTENDS Integers, FiniteSets, FleetCommands

CONSTANTS
    Requests,     \* what the clients of the XML-RPC server may request
    KillSignals   \* TRUE iff SIGTERM, SIGHUP or SIGINT may arrive

VARIABLES
    state,        \* Component.__state
    runParams,    \* whose arguments run_params holds
    flags,        \* the __do_* booleans that are True
    launched,     \* self.called_launch_procs
    managed,      \* self.manage_processes
    noRecovery,   \* self.disable_recovery
    runKnown,     \* self.run_number is not None
    pc,           \* where the runner thread is
    cmd,          \* the handler it runs
    caller,       \* who called do_recover
    rpc,          \* where the XML-RPC server thread is
    req,          \* the request it serves
    killed        \* the signal handler: "no", "waiting" or "exited"

shared   == <<state, runParams, flags>>
boot     == <<launched, managed, noRecovery>>
runner   == <<pc, cmd, caller>>
server   == <<rpc, req>>
vars == <<state, runParams, flags, exception, launched, managed, noRecovery,
          runKnown, fleet, pc, cmd, caller, rpc, req, killed>>

-----------------------------------------------------------------------------
(* The tables of component.py. *)

\* Mutant: "configuring" leads to a state no table knows.
MutantDictStateTo ==
    [booting |-> "booted", shutting |-> "booted", stopping |-> "ready",
     configuring |-> "configured", starting |-> "running", pausing |-> "paused",
     resuming |-> "running", terminating |-> "stopped", recovering |-> "stopped"]

DictStateTo ==
    [booting |-> "booted", shutting |-> "booted", stopping |-> "ready",
     configuring |-> "ready", starting |-> "running", pausing |-> "paused",
     resuming |-> "running", terminating |-> "stopped", recovering |-> "stopped"]

\* Mutant: start is accepted before config.
MutantDictStateFrom ==
    [booting |-> "stopped", shutting |-> "ready", stopping |-> "running",
     configuring |-> "booted", starting |-> "booted", pausing |-> "running",
     resuming |-> "paused", terminating |-> "ready|booted"]

DictStateFrom ==
    [booting |-> "stopped", shutting |-> "ready", stopping |-> "running",
     configuring |-> "booted", starting |-> "ready", pausing |-> "running",
     resuming |-> "paused", terminating |-> "ready|booted"]

Transitions == DOMAIN DictStateTo           \* they name a state of their own
Toggles     == {"enabling", "disabling"}    \* state_change leaves the state alone
Traces      == {"trace_get", "trace_set"}   \* XML-RPC functions of their own
Commands    == Transitions \cup Toggles \cup Traces

\* "terminating" has two source states, written as one string, to which a
\* handler that reverts would set the state.
Resting == {"stopped", "booted", "ready", "running", "paused", "ready|booted", ""}
States  == Resting \cup Transitions

\* complete_state_change and revert_state_change: the tables' value, or the
\* key itself where they have none.
StateTo(t)   == IF t \in DOMAIN DictStateTo THEN DictStateTo[t] ELSE t
StateFrom(s) == IF s \in DOMAIN DictStateFrom THEN DictStateFrom[s] ELSE s

\* Python's "in" on two strings is containment, and every string contains "".
Contained(s, text) ==
    \/ s \in {"", text}
    \/ text = "ready|booted" /\ s \in {"ready", "booted"}

\* Mutant: state_change without its test.
MutantAccepts(t, s) == TRUE

Accepts(t, s) ==
    t \in DOMAIN DictStateFrom => Contained(s, DictStateFrom[t])

\* The order in which runner tests the flags.
Rank ==
    [booting |-> 1, shutting |-> 2, configuring |-> 3, recovering |-> 4,
     starting |-> 5, stopping |-> 6, terminating |-> 7, pausing |-> 8,
     resuming |-> 9, enabling |-> 10, disabling |-> 11, trace_get |-> 12,
     trace_set |-> 13]

\* Requests that bring arguments, and the handlers whose keys these have.
WithParams == {"booting", "configuring", "starting"} \cup Traces
ParamsServe(c, p) ==
    IF c = "trace_get" THEN p \in Traces
    ELSE c \in WithParams => p = c

CommandOnly == {"pausing", "resuming", "shutting"}

FaultKinds == {"boot", "config", "archive", "start", "stop", "terminate",
               "command", "trace", "monitor", "kill", "pids"}

ASSUME ConstantsAssumption ==
    /\ Requests \subseteq Commands
    /\ Faults \subseteq FaultKinds
    /\ KillSignals \in BOOLEAN

RunnerPoints == {"idle", "begin", "work", "launch", "archive", "finish",
                 "recover", "clear", "stop", "dead"}
Callers      == {"nobody", "request", "handler", "archive", "except"}
ServerPoints == {"idle", "state", "params", "flag"}

TypeOK ==
    /\ state \in States
    /\ runParams \in WithParams \cup {"none"}
    /\ flags \in SUBSET Commands
    /\ exception \in BOOLEAN
    /\ launched \in BOOLEAN
    /\ managed \in BOOLEAN
    /\ noRecovery \in BOOLEAN
    /\ runKnown \in BOOLEAN
    /\ fleet \in FleetState
    /\ pc \in RunnerPoints
    /\ cmd \in Commands \cup {"none"}
    /\ caller \in Callers
    /\ rpc \in ServerPoints
    /\ req \in Commands \cup {"none"}
    /\ killed \in {"no", "waiting", "exited"}

Init ==
    /\ state = "stopped"
    /\ runParams = "none"
    /\ flags = {}
    /\ exception = FALSE
    /\ launched = FALSE
    /\ managed = TRUE
    /\ noRecovery = FALSE
    /\ runKnown = FALSE
    /\ fleet = "none"
    /\ pc = "idle" /\ cmd = "none" /\ caller = "nobody"
    /\ rpc = "idle" /\ req = "none"
    /\ killed = "no"

-----------------------------------------------------------------------------
(* The XML-RPC server thread: state_change, trace_get and trace_set. *)

ServerOnly == UNCHANGED <<exception, boot, runKnown, fleet, runner, killed>>

\* state_change's test.  A refused request returns (or dies on its assertion)
\* with nothing changed, so it is no step of the model.
Receive(t) ==
    /\ rpc = "idle"
    /\ Accepts(t, state)
    /\ rpc' = IF t \in Transitions THEN "state"
              ELSE IF t \in Traces THEN "params" ELSE "flag"
    /\ req' = t
    /\ UNCHANGED shared
    /\ ServerOnly

\* self.__state = requested
SetState ==
    /\ rpc = "state"
    /\ state' = req
    /\ rpc' = IF req \in WithParams THEN "params" ELSE "flag"
    /\ UNCHANGED <<runParams, flags, req>>
    /\ ServerOnly

\* self.run_params = state_args
SetParams ==
    /\ rpc = "params"
    /\ runParams' = req
    /\ rpc' = "flag"
    /\ UNCHANGED <<state, flags, req>>
    /\ ServerOnly

\* boot(), config(), ..., recover(): the flag the runner will see.
RaiseFlag ==
    /\ rpc = "flag"
    /\ flags' = flags \cup {req}
    /\ rpc' = "idle" /\ req' = "none"
    /\ UNCHANGED <<state, runParams>>
    /\ ServerOnly

ServerStep == \/ \E t \in Requests : Receive(t)
              \/ SetState
              \/ SetParams
              \/ RaiseFlag

-----------------------------------------------------------------------------
(* The runner thread.  The ways out of a step: *)

RunnerOnly == UNCHANGED <<server, killed>>

Goto(p)   == pc' = p /\ UNCHANGED <<cmd, caller>>
Return    == pc' = "idle" /\ cmd' = "none" /\ caller' = "nobody"
\* The handler calls alert_and_recover and returns after it.
Alert     == pc' = "recover" /\ caller' = "handler" /\ cmd' = cmd
\* An exception leaves the handler: runner's except clause calls alert_and_recover.
Raise     == pc' = "recover" /\ caller' = "except" /\ cmd' = "none"

At(c, p)  == pc = p /\ cmd = c

\* One call of runner: a failure left behind by an earlier handler comes
\* first, then the first flag in the order of the elif chain.
SeeException ==
    /\ pc = "idle" /\ exception
    /\ Raise
    /\ UNCHANGED <<shared, exception, boot, runKnown, fleet>>

\* Mutant: runner does not look at self.exception before the flags.
MutantPickFlag(c) ==
    /\ pc = "idle"
    /\ c \in flags /\ \A d \in flags : Rank[c] <= Rank[d]
    /\ flags' = flags \ {c}
    /\ cmd' = c
    /\ IF c = "recovering" THEN pc' = "recover" /\ caller' = "request"
                           ELSE pc' = "begin" /\ caller' = "nobody"
    /\ UNCHANGED <<state, runParams, exception, boot, runKnown, fleet>>

PickFlag(c) ==
    /\ pc = "idle" /\ ~exception
    /\ c \in flags /\ \A d \in flags : Rank[c] <= Rank[d]
    /\ flags' = flags \ {c}
    /\ cmd' = c
    /\ IF c = "recovering" THEN pc' = "recover" /\ caller' = "request"
                           ELSE pc' = "begin" /\ caller' = "nobody"
    /\ UNCHANGED <<state, runParams, exception, boot, runKnown, fleet>>

\* check_proc_exceptions or check_proc_heartbeats raises: a process is lost.
MonitorFails ==
    /\ pc = "idle" /\ ~exception /\ flags = {}
    /\ managed /\ state \notin {"stopped", "booting", "terminating"}
    /\ "monitor" \in Faults /\ fleet # "none"
    /\ fleet' = IF fleet \in Up THEN "mixed" ELSE fleet
    /\ Raise
    /\ UNCHANGED <<shared, exception, boot, runKnown>>

\* A handler fails for a reason of the given kind, at a point where it catches
\* the failure and alerts, or where it lets the exception out.
Fails(c, alerts, raises, fault) ==
    /\ cmd = c /\ fault \in Faults
    /\ (pc \in alerts /\ Alert) \/ (pc \in raises /\ Raise)
    /\ UNCHANGED <<shared, exception, boot, runKnown, fleet>>

\* The last statement of most handlers.
Complete(c, s) ==
    /\ At(c, "finish")
    /\ state' = s
    /\ Return

-----------------------------------------------------------------------------
(* do_boot *)

\* Mutant: reset_variables forgets called_launch_procs.
MutantResetVariables ==
    /\ UNCHANGED launched /\ managed' = TRUE /\ noRecovery' = FALSE
    /\ runKnown' = FALSE /\ exception' = FALSE /\ fleet' = "none"

\* reset_variables; what the boot file overrides follows in BootListed.
ResetVariables ==
    /\ launched' = FALSE /\ managed' = TRUE /\ noRecovery' = FALSE
    /\ runKnown' = FALSE /\ exception' = FALSE /\ fleet' = "none"

\* setdaqcomps was never called: back to the state of before the request.
BootWithoutComponents ==
    /\ At("booting", "begin")
    /\ state' = StateFrom(state)
    /\ Return
    /\ UNCHANGED <<runParams, flags, exception, boot, runKnown, fleet>>

BootBegin ==
    /\ At("booting", "begin")
    /\ ResetVariables
    /\ IF ParamsServe("booting", runParams) THEN Goto("work") ELSE Raise
    /\ UNCHANGED shared

\* Mutant: revert_failed_boot without revert_state_change.
MutantBootReverts ==
    /\ At("booting", "work")
    /\ ResetVariables
    /\ Return
    /\ UNCHANGED <<state, runParams, flags>>

\* revert_failed_boot
BootReverts ==
    /\ At("booting", "work")
    /\ ResetVariables
    /\ state' = StateFrom(state)
    /\ Return
    /\ UNCHANGED <<runParams, flags>>

\* The boot file is read and procinfos filled from it.
BootListed ==
    /\ At("booting", "work")
    /\ managed' \in BOOLEAN /\ noRecovery' \in BOOLEAN
    /\ fleet' = "listed"
    /\ Goto("launch")
    /\ UNCHANGED <<shared, exception, launched, runKnown>>

BootLaunches ==
    /\ At("booting", "launch")
    /\ launched' = managed
    /\ fleet' = IF managed THEN "mixed" ELSE fleet
    /\ Goto("finish")
    /\ UNCHANGED <<shared, exception, managed, noRecovery, runKnown>>

BootCompletes ==
    /\ Complete("booting", StateTo("booting"))
    /\ fleet' = IF managed THEN "booted" ELSE fleet
    /\ UNCHANGED <<runParams, flags, exception, boot, runKnown>>

Boot == \/ BootWithoutComponents
        \/ BootBegin
        \/ BootReverts
        \/ BootListed
        \/ BootLaunches
        \/ Fails("booting", {"launch", "finish"}, {"work", "launch", "finish"}, "boot")
        \/ BootCompletes

-----------------------------------------------------------------------------
(* do_config *)

ConfigBegin ==
    /\ At("configuring", "begin")
    /\ IF ParamsServe("configuring", runParams) THEN Goto("work") ELSE Raise
    /\ UNCHANGED <<shared, exception, boot, runKnown, fleet>>

\* Mutant: a failed config reverts to "stopped", as a failed boot does.
MutantConfigReverts ==
    /\ At("configuring", "work")
    /\ state' = "stopped"
    /\ Return
    /\ UNCHANGED <<runParams, flags, exception, boot, runKnown, fleet>>

\* get_config_info, a missing FHiCL document or check_config.
ConfigReverts ==
    /\ At("configuring", "work")
    /\ state' = StateFrom(state)
    /\ Return
    /\ UNCHANGED <<runParams, flags, exception, boot, runKnown, fleet>>

ConfigInit ==
    /\ At("configuring", "work")
    /\ \/ ~managed /\ Goto("finish") /\ UNCHANGED <<exception, fleet>>
       \/ managed /\ CommandDone("configuring") /\ Goto("archive")
       \/ managed /\ CommandBreaks("configuring") /\ Alert
    /\ UNCHANGED <<shared, boot, runKnown>>

Archived ==
    /\ At("configuring", "archive")
    /\ Goto("finish")
    /\ UNCHANGED <<shared, exception, boot, runKnown, fleet>>

\* archive_documents calls alert_and_recover itself and returns to do_config,
\* which goes on.
ArchiveBreaks ==
    /\ At("configuring", "archive")
    /\ "archive" \in Faults /\ fleet # "none"
    /\ pc' = "recover" /\ caller' = "archive" /\ UNCHANGED cmd
    /\ UNCHANGED <<shared, exception, boot, runKnown, fleet>>

ConfigCompletes ==
    /\ Complete("configuring", StateTo("configuring"))
    /\ UNCHANGED <<runParams, flags, exception, boot, runKnown, fleet>>

Config == \/ ConfigBegin
          \/ ConfigReverts
          \/ ConfigInit
          \/ Archived
          \/ ArchiveBreaks
          \/ Fails("configuring", {"work"}, {"work", "archive"}, "config")
          \/ ConfigCompletes

-----------------------------------------------------------------------------
(* do_start_running and do_stop_running *)

StartBegin ==
    /\ At("starting", "begin")
    /\ IF ParamsServe("starting", runParams)
       THEN Goto("work") /\ runKnown' = TRUE
       ELSE Raise /\ UNCHANGED runKnown
    /\ UNCHANGED <<shared, exception, boot, fleet>>

\* The message that opens the stop transition formats run_number with %d.
StopBegin ==
    /\ At("stopping", "begin")
    /\ IF runKnown THEN Goto("work") ELSE Raise
    /\ UNCHANGED <<shared, exception, boot, runKnown, fleet>>

RunCommand(c) ==
    /\ At(c, "work")
    /\ \/ ~managed /\ Goto("finish") /\ UNCHANGED <<exception, fleet>>
       \/ managed /\ CommandDone(c) /\ Goto("finish")
       \/ managed /\ CommandBreaks(c) /\ Alert
    /\ UNCHANGED <<shared, boot, runKnown>>

RunCompletes(c) ==
    /\ Complete(c, StateTo(c))
    /\ UNCHANGED <<runParams, flags, exception, boot, runKnown, fleet>>

StartRunning == \/ StartBegin
                \/ Fails("starting", {"work"}, {"work", "finish"}, "start")
                \/ RunCommand("starting")
                \/ RunCompletes("starting")

StopRunning == \/ StopBegin
               \/ Fails("stopping", {"work"}, {"work", "finish"}, "stop")
               \/ RunCommand("stopping")
               \/ RunCompletes("stopping")

-----------------------------------------------------------------------------
(* do_terminate, the transitions that are only a command, and the rest *)

TerminateKills ==
    /\ At("terminating", "begin")
    /\ fleet' = IF managed THEN "none" ELSE fleet
    /\ Goto("finish")
    /\ UNCHANGED <<shared, exception, boot, runKnown>>

\* A shutdown call or kill_procs raises, or the report of what was returned.
TerminateBreaks ==
    /\ At("terminating", "begin")
    /\ "terminate" \in Faults /\ managed /\ fleet # "none"
    /\ fleet' = IF fleet \in Up THEN "mixed" ELSE fleet
    /\ Alert \/ Raise
    /\ UNCHANGED <<shared, exception, boot, runKnown>>

Terminate == TerminateKills \/ TerminateBreaks \/ RunCompletes("terminating")

\* runner calls do_command itself for these, whether or not DAQInterface
\* manages processes.
CommandRuns(c) ==
    /\ At(c, "begin")
    /\ \/ CommandDone(c) /\ Goto("finish")
       \/ CommandBreaks(c) /\ Raise
    /\ UNCHANGED <<shared, boot, runKnown>>

\* do_command completes with its variable "verbing", which for Shutdown is
\* still the empty string: the line meant to set it compares instead.
Verbing(c) == IF c = "shutting" THEN "" ELSE c

CommandCompletes(c) ==
    /\ Complete(c, StateTo(Verbing(c)))
    /\ UNCHANGED <<runParams, flags, exception, boot, runKnown, fleet>>

\* do_enable and do_disable do nothing unless an experiment overrides them.
Toggle(c) ==
    /\ At(c, "begin")
    /\ Return
    /\ UNCHANGED <<shared, exception, boot, runKnown, fleet>>

TraceDone(c) ==
    /\ At(c, "begin")
    /\ IF ParamsServe(c, runParams) THEN fleet # "listed" /\ Return ELSE Raise
    /\ UNCHANGED <<shared, exception, boot, runKnown, fleet>>

\* The failure is left in self.exception; trace_get may also fail to find the
\* files its threads should have written.
TraceBreaks(c) ==
    /\ At(c, "begin") /\ ParamsServe(c, runParams)
    /\ fleet = "listed" \/ ("trace" \in Faults /\ fleet # "none")
    /\ exception' = TRUE
    /\ Return \/ (c = "trace_get" /\ Raise)
    /\ UNCHANGED <<shared, boot, runKnown, fleet>>

-----------------------------------------------------------------------------
(* do_recover *)

\* Mutant: the except clause does not clear self.exception.
MutantResume ==
    \/ /\ caller = "archive"
       /\ pc' = "finish" /\ caller' = "nobody"
       /\ UNCHANGED <<cmd, exception>>
    \/ /\ caller # "archive"
       /\ Return
       /\ UNCHANGED exception

\* Back to whoever called do_recover.
Resume ==
    \/ /\ caller = "archive"
       /\ pc' = "finish" /\ caller' = "nobody"
       /\ UNCHANGED <<cmd, exception>>
    \/ /\ caller = "except"
       /\ exception' = FALSE
       /\ Return
    \/ /\ caller \in {"request", "handler"}
       /\ Return
       /\ UNCHANGED exception

NothingToRecover == noRecovery \/ ~launched

\* Mutant: the early return of do_recover leaves the state alone.
MutantRecoverSkips ==
    /\ pc = "recover" /\ NothingToRecover
    /\ Resume
    /\ UNCHANGED <<state, runParams, flags, boot, runKnown, fleet>>

RecoverSkips ==
    /\ pc = "recover" /\ NothingToRecover
    /\ state' = StateTo("recovering")
    /\ Resume
    /\ UNCHANGED <<runParams, flags, boot, runKnown, fleet>>

\* Mutant: do_recover stops the processes and does not kill them.
MutantRecoverWindsDown ==
    /\ pc = "recover" /\ ~NothingToRecover
    /\ Goto("clear")
    /\ UNCHANGED <<shared, exception, boot, runKnown, fleet>>

\* attempted_stop on every process, then kill_procs, whose exception is caught.
RecoverWindsDown ==
    /\ pc = "recover" /\ ~NothingToRecover
    /\ \/ managed /\ fleet' = "none"
       \/ managed /\ "kill" \in Faults /\ fleet \in Up /\ fleet' = "mixed"
       \/ ~managed /\ UNCHANGED fleet
    /\ Goto("clear")
    /\ UNCHANGED <<shared, exception, boot, runKnown>>

\* get_pid_for_process raises in an attempted_stop thread and join raises it
\* again: out of do_recover and, in the except clause, out of the thread.
RecoverBreaks ==
    /\ pc = "recover" /\ ~NothingToRecover
    /\ managed /\ fleet # "none" /\ "pids" \in Faults
    /\ IF caller = "except"
       THEN pc' = "dead" /\ cmd' = "none" /\ caller' = "nobody"
       ELSE Raise
    /\ UNCHANGED <<shared, exception, boot, runKnown, fleet>>

RecoverClearsFlags ==
    /\ pc = "clear"
    /\ flags' = {}
    /\ Goto("stop")
    /\ UNCHANGED <<state, runParams, exception, boot, runKnown, fleet>>

RecoverCompletes ==
    /\ pc = "stop"
    /\ state' = StateTo("recovering")
    /\ Resume
    /\ UNCHANGED <<runParams, flags, boot, runKnown, fleet>>

Recover == \/ RecoverSkips
           \/ RecoverWindsDown
           \/ RecoverBreaks
           \/ RecoverClearsFlags
           \/ RecoverCompletes

RunnerStep ==
    \/ SeeException
    \/ \E c \in flags : PickFlag(c)
    \/ MonitorFails
    \/ Boot
    \/ Config
    \/ StartRunning
    \/ StopRunning
    \/ Terminate
    \/ \E c \in CommandOnly : CommandRuns(c) \/ CommandCompletes(c)
    \/ \E c \in Toggles : Toggle(c)
    \/ \E c \in Traces : TraceDone(c) \/ TraceBreaks(c)
    \/ Recover

-----------------------------------------------------------------------------
(* handle_kill_signal, in the main thread *)

KillArrives ==
    /\ KillSignals /\ killed = "no"
    /\ killed' = "waiting"
    /\ flags' = flags \cup {"recovering"}
    /\ UNCHANGED <<state, runParams, exception, boot, runKnown, fleet, runner, server>>

\* The poll sees "stopped", or 180 seconds have passed.
KillExits ==
    /\ killed = "waiting"
    /\ killed' = "exited"
    /\ UNCHANGED <<shared, exception, boot, runKnown, fleet, runner, server>>

-----------------------------------------------------------------------------
Serve == killed # "exited" /\ ServerStep
Run   == killed # "exited" /\ RunnerStep /\ RunnerOnly

Next == \/ Serve
        \/ Run
        \/ KillArrives
        \/ KillExits

\* The server loop serves the request it has begun; the runner is called at
\* least once a second and every handler has a way out; the signal handler
\* ends by its timeout.
Fairness == /\ WF_vars(Serve /\ rpc # "idle")
            /\ WF_vars(Run)
            /\ WF_vars(KillExits)

Spec == Init /\ [][Next]_vars /\ Fairness

-----------------------------------------------------------------------------
(* Properties of every environment *)

Handling   == {"begin", "work", "launch", "archive", "finish"}
Recovering == {"recover", "clear", "stop"}
Over       == pc = "dead" \/ killed = "exited"

\* What keeps a transitional state from lasting: the flag of its transition is
\* up, or the server is about to raise it, or its handler runs, or do_recover
\* does and will write "stopped" over it.
Underway(t) ==
    \/ t \in flags
    \/ rpc \in {"params", "flag"} /\ req = t
    \/ cmd = t /\ pc \in Handling
    \/ pc \in Recovering
    \/ pc = "dead"

\* A client never sees a transition under way that nothing will end, whatever
\* requests, failures and recoveries overlap with it (state_change, runner,
\* do_recover and the revert calls share the state with no lock).
NoStrandedTransition == state \in Transitions => Underway(state)

\* When do_recover clears the queue the processes are gone, unless kill_procs
\* raised: its early return asks called_launch_procs, while kill_procs hangs on
\* manage_processes, and only reset_variables keeps the two in step.
RecoveryWindsDown ==
    pc \in {"clear", "stop"} =>
        fleet = "none" \/ (fleet = "mixed" /\ "kill" \in Faults)

\* A transition never runs on an exception left behind by an earlier one: the
\* runner turns it into a recovery first (reset_variables' comment).
NoHandlerOnException == exception => pc \notin Handling

\* What makes the three inductive: what the server thread holds at each of its
\* points, that do_boot launches only after reset_variables and only if it
\* manages processes, and where do_config is while archive_documents recovers.
ServerShape == /\ rpc = "state" => req \in Transitions
               /\ rpc = "params" => req \in WithParams
               /\ rpc # "idle" => req \in Commands
LaunchShape == /\ launched => managed
               /\ cmd = "booting" /\ pc \in {"work", "launch"} => ~launched
ArchiveShape == caller = "archive" =>
                    pc \in Recovering /\ cmd = "configuring" /\ ~exception

Inv == /\ TypeOK
       /\ ServerShape /\ LaunchShape /\ ArchiveShape
       /\ NoStrandedTransition /\ RecoveryWindsDown /\ NoHandlerOnException

\* Every transition a client sees under way ends, and every exception left
\* behind is dealt with, unless the runner thread died or the program exited.
TransitionEnds   == state \in Transitions ~> state \notin Transitions \/ Over
ExceptionHandled == exception ~> ~exception \/ Over

-----------------------------------------------------------------------------
(* Properties of a steady environment: no recover request and no kill signal
   while another transition runs, and only failures that leave no exception
   behind and strike while a transition runs. *)

SteadyRequests == Commands \ ({"recovering", "shutting"} \cup Traces)
SteadyFaults   == {"boot", "config", "start", "stop", "terminate"}
Steady == /\ Requests \subseteq SteadyRequests
          /\ Faults \subseteq SteadyFaults
          /\ ~KillSignals

\* All the transitions between a client's request and the end of its handler.
InPipeline ==
    (flags \cup (IF rpc # "idle" THEN {req} ELSE {})
           \cup (IF pc # "idle" THEN {cmd} ELSE {})) \cap Transitions

\* At most one transition is anywhere between its acceptance and its end, so
\* no handler can run on what another one left half done: the test of
\* dict_state_from and the write of the state it guards are not atomic.
OneTransitionAtATime == \A t, u \in InPipeline : t = u

\* Between transitions the state the clients see is the state of the artdaq
\* processes, and "stopped" means that there are none (disable_recovery, which
\* leaves them up on purpose, apart).
Quiet == pc = "idle" /\ rpc = "idle" /\ flags = {} /\ ~exception
StateMatchesProcesses ==
    Quiet /\ managed =>
        IF state = "stopped" THEN fleet \notin Up \/ noRecovery ELSE fleet = state

\* do_boot never drops procinfos (reset_variables) while their processes are up.
BootForgetsNoProcess ==
    At("booting", "begin") /\ fleet \in Up => noRecovery

\* What makes the three inductive.  A transition is queued, served or worked
\* on in one place only, and it is the one the state names.
Queued  == flags \cap Transitions # {}
Serving == rpc # "idle" /\ req \in Transitions
Working == pc \in Recovering \/ (pc \in Handling /\ cmd \in Transitions)

SteadyShape ==
    /\ killed = "no" /\ pc # "dead"
    /\ flags \subseteq SteadyRequests
    /\ req \in SteadyRequests \cup {"none"}
    /\ cmd \in SteadyRequests \cup {"none"}
    /\ cmd = "none" => pc \in Recovering \cup {"idle"}
    /\ pc = "idle" => cmd = "none"
    /\ caller \in {"nobody", "handler", "except"}
    /\ exception => pc \in Recovering /\ caller = "except"
    /\ state \in States \ {"", "ready|booted", "recovering", "shutting"}

OnePlace ==
    /\ ~(Queued /\ Serving) /\ ~(Queued /\ Working) /\ ~(Serving /\ Working)
    /\ flags \cap Transitions \subseteq {state}
    /\ Serving => IF rpc = "state" THEN Accepts(req, state) ELSE req = state
    /\ pc \in Handling /\ cmd \in Transitions => cmd = state
    /\ pc \in Recovering => state \in Transitions

\* What the processes are before a transition touches them, and after.
Before(t) ==
    IF t = "booting" THEN fleet \notin Up \/ noRecovery
    ELSE IF ~managed THEN fleet = "listed"
    ELSE IF t = "terminating" THEN fleet \in {"booted", "ready"}
    ELSE fleet = CommandFrom[t]
After(t) ==
    IF t = "booting" THEN fleet = IF managed THEN "mixed" ELSE "listed"
    ELSE IF t = "terminating" THEN fleet \notin Up
    ELSE fleet = IF managed THEN CommandTo[t] ELSE "listed"
Rest(s) ==
    IF s = "stopped" THEN fleet \notin Up \/ noRecovery
    ELSE fleet = IF managed THEN s ELSE "listed"

Untouched(c) == IF c = "booting" THEN {"begin"} ELSE {"begin", "work"}
ProcessShape ==
    /\ fleet \in Up => launched
    /\ state \notin Transitions => Rest(state)
    /\ Queued => Before(state)
    /\ Serving /\ rpc # "state" => Before(state)
    /\ cmd \in Transitions /\ pc \in Untouched(cmd) => Before(cmd)
    /\ cmd \in Transitions /\ pc = "finish" => After(cmd)
    /\ cmd = "booting" /\ pc \in {"work", "launch"} => fleet \notin Up
    /\ cmd = "booting" /\ pc = "launch" => fleet = "listed"
    /\ pc = "archive" => cmd = "configuring" /\ managed /\ fleet = "ready"
    /\ pc \in {"clear", "stop"} => fleet = "none"

SteadyInv == Inv /\ SteadyShape /\ OnePlace /\ ProcessShape

\* What the operator sees is the documented state machine.
View == INSTANCE OperatorView WITH state <- state
ImplementsOperatorView == View!Spec

-----------------------------------------------------------------------------
(* What the repository says of itself, and overlapping threads or one failing
   call break. *)

\* alert_and_recover's message: DAQInterface has set the DAQ back in the
\* "Stopped" state.  From there only a request may take it away.
StoppedIsLeftByRequest ==
    [][state = "stopped" => state' \in {"stopped"} \cup Transitions]_state

\* dict_state_to: every transition ends in a state it names.
StateIsNamed == state \in Transitions \cup {DictStateTo[t] : t \in Transitions}

=============================================================================
