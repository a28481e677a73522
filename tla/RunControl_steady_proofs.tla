---------------------- MODULE RunControl_steady_proofs ----------------------
(***************************************************************************)
(* Theorems about RunControl in a steady environment: one transition at a  *)
(* time, the state matching the processes, and the implementation of the   *)
(* state machine of OperatorView.                                          *)
(***************************************************************************)
EXTENDS RunControl_proofs

-----------------------------------------------------------------------------
(* What a steady environment can request and accept. *)

Steadies == {"booting", "stopping", "configuring", "starting", "pausing",
             "resuming", "terminating"}

LeadsFrom(t, s) ==
    \/ t = "booting" /\ s = "stopped"
    \/ t = "configuring" /\ s = "booted"
    \/ t = "starting" /\ s = "ready"
    \/ t = "stopping" /\ s = "running"
    \/ t = "pausing" /\ s = "running"
    \/ t = "resuming" /\ s = "paused"
    \/ t = "terminating" /\ s \in {"ready", "booted"}

\* The requests of a steady environment: no recover, no shutdown, no trace.
LEMMA SteadyListed ==
    /\ SteadyRequests = Steadies \cup Toggles
    /\ SteadyRequests \cap Transitions = Steadies
BY TransitionsListed DEF SteadyRequests, Steadies, Commands, Toggles, Traces

\* The states do_command's transitions start from and lead to, one by one.
LEMMA CommandTables ==
    /\ CommandFrom["configuring"] = "booted" /\ CommandTo["configuring"] = "ready"
    /\ CommandFrom["starting"] = "ready" /\ CommandTo["starting"] = "running"
    /\ CommandFrom["stopping"] = "running" /\ CommandTo["stopping"] = "ready"
    /\ CommandFrom["pausing"] = "running" /\ CommandTo["pausing"] = "paused"
    /\ CommandFrom["resuming"] = "paused" /\ CommandTo["resuming"] = "running"
BY DEF CommandFrom, CommandTo

\* complete_state_change and revert_state_change, one transition at a time.
LEMMA StateTables ==
    /\ StateTo("booting") = "booted" /\ StateTo("configuring") = "ready"
    /\ StateTo("starting") = "running" /\ StateTo("stopping") = "ready"
    /\ StateTo("pausing") = "paused" /\ StateTo("resuming") = "running"
    /\ StateTo("terminating") = "stopped" /\ StateTo("recovering") = "stopped"
    /\ StateFrom("booting") = "stopped" /\ StateFrom("configuring") = "booted"
BY DEF StateTo, StateFrom, DictStateTo, DictStateFrom

\* A transition is accepted from the states that lead to it, where the
\* processes are as it expects them.
LEMMA AcceptedRests ==
    ASSUME NEW t \in Steadies,
           state \in States \ {"", "ready|booted", "recovering", "shutting"},
           Accepts(t, state)
    PROVE  /\ state \notin Transitions
           /\ LeadsFrom(t, state)
           /\ Rest(state) => Before(t)
<1> DEFINE From == {"booting", "shutting", "stopping", "configuring", "starting",
                    "pausing", "resuming", "terminating"}
<1>1. DOMAIN DictStateFrom = From /\ t \in From
  BY DEF DictStateFrom, Steadies
<1>2. Contained(state, DictStateFrom[t])
  BY <1>1 DEF Accepts
<1>3. /\ DictStateFrom["booting"] = "stopped" /\ DictStateFrom["configuring"] = "booted"
      /\ DictStateFrom["starting"] = "ready" /\ DictStateFrom["stopping"] = "running"
      /\ DictStateFrom["pausing"] = "running" /\ DictStateFrom["resuming"] = "paused"
      /\ DictStateFrom["terminating"] = "ready|booted"
  BY DEF DictStateFrom
<1>4. LeadsFrom(t, state)
  BY <1>2, <1>3 DEF Contained, Steadies, LeadsFrom
<1>5. Rest(state) => Before(t)
  BY <1>4, CommandTables DEF LeadsFrom, Rest, Before
<1> QED
  BY <1>4, <1>5, TransitionsListed DEF LeadsFrom

\* A transition under way is accepted by no other request.
LEMMA BusyRefuses ==
    ASSUME NEW t \in Steadies, state \in Transitions \ {"recovering", "shutting"}
    PROVE  ~Accepts(t, state)
BY AcceptedRests, TransitionsListed DEF States

-----------------------------------------------------------------------------
(* The steady invariant. *)

LEMMA InitSteady == Steady /\ Init => SteadyShape /\ OnePlace /\ ProcessShape
BY TransitionsListed
   DEF Init, Steady, SteadyShape, OnePlace, ProcessShape, Queued, Serving, Working,
       Recovering, Handling, States, Resting, Rest, Up, Untouched, SteadyRequests, Steadies

\* state_change: a request that passes the test finds every other transition
\* over, and its writes keep it the only one.
LEMMA ServeSteady ==
    ASSUME Steady, SteadyInv, Serve
    PROVE  SteadyShape' /\ OnePlace' /\ ProcessShape'
<1> USE SteadyListed DEF Steady, SteadyInv, SteadyShape, OnePlace, ProcessShape,
        Queued, Serving, Working, Recovering, Handling, ServerOnly, shared, boot, runner
<1> SUFFICES ASSUME ServerStep PROVE SteadyShape' /\ OnePlace' /\ ProcessShape'
  BY DEF Serve
<1>1. UNCHANGED <<exception, launched, managed, noRecovery, fleet, pc, cmd, caller, killed>>
  BY DEF ServerStep, Receive, SetState, SetParams, RaiseFlag
<1>2. (\A t : Before(t)' <=> Before(t)) /\ (\A t : After(t)' <=> After(t)) /\ (\A t : Rest(t)' <=> Rest(t))
  BY <1>1 DEF Before, After, Rest
<1>3. ASSUME NEW t \in Requests, Receive(t) PROVE SteadyShape' /\ OnePlace' /\ ProcessShape'
  <2>1. t \in SteadyRequests /\ rpc = "idle" /\ req' = t /\ UNCHANGED <<state, flags>>
    BY <1>3 DEF Receive
  <2>2. CASE t \in Steadies
    <3>1. rpc' = "state" /\ Accepts(t, state)
      BY <1>3, <2>2, TransitionsListed DEF Receive, Steadies
    <3>2. state \notin Transitions
      BY <2>2, <3>1, AcceptedRests
    <3>3. ~Queued /\ ~Working
      BY <3>2 DEF Inv, TypeOK
    <3>4. Accepts(req', state')
      BY <2>1, <3>1
    <3> QED
      BY <1>1, <1>2, <2>1, <3>1, <3>3, <3>4, TransitionsListed
  <2>3. CASE t \in Toggles
    <3>1. t \notin Transitions /\ rpc' = "flag"
      BY <1>3, <2>3, TransitionsListed DEF Receive, Toggles, Traces
    <3>2. SteadyShape'
      BY <1>1, <2>1
    <3>3. OnePlace'
      BY <1>1, <2>1, <3>1
    <3>4. ProcessShape'
      BY <1>1, <1>2, <2>1, <3>1
    <3> QED
      BY <3>2, <3>3, <3>4
  <2> QED
    BY <2>1, <2>2, <2>3
<1>4. CASE SetState
  <2>1. req \in Steadies /\ Serving
    BY <1>4, TransitionsListed DEF SetState, Inv, ServerShape
  <2>2. Accepts(req, state) /\ ~Queued /\ ~Working
    BY <1>4, <2>1 DEF SetState
  <2>3. Before(req) /\ state \notin Transitions
    BY <2>1, <2>2, AcceptedRests
  <2>4. /\ state' = req /\ req' = req /\ flags' = flags
        /\ rpc' \in {"params", "flag"}
    BY <1>4 DEF SetState
  <2>5. SteadyShape'
    BY <1>1, <2>1, <2>4, TransitionsListed DEF Steadies, States
  <2>6. OnePlace'
    BY <1>1, <2>1, <2>2, <2>3, <2>4
  <2>7. ProcessShape'
    BY <1>1, <1>2, <2>1, <2>2, <2>3, <2>4, TransitionsListed DEF Steadies
  <2> QED
    BY <2>5, <2>6, <2>7
<1>5. CASE SetParams
  <2>1. /\ rpc = "params" /\ rpc' = "flag"
        /\ UNCHANGED <<state, flags, req>>
    BY <1>5 DEF SetParams
  <2>2. SteadyShape'
    BY <1>1, <2>1
  <2>3. OnePlace'
    BY <1>1, <2>1
  <2>4. ProcessShape'
    BY <1>1, <1>2, <2>1
  <2> QED
    BY <2>2, <2>3, <2>4
<1>6. CASE RaiseFlag
  <2>1. /\ rpc = "flag" /\ rpc' = "idle" /\ req' = "none"
        /\ flags' = flags \cup {req} /\ state' = state
    BY <1>6 DEF RaiseFlag
  <2>2. req \in SteadyRequests
    BY <2>1, TransitionsListed DEF Inv, ServerShape, Commands, Toggles, Traces
  <2>3. SteadyShape'
    BY <1>1, <2>1, <2>2
  <2>4. OnePlace'
    BY <1>1, <2>1
  <2>5. ProcessShape'
    BY <1>1, <1>2, <2>1
  <2> QED
    BY <2>3, <2>4, <2>5
<1> QED
  BY <1>3, <1>4, <1>5, <1>6 DEF ServerStep

-----------------------------------------------------------------------------
(* The runner's steps in a steady environment. *)

\* While a transition is worked on it is the one of the state, and no other is
\* queued or served.
LEMMA WorkingAlone ==
    ASSUME SteadyInv, Working
    PROVE  /\ ~Queued /\ ~Serving
           /\ state \in Transitions
           /\ cmd \in Transitions /\ pc \in Handling => state = cmd
BY DEF SteadyInv, OnePlace, Working, Inv, TypeOK, Recovering, Handling

\* The part of ProcessShape that speaks of the handler at work.
HandlerShape ==
    /\ fleet \in Up => launched
    /\ cmd \in Transitions /\ pc \in Untouched(cmd) => Before(cmd)
    /\ cmd \in Transitions /\ pc = "finish" => After(cmd)
    /\ cmd = "booting" /\ pc \in {"work", "launch"} => fleet \notin Up
    /\ cmd = "booting" /\ pc = "launch" => fleet = "listed"
    /\ pc = "archive" => cmd = "configuring" /\ managed /\ fleet = "ready"
    /\ pc \in {"clear", "stop"} => fleet = "none"

\* A step inside a handler, or from it into do_recover, or inside do_recover.
LEMMA StepInside ==
    ASSUME SteadyInv, Working, RunnerOnly, UNCHANGED state, flags' \subseteq flags,
           \/ pc' \in Handling /\ pc \in Handling /\ cmd' = cmd
           \/ pc' \in Recovering /\ cmd' \in {cmd, "none"},
           caller' \in {"nobody", "handler", "except"},
           exception' => pc' \in Recovering /\ caller' = "except",
           HandlerShape'
    PROVE  SteadyShape' /\ OnePlace' /\ ProcessShape'
<1>1. ~Queued' /\ ~Serving' /\ UNCHANGED <<rpc, req, killed>> /\ state \in Transitions
  BY WorkingAlone DEF Queued, Serving, RunnerOnly, server
<1>2. OnePlace'
  BY <1>1 DEF OnePlace, Queued, Serving, Working, SteadyInv, Recovering, Handling
<1>3. SteadyShape'
  BY <1>1 DEF SteadyShape, SteadyInv, Recovering, Handling, Working
<1>4. ProcessShape'
  BY <1>1 DEF ProcessShape, HandlerShape, Serving, Queued
<1> QED
  BY <1>2, <1>3, <1>4

\* The end of a handler or of do_recover.
LEMMA StepEnds ==
    ASSUME SteadyInv, Working, RunnerOnly, flags' \subseteq flags,
           state' \in {"stopped", "booted", "ready", "running", "paused"},
           Return, ~exception',
           fleet' \in Up => launched',
           Rest(state)'
    PROVE  SteadyShape' /\ OnePlace' /\ ProcessShape'
<1>1. ~Queued' /\ ~Serving' /\ UNCHANGED <<rpc, req, killed>>
  BY WorkingAlone DEF Queued, Serving, RunnerOnly, server
<1>2. pc' = "idle" /\ cmd' = "none" /\ caller' = "nobody" /\ ~Working'
  BY DEF Return, Working, Recovering, Handling
<1>3. OnePlace'
  BY <1>1, <1>2, TransitionsListed DEF OnePlace, Queued, Serving, SteadyInv, Recovering, Handling
<1>4. SteadyShape'
  BY <1>1, <1>2, TransitionsListed DEF SteadyShape, SteadyInv, States, Resting, Recovering
<1>5. ProcessShape'
  BY <1>1, <1>2, TransitionsListed DEF ProcessShape, Untouched, Serving, Queued
<1> QED
  BY <1>3, <1>4, <1>5

\* Where a step into do_recover may come from.
LEMMA IntoRecovery ==
    ASSUME SteadyInv, Working, RunnerOnly, UNCHANGED shared,
           Alert \/ Raise, pc \in Handling,
           Alert => ~exception',
           fleet' \in Up => launched'
    PROVE  SteadyShape' /\ OnePlace' /\ ProcessShape'
<1>1. /\ pc' = "recover" /\ cmd' \in {cmd, "none"} /\ caller' \in {"handler", "except"}
      /\ exception' => caller' = "except"
  BY DEF Alert, Raise
<1>2. HandlerShape'
  BY <1>1 DEF HandlerShape, Untouched
<1> QED
  BY <1>1, <1>2, StepInside DEF shared, Recovering, Handling

\* do_boot, from its begin to complete_state_change or a revert: it empties
\* procinfos only when no process is up, or disable_recovery left them up.
LEMMA BootSteady ==
    ASSUME Steady, SteadyInv, Boot, RunnerOnly
    PROVE  SteadyShape' /\ OnePlace' /\ ProcessShape'
<1> USE DEF At, Goto, shared, boot
<1>1. /\ cmd = "booting" /\ Working /\ pc \in Handling /\ ~exception
      /\ state = "booting" /\ (fleet \in Up => launched)
  BY TransitionsListed, WorkingAlone
     DEF Boot, BootWithoutComponents, BootBegin, BootReverts, BootListed, BootLaunches,
         Fails, BootCompletes, Complete, Working, Handling, Recovering, SteadyInv, SteadyShape,
         ProcessShape
<1>2. CASE BootWithoutComponents
  <2>1. Before("booting")
    BY <1>1, <1>2, TransitionsListed DEF BootWithoutComponents, SteadyInv, ProcessShape, Untouched
  <2>2. state' = "stopped" /\ Rest(state)'
    BY <1>1, <1>2, <2>1, StateTables DEF BootWithoutComponents, Before, Rest
  <2> QED
    BY <1>1, <1>2, <2>2, StepEnds DEF BootWithoutComponents
<1>3. CASE BootBegin
  <2>1. ~exception' /\ fleet' = "none"
    BY <1>3 DEF BootBegin, ResetVariables
  <2>2. CASE Goto("work")
    <3>1. HandlerShape'
      BY <1>1, <2>1, <2>2, TransitionsListed DEF HandlerShape, Untouched, Up
    <3> QED
      BY <1>1, <1>3, <2>1, <2>2, <3>1, StepInside DEF BootBegin, Handling, SteadyInv, SteadyShape, Inv, TypeOK
  <2>3. CASE Raise
    BY <1>1, <1>3, <2>1, <2>3, IntoRecovery DEF BootBegin, Up
  <2> QED
    BY <1>3, <2>2, <2>3 DEF BootBegin
<1>4. CASE BootReverts
  <2>1. state' = "stopped" /\ ~exception' /\ fleet' = "none"
    BY <1>1, <1>4, StateTables DEF BootReverts, ResetVariables
  <2>2. Rest(state)'
    BY <2>1 DEF Rest, Up
  <2> QED
    BY <1>1, <1>4, <2>1, <2>2, StepEnds DEF BootReverts, Up
<1>5. CASE BootListed
  <2>1. HandlerShape'
    BY <1>1, <1>5 DEF BootListed, HandlerShape, Untouched, Up
  <2> QED
    BY <1>1, <1>5, <2>1, StepInside DEF BootListed, Handling, SteadyInv, SteadyShape
<1>6. CASE BootLaunches
  <2>1. fleet = "listed" /\ pc' = "finish" /\ cmd' = "booting"
    BY <1>1, <1>6, TransitionsListed DEF BootLaunches, SteadyInv, ProcessShape
  <2>2. After("booting")' /\ (fleet' \in Up => launched')
    BY <1>6, <2>1 DEF BootLaunches, After, Up
  <2>3. HandlerShape'
    BY <2>1, <2>2 DEF HandlerShape, Untouched
  <2> QED
    BY <1>1, <1>6, <2>3, StepInside DEF BootLaunches, Handling, SteadyInv, SteadyShape
<1>7. CASE Fails("booting", {"launch", "finish"}, {"work", "launch", "finish"}, "boot")
  BY <1>1, <1>7, IntoRecovery DEF Fails
<1>8. CASE BootCompletes
  <2>1. After("booting") /\ state' = "booted"
    BY <1>8, TransitionsListed, StateTables
       DEF BootCompletes, Complete, SteadyInv, ProcessShape
  <2>2. Rest(state)' /\ (fleet' \in Up => launched')
    BY <1>1, <1>8, <2>1 DEF BootCompletes, After, Rest, Up
  <2> QED
    BY <1>1, <1>8, <2>1, <2>2, StepEnds DEF BootCompletes, Complete
<1> QED
  BY <1>2, <1>3, <1>4, <1>5, <1>6, <1>7, <1>8 DEF Boot

\* do_config: its reverts leave the processes booted, its end leaves them ready.
LEMMA ConfigSteady ==
    ASSUME Steady, SteadyInv, Config, RunnerOnly
    PROVE  SteadyShape' /\ OnePlace' /\ ProcessShape'
<1> USE DEF At, Goto, shared, boot
<1>1. /\ cmd = "configuring" /\ Working /\ pc \in Handling /\ ~exception
      /\ state = "configuring" /\ (fleet \in Up => launched)
      /\ caller \in {"nobody", "handler", "except"}
  BY TransitionsListed, WorkingAlone
     DEF Config, ConfigBegin, ConfigReverts, ConfigInit, Archived, ArchiveBreaks,
         Fails, ConfigCompletes, Complete, Working, Handling, Recovering, SteadyInv, SteadyShape,
         ProcessShape
<1>2. CASE ConfigBegin
  <2>1. CASE Goto("work")
    <3>1. Before("configuring") /\ pc' = "work" /\ cmd' = "configuring"
      BY <1>1, <1>2, <2>1, TransitionsListed DEF ConfigBegin, SteadyInv, ProcessShape, Untouched
    <3>2. Before("configuring")'
      BY <1>2, <3>1 DEF ConfigBegin, Before
    <3>3. HandlerShape'
      BY <1>1, <1>2, <3>1, <3>2 DEF ConfigBegin, HandlerShape, Untouched
    <3> QED
      BY <1>1, <1>2, <2>1, <3>3, StepInside DEF ConfigBegin, Handling
  <2>2. CASE Raise
    BY <1>1, <1>2, <2>2, IntoRecovery DEF ConfigBegin
  <2> QED
    BY <1>2, <2>1, <2>2 DEF ConfigBegin
<1>3. CASE ConfigReverts
  <2>1. Before("configuring")
    BY <1>1, <1>3, TransitionsListed DEF ConfigReverts, SteadyInv, ProcessShape, Untouched
  <2>2. state' = "booted" /\ Rest(state)'
    BY <1>1, <1>3, <2>1, StateTables, CommandTables DEF ConfigReverts, Before, Rest
  <2> QED
    BY <1>1, <1>3, <2>2, StepEnds DEF ConfigReverts
<1>4. CASE ConfigInit
  <2>1. Before("configuring") /\ "command" \notin Faults
    BY <1>1, <1>4, TransitionsListed
       DEF ConfigInit, SteadyInv, ProcessShape, Untouched, Steady, SteadyFaults
  <2>2. CASE managed /\ CommandDone("configuring") /\ Goto("archive")
    <3>1. fleet = "booted" /\ fleet' = "ready" /\ launched /\ pc' = "archive" /\ cmd' = "configuring"
      BY <1>1, <2>1, <2>2, CommandTables DEF CommandDone, Before, Up
    <3>2. HandlerShape'
      BY <1>4, <2>2, <3>1 DEF ConfigInit, HandlerShape, Untouched
    <3> QED
      BY <1>1, <1>4, <2>2, <3>2, StepInside DEF ConfigInit, CommandDone, Handling
  <2>3. CASE ~managed /\ Goto("finish") /\ UNCHANGED <<exception, fleet>>
    <3>1. After("configuring")'
      BY <1>4, <2>1, <2>3 DEF ConfigInit, Before, After
    <3>2. HandlerShape'
      BY <1>1, <1>4, <2>3, <3>1 DEF ConfigInit, HandlerShape, Untouched
    <3> QED
      BY <1>1, <1>4, <2>3, <3>2, StepInside DEF ConfigInit, Handling
  <2>4. ~(managed /\ CommandBreaks("configuring"))
    BY <2>1, CommandTables DEF CommandBreaks, CommandMust, Before
  <2> QED
    BY <1>4, <2>2, <2>3, <2>4 DEF ConfigInit
<1>5. CASE Archived
  <2>1. managed /\ fleet = "ready"
    BY <1>5 DEF Archived, SteadyInv, ProcessShape
  <2>2. After("configuring")' /\ pc' = "finish"
    BY <1>5, <2>1, CommandTables DEF Archived, After
  <2>3. HandlerShape'
    BY <1>1, <1>5, <2>2 DEF Archived, HandlerShape, Untouched
  <2> QED
    BY <1>1, <1>5, <2>3, StepInside DEF Archived, Handling
<1>6. CASE ArchiveBreaks
  BY <1>6 DEF ArchiveBreaks, Steady, SteadyFaults
<1>7. CASE Fails("configuring", {"work"}, {"work", "archive"}, "config")
  BY <1>1, <1>7, IntoRecovery DEF Fails
<1>8. CASE ConfigCompletes
  <2>1. After("configuring") /\ state' = "ready"
    BY <1>8, TransitionsListed, StateTables
       DEF ConfigCompletes, Complete, SteadyInv, ProcessShape
  <2>2. Rest(state)'
    BY <1>8, <2>1, CommandTables DEF ConfigCompletes, After, Rest
  <2> QED
    BY <1>1, <1>8, <2>1, <2>2, StepEnds DEF ConfigCompletes, Complete
<1> QED
  BY <1>2, <1>3, <1>4, <1>5, <1>6, <1>7, <1>8 DEF Config

\* A command that is sent finds the processes in the state it starts from.
LEMMA RunCommandSteady ==
    ASSUME Steady, SteadyInv, RunnerOnly, NEW c \in {"starting", "stopping"},
           RunCommand(c) \/ RunCompletes(c)
    PROVE  SteadyShape' /\ OnePlace' /\ ProcessShape'
<1> USE DEF At, Goto, shared, boot
<1>1. /\ cmd = c /\ c \in Transitions /\ c # "booting" /\ c # "configuring" /\ c # "terminating"
      /\ Working /\ pc \in {"work", "finish"} /\ ~exception
      /\ state = c /\ (fleet \in Up => launched)
      /\ caller \in {"nobody", "handler", "except"}
  BY TransitionsListed, WorkingAlone
     DEF RunCommand, RunCompletes, Complete, Working, Handling, Recovering, SteadyInv,
         SteadyShape, ProcessShape
<1>2. CASE RunCommand(c)
  <2>1. Before(c) /\ "command" \notin Faults
    BY <1>1, <1>2 DEF RunCommand, SteadyInv, ProcessShape, Untouched, Steady, SteadyFaults
  <2>2. CASE managed /\ CommandDone(c) /\ Goto("finish")
    <3>1. fleet = CommandFrom[c] /\ fleet # "none" /\ fleet \in Up
      BY <1>1, <2>1, <2>2, CommandTables DEF Before, Up
    <3>2. fleet' = CommandTo[c] /\ managed' = managed /\ launched' = launched
      BY <1>2, <2>2, <3>1 DEF CommandDone, RunCommand
    <3>3. After(c)'
      BY <1>1, <2>2, <3>2 DEF After
    <3>4. HandlerShape'
      BY <1>1, <2>2, <3>1, <3>2, <3>3 DEF HandlerShape, Untouched
    <3> QED
      BY <1>1, <1>2, <2>2, <3>4, StepInside DEF RunCommand, CommandDone, Handling
  <2>3. CASE ~managed /\ Goto("finish") /\ UNCHANGED <<exception, fleet>>
    <3>1. After(c)'
      BY <1>1, <1>2, <2>1, <2>3 DEF RunCommand, Before, After
    <3>2. HandlerShape'
      BY <1>1, <1>2, <2>3, <3>1 DEF RunCommand, HandlerShape, Untouched
    <3> QED
      BY <1>1, <1>2, <2>3, <3>2, StepInside DEF RunCommand, Handling
  <2>4. ~(managed /\ CommandBreaks(c))
    BY <1>1, <2>1 DEF CommandBreaks, CommandMust, Before
  <2> QED
    BY <1>2, <2>2, <2>3, <2>4 DEF RunCommand
<1>3. CASE RunCompletes(c)
  <2>1. After(c) /\ state' = StateTo(c)
    BY <1>1, <1>3 DEF RunCompletes, Complete, SteadyInv, ProcessShape
  <2>2. StateTo(c) = CommandTo[c] /\ StateTo(c) \in {"ready", "running"}
    BY <1>1, StateTables, CommandTables
  <2>3. Rest(state)'
    BY <1>1, <1>3, <2>1, <2>2 DEF RunCompletes, After, Rest
  <2> QED
    BY <1>1, <1>3, <2>1, <2>2, <2>3, StepEnds DEF RunCompletes, Complete, Handling
<1> QED
  BY <1>2, <1>3

\* The entry of start and stop, and the failures of their calls.
LEMMA RunEntrySteady ==
    ASSUME Steady, SteadyInv, RunnerOnly,
           \/ StartBegin \/ Fails("starting", {"work"}, {"work", "finish"}, "start")
           \/ StopBegin \/ Fails("stopping", {"work"}, {"work", "finish"}, "stop")
    PROVE  SteadyShape' /\ OnePlace' /\ ProcessShape'
<1> USE DEF At, Goto, shared, boot
<1>1. /\ cmd \in {"starting", "stopping"} /\ cmd \in Transitions
      /\ Working /\ pc \in Handling /\ ~exception
      /\ state = cmd /\ (fleet \in Up => launched)
      /\ caller \in {"nobody", "handler", "except"}
  BY TransitionsListed, WorkingAlone
     DEF StartBegin, StopBegin, Fails, Working, Handling, Recovering, SteadyInv,
         SteadyShape, ProcessShape
<1>2. UNCHANGED <<state, runParams, flags, exception, launched, managed, noRecovery, fleet>>
  BY DEF StartBegin, StopBegin, Fails
<1>3. CASE Alert \/ Raise
  BY <1>1, <1>2, <1>3, IntoRecovery
<1>4. CASE pc = "begin" /\ Goto("work")
  <2>1. Before(cmd)
    BY <1>1, <1>4 DEF SteadyInv, ProcessShape, Untouched
  <2>2. Before(cmd)' /\ cmd' = cmd
    BY <1>2, <1>4, <2>1 DEF Before
  <2>3. HandlerShape'
    BY <1>1, <1>2, <1>4, <2>2 DEF HandlerShape, Untouched
  <2> QED
    BY <1>1, <1>2, <1>4, <2>3, StepInside DEF Handling
<1> QED
  BY <1>3, <1>4 DEF StartBegin, StopBegin, Fails

\* do_terminate kills what DAQInterface launched, or recovers.
LEMMA TerminateSteady ==
    ASSUME Steady, SteadyInv, Terminate, RunnerOnly
    PROVE  SteadyShape' /\ OnePlace' /\ ProcessShape'
<1> USE DEF At, Goto, shared, boot
<1>1. /\ cmd = "terminating" /\ cmd \in Transitions /\ Working /\ pc \in Handling /\ ~exception
      /\ state = "terminating" /\ (fleet \in Up => launched)
      /\ caller \in {"nobody", "handler", "except"}
  BY TransitionsListed, WorkingAlone
     DEF Terminate, TerminateKills, TerminateBreaks, RunCompletes, Complete, Working,
         Handling, Recovering, SteadyInv, SteadyShape, ProcessShape
<1>2. CASE TerminateKills
  <2>1. Before("terminating") /\ pc' = "finish" /\ cmd' = "terminating"
    BY <1>1, <1>2 DEF TerminateKills, SteadyInv, ProcessShape, Untouched
  <2>2. fleet' \notin Up
    BY <1>2, <2>1 DEF TerminateKills, Before, Up
  <2>3. HandlerShape'
    BY <2>1, <2>2 DEF HandlerShape, Untouched, After
  <2> QED
    BY <1>1, <1>2, <2>3, StepInside DEF TerminateKills, Handling
<1>3. CASE TerminateBreaks
  <2>1. fleet' \in Up => launched'
    BY <1>1, <1>3 DEF TerminateBreaks
  <2> QED
    BY <1>1, <1>3, <2>1, IntoRecovery DEF TerminateBreaks
<1>4. CASE RunCompletes("terminating")
  <2>1. After("terminating") /\ state' = "stopped"
    BY <1>1, <1>4, StateTables DEF RunCompletes, Complete, SteadyInv, ProcessShape
  <2>2. Rest(state)'
    BY <1>4, <2>1 DEF RunCompletes, After, Rest
  <2> QED
    BY <1>1, <1>4, <2>1, <2>2, StepEnds DEF RunCompletes, Complete
<1> QED
  BY <1>2, <1>3, <1>4 DEF Terminate

\* Pause and resume: runner sends the command itself.  Without processes of
\* its own the call raises, and the exception leads into do_recover.
LEMMA CommandSteady ==
    ASSUME Steady, SteadyInv, RunnerOnly, NEW c \in CommandOnly,
           CommandRuns(c) \/ CommandCompletes(c)
    PROVE  SteadyShape' /\ OnePlace' /\ ProcessShape'
<1> USE DEF At, Goto, shared, boot
<1>1. c \in {"pausing", "resuming"} /\ c \in Transitions /\ Verbing(c) = c
  BY SteadyListed, TransitionsListed
     DEF CommandRuns, CommandCompletes, Complete, SteadyInv, SteadyShape, Verbing, CommandOnly, Steadies
<1>2. /\ cmd = c /\ Working /\ pc \in Handling /\ ~exception
      /\ state = c /\ (fleet \in Up => launched)
      /\ caller \in {"nobody", "handler", "except"}
  BY <1>1, WorkingAlone
     DEF CommandRuns, CommandCompletes, Complete, Working, Handling, Recovering, SteadyInv,
         SteadyShape, ProcessShape
<1>3. CASE CommandRuns(c)
  <2>1. Before(c) /\ UNCHANGED <<state, flags, launched, managed>>
    BY <1>1, <1>2, <1>3 DEF CommandRuns, SteadyInv, ProcessShape, Untouched
  <2>2. CASE CommandDone(c) /\ Goto("finish")
    <3>1. fleet = CommandFrom[c] /\ fleet # "none" /\ fleet \in Up /\ managed
      BY <1>1, <2>1, <2>2, CommandTables DEF Before, Up, CommandDone, CommandMay
    <3>2. fleet' = CommandTo[c] /\ After(c)'
      BY <1>1, <2>1, <2>2, <3>1 DEF CommandDone, After
    <3>3. HandlerShape'
      BY <1>1, <1>2, <2>1, <2>2, <3>1, <3>2 DEF HandlerShape, Untouched
    <3> QED
      BY <1>2, <2>1, <2>2, <3>3, StepInside DEF CommandDone, Handling
  <2>3. CASE CommandBreaks(c) /\ Raise
    <3>1. fleet = "listed" /\ fleet' = "listed"
      BY <1>1, <2>1, <2>3, CommandTables
         DEF Before, CommandBreaks, CommandMust, Steady, SteadyFaults, Up
    <3>2. pc' = "recover" /\ cmd' = "none" /\ caller' = "except"
      BY <2>3 DEF Raise
    <3>3. HandlerShape'
      BY <3>1, <3>2, TransitionsListed DEF HandlerShape, Up
    <3> QED
      BY <1>2, <2>1, <3>2, <3>3, StepInside DEF Recovering
  <2> QED
    BY <1>3, <2>2, <2>3 DEF CommandRuns
<1>4. CASE CommandCompletes(c)
  <2>1. After(c) /\ state' = StateTo(c)
    BY <1>1, <1>2, <1>4 DEF CommandCompletes, Complete, SteadyInv, ProcessShape
  <2>2. StateTo(c) = CommandTo[c] /\ StateTo(c) \in {"paused", "running"}
    BY <1>1, StateTables, CommandTables
  <2>3. Rest(state)'
    BY <1>1, <1>4, <2>1, <2>2 DEF CommandCompletes, After, Rest
  <2> QED
    BY <1>2, <1>4, <2>1, <2>2, <2>3, StepEnds DEF CommandCompletes, Complete
<1> QED
  BY <1>3, <1>4

\* runner takes a flag, or finds a failure left behind: the first is the start
\* of the handler the state names, the second does not happen here.
LEMMA PickSteady ==
    ASSUME Steady, SteadyInv, RunnerOnly, NEW c \in flags, PickFlag(c)
    PROVE  SteadyShape' /\ OnePlace' /\ ProcessShape'
<1> USE SteadyListed DEF shared, boot, runner
<1>1. /\ pc = "idle" /\ flags' = flags \ {c} /\ cmd' = c
      /\ UNCHANGED <<state, exception, launched, managed, noRecovery, fleet, rpc, req, killed>>
      /\ ~exception
  BY DEF PickFlag, RunnerOnly, server
<1>2. c \in SteadyRequests /\ c # "recovering" /\ c # "none"
  BY DEF SteadyInv, SteadyShape, SteadyRequests, Steadies, Toggles
<1>3. pc' = "begin" /\ caller' = "nobody"
  BY <1>2 DEF PickFlag
<1>4. (\A t : Before(t)' <=> Before(t)) /\ (Rest(state)' <=> Rest(state))
  BY <1>1 DEF Before, Rest
<1>5. SteadyShape'
  BY <1>1, <1>2, <1>3, TransitionsListed DEF SteadyInv, SteadyShape, Recovering
<1>6. CASE c \in Transitions
  <2>1. state = c /\ Queued /\ ~Serving /\ Before(c) /\ ~Queued'
    BY <1>1, <1>6 DEF SteadyInv, OnePlace, Queued, ProcessShape
  <2>2. OnePlace'
    BY <1>1, <1>3, <1>6, <2>1 DEF OnePlace, Queued, Serving, Working, Recovering, Handling
  <2>3. fleet \in Up => launched
    BY DEF SteadyInv, ProcessShape
  <2>4. /\ state' \in Transitions /\ ~Queued' /\ ~Serving' /\ fleet' = fleet /\ launched' = launched
        /\ Before(cmd)' /\ pc' = "begin"
    BY <1>1, <1>3, <1>4, <1>6, <2>1 DEF Serving
  <2>5. ProcessShape'
    BY <2>3, <2>4 DEF ProcessShape, Serving
  <2> QED
    BY <1>5, <2>2, <2>5
<1>7. CASE c \notin Transitions
  <2>1. cmd' \notin Transitions /\ (Queued' <=> Queued) /\ (Serving' <=> Serving) /\ ~Working'
    BY <1>1, <1>3, <1>7 DEF Queued, Serving, Working, Recovering
  <2>2. OnePlace'
    BY <1>1, <1>3, <2>1 DEF SteadyInv, OnePlace, Queued, Serving, Recovering, Handling
  <2>3. /\ fleet' = fleet /\ launched' = launched /\ state' = state /\ rpc' = rpc /\ req' = req
        /\ cmd' \notin Transitions /\ cmd' # "booting" /\ pc' = "begin" /\ state' \notin Transitions => Rest(state)'
    BY <1>1, <1>3, <1>4, <2>1, TransitionsListed DEF SteadyInv, ProcessShape
  <2>4. ProcessShape'
    BY <1>1, <1>3, <1>4, <2>1, TransitionsListed DEF SteadyInv, ProcessShape, Serving
  <2> QED
    BY <1>5, <2>2, <2>4
<1> QED
  BY <1>6, <1>7

\* do_enable and do_disable end where they began.
LEMMA ToggleSteady ==
    ASSUME Steady, SteadyInv, RunnerOnly, NEW c \in Toggles, Toggle(c)
    PROVE  SteadyShape' /\ OnePlace' /\ ProcessShape'
<1>1. /\ pc' = "idle" /\ cmd' = "none" /\ caller' = "nobody"
      /\ pc = "begin" /\ cmd = c /\ c \notin Transitions
      /\ UNCHANGED <<state, flags, exception, launched, managed, noRecovery, fleet, rpc, req, killed>>
  BY TransitionsListed DEF Toggle, At, Return, shared, boot, RunnerOnly, server, Toggles
<1>2. /\ (\A t : Before(t)' <=> Before(t)) /\ (Rest(state)' <=> Rest(state)) /\ ~Working'
      /\ (Queued' <=> Queued) /\ (Serving' <=> Serving)
  BY <1>1 DEF Before, Rest, Working, Queued, Serving, Handling, Recovering
<1>3. ~exception
  BY <1>1 DEF SteadyInv, SteadyShape, Recovering
<1>4. SteadyShape'
  BY <1>1, <1>3 DEF SteadyInv, SteadyShape, Recovering
<1>5. OnePlace'
  BY <1>1, <1>2 DEF SteadyInv, OnePlace, Queued, Serving, Handling, Recovering
<1>6. ProcessShape'
  BY <1>1, <1>2, TransitionsListed DEF SteadyInv, ProcessShape, Serving
<1> QED
  BY <1>4, <1>5, <1>6

\* do_recover takes what is left of the transition to "stopped": either it has
\* nothing to wind down, or it has killed the processes when it clears the flags.
LEMMA RecoverSteady ==
    ASSUME Steady, SteadyInv, Recover, RunnerOnly
    PROVE  SteadyShape' /\ OnePlace' /\ ProcessShape'
<1> USE DEF Goto, shared, boot
<1>1. /\ pc \in Recovering /\ Working /\ (fleet \in Up => launched) /\ (exception => caller = "except")
      /\ caller \in {"nobody", "handler", "except"}
  BY DEF Recover, RecoverSkips, RecoverWindsDown, RecoverBreaks, RecoverClearsFlags, RecoverCompletes,
         Working, Recovering, SteadyInv, SteadyShape, ProcessShape
<1>2. CASE RecoverSkips \/ RecoverCompletes
  <2>1. /\ state' = "stopped" /\ UNCHANGED <<flags, launched, managed, noRecovery, fleet>> /\ Resume
    BY <1>2, StateTables DEF RecoverSkips, RecoverCompletes
  <2>2. Return /\ ~exception'
    BY <1>1, <2>1 DEF Resume
  <2>3. fleet \notin Up \/ noRecovery
    <3>1. CASE RecoverSkips
      BY <1>1, <3>1 DEF RecoverSkips, NothingToRecover
    <3>2. CASE RecoverCompletes
      BY <3>2 DEF RecoverCompletes, SteadyInv, ProcessShape, Up
    <3> QED
      BY <1>2, <3>1, <3>2
  <2>4. Rest(state)'
    BY <2>1, <2>3 DEF Rest
  <2> QED
    BY <1>1, <2>1, <2>2, <2>4, StepEnds
<1>3. CASE RecoverWindsDown
  <2>1. managed /\ fleet' = "none" /\ pc' = "clear"
    BY <1>3 DEF RecoverWindsDown, NothingToRecover, Steady, SteadyFaults, SteadyInv, Inv, LaunchShape
  <2>2. HandlerShape'
    BY <2>1 DEF HandlerShape, Untouched, Up
  <2> QED
    BY <1>1, <1>3, <2>1, <2>2, StepInside DEF RecoverWindsDown, Recovering, SteadyInv, SteadyShape
<1>4. ~RecoverBreaks
  BY DEF RecoverBreaks, Steady, SteadyFaults
<1>5. CASE RecoverClearsFlags
  <2>1. fleet' = "none" /\ pc' = "stop" /\ flags' = {}
    BY <1>5 DEF RecoverClearsFlags, SteadyInv, ProcessShape
  <2>2. HandlerShape'
    BY <2>1 DEF HandlerShape, Untouched, Up
  <2> QED
    BY <1>1, <1>5, <2>1, <2>2, StepInside DEF RecoverClearsFlags, Recovering
<1> QED
  BY <1>2, <1>3, <1>4, <1>5 DEF Recover

\* Every step of the runner thread.
LEMMA RunSteady ==
    ASSUME Steady, SteadyInv, Run
    PROVE  SteadyShape' /\ OnePlace' /\ ProcessShape'
<1>1. RunnerStep /\ RunnerOnly
  BY DEF Run
<1>2. ~SeeException
  BY DEF SeeException, SteadyInv, SteadyShape, Recovering
<1>3. ~MonitorFails
  BY DEF MonitorFails, Steady, SteadyFaults
<1>4. ~\E c \in Traces : TraceDone(c) \/ TraceBreaks(c)
  <2>1. SUFFICES ASSUME NEW c \in Traces, TraceDone(c) \/ TraceBreaks(c) PROVE FALSE
    OBVIOUS
  <2>2. cmd = c /\ cmd # "none" /\ cmd \notin SteadyRequests
    BY <2>1 DEF TraceDone, TraceBreaks, At, Traces, SteadyRequests
  <2> QED
    BY <2>2 DEF SteadyInv, SteadyShape
<1> QED
  BY <1>1, <1>2, <1>3, <1>4, PickSteady, BootSteady, ConfigSteady, RunEntrySteady,
     RunCommandSteady, TerminateSteady, CommandSteady, ToggleSteady, RecoverSteady
     DEF RunnerStep, StartRunning, StopRunning

\* Every step of the program.
LEMMA NextSteady ==
    ASSUME Steady, SteadyInv, [Next]_vars
    PROVE  SteadyShape' /\ OnePlace' /\ ProcessShape'
<1>1. ~KillArrives /\ ~KillExits
  BY DEF KillArrives, KillExits, Steady, SteadyInv, SteadyShape
<1>2. CASE UNCHANGED vars
  <2>1. UNCHANGED <<state, flags, exception, launched, managed, noRecovery, fleet, pc,
                    cmd, caller, rpc, req, killed>>
    BY <1>2 DEF vars
  <2>2. /\ (\A t : Before(t)' <=> Before(t)) /\ (\A t : After(t)' <=> After(t))
        /\ (\A s : Rest(s)' <=> Rest(s))
        /\ (Working' <=> Working) /\ (Queued' <=> Queued) /\ (Serving' <=> Serving)
    BY <2>1 DEF Before, After, Rest, Working, Queued, Serving
  <2>3. SteadyShape'
    BY <2>1 DEF SteadyInv, SteadyShape
  <2>4. OnePlace'
    BY <2>1, <2>2 DEF SteadyInv, OnePlace
  <2>5. ProcessShape'
    BY <2>1, <2>2 DEF SteadyInv, ProcessShape
  <2> QED
    BY <2>3, <2>4, <2>5
<1> QED
  BY <1>1, <1>2, ServeSteady, RunSteady DEF Next

-----------------------------------------------------------------------------
(* The theorems. *)

\* The strengthening holds in every steady environment: state_change's
\* unguarded write, the flags and the handlers never hold two transitions.
THEOREM SteadyInvariant ==
    ASSUME Steady PROVE Spec => []SteadyInv
<1>1. Init => SteadyShape /\ OnePlace /\ ProcessShape
  BY InitSteady
<1>2. Inv /\ SteadyShape /\ OnePlace /\ ProcessShape /\ [Next]_vars
      => (SteadyShape /\ OnePlace /\ ProcessShape)'
  BY NextSteady DEF SteadyInv
<1> QED
  BY <1>1, <1>2, Invariant, PTL DEF Spec, SteadyInv

\* dict_state_from keeps every other transition out while one is anywhere
\* between its acceptance and the end of its handler.
THEOREM OneAtATime ==
    ASSUME Steady PROVE Spec => []OneTransitionAtATime
<1>1. SteadyInv => OneTransitionAtATime
  <2>1. SUFFICES ASSUME SteadyInv PROVE OneTransitionAtATime
    OBVIOUS
  <2>2. pc \in Handling \cup Recovering \cup {"idle"}
    BY <2>1 DEF SteadyInv, Inv, TypeOK, RunnerPoints, SteadyShape, Handling, Recovering
  <2>3. CASE Queued
    <3>1. ~Serving /\ ~Working
      BY <2>1, <2>3 DEF SteadyInv, OnePlace
    <3>2. InPipeline \subseteq {state}
      BY <2>1, <2>2, <3>1 DEF InPipeline, Serving, Working, SteadyInv, OnePlace
    <3> QED
      BY <3>2 DEF OneTransitionAtATime
  <2>4. CASE Serving
    <3>1. ~Queued /\ ~Working
      BY <2>1, <2>4 DEF SteadyInv, OnePlace
    <3>2. InPipeline \subseteq {req}
      BY <2>1, <2>2, <2>4, <3>1 DEF InPipeline, Serving, Working, Queued
    <3> QED
      BY <3>2 DEF OneTransitionAtATime
  <2>5. CASE ~Queued /\ ~Serving
    <3>1. InPipeline \subseteq {cmd}
      BY <2>5 DEF InPipeline, Serving, Queued
    <3> QED
      BY <3>1 DEF OneTransitionAtATime
  <2> QED
    BY <2>3, <2>4, <2>5
<1> QED
  BY <1>1, SteadyInvariant, PTL

\* When nothing is under way, the state clients are told is the state of the
\* processes that complete_state_change, the reverts and do_recover left.
THEOREM StateMatches ==
    ASSUME Steady PROVE Spec => []StateMatchesProcesses
<1>1. SteadyInv => StateMatchesProcesses
  <2>1. SUFFICES ASSUME SteadyInv, Quiet, managed PROVE state \notin Transitions
    BY DEF StateMatchesProcesses, SteadyInv, ProcessShape, Rest
  <2>2. ~Underway(state) \/ state \notin Transitions
    BY <2>1 DEF Quiet, Underway, Handling, Recovering
  <2> QED
    BY <2>1, <2>2 DEF SteadyInv, Inv, NoStrandedTransition
<1> QED
  BY <1>1, SteadyInvariant, PTL

\* reset_variables, which empties procinfos, never meets processes that run.
THEOREM BootForgetsNone ==
    ASSUME Steady PROVE Spec => []BootForgetsNoProcess
<1>1. SteadyInv => BootForgetsNoProcess
  BY TransitionsListed
     DEF BootForgetsNoProcess, SteadyInv, ProcessShape, At, Untouched, Before
<1> QED
  BY <1>1, SteadyInvariant, PTL

-----------------------------------------------------------------------------
(* The implementation of OperatorView, without its fairness. *)

\* The edges of the abstract machine, one by one.
LEMMA ViewSteps ==
    /\ \A t \in Steadies : LeadsFrom(t, state) /\ state' = t => View!Next
    /\ \A t \in Steadies : state = t /\ state' = StateTo(t) => View!Next
    /\ \A t \in Steadies : state = t /\ state' = "stopped" => View!Next
    /\ \A t \in {"booting", "configuring"} : state = t /\ state' = StateFrom(t) => View!Next
<1>1. \A t \in Steadies : LeadsFrom(t, state) /\ state' = t => View!Request
  BY DEF Steadies, LeadsFrom, View!Request, View!Edges
<1>2. \A t \in Steadies : state = t /\ state' = StateTo(t) => View!Achieve
  BY StateTables DEF Steadies, View!Achieve, View!Edges
<1>3. \A t \in Steadies : state = t /\ state' = "stopped" => View!Fail
  BY DEF Steadies, View!Fail, View!Edges
<1>4. \A t \in {"booting", "configuring"} : state = t /\ state' = StateFrom(t) => View!Revert
  BY StateTables DEF View!Revert, View!Revertible, View!Edges
<1> QED
  BY <1>1, <1>2, <1>3, <1>4 DEF View!Next, View!End

\* Every step a steady program takes is one of the abstract machine or leaves
\* the state alone: a request writes it over the state it starts from, and a
\* handler or do_recover takes it from its own transition to where that ends.
LEMMA StepImplements ==
    ASSUME Steady, SteadyInv, [Next]_vars
    PROVE  [View!Next]_state
<1>1. SUFFICES ASSUME state' # state PROVE View!Next
  OBVIOUS
<1>2. state \in States \ {"", "ready|booted", "recovering", "shutting"}
  BY DEF SteadyInv, SteadyShape
<1>3. CASE Serve
  <2>1. SetState
    BY <1>1, <1>3 DEF Serve, ServerStep, Receive, SetParams, RaiseFlag, shared
  <2>2. req \in Steadies /\ Accepts(req, state)
    BY <2>1, SteadyListed, TransitionsListed
       DEF SetState, SteadyInv, SteadyShape, OnePlace, Serving, Inv, ServerShape
  <2> QED
    BY <1>2, <2>1, <2>2, AcceptedRests, ViewSteps DEF SetState
<1>4. CASE Run
  <2>1. PICK c \in {"booting", "configuring", "starting", "stopping", "terminating",
                    "pausing", "resuming", "shutting", "recovering"} :
          \/ cmd = c /\ pc \in Handling /\ c # "recovering"
             /\ \/ state' = StateTo(Verbing(c))
                \/ c \in {"booting", "configuring"} /\ state' = StateFrom(state)
          \/ c = "recovering" /\ pc \in Recovering /\ state' = StateTo("recovering")
    <3> USE <1>1 DEF At, Goto, shared, Complete, Handling, Recovering
    <3>1. RunnerStep
      BY <1>4 DEF Run
    <3>2. ~SeeException /\ ~MonitorFails /\ ~(\E c \in flags : PickFlag(c))
          /\ ~(\E c \in Toggles : Toggle(c))
          /\ ~(\E c \in Traces : TraceDone(c) \/ TraceBreaks(c))
      BY DEF SeeException, MonitorFails, PickFlag, Toggle, TraceDone, TraceBreaks
    <3>3. CASE Boot
      BY <3>3 DEF Boot, BootWithoutComponents, BootBegin, BootReverts, BootListed, BootLaunches,
                  Fails, BootCompletes, Verbing
    <3>4. CASE Config
      BY <3>4 DEF Config, ConfigBegin, ConfigReverts, ConfigInit, Archived, ArchiveBreaks,
                  Fails, ConfigCompletes, Verbing
    <3>5. CASE StartRunning \/ StopRunning
      BY <3>5 DEF StartRunning, StopRunning, StartBegin, StopBegin, RunCommand, Fails,
                  RunCompletes, Verbing
    <3>6. CASE Terminate
      BY <3>6 DEF Terminate, TerminateKills, TerminateBreaks, RunCompletes, Verbing
    <3>7. CASE \E c \in CommandOnly : CommandRuns(c) \/ CommandCompletes(c)
      BY <3>7 DEF CommandOnly, CommandRuns, CommandCompletes
    <3>8. CASE Recover
      BY <3>8 DEF Recover, RecoverSkips, RecoverWindsDown, RecoverBreaks, RecoverClearsFlags,
                  RecoverCompletes
    <3> QED
      BY <3>1, <3>2, <3>3, <3>4, <3>5, <3>6, <3>7, <3>8 DEF RunnerStep
  <2>2. Working
    BY <2>1, TransitionsListed DEF Working
  <2>3. state \in Steadies
    BY <1>2, <2>2, WorkingAlone, TransitionsListed DEF Steadies
  <2>4. CASE c = "recovering"
    BY <2>1, <2>3, <2>4, StateTables, ViewSteps DEF Handling, Recovering
  <2>5. CASE c # "recovering"
    <3>1. cmd = c /\ state = c
      BY <2>1, <2>2, <2>5, WorkingAlone, TransitionsListed
    <3>2. Verbing(c) = c
      BY <1>2, <3>1 DEF Verbing
    <3> QED
      BY <2>1, <2>3, <2>5, <3>1, <3>2, ViewSteps
  <2> QED
    BY <2>4, <2>5
<1>5. ~KillArrives /\ ~KillExits /\ ~UNCHANGED vars
  BY <1>1 DEF KillArrives, KillExits, vars, Steady, SteadyInv, SteadyShape
<1> QED
  BY <1>3, <1>4, <1>5 DEF Next

\* In a steady environment what clients see is a behaviour of OperatorView's
\* initial condition and next-state relation, for all requests and failures
\* of those kinds.
THEOREM ImplementsView ==
    ASSUME Steady PROVE Spec => View!Init /\ [][View!Next]_state
<1>1. Init => View!Init
  BY DEF Init, View!Init
<1>2. SteadyInv /\ [Next]_vars => [View!Next]_state
  BY StepImplements
<1> QED
  BY <1>1, <1>2, SteadyInvariant, PTL DEF Spec

=============================================================================
