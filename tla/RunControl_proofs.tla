-------------------------- MODULE RunControl_proofs --------------------------
(***************************************************************************)
(* Theorems about RunControl, for every set of requests and every set of   *)
(* faults.                                                                 *)
(***************************************************************************)
EXTENDS RunControl, TLAPS

-----------------------------------------------------------------------------
(* The tables. *)

\* The transitions that have a state of their own, listed.
LEMMA TransitionsListed ==
    Transitions = {"booting", "shutting", "stopping", "configuring", "starting",
                   "pausing", "resuming", "terminating", "recovering"}
BY DEF Transitions, DictStateTo

\* complete_state_change always leads out of the transitional states, whatever
\* do_command's "verbing" holds.
LEMMA CompletionRests ==
    /\ \A t \in Transitions : StateTo(t) \in Resting
    /\ \A c \in CommandOnly : StateTo(Verbing(c)) \in Resting
    /\ StateTo("recovering") = "stopped"
    /\ Resting \cap Transitions = {}
BY TransitionsListed
   DEF StateTo, DictStateTo, Resting, CommandOnly, Verbing

\* revert_state_change leads out of them too, but for "recovering".
LEMMA ReversionRests ==
    ASSUME NEW s \in States
    PROVE  /\ StateFrom(s) \in States
           /\ StateFrom(s) \in Transitions => s = "recovering" /\ StateFrom(s) = s
<1> DEFINE From == {"booting", "shutting", "stopping", "configuring", "starting",
                    "pausing", "resuming", "terminating"}
<1>1. DOMAIN DictStateFrom = From
  BY DEF DictStateFrom
<1>2. CASE s \in From
  <2>1. StateFrom(s) = DictStateFrom[s]
    BY <1>1, <1>2 DEF StateFrom
  <2>2. DictStateFrom[s] \in {"stopped", "ready", "running", "booted", "paused", "ready|booted"}
    BY <1>2 DEF DictStateFrom
  <2> QED
    BY <2>1, <2>2, TransitionsListed DEF Resting, States
<1>3. CASE s \notin From
  <2>1. StateFrom(s) = s
    BY <1>1, <1>3 DEF StateFrom
  <2>2. s \in Transitions => s = "recovering"
    BY <1>3, TransitionsListed
  <2> QED
    BY <2>1, <2>2
<1> QED
  BY <1>2, <1>3

\* do_command leaves the processes and self.exception in a known state.
LEMMA CommandResult ==
    ASSUME TypeOK, NEW c \in DOMAIN CommandTo,
           CommandDone(c) \/ CommandBreaks(c)
    PROVE  fleet' \in FleetState /\ exception' \in BOOLEAN
<1>1. DOMAIN CommandTo = {"configuring", "starting", "stopping", "pausing", "resuming", "shutting"}
  BY DEF CommandTo
<1>2. CommandTo[c] \in Up
  BY <1>1 DEF CommandTo, Up
<1>3. CASE CommandDone(c)
  BY <1>2, <1>3 DEF CommandDone, FleetState, TypeOK
<1>4. CASE CommandBreaks(c)
  BY <1>4 DEF CommandBreaks, FleetState, Up, TypeOK
<1> QED
  BY <1>3, <1>4

-----------------------------------------------------------------------------
(* Invariants of every environment. *)

LEMMA InitInv == Init => Inv
BY TransitionsListed
   DEF Init, Inv, TypeOK, ServerShape, LaunchShape, ArchiveShape,
       NoStrandedTransition, RecoveryWindsDown, NoHandlerOnException,
       States, Resting, Commands, Toggles, Traces, WithParams, RunnerPoints, Callers, ServerPoints,
       FleetState, Up, Recovering, Handling

\* state_change, trace_get and trace_set keep the invariant at each of their
\* writes: the state is set before the flag that will serve it.
LEMMA ServeInv == Inv /\ Serve => Inv'
<1> SUFFICES ASSUME Inv, ServerStep PROVE Inv'
  BY DEF Serve
<1> USE TransitionsListed, ConstantsAssumption
    DEF Inv, TypeOK, ServerShape, LaunchShape, ArchiveShape,
        NoStrandedTransition, RecoveryWindsDown, NoHandlerOnException,
        Underway, Recovering, Handling, ServerOnly, shared, boot, runner
<1>1. ASSUME NEW t \in Requests, Receive(t) PROVE Inv'
  BY <1>1 DEF Receive, Commands, Toggles, Traces, WithParams, ServerPoints
<1>2. CASE SetState
  BY <1>2 DEF SetState, States, Commands, ServerPoints
<1>3. CASE SetParams
  BY <1>3 DEF SetParams, Commands, ServerPoints
<1>4. CASE RaiseFlag
  BY <1>4 DEF RaiseFlag, Commands, ServerPoints
<1> QED
  BY <1>1, <1>2, <1>3, <1>4 DEF ServerStep

\* do_recover wrote "stopped" and goes back to its caller.
LEMMA ResumeInv ==
    ASSUME Inv, pc \in Recovering, state' = "stopped", Resume,
           UNCHANGED <<runParams, flags, boot, runKnown, fleet>>, RunnerOnly
    PROVE  Inv'
<1> USE DEF Inv, Recovering, Handling
<1>1. /\ state' \in States /\ state' \notin Transitions
      /\ launched' = launched /\ managed' = managed
  BY TransitionsListed DEF States, Resting, boot
<1>2. ServerShape'
  BY DEF ServerShape, RunnerOnly, server
<1>3. CASE caller = "archive"
  <2>1. /\ pc' = "finish" /\ caller' = "nobody" /\ cmd' = cmd
        /\ exception' = exception
    BY <1>3 DEF Resume
  <2>2. ~exception /\ cmd = "configuring"
    BY <1>3 DEF ArchiveShape
  <2>3. TypeOK'
    BY <1>1, <2>1 DEF TypeOK, RunnerPoints, Callers, RunnerOnly, server, boot
  <2> QED
    BY <1>1, <1>2, <2>1, <2>2, <2>3
       DEF LaunchShape, ArchiveShape, NoStrandedTransition, RecoveryWindsDown,
           NoHandlerOnException
<1>4. CASE caller # "archive"
  <2>1. /\ pc' = "idle" /\ cmd' = "none" /\ caller' = "nobody"
        /\ exception' = exception \/ exception' = FALSE
    BY <1>4 DEF Resume, Return
  <2>2. TypeOK'
    <3>1. pc' \in RunnerPoints /\ cmd' \in Commands \cup {"none"} /\ caller' \in Callers
      BY <2>1 DEF RunnerPoints, Callers
    <3>2. UNCHANGED <<runParams, flags, launched, managed, noRecovery, runKnown, fleet>>
      BY DEF boot
    <3>3. UNCHANGED <<rpc, req, killed>>
      BY DEF RunnerOnly, server
    <3>4. TypeOK /\ state' \in States /\ exception' \in BOOLEAN
      BY <1>1, <2>1 DEF TypeOK
    <3> HIDE DEF Inv
    <3> QED
      BY <3>1, <3>2, <3>3, <3>4 DEF TypeOK
  <2> QED
    BY <1>1, <1>2, <2>1, <2>2
       DEF LaunchShape, ArchiveShape, NoStrandedTransition, RecoveryWindsDown,
           NoHandlerOnException
<1> QED
  BY <1>3, <1>4

\* do_boot starts by clearing what the last run left, and may raise at once.
LEMMA BootBeginInv == ASSUME Inv, BootBegin, RunnerOnly PROVE Inv'
<1>1. /\ fleet' = "none" /\ ~exception' /\ UNCHANGED <<state, runParams, flags>>
      /\ UNCHANGED <<rpc, req, killed>> /\ cmd = "booting" /\ pc = "begin"
      /\ launched' = FALSE /\ managed' = TRUE /\ noRecovery' = FALSE
      /\ runKnown' = FALSE /\ exception' = FALSE
  BY DEF BootBegin, At, ResetVariables, shared, RunnerOnly, server
<1>2. \/ pc' = "work" /\ cmd' = "booting" /\ caller' = caller
      \/ pc' = "recover" /\ cmd' = "none" /\ caller' = "except"
  BY DEF BootBegin, At, Goto, Raise
<1>3. "none" \in FleetState
  BY DEF FleetState
<1>4. TypeOK'
  BY <1>1, <1>2, <1>3 DEF Inv, TypeOK, RunnerPoints, Callers
<1>5. ServerShape' /\ LaunchShape' /\ ArchiveShape'
  BY <1>1, <1>2 DEF Inv, ServerShape, LaunchShape, ArchiveShape
<1>6. NoStrandedTransition' /\ RecoveryWindsDown' /\ NoHandlerOnException'
  BY <1>1, <1>2, TransitionsListed
     DEF Inv, NoStrandedTransition, RecoveryWindsDown, NoHandlerOnException, Underway,
         Recovering, Handling
<1> QED
  BY <1>4, <1>5, <1>6 DEF Inv

\* So does every call of runner and every handler: what leaves a handler either
\* writes a resting state or enters do_recover, which will.
LEMMA RunInv == Inv /\ Run => Inv'
<1> SUFFICES ASSUME Inv, RunnerStep, RunnerOnly PROVE Inv'
  BY DEF Run
<1> USE TransitionsListed, CompletionRests, ReversionRests, ConstantsAssumption
    DEF Inv, TypeOK, ServerShape, LaunchShape, ArchiveShape,
        NoStrandedTransition, RecoveryWindsDown, NoHandlerOnException,
        Underway, Recovering, Handling, RunnerOnly, shared, boot, server,
        At, Goto, Return, Alert, Raise, Complete, RunnerPoints, Callers
<1>1. CASE SeeException
  BY <1>1 DEF SeeException
<1>2. ASSUME NEW c \in flags, PickFlag(c) PROVE Inv'
  BY <1>2 DEF PickFlag
<1>3. CASE MonitorFails
  BY <1>3 DEF MonitorFails, FleetState, Up
<1>4. CASE Boot
  <2>1. CASE BootWithoutComponents
    BY <2>1 DEF BootWithoutComponents
  <2>2. CASE BootBegin
    BY <2>2, BootBeginInv
  <2>3. CASE BootReverts
    BY <2>3 DEF BootReverts, ResetVariables, FleetState
  <2>4. CASE BootListed
    BY <2>4 DEF BootListed, FleetState
  <2>5. CASE BootLaunches
    BY <2>5 DEF BootLaunches, FleetState, Up
  <2>6. CASE Fails("booting", {"launch", "finish"}, {"work", "launch", "finish"}, "boot")
    BY <2>6 DEF Fails
  <2>7. CASE BootCompletes
    BY <2>7 DEF BootCompletes, FleetState, Up, States
  <2> QED
    BY <1>4, <2>1, <2>2, <2>3, <2>4, <2>5, <2>6, <2>7 DEF Boot
<1>5. CASE Config
  <2>1. CASE ConfigBegin
    BY <2>1 DEF ConfigBegin
  <2>2. CASE ConfigReverts
    BY <2>2 DEF ConfigReverts
  <2>3. CASE ConfigInit
    <3>1. fleet' \in FleetState /\ exception' \in BOOLEAN
      BY <2>3, CommandResult DEF ConfigInit, CommandTo
    <3>2. exception' => exception \/ pc' = "recover"
      BY <2>3 DEF ConfigInit, CommandDone
    <3> QED
      BY <2>3, <3>1, <3>2 DEF ConfigInit
  <2>4. CASE Archived
    BY <2>4 DEF Archived
  <2>5. CASE ArchiveBreaks
    BY <2>5 DEF ArchiveBreaks
  <2>6. CASE Fails("configuring", {"work"}, {"work", "archive"}, "config")
    BY <2>6 DEF Fails
  <2>7. CASE ConfigCompletes
    BY <2>7 DEF ConfigCompletes, States
  <2> QED
    BY <1>5, <2>1, <2>2, <2>3, <2>4, <2>5, <2>6, <2>7 DEF Config
<1>6. ASSUME NEW c \in {"starting", "stopping"}, RunCommand(c) PROVE Inv'
  <2>1. fleet' \in FleetState /\ exception' \in BOOLEAN
    BY <1>6, CommandResult DEF RunCommand, CommandTo
  <2>2. exception' => exception \/ pc' = "recover"
    BY <1>6 DEF RunCommand, CommandDone
  <2> QED
    BY <1>6, <2>1, <2>2 DEF RunCommand
<1>7. ASSUME NEW c \in {"starting", "stopping", "terminating"}, RunCompletes(c) PROVE Inv'
  BY <1>7 DEF RunCompletes, States
<1>8. CASE StartRunning
  <2>1. CASE StartBegin
    <3>1. runKnown' \in BOOLEAN
      BY <2>1 DEF StartBegin
    <3>2. Goto("work") \/ Raise
      BY <2>1 DEF StartBegin
    <3> QED
      BY <2>1, <3>1, <3>2 DEF StartBegin
  <2>2. CASE Fails("starting", {"work"}, {"work", "finish"}, "start")
    BY <2>2 DEF Fails
  <2> QED
    BY <1>6, <1>7, <1>8, <2>1, <2>2 DEF StartRunning
<1>9. CASE StopRunning
  <2>1. CASE StopBegin
    BY <2>1 DEF StopBegin
  <2>2. CASE Fails("stopping", {"work"}, {"work", "finish"}, "stop")
    BY <2>2 DEF Fails
  <2> QED
    BY <1>6, <1>7, <1>9, <2>1, <2>2 DEF StopRunning
<1>10. CASE Terminate
  <2>1. CASE TerminateKills
    BY <2>1 DEF TerminateKills, FleetState
  <2>2. CASE TerminateBreaks
    BY <2>2 DEF TerminateBreaks, FleetState, Up
  <2> QED
    BY <1>7, <1>10, <2>1, <2>2 DEF Terminate
<1>11. ASSUME NEW c \in CommandOnly, CommandRuns(c) PROVE Inv'
  <2>1. fleet' \in FleetState /\ exception' \in BOOLEAN
    BY <1>11, CommandResult DEF CommandRuns, CommandTo, CommandOnly
  <2>2. exception' => exception \/ pc' = "recover"
    BY <1>11 DEF CommandRuns, CommandDone
  <2> QED
    BY <1>11, <2>1, <2>2 DEF CommandRuns, CommandOnly
<1>12. ASSUME NEW c \in CommandOnly, CommandCompletes(c) PROVE Inv'
  BY <1>12 DEF CommandCompletes, States
<1>13. ASSUME NEW c \in Toggles, Toggle(c) PROVE Inv'
  BY <1>13 DEF Toggle, Toggles
<1>14. ASSUME NEW c \in Traces, TraceDone(c) \/ TraceBreaks(c) PROVE Inv'
  <2>1. exception' \in BOOLEAN /\ (exception' => exception \/ pc' \notin Handling)
    BY <1>14 DEF TraceDone, TraceBreaks, Traces
  <2>2. Return \/ Raise
    BY <1>14 DEF TraceDone, TraceBreaks
  <2> QED
    BY <1>14, <2>1, <2>2 DEF TraceDone, TraceBreaks, Traces
<1>15. CASE Recover
  <2>1. CASE RecoverSkips
    BY <2>1, ResumeInv DEF RecoverSkips
  <2>2. CASE RecoverWindsDown
    BY <2>2 DEF RecoverWindsDown, NothingToRecover, FleetState, Up
  <2>3. CASE RecoverBreaks
    BY <2>3 DEF RecoverBreaks
  <2>4. CASE RecoverClearsFlags
    BY <2>4 DEF RecoverClearsFlags
  <2>5. CASE RecoverCompletes
    BY <2>5, ResumeInv DEF RecoverCompletes
  <2> QED
    BY <1>15, <2>1, <2>2, <2>3, <2>4, <2>5 DEF Recover
<1> QED
  BY <1>1, <1>2, <1>3, <1>4, <1>5, <1>8, <1>9, <1>10, <1>11, <1>12, <1>13, <1>14, <1>15
     DEF RunnerStep

\* handle_kill_signal only raises the recover flag.
LEMMA KillInv == Inv /\ (KillArrives \/ KillExits) => Inv'
<1> USE DEF Inv, TypeOK, ServerShape, LaunchShape, ArchiveShape,
        NoStrandedTransition, RecoveryWindsDown, NoHandlerOnException,
        Underway, Recovering, Handling, shared, boot, runner, server
<1>1. ASSUME Inv, KillArrives PROVE Inv'
  BY <1>1, TransitionsListed DEF KillArrives, Commands
<1>2. ASSUME Inv, KillExits PROVE Inv'
  BY <1>2 DEF KillExits
<1> QED
  BY <1>1, <1>2

\* No variable of the invariant is outside vars.
LEMMA StutterInv == Inv /\ UNCHANGED vars => Inv'
BY DEF Inv, TypeOK, ServerShape, LaunchShape, ArchiveShape,
       NoStrandedTransition, RecoveryWindsDown, NoHandlerOnException,
       Underway, Recovering, Handling, vars

\* The inductive invariant.
THEOREM Invariant == Spec => []Inv
<1>1. Inv /\ [Next]_vars => Inv'
  BY ServeInv, RunInv, KillInv, StutterInv DEF Next
<1> QED
  BY InitInv, <1>1, PTL DEF Spec

\* The variables keep their types: every state a handler, a revert or the
\* server thread writes is one the tables of component.py know, or "".
THEOREM TypeCorrect == Spec => []TypeOK
BY Invariant, PTL DEF Inv

\* state_change, runner, the reverts and do_recover, which share the state
\* with no lock, never leave a transition that nothing will end.
THEOREM NoneStranded == Spec => []NoStrandedTransition
BY Invariant, PTL DEF Inv

\* do_recover clears the flags only after kill_procs removed every process, or
\* raised.
THEOREM RecoveryKills == Spec => []RecoveryWindsDown
BY Invariant, PTL DEF Inv

\* runner never starts a handler on an exception an earlier one left behind.
THEOREM ExceptionFirst == Spec => []NoHandlerOnException
BY Invariant, PTL DEF Inv

-----------------------------------------------------------------------------
(* Every handler comes to its end *)

\* How far a call of runner has come.  do_recover is called in the middle of do_config,
\* after a failure of any handler, and, if it fails there itself, by the except clause.
RoundOf == [archive |-> 10, request |-> 30, handler |-> 30, except |-> 40, nobody |-> 0]
PlaceOf == [begin |-> 1, work |-> 2, launch |-> 3, archive |-> 4, finish |-> 20,
            recover |-> 1, clear |-> 2, stop |-> 3, idle |-> 0, dead |-> 99]
Point == IF pc \in Recovering THEN RoundOf[caller] + PlaceOf[pc] ELSE PlaceOf[pc]

\* Within a call of runner a step leads further on, or to its end.
FurtherOn ==
    \/ pc = "idle" /\ pc' \in {"begin", "recover"}
    \/ pc \in Handling \cup Recovering /\ pc' \in {"idle", "dead"}
    \/ Point \in 1..50 /\ Point' \in 1..50 /\ Point' > Point

\* Only its own steps move the runner.
RunnerGetsOn == IF Run THEN FurtherOn ELSE UNCHANGED runner

\* The handlers of the commands go from a point to a later one, or alert.
LEMMA HandlersGoOn ==
    ASSUME TypeOK, RunnerOnly,
           \/ Boot \/ Config \/ StartRunning \/ StopRunning \/ Terminate
           \/ \E c \in CommandOnly : CommandRuns(c) \/ CommandCompletes(c)
           \/ \E c \in Toggles : Toggle(c)
           \/ \E c \in Traces : TraceDone(c) \/ TraceBreaks(c)
    PROVE  FurtherOn
<1> DEFINE Ways ==
        \/ pc \in Handling /\ pc' = "idle"
        \/ pc \in Handling /\ pc' = "recover" /\ caller' \in {"handler", "except"}
        \/ pc = "begin" /\ pc' \in {"work", "finish"}
        \/ pc = "work" /\ pc' \in {"launch", "archive", "finish"}
        \/ pc \in {"launch", "archive"} /\ pc' = "finish"
        \/ pc = "archive" /\ pc' = "recover" /\ caller' = "archive"
<1>1. ASSUME Ways PROVE FurtherOn
  BY <1>1 DEF FurtherOn, Point, PlaceOf, RoundOf, Handling, Recovering
<1>2. ASSUME Boot PROVE Ways
  BY <1>2 DEF Boot, BootWithoutComponents, BootBegin, BootReverts, BootListed, BootLaunches,
        Fails, BootCompletes, Complete, At, Goto, Return, Alert, Raise, Handling
<1>3. ASSUME Config PROVE Ways
  BY <1>3 DEF Config, ConfigBegin, ConfigReverts, ConfigInit, Archived, ArchiveBreaks, Fails,
        ConfigCompletes, Complete, At, Goto, Return, Alert, Raise, Handling
<1>4. ASSUME StartRunning PROVE Ways
  BY <1>4 DEF StartRunning, StartBegin, RunCommand, RunCompletes, Fails, Complete,
        At, Goto, Return, Alert, Raise, Handling
<1>5. ASSUME StopRunning PROVE Ways
  BY <1>5 DEF StopRunning, StopBegin, RunCommand, RunCompletes, Fails, Complete,
        At, Goto, Return, Alert, Raise, Handling
<1>6. ASSUME Terminate PROVE Ways
  BY <1>6 DEF Terminate, TerminateKills, TerminateBreaks, RunCompletes, Complete,
        At, Goto, Return, Alert, Raise, Handling
<1>7. ASSUME NEW c \in CommandOnly, CommandRuns(c) \/ CommandCompletes(c) PROVE Ways
  BY <1>7 DEF CommandRuns, CommandCompletes, Complete, At, Goto, Return, Raise, Handling
<1>8. ASSUME NEW c \in Toggles, Toggle(c) PROVE Ways
  BY <1>8 DEF Toggle, At, Return, Handling
<1>9. ASSUME NEW c \in Traces, TraceDone(c) \/ TraceBreaks(c) PROVE Ways
  BY <1>9 DEF TraceDone, TraceBreaks, At, Return, Raise, Handling
<1> QED
  BY <1>1, <1>2, <1>3, <1>4, <1>5, <1>6, <1>7, <1>8, <1>9

\* do_recover goes on, and back to where it was called, or out of it by an exception: then
\* it is called again from the except clause, once.
LEMMA RecoveryGoesOn ==
    ASSUME TypeOK, Recover
    PROVE  FurtherOn
<1>1. caller \in Callers
  BY DEF TypeOK
<1> DEFINE Ways ==
        \/ pc \in Recovering /\ pc' \in {"idle", "dead"}
        \/ caller' = caller /\ pc = "recover" /\ pc' = "clear"
        \/ caller' = caller /\ pc = "clear" /\ pc' = "stop"
        \/ caller = "archive" /\ pc \in Recovering /\ pc' = "finish"
        \/ caller # "except" /\ pc = "recover" /\ pc' = "recover" /\ caller' = "except"
<1>2. Ways
  BY DEF Recover, RecoverSkips, RecoverWindsDown, RecoverBreaks, RecoverClearsFlags,
         RecoverCompletes, Resume, Goto, Return, Raise, Recovering
<1> QED
  BY <1>1, <1>2 DEF FurtherOn, Point, PlaceOf, RoundOf, Recovering, Callers

\* A handler that has been called, with all its failures, the recoveries that they lead
\* to, and a recovery that fails itself, comes to no point of a procedure twice: it is over
\* after a bounded number of steps of the runner, and no other thread moves it.
THEOREM HandlersEnd == Spec => [][RunnerGetsOn]_vars
<1>1. ASSUME Inv, Run PROVE FurtherOn
  <2>1. TypeOK /\ RunnerStep /\ RunnerOnly
    BY <1>1 DEF Inv, Run
  <2>2. CASE SeeException \/ (\E c \in flags : PickFlag(c)) \/ MonitorFails
    BY <2>2 DEF SeeException, PickFlag, MonitorFails, Raise, FurtherOn
  <2>3. CASE Recover
    BY <2>1, <2>3, RecoveryGoesOn
  <2> QED
    BY <2>1, <2>2, <2>3, HandlersGoOn DEF RunnerStep
<1>2. ASSUME Serve \/ KillArrives \/ KillExits PROVE UNCHANGED runner
  BY <1>2 DEF Serve, ServerStep, Receive, SetState, SetParams, RaiseFlag, ServerOnly,
              KillArrives, KillExits
<1>3. Inv /\ [Next]_vars => [RunnerGetsOn]_vars
  BY <1>1, <1>2 DEF Next, RunnerGetsOn
<1> QED
  BY Invariant, <1>3, PTL DEF Spec

=============================================================================
