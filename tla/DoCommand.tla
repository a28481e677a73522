------------------------------ MODULE DoCommand ------------------------------
(***************************************************************************)
(* do_command: one transition sent to all the artdaq processes.            *)
(*                                                                         *)
(* The runner thread orders the subsystems from the sources to the trunk,  *)
(* and walks through them, or backwards through them, by process type and  *)
(* by priority.  The processes it finds together, a bucket, are called at  *)
(* once, each from a thread of its own, and the next bucket waits for all  *)
(* of these threads.  They share self.exception: a thread that starts when *)
(* it is set does not call.  What the processes answered is judged at the  *)
(* end, by self.exception and by the lastreturned of every process.        *)
(*                                                                         *)
(* The artdaq processes are external: each takes a command in the state it *)
(* starts from, and answers it well, badly, late or never.                 *)
(***************************************************************************)
EXTENDS Integers, FiniteSets

CONSTANTS
    Procs,       \* self.procinfos
    Subsystems,  \* the keys of self.subsystems
    Listed,      \* Listed[s][r]: how often r is among the sources of s
    Sub,         \* the subsystem of each process
    Type,        \* and its name
    Priorities,  \* its priority on Init, Start and Stop (the settings file's)
    First,       \* the first of self.procinfos
    Mishaps      \* what may go wrong with a call

VARIABLES
    proc,          \* the state each process is in
    late,          \* where a call that DAQInterface gave up will still lead it
    procState,     \* procinfo.state
    lastreturned,  \* procinfo.lastreturned
    priority,      \* procinfo.priority
    thread,        \* the thread that runs process_command for it
    exception,     \* self.exception
    command,       \* the command being sent
    phase,         \* where the runner is in do_command
    rank,          \* the place of each subsystem in subsystems_in_order, or 0
    count,         \* len(subsystems_in_order)
    todo,          \* the processes whose bucket is still to come
    daq            \* the process state that DAQInterface's own state stands for

processes == <<proc, late>>
infos     == <<procState, lastreturned>>
order     == <<rank, count>>
vars == <<proc, late, procState, lastreturned, priority, thread, exception, command,
          phase, rank, count, todo, daq>>

-----------------------------------------------------------------------------
\* Procinfo.__lt__ lists the types upstream to downstream.
Upstream == [BoardReader |-> 1, EventBuilder |-> 2, DataLogger |-> 3,
             Dispatcher |-> 4, RoutingManager |-> 5]

\* Mutant: a table that does not know what shutdown leads to.
MutantTargetStates == [Init |-> "Ready", Start |-> "Running", Pause |-> "Paused",
                       Resume |-> "Running", Stop |-> "Ready", Shutdown |-> "Shutdown"]

TargetStates == [Init |-> "Ready", Start |-> "Running", Pause |-> "Paused",
                 Resume |-> "Running", Stop |-> "Ready", Shutdown |-> "Stopped"]
VerbingToStates == [Init |-> "Configuring", Start |-> "Starting", Pause |-> "Pausing",
                    Resume |-> "Resuming", Stop |-> "Stopping",
                    Shutdown |-> "Shutting down"]
\* dict_state_from, in the processes' states.
From == [Init |-> "Booted", Start |-> "Ready", Pause |-> "Running",
         Resume |-> "Paused", Stop |-> "Running", Shutdown |-> "Ready"]

Commands  == {"Init", "Start", "Pause", "Resume", "Stop", "Shutdown"}
Winding   == {"Stop", "Pause", "Shutdown"}  \* sent to the sources of data first
Readjusts == {"Init", "Start", "Stop"}      \* preceded by readjust_process_priorities

Target == TargetStates[command]

AtRest    == {"Booted", "Ready", "Running", "Paused", "Stopped"}
Verbing   == {VerbingToStates[c] : c \in Commands}
MishapKinds == {"busy", "failed", "timeout", "died"}

ASSUME SystemAssumption ==
    /\ IsFiniteSet(Procs) /\ First \in Procs
    /\ Sub \in [Procs -> Subsystems]
    /\ Type \in [Procs -> DOMAIN Upstream]
    /\ Listed \in [Subsystems -> [Subsystems -> Nat]]
    /\ Priorities \in [Readjusts -> [Procs -> Nat]]
    /\ Mishaps \subseteq MishapKinds

TypeOK ==
    /\ proc \in [Procs -> AtRest \cup {"Error", "dead"}]
    /\ late \in [Procs -> AtRest \cup {"none"}]
    /\ procState \in [Procs -> AtRest \cup Verbing \cup {"nonexistent", "Error"}]
    /\ lastreturned \in [Procs -> AtRest \cup {"Error", "Success", "Busy", "Failed"}]
    /\ priority \in [Procs -> Nat]
    /\ thread \in [Procs -> {"none", "begin", "call", "done"}]
    /\ exception \in BOOLEAN
    /\ command \in Commands
    /\ phase \in {"idle", "order", "send", "retry", "raised"}
    /\ rank \in [Subsystems -> Nat] /\ count \in Nat
    /\ todo \subseteq Procs
    /\ daq \in AtRest

All(v)     == [p \in Procs |-> v]
NotOrdered == [s \in Subsystems |-> 0]

\* After do_boot: fresh processes and Procinfos, and their first status.
Init ==
    /\ proc = All("Booted") /\ late = All("none")
    /\ procState = All("nonexistent") /\ lastreturned = All("Booted")
    /\ priority = All(999)
    /\ thread = All("none")
    /\ exception = FALSE
    /\ command = "Init" /\ phase = "idle"
    /\ rank = NotOrdered /\ count = 0
    /\ todo = {}
    /\ daq = "Booted"

-----------------------------------------------------------------------------
(* The runner thread *)

\* A handler calls do_command for a transition its state allows.
Begin(c) ==
    /\ phase = "idle" /\ daq = From[c]
    /\ command' = c
    /\ priority' = IF c \in Readjusts THEN Priorities[c] ELSE priority
    /\ thread' = All("none")
    /\ rank' = NotOrdered /\ count' = 0
    /\ todo' = Procs
    /\ phase' = "order"
    /\ UNCHANGED <<processes, infos, exception, daq>>

Ordered(s) == rank[s] > 0

\* list.remove takes one occurrence of each ordered source away.
SourcesOrdered(s) ==
    \A r \in Subsystems : Listed[s][r] <= IF Ordered(r) THEN 1 ELSE 0

\* Mutant: the turn finds a subsystem and does not append it.
MutantPlaceSubsystem(s) ==
    /\ phase = "order"
    /\ ~Ordered(s) /\ SourcesOrdered(s)
    /\ UNCHANGED vars

\* One turn of the while loop that orders the subsystems.  Which of those
\* whose sources are ordered comes next is the order of the boot file.
PlaceSubsystem(s) ==
    /\ phase = "order"
    /\ ~Ordered(s) /\ SourcesOrdered(s)
    /\ count' = count + 1
    /\ rank' = [rank EXCEPT ![s] = count + 1]
    /\ UNCHANGED <<processes, infos, priority, thread, exception, command, phase, todo, daq>>

OrderDone ==
    /\ phase = "order" /\ \A s \in Subsystems : Ordered(s)
    /\ phase' = "send"
    /\ UNCHANGED <<processes, infos, priority, thread, exception, command, order, todo, daq>>

\* Mutant: subsystems_in_order is never reversed.
MutantEarlier(p, q) ==
    \/ rank[Sub[p]] < rank[Sub[q]]
    \/ /\ Sub[p] = Sub[q]
       /\ \/ /\ Type[p] # Type[q]
             /\ (command \in Winding) <=> (Upstream[Type[p]] < Upstream[Type[q]])
          \/ Type[p] = Type[q] /\ priority[p] < priority[q]

\* The bucket of p comes before that of q in the three nested loops.
Earlier(p, q) ==
    \/ IF command \in Winding THEN rank[Sub[p]] < rank[Sub[q]]
                              ELSE rank[Sub[p]] > rank[Sub[q]]
    \/ /\ Sub[p] = Sub[q]
       /\ \/ /\ Type[p] # Type[q]
             /\ (command \in Winding) <=> (Upstream[Type[p]] < Upstream[Type[q]])
          \/ Type[p] = Type[q] /\ priority[p] < priority[q]

Joined == \A p \in Procs : thread[p] \in {"none", "done"}

NextBucket ==
    LET bucket == {p \in todo : \A q \in todo : ~Earlier(q, p)}
    IN  /\ phase = "send" /\ todo # {} /\ Joined
        /\ thread' = [p \in Procs |-> IF p \in bucket THEN "begin" ELSE thread[p]]
        /\ todo' = todo \ bucket
        /\ UNCHANGED <<processes, infos, priority, exception, command, phase, order, daq>>

AllSent == phase = "send" /\ todo = {} /\ Joined

AnsweredWell(p) == lastreturned[p] \in {"Success", Target}

\* Mutant: the end of do_command does not look at self.exception.
MutantAchieves ==
    /\ AllSent /\ \A p \in Procs : AnsweredWell(p)
    /\ daq' = Target
    /\ phase' = "idle"
    /\ UNCHANGED <<processes, infos, priority, thread, exception, command, order, todo>>

Achieves ==
    /\ AllSent /\ ~exception /\ \A p \in Procs : AnsweredWell(p)
    /\ daq' = Target
    /\ phase' = "idle"
    /\ UNCHANGED <<processes, infos, priority, thread, exception, command, order, todo>>

Raises ==
    /\ AllSent /\ exception
    /\ phase' = "raised"
    /\ UNCHANGED <<processes, infos, priority, thread, exception, command, order, todo, daq>>

\* Mutant: do_command does not raise what check_proc_transition raised.
MutantDoubts ==
    /\ AllSent /\ ~exception /\ \E p \in Procs : ~AnsweredWell(p)
    /\ daq' = Target
    /\ phase' = "idle"
    /\ UNCHANGED <<processes, infos, priority, thread, exception, command, order, todo>>

\* check_proc_transition: an answer that names a state or says "busy" is read
\* again for 20 seconds, any other is an error at once.
Doubts ==
    /\ AllSent /\ ~exception /\ \E p \in Procs : ~AnsweredWell(p)
    /\ phase' = IF \E p \in Procs : ~AnsweredWell(p) /\ lastreturned[p] # "Failed"
                THEN "retry" ELSE "raised"
    /\ UNCHANGED <<processes, infos, priority, thread, exception, command, order, todo, daq>>

\* Nothing that runs meanwhile asks the process again.
GivesUp ==
    /\ phase = "retry"
    /\ phase' = "raised"
    /\ UNCHANGED <<processes, infos, priority, thread, exception, command, order, todo, daq>>

\* runner between transitions: check_proc_exceptions, which returns after the
\* first process it has asked.
Polls ==
    /\ phase = "idle" /\ proc[First] # "dead"
    /\ lastreturned' = [lastreturned EXCEPT ![First] = proc[First]]
    /\ procState' = [procState EXCEPT ![First] = proc[First]]
    /\ UNCHANGED <<processes, priority, thread, exception, command, phase, order, todo, daq>>

\* After do_terminate, or do_recover, and do_boot.
Relaunches ==
    /\ phase \in {"idle", "raised"} /\ phase' = "idle"
    /\ proc' = All("Booted") /\ late' = All("none")
    /\ procState' = All("nonexistent") /\ lastreturned' = All("Booted")
    /\ priority' = All(999)
    /\ exception' = FALSE
    /\ daq' = "Booted"
    /\ UNCHANGED <<thread, command, order, todo>>

Runner == \/ \E s \in Subsystems : PlaceSubsystem(s)
          \/ OrderDone
          \/ NextBucket
          \/ Achieves
          \/ Raises
          \/ Doubts
          \/ GivesUp

-----------------------------------------------------------------------------
(* process_command, one thread for each process of a bucket *)

\* Mutant: process_command does not look at self.exception.
MutantEnters(p) ==
    /\ thread[p] = "begin"
    /\ thread' = [thread EXCEPT ![p] = "call"]
    /\ procState' = [procState EXCEPT ![p] = VerbingToStates[command]]
    /\ UNCHANGED <<processes, lastreturned, priority, exception, command, phase, order,
                   todo, daq>>

Enters(p) ==
    /\ thread[p] = "begin"
    /\ IF exception
       THEN /\ thread' = [thread EXCEPT ![p] = "done"]
            /\ UNCHANGED procState
       ELSE /\ thread' = [thread EXCEPT ![p] = "call"]
            /\ procState' = [procState EXCEPT ![p] = VerbingToStates[command]]
    /\ UNCHANGED <<processes, lastreturned, priority, exception, command, phase, order,
                   todo, daq>>

Returns(p) ==
    /\ thread[p] = "call"
    /\ thread' = [thread EXCEPT ![p] = "done"]
    /\ UNCHANGED <<priority, command, phase, order, todo, daq>>

Succeeds(p) ==
    /\ Returns(p)
    /\ proc[p] = From[command]
    /\ proc' = [proc EXCEPT ![p] = Target]
    /\ lastreturned' = [lastreturned EXCEPT ![p] = "Success"]
    /\ procState' = [procState EXCEPT ![p] = Target]
    /\ UNCHANGED <<late, exception>>

\* It says that it is busy, and ends the transition later.
SaysBusy(p) ==
    /\ Returns(p)
    /\ "busy" \in Mishaps /\ proc[p] = From[command]
    /\ late' = [late EXCEPT ![p] = Target]
    /\ lastreturned' = [lastreturned EXCEPT ![p] = "Busy"]
    /\ UNCHANGED <<proc, procState, exception>>

FailsToDo(p) ==
    /\ Returns(p)
    /\ "failed" \in Mishaps /\ proc[p] = From[command]
    /\ proc' = [proc EXCEPT ![p] = "Error"]
    /\ lastreturned' = [lastreturned EXCEPT ![p] = "Failed"]
    /\ UNCHANGED <<late, procState, exception>>

\* The XML-RPC call times out.  The process may still do what it was told.
TimesOut(p) ==
    /\ Returns(p)
    /\ "timeout" \in Mishaps /\ proc[p] = From[command]
    /\ \E l \in {"none", Target} : late' = [late EXCEPT ![p] = l]
    /\ exception' = TRUE
    /\ UNCHANGED <<proc, infos>>

IsRefused(p) ==
    /\ Returns(p)
    /\ proc[p] = "dead"
    /\ exception' = TRUE
    /\ UNCHANGED <<processes, infos>>

ProcessCommand(p) ==
    Enters(p) \/ Succeeds(p) \/ SaysBusy(p) \/ FailsToDo(p) \/ TimesOut(p) \/ IsRefused(p)

-----------------------------------------------------------------------------
(* The artdaq processes on their own *)

FinishesLate(p) ==
    /\ late[p] # "none"
    /\ proc' = [proc EXCEPT ![p] = late[p]]
    /\ late' = [late EXCEPT ![p] = "none"]
    /\ UNCHANGED <<infos, priority, thread, exception, command, phase, order, todo, daq>>

Dies(p) ==
    /\ "died" \in Mishaps /\ proc[p] # "dead"
    /\ proc' = [proc EXCEPT ![p] = "dead"]
    /\ late' = [late EXCEPT ![p] = "none"]
    /\ UNCHANGED <<infos, priority, thread, exception, command, phase, order, todo, daq>>

Next == \/ \E c \in Commands : Begin(c)
        \/ Runner
        \/ Polls
        \/ Relaunches
        \/ \E p \in Procs : ProcessCommand(p) \/ FinishesLate(p) \/ Dies(p)

\* The runner goes on, and every XML-RPC call returns or times out.
Fairness == WF_vars(Runner) /\ \A p \in Procs : WF_vars(ProcessCommand(p))

Spec == Init /\ [][Next]_vars /\ Fairness

-----------------------------------------------------------------------------
(* Properties *)

\* p sends its data to q, in the same subsystem or from a source of q's.
Feeds(p, q) ==
    \/ Sub[p] = Sub[q] /\ Upstream[Type[p]] < Upstream[Type[q]]
    \/ Listed[Sub[q]][Sub[p]] > 0

\* When do_command has returned, every process is where DAQInterface says that
\* it is, if it still lives: no answer of an earlier command, or of a process
\* that was never called, is taken for one to this command.
AchievedByAll ==
    phase = "idle" => \A p \in Procs : proc[p] \in {daq, "dead"}

\* "On stop, all of a given subsystem's sources are stopped first", and within
\* a subsystem what is upstream; on init, start and resume they come last.
SourcesFirst ==
    \A p, q \in Procs :
        Feeds(p, q) => IF command \in Winding
                       THEN thread[q] = "call" => thread[p] = "done"
                       ELSE thread[p] = "call" => thread[q] = "done"

\* No process that runs sends its data to one that does not, unless one of the
\* two broke or answered badly: also while a transition is under way, after a
\* call timed out, and when what it asked for happens later.
Unwell(p) == proc[p] \in {"dead", "Error"} \/ lastreturned[p] \in {"Busy", "Failed"}
DataIsTaken ==
    \A p, q \in Procs :
        proc[p] = "Running" /\ Feeds(p, q) =>
            proc[q] = "Running" \/ Unwell(p) \/ Unwell(q)

\* What RunControl makes of it: a command is being sent, from whatever state of
\* the processes it starts from, until it has ended for all of them.
Sending   == phase \in {"order", "send", "retry"}
Requested == [Init |-> "configuring", Start |-> "starting", Pause |-> "pausing",
              Resume |-> "resuming", Stop |-> "stopping", Shutdown |-> "shutting"]
FleetIn   == [Booted |-> "booted", Ready |-> "ready", Running |-> "running",
              Paused |-> "paused", Stopped |-> "booted"]
Fleet ==
    IF Sending THEN FleetIn[From[command]]
    ELSE IF phase = "idle" /\ \A p \in Procs : proc[p] \in {daq, "dead"} THEN FleetIn[daq]
    ELSE "mixed"
Thrown == ~Sending /\ exception

View == INSTANCE FleetCommands WITH Faults    <- IF Mishaps = {} THEN {} ELSE {"command"},
                                    fleet     <- Fleet,
                                    exception <- Thrown

IsCalled   == /\ ~Sending /\ Sending'
              /\ View!CommandMay(Requested[command']) /\ UNCHANGED <<Fleet, Thrown>>
Returned   == Sending /\ phase' = "idle" /\ View!CommandDone(Requested[command])
Failed     == Sending /\ phase' = "raised" /\ View!CommandBreaks(Requested[command])
Relaunched == ~Sending /\ ~Sending' /\ Fleet' = "booted" /\ ~Thrown'
FleetStep  == IsCalled \/ Returned \/ Failed \/ Relaunched

\* All the steps of a command, of its threads and of the processes together are
\* the one step that RunControl takes for it: it starts only where the processes
\* allow it, returns with all of them in the state it leads to, or raises, and that
\* only if something went wrong.
ImplementsFleet == [][FleetStep]_<<Fleet, Thrown, Sending>>

\* do_command returns or raises.
CommandEnds == phase \in {"order", "send", "retry"} ~> phase \in {"idle", "raised"}

-----------------------------------------------------------------------------
(* What makes AchievedByAll and SourcesFirst inductive *)

Calm == /\ exception = FALSE
        /\ \A p \in Procs : late[p] = "none"

\* A process whose call is still to come is where the transition starts from;
\* one whose call is over has answered, or the exception is set.
Waiting(p)  == proc[p] \in {daq, "dead"} /\ late[p] = "none"
Answered(p) == \/ lastreturned[p] = "Success" /\ proc[p] \in {Target, "dead"} /\ late[p] = "none"
               \/ lastreturned[p] \in {"Busy", "Failed"}
Progress ==
    phase \in {"order", "send"} =>
        /\ daq = From[command]
        /\ \A p \in Procs :
              /\ thread[p] # "done" => Waiting(p)
              /\ thread[p] = "done" /\ ~exception => Answered(p)
              /\ p \in todo <=> thread[p] = "none"
        /\ phase = "order" => todo = Procs

\* The places of the subsystems, and who may still be called after whom.
SourcesLower ==
    /\ \A s \in Subsystems : rank[s] <= count
    /\ \A s, r \in Subsystems :
          rank[s] > 0 /\ Listed[s][r] > 0 => rank[r] > 0 /\ rank[r] < rank[s]
AllPlaced == phase = "send" => \A s \in Subsystems : rank[s] > 0
BucketsInOrder ==
    phase = "send" =>
        \A p, q \in Procs :
            Earlier(q, p) /\ p \notin todo =>
                q \notin todo /\ (thread[p] \in {"begin", "call"} => thread[q] = "done")
ThreadsOnlyInSend == phase # "send" => Joined

CommandInv == /\ TypeOK
              /\ AchievedByAll /\ (phase = "idle" => Calm) /\ Progress
              /\ SourcesLower /\ AllPlaced /\ BucketsInOrder /\ ThreadsOnlyInSend

\* p has been called, and has done what it was told, or may still do it.
Touched(p) == thread[p] = "call" \/ proc[p] = Target \/ late[p] # "none"

\* What makes DataIsTaken inductive.  After the order is found, also while the
\* exception of a call is on its way out: no process leaves the transition's two
\* ends, and one is touched only after all that come before it have answered.
Sent == {"send", "retry", "raised"}
EffectsInOrder ==
    phase \in Sent =>
        /\ \A s \in Subsystems : rank[s] > 0
        /\ \A p \in Procs : /\ proc[p] \in {From[command], Target, "Error", "dead"}
                            /\ late[p] \in {"none", Target}
        /\ \A p, q \in Procs : Earlier(q, p) /\ Touched(p) => thread[q] = "done" /\ Answered(q)

TakenInv == CommandInv /\ EffectsInOrder

\* What makes ImplementsFleet hold with no mishaps: every call is answered.
Flawless ==
    Mishaps = {} =>
        /\ ~exception /\ phase \notin {"retry", "raised"}
        /\ \A p \in Procs : /\ proc[p] # "dead"
                            /\ phase = "send" /\ thread[p] = "done" =>
                                  lastreturned[p] = "Success"

=============================================================================
