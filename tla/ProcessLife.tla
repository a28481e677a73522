---------------------------- MODULE ProcessLife ----------------------------
(***************************************************************************)
(* The life of the artdaq processes under direct process management: who   *)
(* starts them, who notices that one is lost, and who ends them.           *)
(*                                                                         *)
(*   - do_boot lists the processes, counts them against the requirements   *)
(*     file and starts one launch thread per host.  It joins the threads   *)
(*     one by one and leaves at the first that raised, so that others may  *)
(*     go on; then it waits for the processes and asks each its status.    *)
(*   - Between transitions the runner asks the processes for their state,  *)
(*     then looks for them with ps.  A process in Error, or one that is    *)
(*     gone while DAQInterface runs, is taken off the list; whether the    *)
(*     run goes on is decided by the requirements.                         *)
(*   - do_terminate and do_recover kill what is on the list.               *)
(*                                                                         *)
(* The server thread and the handlers are here in outline (RunControl has  *)
(* them in detail): a request sets the state and the flag in one step, a   *)
(* transition fails if a process cannot follow it, and do_recover is one   *)
(* step.  "ready" stands for the three states booted, ready and paused.    *)
(***************************************************************************)
EXTENDS Integers, FiniteSets

CONSTANTS
    Procs,        \* the processes a boot file may ask for
    Hosts,
    HostOf,       \* procinfo.host
    Kind,         \* procinfo.name
    Position,     \* the order of self.procinfos
    DiskWriters,  \* those whose FHiCL document writes a root file
    Systems,      \* the sets of processes that boot may be asked for
    Rules,        \* the lines of the process requirements file, 1..n
    Matches,      \* the processes whose label a line's regexp matches
    Percent,      \* the fraction of them that it requires
    AtLeast,      \* the count of them that it requires
    Faults        \* what may go wrong

VARIABLES
    state,      \* Component.__state
    flag,       \* the __do_* flag that is up
    alive,      \* what became of each process
    listed,     \* self.procinfos
    booted,     \* what do_boot put there
    called,     \* self.called_launch_procs
    required,   \* overriding_process_requirements: the strictest count
    current,    \* overriding_process_requirements: those not lost yet
    refused,    \* self.procs_which_already_caused_connection_refused
    thread,     \* the launch thread of each host
    stale,      \* what the threads of an earlier boot may still launch
    pc,         \* where the runner thread is
    asked,      \* the processes its loop is done with
    lost        \* procinfos_to_remove

counts   == <<required, current>>
launches == <<thread, stale>>
loop     == <<asked, lost>>
vars == <<state, flag, alive, listed, booted, called, required, current, refused,
          thread, stale, pc, asked, lost>>

-----------------------------------------------------------------------------
Kinds == {"BoardReader", "EventBuilder", "DataLogger", "Dispatcher", "RoutingManager"}
FaultKinds == {"launch", "stillborn", "died", "error", "timeout", "unreachable"}

ASSUME LifeAssumption ==
    /\ IsFiniteSet(Procs)
    /\ HostOf \in [Procs -> Hosts]
    /\ Kind \in [Procs -> Kinds]
    /\ Position \in [Procs -> Nat]
    /\ \A p, q \in Procs : Position[p] = Position[q] => p = q
    /\ DiskWriters \subseteq Procs
    /\ Systems \subseteq SUBSET Procs
    /\ Rules \subseteq Nat
    /\ Matches \in [Rules -> SUBSET Procs]
    /\ Percent \in [Rules -> Nat]
    /\ AtLeast \in [Rules -> Nat]
    /\ Faults \subseteq FaultKinds

TypeOK ==
    /\ state \in {"stopped", "booting", "ready", "starting", "running", "stopping",
                  "terminating"}
    /\ flag \in {"none", "booting", "starting", "stopping", "terminating"}
    /\ alive \in [Procs -> {"up", "error", "down"}]
    /\ listed \subseteq Procs /\ booted \subseteq Procs
    /\ called \in BOOLEAN
    /\ required \in [Rules -> Nat] /\ current \in [Rules -> Nat]
    /\ refused \subseteq Procs
    /\ thread \in [Hosts -> {"none", "check", "launch", "done", "raised"}]
    /\ stale \subseteq Procs
    /\ pc \in {"idle", "join", "wait", "contact", "query", "heartbeat", "judge",
               "remove", "recover"}
    /\ asked \subseteq Procs /\ lost \subseteq Procs

Init ==
    /\ state = "stopped" /\ flag = "none"
    /\ alive = [p \in Procs |-> "down"]
    /\ listed = {} /\ booted = {} /\ called = FALSE
    /\ required = [r \in Rules |-> 0] /\ current = [r \in Rules |-> 0]
    /\ refused = {}
    /\ thread = [h \in Hosts |-> "none"] /\ stale = {}
    /\ pc = "idle" /\ asked = {} /\ lost = {}

On(h) == {p \in Procs : HostOf[p] = h}
Dead(S) == {p \in S : alive[p] = "down"}
First(p, S) == p \in S /\ \A q \in S : Position[p] <= Position[q]

-----------------------------------------------------------------------------
(* The server thread *)

Request ==
    /\ flag = "none"
    /\ \/ state = "stopped" /\ state' = "booting"
       \/ state = "ready"   /\ state' \in {"starting", "terminating"}
       \/ state = "running" /\ state' = "stopping"
    /\ flag' = state'
    /\ UNCHANGED <<alive, listed, booted, called, counts, refused, launches, pc, loop>>

-----------------------------------------------------------------------------
(* do_boot: requirements, launch, wait *)

\* num_processes_required_by_fraction, which adds 0.499999 and rounds: up,
\* unless what is over a whole number is less than a millionth.
RequiredByFraction(r, S) == (Cardinality(Matches[r] \cap S) * Percent[r] + 99) \div 100
Strictest(r, S) ==
    IF RequiredByFraction(r, S) > AtLeast[r] THEN RequiredByFraction(r, S) ELSE AtLeast[r]

\* The launch threads of an earlier boot that nobody joined are left to
\* themselves.
Abandoned == {p \in booted : thread[HostOf[p]] \in {"check", "launch"}}

Boot(S) ==
    /\ pc = "idle" /\ flag = "booting"
    /\ flag' = "none"
    /\ listed' = S /\ booted' = S /\ refused' = {}
    /\ required' = [r \in Rules |-> Strictest(r, S)]
    /\ current' = [r \in Rules |-> Cardinality(Matches[r] \cap S)]
    /\ stale' = stale \cup Abandoned
    /\ IF \E r \in Rules : current'[r] < required'[r]
       THEN /\ called' = FALSE
            /\ thread' = [h \in Hosts |-> "none"]
            /\ pc' = "recover"
       ELSE /\ called' = TRUE
            /\ thread' = [h \in Hosts |-> IF On(h) \cap S = {} THEN "none" ELSE "check"]
            /\ pc' = "join"
    /\ UNCHANGED <<state, alive, loop>>

\* kill_procs_on_host takes every artdaq process of the partition that runs
\* one of the programs of self.procinfos.
Programs(S) == {Kind[p] : p \in S}
AliveWithout(K) == [p \in Procs |-> IF p \in K THEN "down" ELSE alive[p]]

RunnerAsIs == UNCHANGED <<state, flag, listed, booted, called, counts, refused, pc, loop>>

\* launch_procs_on_host until its ssh command.  If self.procinfos no longer
\* names a process of the host the pattern for its ports is empty and matches
\* every process there is.
LaunchCheck(h, attemptExistingPidKill) ==
    LET mine     == listed \cap On(h)
        found    == mine = {} \/ \E p \in mine : alive[p] # "down"
        programs == IF listed = {} THEN Kinds ELSE Programs(listed)
        victims  == {p \in On(h) : Kind[p] \in programs}
    IN  /\ thread[h] = "check"
        /\ alive' = IF found /\ attemptExistingPidKill THEN AliveWithout(victims) ELSE alive
        /\ thread' = [thread EXCEPT ![h] =
              IF ~found \/ (attemptExistingPidKill /\ mine # {}) THEN "launch" ELSE "raised"]
        /\ UNCHANGED stale
        /\ RunnerAsIs

\* A process whose port is taken does not stay.
Started(S, stillborn) ==
    [p \in Procs |-> IF p \in S \ stillborn /\ alive[p] = "down" THEN "up" ELSE alive[p]]

\* The ssh command: a failing setup launches nothing.
LaunchRuns(h) ==
    /\ thread[h] = "launch"
    /\ \/ \E stillborn \in SUBSET (booted \cap On(h)) :
             /\ "stillborn" \notin Faults => stillborn = {}
             /\ alive' = Started(booted \cap On(h), stillborn)
             /\ thread' = [thread EXCEPT ![h] = "done"]
       \/ /\ "launch" \in Faults
          /\ thread' = [thread EXCEPT ![h] = "raised"]
          /\ UNCHANGED alive
    /\ UNCHANGED stale
    /\ RunnerAsIs

\* A thread that an earlier boot did not join, in outline: it launches what it
\* was told to, or nothing.
StaleRuns(h) ==
    /\ stale \cap On(h) # {}
    /\ stale' = stale \ On(h)
    /\ alive' \in {alive, Started(stale \cap On(h), {})}
    /\ UNCHANGED thread
    /\ RunnerAsIs

LaunchThread(h) ==
    (\E attempt \in BOOLEAN : LaunchCheck(h, attempt)) \/ LaunchRuns(h) \/ StaleRuns(h)

Goto(p) == pc' = p /\ UNCHANGED <<state, flag, alive, listed, booted, called, counts,
                                  refused, launches>>

\* A loop is left: its variables mean nothing any more.
LoopOver == asked' = {} /\ lost' = {}

Used == {HostOf[p] : p \in booted}
\* The threads are joined in the order in which procinfos names their hosts.
JoinedBefore(g, h) ==
    \E p \in booted \cap On(g) : \A q \in booted \cap On(h) : Position[p] < Position[q]

JoinRaises ==
    /\ pc = "join"
    /\ \E h \in Used : /\ thread[h] = "raised"
                       /\ \A g \in Used : JoinedBefore(g, h) => thread[g] = "done"
    /\ Goto("recover")
    /\ UNCHANGED loop

JoinsAll ==
    /\ pc = "join" /\ \A h \in Used : thread[h] = "done"
    /\ Goto("wait")
    /\ UNCHANGED loop

FoundAll ==
    /\ pc = "wait" /\ Dead(listed) = {}
    /\ Goto("contact")
    /\ UNCHANGED loop

\* Mutant: the checks are not counted.
MutantGivesUpWaiting ==
    /\ pc = "wait" /\ Dead(listed) # {}
    /\ UNCHANGED vars

\* max_num_launch_procs_checks are over.
GivesUpWaiting ==
    /\ pc = "wait" /\ Dead(listed) # {}
    /\ Goto("recover")
    /\ UNCHANGED loop

\* The loop that waits for an answer to status() has no other way out.
Contact(p) ==
    /\ pc = "contact" /\ First(p, listed \ asked)
    /\ alive[p] # "down"
    /\ Goto("contact")
    /\ asked' = asked \cup {p} /\ UNCHANGED lost

BootDone ==
    /\ pc = "contact" /\ listed \subseteq asked
    /\ state' = "ready" /\ pc' = "idle" /\ LoopOver
    /\ UNCHANGED <<flag, alive, listed, booted, called, counts, refused, launches>>

BootStep == \/ \E S \in Systems : Boot(S)
            \/ JoinRaises \/ JoinsAll
            \/ FoundAll \/ GivesUpWaiting
            \/ \E p \in Procs : Contact(p)
            \/ BootDone

-----------------------------------------------------------------------------
(* throw_exception_if_losing_process_violates_requirements *)

Ruled(p) == {r \in Rules : p \in Matches[r]}

\* Mutant: the count is compared before it is decremented.
MutantViolated(p, r) == current[r] < required[r]

Violated(p, r) == current[r] - 1 < required[r]

\* Mutant: the line's regexp is not looked at.
MutantDecremented(p) ==
    {r \in Rules : \A s \in Ruled(p) : s < r => ~Violated(p, s)}

\* The lines are gone through in order, up to the first that is violated.
Decremented(p) ==
    {r \in Ruled(p) : \A s \in Ruled(p) : s < r => ~Violated(p, s)}

\* What ends a run if no line of the requirements file matches the process.
Vital(p, remaining) ==
    \/ Kind[p] = "BoardReader"
    \/ p \in DiskWriters
    \/ /\ Kind[p] = "EventBuilder"
       /\ \/ \A q \in remaining : Kind[q] # "RoutingManager"
          \/ \A q \in remaining : Kind[q] # "EventBuilder"

\* self.procinfos.remove(procinfo), and the judgement on its loss.
Lose(p) ==
    /\ listed' = listed \ {p}
    /\ current' = [r \in Rules |-> IF r \in Decremented(p) THEN current[r] - 1
                                   ELSE current[r]]
    /\ UNCHANGED required
EndsTheRun(p) ==
    IF Ruled(p) # {} THEN \E r \in Ruled(p) : Violated(p, r)
    ELSE Vital(p, listed \ {p})

-----------------------------------------------------------------------------
(* The monitoring: check_proc_exceptions, then check_proc_heartbeats *)

MonitorBegins ==
    /\ pc = "idle" /\ flag = "none"
    /\ state \notin {"stopped", "booting", "terminating"}
    /\ Goto("query")
    /\ UNCHANGED loop

Asks(p) == pc = "query" /\ First(p, listed \ asked)

\* check_proc_exceptions returns from inside its loop.
AnswersWell(p) ==
    /\ Asks(p) /\ alive[p] = "up"
    /\ Goto("heartbeat")
    /\ LoopOver

\* Mutant: a process in Error is taken off the list and left alive.
MutantAnswersError(p) ==
    /\ Asks(p) /\ alive[p] = "error"
    /\ Lose(p) /\ LoopOver
    /\ pc' = IF EndsTheRun(p) THEN "recover" ELSE "heartbeat"
    /\ UNCHANGED <<alive, state, flag, booted, called, refused, launches>>

\* mopup_process kills it.
AnswersError(p) ==
    /\ Asks(p) /\ alive[p] = "error"
    /\ alive' = AliveWithout({p})
    /\ Lose(p) /\ LoopOver
    /\ pc' = IF EndsTheRun(p) THEN "recover" ELSE "heartbeat"
    /\ UNCHANGED <<state, flag, booted, called, refused, launches>>

\* Connection refused: tolerated once.
Refuses(p) ==
    /\ Asks(p) /\ alive[p] = "down"
    /\ refused' = refused \cup {p}
    /\ IF p \in refused
       THEN pc' = "recover" /\ LoopOver
       ELSE pc' = "query" /\ asked' = asked \cup {p} /\ UNCHANGED lost
    /\ UNCHANGED <<state, flag, alive, listed, booted, called, counts, launches>>

QueryTimesOut(p) ==
    /\ "timeout" \in Faults
    /\ Asks(p) /\ alive[p] # "down"
    /\ Goto("query")
    /\ asked' = asked \cup {p} /\ UNCHANGED lost

\* No route to the host, or an exception nobody expected.
QueryBreaks(p) ==
    /\ "unreachable" \in Faults
    /\ Asks(p)
    /\ Goto("recover")
    /\ LoopOver

NobodyLeftToAsk ==
    /\ pc = "query" /\ listed \subseteq asked
    /\ Goto("heartbeat")
    /\ LoopOver

AllBeat ==
    /\ pc = "heartbeat" /\ Dead(listed) = {}
    /\ Goto("idle")
    /\ UNCHANGED loop

\* What is missed is mopped up at once, which takes a while.
SomeMissed ==
    /\ pc = "heartbeat" /\ Dead(listed) # {}
    /\ Goto("judge")
    /\ lost' = Dead(listed) /\ UNCHANGED asked

\* Mutant: a loss outside of a run is ignored.
MutantJudge ==
    /\ pc = "judge"
    /\ Goto(IF state = "running" THEN "remove" ELSE "idle")
    /\ IF state = "running" THEN UNCHANGED loop ELSE LoopOver

\* Only now is the state read, which a request may have changed meanwhile.
Judge ==
    /\ pc = "judge"
    /\ Goto(IF state = "running" THEN "remove" ELSE "recover")
    /\ IF state = "running" THEN UNCHANGED loop ELSE LoopOver

Remove(p) ==
    /\ pc = "remove" /\ p \in lost
    /\ Lose(p)
    /\ asked' = {} /\ lost' = IF EndsTheRun(p) THEN {} ELSE lost \ {p}
    /\ pc' = IF EndsTheRun(p) THEN "recover"
             ELSE IF lost = {p} THEN "idle" ELSE "remove"
    /\ UNCHANGED <<state, flag, alive, booted, called, refused, launches>>

Monitor == \/ MonitorBegins
           \/ \E p \in Procs : \/ AnswersWell(p) \/ AnswersError(p) \/ Refuses(p)
                               \/ QueryTimesOut(p) \/ QueryBreaks(p) \/ Remove(p)
           \/ NobodyLeftToAsk
           \/ AllBeat \/ SomeMissed \/ Judge

-----------------------------------------------------------------------------
(* The other handlers *)

\* do_command waits for every process and raises if one cannot follow.
Follow == \A p \in listed : alive[p] = "up"

CommandSucceeds ==
    /\ pc = "idle" /\ flag \in {"starting", "stopping"} /\ Follow
    /\ state' = IF flag = "starting" THEN "running" ELSE "ready"
    /\ flag' = "none"
    /\ UNCHANGED <<alive, listed, booted, called, counts, refused, launches, pc, loop>>

CommandFails ==
    /\ pc = "idle" /\ flag \in {"starting", "stopping"}
    /\ ~Follow \/ ("timeout" \in Faults /\ listed # {})
    /\ flag' = "none" /\ pc' = "recover"
    /\ UNCHANGED <<state, alive, listed, booted, called, counts, refused, launches, loop>>

\* Mutant: kill without its second pass, which a process in Error survives.
MutantKilled(S) ==
    {p \in Procs : /\ HostOf[p] \in {HostOf[q] : q \in S} /\ Kind[p] \in Programs(S)
                   /\ alive[p] # "error"}

\* kill_procs_base, both passes.
Killed(S) ==
    {p \in Procs : HostOf[p] \in {HostOf[q] : q \in S} /\ Kind[p] \in Programs(S)}

KillProcs ==
    /\ alive' = AliveWithout(Killed(listed))
    /\ listed' = {}

Terminates ==
    /\ pc = "idle" /\ flag = "terminating" /\ Dead(listed) = {}
    /\ KillProcs
    /\ state' = "stopped" /\ flag' = "none"
    /\ UNCHANGED <<booted, called, counts, refused, launches, pc, loop>>

\* A call raises, or an answer other than "Success" meets the report's error.
TerminateFails ==
    /\ pc = "idle" /\ flag = "terminating" /\ ~Follow
    /\ flag' = "none" /\ pc' = "recover"
    /\ UNCHANGED <<state, alive, listed, booted, called, counts, refused, launches, loop>>

RecoverSkips ==
    /\ pc = "recover" /\ ~called
    /\ state' = "stopped" /\ pc' = "idle"
    /\ UNCHANGED <<flag, alive, listed, booted, called, counts, refused, launches, loop>>

Recovers ==
    /\ pc = "recover" /\ called
    /\ KillProcs
    /\ state' = "stopped" /\ flag' = "none" /\ pc' = "idle"
    /\ UNCHANGED <<booted, called, counts, refused, launches, loop>>

Runner == \/ BootStep
          \/ Monitor
          \/ CommandSucceeds \/ CommandFails
          \/ Terminates \/ TerminateFails
          \/ RecoverSkips \/ Recovers

-----------------------------------------------------------------------------
(* The artdaq processes on their own *)

EnvironmentOnly ==
    UNCHANGED <<state, flag, listed, booted, called, counts, refused, launches, pc, loop>>

Dies(p) ==
    /\ "died" \in Faults /\ alive[p] # "down"
    /\ alive' = AliveWithout({p})
    /\ EnvironmentOnly

\* A fragment generator throws: the process answers "Error" from now on.
Errs(p) ==
    /\ "error" \in Faults /\ alive[p] = "up"
    /\ alive' = [alive EXCEPT ![p] = "error"]
    /\ EnvironmentOnly

Next == \/ Request
        \/ \E h \in Hosts : LaunchThread(h)
        \/ Runner
        \/ \E p \in Procs : Dies(p) \/ Errs(p)

\* The runner goes on, and every launch thread does.
Fairness == WF_vars(Runner) /\ \A h \in Hosts : WF_vars(LaunchThread(h))

Spec == Init /\ [][Next]_vars /\ Fairness

-----------------------------------------------------------------------------
(* Properties *)

Active == state \notin {"stopped", "booting"}

\* Between two calls of runner a run is going on only with what the
\* requirements demand: enough of every kind that the file has a line for, and
\* no loss of a vital process that it has none for, whatever was lost before
\* and whichever check noticed it.
RunMeetsRequirements ==
    pc = "idle" /\ Active =>
        /\ \A r \in Rules : Cardinality(Matches[r] \cap listed) >= required[r]
        /\ \A p \in booted \ listed : Ruled(p) = {} =>
              /\ Kind[p] # "BoardReader" /\ p \notin DiskWriters
              /\ Kind[p] = "EventBuilder" => \E q \in booted : Kind[q] = "RoutingManager"

\* What is off the list is dead: no process that DAQInterface gave up still
\* writes data or holds its port while the run goes on.
RemovedAreDown == Active => \A p \in booted \ listed : alive[p] = "down"

\* "Attempting to kill off the artdaq processes from this run if they still
\* exist": in "stopped" there are none, however the run ended.
NothingLeft ==
    state = "stopped" /\ pc = "idle" => \A p \in Procs : alive[p] = "down"

\* A process that dies while the DAQ is up is taken off the list, or the run
\* ends, in whatever state it died and whatever is requested meanwhile.
LossNoticed ==
    \A p \in Procs :
        (Active /\ p \in listed /\ alive[p] = "down") ~> (p \notin listed \/ ~Active)

\* Every boot comes to an end, however its launch threads fare.
BootEnds == state = "booting" ~> state # "booting"

-----------------------------------------------------------------------------
(* What makes the safety properties inductive *)

BootPoints    == {"join", "wait", "contact"}
MonitorPoints == {"query", "heartbeat", "judge", "remove"}

\* Which states go with which points of the runner.
LifeShape ==
    /\ flag # "none" => state = flag
    /\ Active => called
    /\ state = "stopped" => pc = "idle"
    /\ pc \in BootPoints => state = "booting" /\ flag = "none" /\ called
    /\ pc \in MonitorPoints => Active
    /\ pc = "recover" /\ state = "booting" => flag = "none"
    /\ listed \subseteq booted
    /\ pc \in {"judge", "remove"} => lost \subseteq listed

\* While the processes on the list are DAQInterface's, the counts are theirs
\* and no requirement is violated; a loss that violates one leads to "recover".
Counted == pc \in BootPoints \cup MonitorPoints \/ (pc = "idle" /\ Active)
CountsKept ==
    Counted => \A r \in Rules : /\ current[r] = Cardinality(Matches[r] \cap listed)
                               /\ required[r] <= current[r]
LossesAllowed ==
    Counted => \A p \in booted \ listed : Ruled(p) = {} =>
                  /\ Kind[p] # "BoardReader" /\ p \notin DiskWriters
                  /\ Kind[p] = "EventBuilder" =>
                        \E q \in booted : Kind[q] = "RoutingManager"

LifeInv == TypeOK /\ LifeShape /\ CountsKept /\ LossesAllowed

\* If no launch fails, no thread outlives its boot, a thread that is not done
\* finds its host empty, and what is up is on the list.
LaunchesEnd ==
    /\ stale = {}
    /\ \A h \in Hosts :
          /\ thread[h] # "raised"
          /\ thread[h] \in {"check", "launch"} =>
                /\ pc = "join" /\ booted \cap On(h) # {}
                /\ \A p \in On(h) : alive[p] = "down"
    /\ pc = "join" => listed = booted
OnlyListed == \A p \in Procs : alive[p] # "down" => p \in listed
LostAreDown == pc \in {"judge", "remove"} => \A p \in lost : alive[p] = "down"
NoneWhenStopped ==
    state = "stopped" \/ ~called \/ (pc = "idle" /\ state = "booting") =>
        \A p \in Procs : alive[p] = "down"
KilledInv == LifeInv /\ LaunchesEnd /\ OnlyListed /\ LostAreDown /\ NoneWhenStopped

-----------------------------------------------------------------------------
(* What the repository says of itself, and one failure breaks *)

\* docs/process_requirements_list_example: a process fails if it dies, or "if
\* it responds with Error when queried by DAQInterface".
ErrorNoticed ==
    \A p \in Procs :
        (Active /\ p \in listed /\ alive[p] = "error") ~> (p \notin listed \/ ~Active)

\* runner's docstring: it is called at threading heartbeat frequency.
RunnerReturns == pc # "idle" ~> pc = "idle"

=============================================================================
