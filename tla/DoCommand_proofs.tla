-------------------------- MODULE DoCommand_proofs --------------------------
(***************************************************************************)
(* Theorems about DoCommand, for every set of processes, every tree of     *)
(* subsystems, every choice of priorities and every set of mishaps.        *)
(***************************************************************************)
EXTENDS DoCommand, Sums_proofs

-----------------------------------------------------------------------------
(* The tables. *)

\* The entries of the tables, key by key.
LEMMA TableEntries ==
    /\ TargetStates["Init"] = "Ready" /\ TargetStates["Start"] = "Running"
    /\ TargetStates["Pause"] = "Paused" /\ TargetStates["Resume"] = "Running"
    /\ TargetStates["Stop"] = "Ready" /\ TargetStates["Shutdown"] = "Stopped"
    /\ From["Init"] = "Booted" /\ From["Start"] = "Ready"
    /\ From["Pause"] = "Running" /\ From["Resume"] = "Paused"
    /\ From["Stop"] = "Running" /\ From["Shutdown"] = "Ready"
BY DEF TargetStates, From

\* The types of the artdaq processes, and their places, are numbers.
LEMMA UpstreamTyped == Upstream \in [DOMAIN Upstream -> Int]
BY DEF Upstream

\* What a command starts from, and what it leads to, are states at rest.
LEMMA CommandTyped ==
    ASSUME NEW c \in Commands
    PROVE  /\ TargetStates[c] \in AtRest /\ From[c] \in AtRest
           /\ VerbingToStates[c] \in Verbing
<1>1. TargetStates[c] \in AtRest /\ From[c] \in AtRest
  BY TableEntries DEF Commands, AtRest
<1>2. VerbingToStates[c] \in Verbing
  BY DEF Verbing
<1> QED
  BY <1>1, <1>2

-----------------------------------------------------------------------------
(* Types. *)

\* A function that gives every process the same value.
LEMMA AllTyped ==
    ASSUME NEW S, NEW v \in S
    PROVE  All(v) \in [Procs -> S]
BY DEF All

\* do_command and the threads it starts keep every variable in its type.
LEMMA TypeStep ==
    ASSUME SystemAssumption, TypeOK, [Next]_vars
    PROVE  TypeOK'
<1>0. /\ Target \in AtRest /\ From[command] \in AtRest
      /\ VerbingToStates[command] \in Verbing
  BY CommandTyped DEF TypeOK, Target
<1>1. ASSUME NEW c \in Commands, Begin(c) PROVE TypeOK'
  <2>1. priority' \in [Procs -> Nat]
    BY <1>1 DEF Begin, TypeOK, SystemAssumption
  <2> QED
    BY <1>1, <2>1 DEF Begin, TypeOK, All, NotOrdered, processes, infos
<1>2. ASSUME NEW s \in Subsystems, PlaceSubsystem(s) PROVE TypeOK'
  BY <1>2 DEF PlaceSubsystem, TypeOK, processes, infos
<1>3. ASSUME OrderDone PROVE TypeOK'
  BY <1>3 DEF OrderDone, TypeOK, processes, infos, order
<1>4. ASSUME NextBucket PROVE TypeOK'
  BY <1>4 DEF NextBucket, TypeOK, processes, infos, order
<1>5. ASSUME Achieves \/ Raises \/ Doubts \/ GivesUp PROVE TypeOK'
  BY <1>0, <1>5 DEF Achieves, Raises, Doubts, GivesUp, TypeOK, processes, infos, order
<1>6. ASSUME Polls PROVE TypeOK'
  <2>1. proc[First] \in AtRest \cup {"Error"}
    BY <1>6 DEF Polls, TypeOK, SystemAssumption
  <2> QED
    BY <1>6, <2>1 DEF Polls, TypeOK, SystemAssumption, processes, order
<1>7. ASSUME Relaunches PROVE TypeOK'
  <2>1. /\ proc' \in [Procs -> AtRest \cup {"Error", "dead"}]
        /\ late' \in [Procs -> AtRest \cup {"none"}]
    BY <1>7, AllTyped DEF Relaunches, AtRest
  <2>2. /\ procState' \in [Procs -> AtRest \cup Verbing \cup {"nonexistent", "Error"}]
        /\ lastreturned' \in [Procs -> AtRest \cup {"Error", "Success", "Busy", "Failed"}]
    BY <1>7, AllTyped DEF Relaunches, AtRest
  <2>3. priority' \in [Procs -> Nat]
    <3>1. All(999) \in [Procs -> Nat]
      BY DEF All
    <3>2. priority' = All(999)
      BY <1>7 DEF Relaunches
    <3> QED
      BY <3>1, <3>2
  <2>4. /\ phase' = "idle" /\ exception' = FALSE /\ daq' \in AtRest
        /\ UNCHANGED <<thread, command, rank, count, todo>>
    BY <1>7 DEF Relaunches, AtRest, order
  <2> QED
    BY <2>1, <2>2, <2>3, <2>4 DEF TypeOK
<1>8. ASSUME NEW p \in Procs, Enters(p) PROVE TypeOK'
  <2>1. procState' \in [Procs -> AtRest \cup Verbing \cup {"nonexistent", "Error"}]
    <3>1. procState \in [Procs -> AtRest \cup Verbing \cup {"nonexistent", "Error"}]
      BY DEF TypeOK
    <3>2. \/ procState' = procState
          \/ procState' = [procState EXCEPT ![p] = VerbingToStates[command]]
      BY <1>8 DEF Enters
    <3> QED
      BY <1>0, <3>1, <3>2
  <2>2. thread' \in [Procs -> {"none", "begin", "call", "done"}]
    <3>1. thread \in [Procs -> {"none", "begin", "call", "done"}]
      BY DEF TypeOK
    <3>2. thread' = [thread EXCEPT ![p] = "done"] \/ thread' = [thread EXCEPT ![p] = "call"]
      BY <1>8 DEF Enters
    <3> QED
      BY <3>1, <3>2
  <2> QED
    BY <1>8, <2>1, <2>2 DEF Enters, TypeOK, processes, order
<1>9. ASSUME NEW p \in Procs, Succeeds(p) PROVE TypeOK'
  <2>1. /\ proc' \in [Procs -> AtRest \cup {"Error", "dead"}]
        /\ lastreturned' \in [Procs -> AtRest \cup {"Error", "Success", "Busy", "Failed"}]
    <3>1. proc \in [Procs -> AtRest \cup {"Error", "dead"}]
      BY DEF TypeOK
    <3>2. lastreturned \in [Procs -> AtRest \cup {"Error", "Success", "Busy", "Failed"}]
      BY DEF TypeOK
    <3> QED
      BY <1>0, <1>9, <3>1, <3>2 DEF Succeeds
  <2>2. procState' \in [Procs -> AtRest \cup Verbing \cup {"nonexistent", "Error"}]
    <3>1. procState \in [Procs -> AtRest \cup Verbing \cup {"nonexistent", "Error"}]
      BY DEF TypeOK
    <3> QED
      BY <1>0, <1>9, <3>1 DEF Succeeds
  <2>3. thread' \in [Procs -> {"none", "begin", "call", "done"}]
    BY <1>9 DEF Succeeds, Returns, TypeOK
  <2> QED
    BY <1>9, <2>1, <2>2, <2>3 DEF Succeeds, Returns, TypeOK, order
<1>10. ASSUME NEW p \in Procs, SaysBusy(p) \/ FailsToDo(p) PROVE TypeOK'
  <2>1. CASE SaysBusy(p)
    BY <1>0, <2>1 DEF SaysBusy, Returns, TypeOK, order
  <2>2. CASE FailsToDo(p)
    BY <2>2 DEF FailsToDo, Returns, TypeOK, order
  <2> QED
    BY <1>10, <2>1, <2>2
<1>11. ASSUME NEW p \in Procs, TimesOut(p) \/ IsRefused(p) PROVE TypeOK'
  <2>1. CASE TimesOut(p)
    <3>1. late' \in [Procs -> AtRest \cup {"none"}]
      BY <1>0, <2>1 DEF TimesOut, TypeOK
    <3> QED
      BY <2>1, <3>1 DEF TimesOut, Returns, TypeOK, infos, order
  <2>2. CASE IsRefused(p)
    BY <2>2 DEF IsRefused, Returns, TypeOK, processes, infos, order
  <2> QED
    BY <1>11, <2>1, <2>2
<1>12. ASSUME NEW p \in Procs, FinishesLate(p) \/ Dies(p) PROVE TypeOK'
  <2>1. /\ proc' \in [Procs -> AtRest \cup {"Error", "dead"}]
        /\ late' \in [Procs -> AtRest \cup {"none"}]
    BY <1>12 DEF FinishesLate, Dies, TypeOK
  <2>2. UNCHANGED <<infos, priority, thread, exception, command, phase, order, todo, daq>>
    BY <1>12 DEF FinishesLate, Dies
  <2> QED
    BY <2>1, <2>2 DEF TypeOK, infos, order
<1>13. CASE UNCHANGED vars
  BY <1>13 DEF vars, TypeOK
<1> QED
  BY <1>1, <1>2, <1>3, <1>4, <1>5, <1>6, <1>7, <1>8, <1>9, <1>10, <1>11, <1>12,
     <1>13
     DEF Next, Runner, ProcessCommand

\* The program starts typed.
LEMMA InitTyped == SystemAssumption /\ Init => TypeOK
<1> SUFFICES ASSUME SystemAssumption, Init PROVE TypeOK
  OBVIOUS
<1>1. /\ proc \in [Procs -> AtRest \cup {"Error", "dead"}]
      /\ late \in [Procs -> AtRest \cup {"none"}]
  BY AllTyped DEF Init, AtRest
<1>2. /\ procState \in [Procs -> AtRest \cup Verbing \cup {"nonexistent", "Error"}]
      /\ lastreturned \in [Procs -> AtRest \cup {"Error", "Success", "Busy", "Failed"}]
  BY AllTyped DEF Init, AtRest
<1>3. priority \in [Procs -> Nat]
  <2>1. All(999) \in [Procs -> Nat]
    BY DEF All
  <2> QED
    BY <2>1 DEF Init
<1>4. thread \in [Procs -> {"none", "begin", "call", "done"}]
  BY AllTyped DEF Init
<1>5. rank \in [Subsystems -> Nat] /\ count \in Nat
  BY DEF Init, NotOrdered
<1> QED
  BY <1>1, <1>2, <1>3, <1>4, <1>5 DEF Init, TypeOK, AtRest, Commands

-----------------------------------------------------------------------------
(* The inductive invariant.  Each lemma takes the steps that touch the same   *)
(* part of the state.                                                         *)

\* do_command begins: everyone is where the transition starts from.
LEMMA BeginStep ==
    ASSUME SystemAssumption, CommandInv, TypeOK', NEW c \in Commands, Begin(c)
    PROVE  CommandInv'
<1> USE DEF Begin, processes, infos
<1>1. AchievedByAll' /\ (phase = "idle" => Calm)'
  BY DEF AchievedByAll
<1>2. Progress'
  <2>1. \A p \in Procs : proc[p] \in {daq, "dead"} /\ late[p] = "none"
    BY DEF CommandInv, AchievedByAll, Calm
  <2>2. \A p \in Procs : thread'[p] = "none"
    BY DEF All
  <2> QED
    BY <2>1, <2>2 DEF Progress, Waiting
<1>3. SourcesLower' /\ AllPlaced' /\ BucketsInOrder'
  BY DEF SourcesLower, AllPlaced, BucketsInOrder, NotOrdered
<1>4. ThreadsOnlyInSend'
  BY DEF ThreadsOnlyInSend, Joined, All
<1> QED
  BY <1>1, <1>2, <1>3, <1>4 DEF CommandInv

\* One turn of the loop that orders the subsystems: the sources of the one it
\* appends were all appended before.
LEMMA PlaceStep ==
    ASSUME SystemAssumption, CommandInv, TypeOK', NEW s \in Subsystems, PlaceSubsystem(s)
    PROVE  CommandInv'
<1> USE DEF PlaceSubsystem, processes, infos
<1>1. AchievedByAll' /\ (phase = "idle" => Calm)'
  BY DEF AchievedByAll
<1>2. Progress'
  BY DEF CommandInv, Progress, Waiting, Answered, Target
<1>3. SourcesLower'
  <2>1. rank \in [Subsystems -> Nat] /\ count \in Nat
    BY DEF CommandInv, TypeOK
  <2>2. rank[s] = 0
    BY <2>1 DEF Ordered
  <2>3. \A r \in Subsystems : rank'[r] = IF r = s THEN count + 1 ELSE rank[r]
    BY <2>1
  <2>4. \A r \in Subsystems : rank[r] <= count
    BY DEF CommandInv, SourcesLower
  <2>5. \A r \in Subsystems : Listed[s][r] > 0 => rank[r] > 0 /\ r # s
    BY <2>1, <2>2 DEF SourcesOrdered, Ordered, SystemAssumption
  <2>6. \A r \in Subsystems : rank'[r] <= count'
    BY <2>1, <2>3, <2>4
  <2>7. ASSUME NEW t \in Subsystems, NEW r \in Subsystems, rank'[t] > 0, Listed[t][r] > 0
        PROVE  rank'[r] > 0 /\ rank'[r] < rank'[t]
    <3>1. CASE t = s
      BY <2>1, <2>3, <2>4, <2>5, <2>7, <3>1
    <3>2. CASE t # s
      <4>1. rank[r] > 0 /\ rank[r] < rank[t]
        BY <2>3, <2>7, <3>2 DEF CommandInv, SourcesLower
      <4>2. r # s
        BY <2>2, <4>1
      <4> QED
        BY <2>3, <3>2, <4>1, <4>2
    <3> QED
      BY <3>1, <3>2
  <2> QED
    BY <2>6, <2>7 DEF SourcesLower
<1>4. AllPlaced' /\ BucketsInOrder'
  BY DEF AllPlaced, BucketsInOrder
<1>5. ThreadsOnlyInSend'
  BY DEF CommandInv, ThreadsOnlyInSend, Joined
<1> QED
  BY <1>1, <1>2, <1>3, <1>4, <1>5 DEF CommandInv

\* The ordering is done: every process is still to come.
LEMMA OrderDoneStep ==
    ASSUME CommandInv, TypeOK', OrderDone
    PROVE  CommandInv'
<1> USE DEF OrderDone, processes, infos, order
<1>1. AchievedByAll' /\ (phase = "idle" => Calm)'
  BY DEF AchievedByAll
<1>2. Progress'
  BY DEF CommandInv, Progress, Waiting, Answered, Target
<1>3. SourcesLower' /\ AllPlaced'
  BY DEF CommandInv, SourcesLower, AllPlaced, Ordered
<1>4. BucketsInOrder'
  BY DEF CommandInv, Progress, BucketsInOrder
<1>5. ThreadsOnlyInSend'
  BY DEF ThreadsOnlyInSend
<1> QED
  BY <1>1, <1>2, <1>3, <1>4, <1>5 DEF CommandInv

\* The next bucket starts: nobody in it comes after a process that waits.
LEMMA BucketStep ==
    ASSUME CommandInv, TypeOK', NextBucket
    PROVE  CommandInv'
<1> DEFINE bucket == {p \in todo : \A q \in todo : ~Earlier(q, p)}
<1>0. /\ phase = "send" /\ phase' = "send" /\ Joined
      /\ thread' = [p \in Procs |-> IF p \in bucket THEN "begin" ELSE thread[p]]
      /\ todo' = todo \ bucket
      /\ UNCHANGED <<proc, late, procState, lastreturned, priority, exception, command,
                     rank, count, daq>>
  BY DEF NextBucket, processes, infos, order
<1>1. todo \subseteq Procs /\ \A p \in Procs : p \in todo <=> thread[p] = "none"
  BY <1>0 DEF CommandInv, TypeOK, Progress
<1>2. AchievedByAll' /\ (phase = "idle" => Calm)'
  BY <1>0 DEF AchievedByAll
<1>3. Progress'
  <2>1. daq' = From[command']
    BY <1>0 DEF CommandInv, Progress
  <2>2. ASSUME NEW p \in Procs
        PROVE  /\ thread'[p] # "done" => Waiting(p)'
               /\ thread'[p] = "done" /\ ~exception' => Answered(p)'
               /\ p \in todo' <=> thread'[p] = "none"
    <3>1. CASE p \in bucket
      <4>1. thread[p] = "none" /\ thread'[p] = "begin" /\ p \notin todo'
        BY <1>0, <1>1, <3>1
      <4> QED
        BY <1>0, <4>1 DEF CommandInv, Progress, Waiting
    <3>2. CASE p \notin bucket
      <4>1. thread'[p] = thread[p] /\ (p \in todo' <=> p \in todo)
        BY <1>0, <3>2
      <4> QED
        BY <1>0, <1>1, <4>1 DEF CommandInv, Progress, Waiting, Answered, Target
    <3> QED
      BY <3>1, <3>2
  <2> QED
    BY <1>0, <2>1, <2>2 DEF Progress
<1>4. SourcesLower' /\ AllPlaced'
  BY <1>0 DEF CommandInv, SourcesLower, AllPlaced
<1>5. BucketsInOrder'
  <2> SUFFICES ASSUME NEW p \in Procs, NEW q \in Procs, Earlier(q, p), p \notin todo'
               PROVE  q \notin todo' /\ (thread'[p] \in {"begin", "call"} => thread'[q] = "done")
    BY <1>0 DEF BucketsInOrder, Earlier
  <2>1. CASE p \in bucket
    <3>1. q \notin todo
      BY <2>1
    <3>2. thread[q] = "done"
      BY <1>0, <1>1, <3>1 DEF Joined
    <3> QED
      BY <1>0, <3>1, <3>2
  <2>2. CASE p \notin bucket
    <3>1. p \notin todo /\ thread'[p] = thread[p]
      BY <1>0, <2>2
    <3>2. q \notin todo
      BY <1>0, <3>1 DEF CommandInv, BucketsInOrder
    <3>3. thread[p] \notin {"begin", "call"}
      BY <1>0 DEF Joined
    <3> QED
      BY <1>0, <3>1, <3>2, <3>3
  <2> QED
    BY <2>1, <2>2
<1>6. ThreadsOnlyInSend'
  BY <1>0 DEF ThreadsOnlyInSend
<1> QED
  BY <1>2, <1>3, <1>4, <1>5, <1>6 DEF CommandInv

\* do_command ends: without an exception every process has answered well, to
\* this very command.
LEMMA EndStep ==
    ASSUME CommandInv, TypeOK', Achieves \/ Raises \/ Doubts \/ GivesUp
    PROVE  CommandInv'
<1>0. /\ phase' # "send" /\ phase' # "order" /\ Joined'
      /\ UNCHANGED <<proc, late, exception, command, lastreturned, rank, count>>
  <2>1. Joined
    BY DEF Achieves, Raises, Doubts, GivesUp, AllSent, CommandInv, ThreadsOnlyInSend
  <2>2. UNCHANGED thread
    BY DEF Achieves, Raises, Doubts, GivesUp
  <2>3. phase' # "send" /\ phase' # "order"
    BY DEF Achieves, Raises, Doubts, GivesUp
  <2>4. UNCHANGED <<proc, late, exception, command, lastreturned, rank, count>>
    BY DEF Achieves, Raises, Doubts, GivesUp, processes, infos, order
  <2> QED
    BY <2>1, <2>2, <2>3, <2>4 DEF Joined
<1>1. AchievedByAll' /\ (phase = "idle" => Calm)'
  <2>1. CASE Achieves
    <3>1. Target \in AtRest
      BY CommandTyped DEF CommandInv, TypeOK, Target
    <3>2. ASSUME NEW p \in Procs PROVE proc[p] \in {Target, "dead"} /\ late[p] = "none"
      <4>1. thread[p] = "done" /\ ~exception
        BY <2>1 DEF Achieves, AllSent, Joined, CommandInv, Progress
      <4>2. Answered(p)
        BY <2>1, <4>1 DEF Achieves, AllSent, CommandInv, Progress
      <4>3. lastreturned[p] \notin {"Busy", "Failed"}
        BY <2>1, <3>1 DEF Achieves, AnsweredWell, AtRest
      <4> QED
        BY <4>2, <4>3 DEF Answered
    <3>3. daq' = Target /\ exception' = FALSE
      BY <1>0, <2>1 DEF Achieves, CommandInv, TypeOK
    <3> QED
      BY <1>0, <3>2, <3>3 DEF AchievedByAll, Calm
  <2>2. CASE Raises \/ Doubts \/ GivesUp
    BY <2>2 DEF Raises, Doubts, GivesUp, AchievedByAll
  <2> QED
    BY <2>1, <2>2
<1>2. Progress' /\ AllPlaced' /\ BucketsInOrder' /\ ThreadsOnlyInSend'
  BY <1>0 DEF Progress, AllPlaced, BucketsInOrder, ThreadsOnlyInSend
<1>3. SourcesLower'
  BY <1>0 DEF CommandInv, SourcesLower
<1> QED
  BY <1>1, <1>2, <1>3 DEF CommandInv

\* Between transitions: a poll writes nothing that the invariant reads, and
\* after a recovery everything starts afresh.
LEMMA BetweenStep ==
    ASSUME CommandInv, TypeOK', Polls \/ Relaunches
    PROVE  CommandInv'
<1>0. /\ phase' = "idle" /\ phase # "send"
      /\ UNCHANGED <<thread, rank, count>>
  BY DEF Polls, Relaunches, order
<1>1. AchievedByAll' /\ (phase = "idle" => Calm)'
  <2>1. CASE Polls
    BY <2>1 DEF Polls, processes, CommandInv, AchievedByAll, Calm
  <2>2. CASE Relaunches
    BY <2>2 DEF Relaunches, AchievedByAll, Calm, All
  <2> QED
    BY <2>1, <2>2
<1>2. Progress' /\ AllPlaced' /\ BucketsInOrder'
  BY <1>0 DEF Progress, AllPlaced, BucketsInOrder
<1>3. SourcesLower' /\ ThreadsOnlyInSend'
  BY <1>0 DEF CommandInv, SourcesLower, ThreadsOnlyInSend, Joined
<1> QED
  BY <1>1, <1>2, <1>3 DEF CommandInv

\* A thread of process_command goes on, whatever the call comes to.  Nothing it
\* does moves a process whose call is still to come.
LEMMA ThreadStep ==
    ASSUME SystemAssumption, CommandInv, TypeOK', NEW p \in Procs, ProcessCommand(p)
    PROVE  CommandInv'
<1>0. /\ UNCHANGED <<priority, command, phase, rank, count, todo, daq>>
      /\ thread[p] \in {"begin", "call"}
      /\ thread' = [thread EXCEPT ![p] = thread'[p]]
      /\ thread'[p] \in {"call", "done"}
      /\ thread'[p] = "call" => thread[p] = "begin"
      /\ \A q \in Procs : q # p => thread'[q] = thread[q]
  <2>1. thread \in [Procs -> {"none", "begin", "call", "done"}]
    BY DEF CommandInv, TypeOK
  <2>2. CASE Enters(p)
    BY <2>1, <2>2 DEF Enters, order
  <2>3. CASE Returns(p)
    BY <2>1, <2>3 DEF Returns, order
  <2> QED
    BY <2>2, <2>3 DEF ProcessCommand, Succeeds, SaysBusy, FailsToDo, TimesOut, IsRefused
<1>1. phase = "send"
  BY <1>0 DEF CommandInv, ThreadsOnlyInSend, Joined
<1>2. \A q \in Procs : q # p =>
         proc'[q] = proc[q] /\ late'[q] = late[q] /\ lastreturned'[q] = lastreturned[q]
  <2>1. /\ DOMAIN proc = Procs /\ DOMAIN late = Procs /\ DOMAIN lastreturned = Procs
    BY DEF CommandInv, TypeOK
  <2> QED
    BY <2>1 DEF ProcessCommand, Enters, Succeeds, SaysBusy, FailsToDo, TimesOut, IsRefused,
                processes, infos
<1>3. ~exception' => ~exception
  BY DEF ProcessCommand, Enters, Succeeds, SaysBusy, FailsToDo, TimesOut, IsRefused,
         CommandInv, TypeOK
<1>4. Waiting(p) /\ daq = From[command] /\ p \notin todo
  BY <1>0, <1>1 DEF CommandInv, Progress
<1>5. thread'[p] = "call" => Waiting(p)'
  <2> SUFFICES ASSUME thread'[p] = "call" PROVE Waiting(p)'
    OBVIOUS
  <2>1. Enters(p)
    <3>1. Returns(p) => thread'[p] = "done"
      BY DEF Returns, CommandInv, TypeOK
    <3> QED
      BY <3>1 DEF ProcessCommand, Succeeds, SaysBusy, FailsToDo, TimesOut, IsRefused
  <2> QED
    BY <1>0, <1>4, <2>1 DEF Enters, processes, Waiting
<1>6. thread'[p] = "done" /\ ~exception' => Answered(p)'
  <2> SUFFICES ASSUME thread'[p] = "done", ~exception' PROVE Answered(p)'
    OBVIOUS
  <2>1. Target' = Target
    BY <1>0 DEF Target
  <2>2. /\ p \in DOMAIN proc /\ p \in DOMAIN late /\ p \in DOMAIN lastreturned
        /\ p \in DOMAIN thread
    BY DEF CommandInv, TypeOK
  <2>3. ~Enters(p)
    BY <1>3, <2>2 DEF Enters
  <2>4. CASE Succeeds(p)
    BY <1>4, <2>1, <2>2, <2>4 DEF Succeeds, Answered, Waiting
  <2>5. CASE SaysBusy(p) \/ FailsToDo(p)
    BY <2>2, <2>5 DEF SaysBusy, FailsToDo, Answered
  <2>6. CASE TimesOut(p) \/ IsRefused(p)
    BY <2>6 DEF TimesOut, IsRefused
  <2> QED
    BY <2>3, <2>4, <2>5, <2>6 DEF ProcessCommand
<1>7. AchievedByAll' /\ (phase = "idle" => Calm)'
  BY <1>0, <1>1 DEF AchievedByAll
<1>8. Progress'
  <2>1. ASSUME NEW q \in Procs, q # p
        PROVE  /\ thread'[q] # "done" => Waiting(q)'
               /\ thread'[q] = "done" /\ ~exception' => Answered(q)'
               /\ q \in todo' <=> thread'[q] = "none"
    BY <1>0, <1>1, <1>2, <1>3, <2>1 DEF CommandInv, Progress, Waiting, Answered, Target
  <2>2. /\ thread'[p] # "done" => Waiting(p)'
        /\ thread'[p] = "done" /\ ~exception' => Answered(p)'
        /\ p \in todo' <=> thread'[p] = "none"
    BY <1>0, <1>4, <1>5, <1>6
  <2> QED
    BY <1>0, <1>1, <1>4, <2>1, <2>2 DEF Progress
<1>9. SourcesLower' /\ AllPlaced' /\ ThreadsOnlyInSend'
  BY <1>0, <1>1 DEF CommandInv, SourcesLower, AllPlaced, ThreadsOnlyInSend
<1>10. BucketsInOrder'
  <2> SUFFICES ASSUME NEW r \in Procs, NEW q \in Procs, Earlier(q, r), r \notin todo
               PROVE  q \notin todo /\ (thread'[r] \in {"begin", "call"} => thread'[q] = "done")
    BY <1>0 DEF BucketsInOrder, Earlier
  <2>1. q \notin todo /\ (thread[r] \in {"begin", "call"} => thread[q] = "done")
    BY <1>1 DEF CommandInv, BucketsInOrder
  <2>2. thread'[r] \in {"begin", "call"} => thread[r] \in {"begin", "call"}
    BY <1>0
  <2>3. thread[q] = "done" => thread'[q] = "done"
    BY <1>0
  <2> QED
    BY <2>1, <2>2, <2>3
<1> QED
  BY <1>7, <1>8, <1>9, <1>10 DEF CommandInv

\* A process ends late what it was told, or dies: neither can happen unseen to
\* one that DAQInterface counts on.
LEMMA ProcessStep ==
    ASSUME SystemAssumption, CommandInv, TypeOK', NEW p \in Procs, FinishesLate(p) \/ Dies(p)
    PROVE  CommandInv'
<1>0. /\ UNCHANGED <<procState, lastreturned, priority, thread, exception, command,
                     phase, rank, count, todo, daq>>
      /\ \A q \in Procs : q # p => proc'[q] = proc[q] /\ late'[q] = late[q]
      /\ late'[p] = "none"
      /\ late[p] = "none" => proc'[p] = "dead"
  <2>1. /\ DOMAIN proc = Procs /\ DOMAIN late = Procs
    BY DEF CommandInv, TypeOK
  <2> QED
    BY <2>1 DEF FinishesLate, Dies, infos, order
<1>1. AchievedByAll' /\ (phase = "idle" => Calm)'
  BY <1>0 DEF CommandInv, AchievedByAll, Calm
<1>2. Progress'
  <2> SUFFICES ASSUME phase \in {"order", "send"}, NEW q \in Procs
               PROVE  /\ thread[q] # "done" => Waiting(q)'
                      /\ thread[q] = "done" /\ ~exception => Answered(q)'
    BY <1>0 DEF CommandInv, Progress
  <2>1. thread[q] # "done" => Waiting(q)'
    BY <1>0 DEF CommandInv, Progress, Waiting
  <2>2. thread[q] = "done" /\ ~exception => Answered(q)'
    BY <1>0 DEF CommandInv, Progress, Answered, Target
  <2> QED
    BY <2>1, <2>2
<1>3. SourcesLower' /\ AllPlaced' /\ ThreadsOnlyInSend'
  BY <1>0 DEF CommandInv, SourcesLower, AllPlaced, ThreadsOnlyInSend, Joined
<1>4. BucketsInOrder'
  BY <1>0 DEF CommandInv, BucketsInOrder, Earlier
<1> QED
  BY <1>1, <1>2, <1>3, <1>4 DEF CommandInv

-----------------------------------------------------------------------------
(* The theorems. *)

\* After do_boot the invariant holds.
LEMMA InitInv == SystemAssumption /\ Init => CommandInv
<1> SUFFICES ASSUME SystemAssumption, Init PROVE CommandInv
  OBVIOUS
<1>1. TypeOK
  BY InitTyped
<1>2. AchievedByAll /\ (phase = "idle" => Calm) /\ Progress
  BY DEF Init, AchievedByAll, Calm, Progress, All
<1>3. SourcesLower /\ AllPlaced /\ BucketsInOrder
  BY DEF Init, SourcesLower, AllPlaced, BucketsInOrder, NotOrdered
<1>4. ThreadsOnlyInSend
  BY DEF Init, ThreadsOnlyInSend, Joined, All
<1> QED
  BY <1>1, <1>2, <1>3, <1>4 DEF CommandInv

\* No variable of the invariant is outside vars.
LEMMA StutterInv == CommandInv /\ UNCHANGED vars => CommandInv'
BY DEF CommandInv, TypeOK, AchievedByAll, Calm, Progress, Waiting, Answered, Target,
       SourcesLower, AllPlaced, BucketsInOrder, Earlier, ThreadsOnlyInSend, Joined, vars

\* The inductive invariant of do_command and its threads.
THEOREM CommandInvariant == Spec => []CommandInv
<1>1. SystemAssumption
  BY SystemAssumption
<1>2. CommandInv /\ [Next]_vars => CommandInv'
  <2> SUFFICES ASSUME CommandInv, [Next]_vars PROVE CommandInv'
    OBVIOUS
  <2>1. TypeOK'
    BY <1>1, TypeStep DEF CommandInv
  <2> QED
    BY <1>1, <2>1, BeginStep, PlaceStep, OrderDoneStep, BucketStep, EndStep, BetweenStep,
       ThreadStep, ProcessStep, StutterInv
       DEF Next, Runner
<1> QED
  BY <1>1, <1>2, InitInv, PTL DEF Spec

\* What the threads of process_command and the runner write has its type.
THEOREM CommandTypeCorrect == Spec => []TypeOK
BY CommandInvariant, PTL DEF CommandInv

\* do_command returns only when every process that lives is in the state that
\* DAQInterface goes to: no stale lastreturned and no call that was not made
\* passes for an answer.
THEOREM Achieved == Spec => []AchievedByAll
BY CommandInvariant, PTL DEF CommandInv

\* Whom a process sends its data to is in an earlier bucket than itself, and in a
\* later one when the sources come first.
LEMMA FeedsEarlier ==
    ASSUME SystemAssumption, TypeOK, SourcesLower, \A s \in Subsystems : rank[s] > 0,
           NEW p \in Procs, NEW q \in Procs, Feeds(p, q)
    PROVE  IF command \in Winding THEN Earlier(p, q) ELSE Earlier(q, p)
<1>1. CASE Sub[p] = Sub[q] /\ Upstream[Type[p]] < Upstream[Type[q]]
  <2>1. Upstream[Type[p]] \in Int /\ Upstream[Type[q]] \in Int
    BY UpstreamTyped DEF SystemAssumption
  <2>2. Type[p] # Type[q] /\ ~(Upstream[Type[q]] < Upstream[Type[p]])
    BY <1>1, <2>1
  <2> QED
    BY <1>1, <2>2 DEF Earlier
<1>2. CASE Listed[Sub[q]][Sub[p]] > 0
  <2>1. Sub[p] \in Subsystems /\ Sub[q] \in Subsystems
    BY DEF SystemAssumption
  <2>2. rank[Sub[p]] < rank[Sub[q]]
    BY <1>2, <2>1 DEF SourcesLower
  <2>3. rank[Sub[p]] \in Nat /\ rank[Sub[q]] \in Nat
    BY <2>1 DEF TypeOK
  <2> QED
    BY <2>2, <2>3 DEF Earlier
<1> QED
  BY <1>1, <1>2 DEF Feeds

\* The three nested loops over subsystems, types and priorities stop the
\* sources of data first and start them last, for every tree of subsystems.
THEOREM SourcesAreFirst == Spec => []SourcesFirst
<1>1. ASSUME CommandInv, SystemAssumption PROVE SourcesFirst
  <2> SUFFICES ASSUME NEW p \in Procs, NEW q \in Procs, Feeds(p, q)
               PROVE  IF command \in Winding
                      THEN thread[q] = "call" => thread[p] = "done"
                      ELSE thread[p] = "call" => thread[q] = "done"
    BY DEF SourcesFirst
  <2>1. ASSUME NEW u \in Procs, NEW v \in Procs, Earlier(u, v), thread[v] = "call"
        PROVE  thread[u] = "done"
    <3>1. phase = "send"
      BY <1>1, <2>1 DEF CommandInv, ThreadsOnlyInSend, Joined
    <3>2. v \notin todo
      BY <1>1, <2>1, <3>1 DEF CommandInv, Progress
    <3> QED
      BY <1>1, <2>1, <3>1, <3>2 DEF CommandInv, BucketsInOrder
  <2>2. ASSUME phase = "send"
        PROVE  IF command \in Winding THEN Earlier(p, q) ELSE Earlier(q, p)
    BY <1>1, <2>2, FeedsEarlier DEF CommandInv, AllPlaced
  <2>3. ASSUME NEW u \in Procs, thread[u] = "call" PROVE phase = "send"
    BY <1>1, <2>3 DEF CommandInv, ThreadsOnlyInSend, Joined
  <2> QED
    BY <2>1, <2>2, <2>3
<1>2. SystemAssumption
  BY SystemAssumption
<1> QED
  BY <1>1, <1>2, CommandInvariant, PTL

-----------------------------------------------------------------------------
(* The data is taken.  EffectsInOrder is kept by the same steps.              *)

\* The two ends of a transition are different, and neither is what a process
\* that broke, or that has nothing left to do, is in.
LEMMA EndsDiffer ==
    ASSUME NEW c \in Commands
    PROVE  /\ From[c] # TargetStates[c]
           /\ From[c] \notin {"none", "Error", "dead"}
           /\ TargetStates[c] \notin {"none", "Error", "dead"}
BY TableEntries DEF Commands

\* The runner's steps: it starts and ends nothing out of order.
LEMMA RunnerEffects ==
    ASSUME SystemAssumption, TakenInv, CommandInv', Runner
    PROVE  EffectsInOrder'
<1>1. CASE \E s \in Subsystems : PlaceSubsystem(s)
  <2>1. phase' = "order"
    BY <1>1 DEF PlaceSubsystem
  <2> QED
    BY <2>1 DEF EffectsInOrder, Sent
<1>2. CASE OrderDone
  <2>1. /\ phase = "order" /\ \A s \in Subsystems : rank[s] > 0
        /\ UNCHANGED <<proc, late, lastreturned, thread, command, rank, daq>>
    BY <1>2 DEF OrderDone, Ordered, processes, infos, order
  <2>2. ASSUME NEW p \in Procs
        PROVE  /\ proc[p] \in {From[command], "dead"} /\ late[p] = "none"
               /\ thread[p] = "none"
    <3>1. daq = From[command] /\ thread[p] = "none"
      BY <2>1 DEF TakenInv, CommandInv, Progress
    <3> QED
      BY <2>1, <3>1 DEF TakenInv, CommandInv, Progress, Waiting
  <2>3. From[command] # Target /\ Target # "dead"
    BY EndsDiffer DEF TakenInv, CommandInv, TypeOK, Target
  <2>4. Target' = Target
    BY <2>1 DEF Target
  <2>5. \A p \in Procs : ~Touched(p)'
    BY <2>1, <2>2, <2>3, <2>4 DEF Touched
  <2> QED
    BY <2>1, <2>2, <2>4, <2>5 DEF EffectsInOrder
<1>3. CASE NextBucket
  <2>1. /\ phase = "send" /\ UNCHANGED <<proc, late, lastreturned, priority, command, rank>>
        /\ \A p \in Procs : thread'[p] = "call" => thread[p] = "call"
    BY <1>3 DEF NextBucket, processes, infos, order
  <2>2. Target' = Target
    BY <2>1 DEF Target
  <2>3. \A p \in Procs : (Touched(p)' => Touched(p)) /\ (Answered(p) => Answered(p)')
    BY <2>1, <2>2 DEF Touched, Answered
  <2>4. \A p, q \in Procs : Earlier(q, p)' => Earlier(q, p)
    BY <2>1 DEF Earlier
  <2>5. EffectsInOrder /\ phase \in Sent
    BY <2>1 DEF TakenInv, Sent
  <2>6. ASSUME NEW p \in Procs, NEW q \in Procs, Earlier(q, p)', Touched(p)'
        PROVE  thread'[q] = "done" /\ Answered(q)'
    <3>1. thread[q] = "done" /\ Answered(q)
      BY <2>3, <2>4, <2>5, <2>6 DEF EffectsInOrder
    <3>2. thread'[q] = "done"
      BY <1>3, <3>1 DEF NextBucket, TakenInv, CommandInv, Progress
    <3> QED
      BY <2>3, <3>1, <3>2
  <2> QED
    BY <2>1, <2>2, <2>5, <2>6 DEF EffectsInOrder
<1>4. CASE Achieves
  BY <1>4 DEF Achieves, EffectsInOrder, Sent
<1>5. CASE Raises \/ Doubts \/ GivesUp
  <2>1. /\ UNCHANGED <<proc, late, lastreturned, thread, priority, command, rank>>
        /\ phase \in Sent
    BY <1>5 DEF Raises, Doubts, GivesUp, AllSent, Sent, processes, infos, order
  <2>2. EffectsInOrder
    BY DEF TakenInv
  <2> QED
    BY <2>1, <2>2 DEF EffectsInOrder, Earlier, Touched, Answered, Target
<1> QED
  BY <1>1, <1>2, <1>3, <1>4, <1>5 DEF Runner

\* A thread makes its call only after everyone before it has answered, and what
\* a process answers, it is not called again.
LEMMA ThreadEffects ==
    ASSUME SystemAssumption, TakenInv, CommandInv', NEW p \in Procs, ProcessCommand(p)
    PROVE  EffectsInOrder'
<1>1. /\ UNCHANGED <<priority, command, phase, rank, todo, daq>>
      /\ thread[p] \in {"begin", "call"}
      /\ \A q \in Procs : q # p =>
            /\ thread'[q] = thread[q] /\ proc'[q] = proc[q] /\ late'[q] = late[q]
            /\ lastreturned'[q] = lastreturned[q]
  <2>1. /\ DOMAIN proc = Procs /\ DOMAIN late = Procs /\ DOMAIN lastreturned = Procs
        /\ DOMAIN thread = Procs
    BY DEF TakenInv, CommandInv, TypeOK
  <2>2. CASE Enters(p)
    BY <2>1, <2>2 DEF Enters, processes, order
  <2>3. CASE Succeeds(p)
    BY <2>1, <2>3 DEF Succeeds, Returns, order
  <2>4. CASE SaysBusy(p) \/ FailsToDo(p)
    BY <2>1, <2>4 DEF SaysBusy, FailsToDo, Returns, order
  <2>5. CASE TimesOut(p) \/ IsRefused(p)
    BY <2>1, <2>5 DEF TimesOut, IsRefused, Returns, processes, infos, order
  <2> QED
    BY <2>2, <2>3, <2>4, <2>5 DEF ProcessCommand
<1>2. phase = "send" /\ phase \in Sent
  BY <1>1 DEF TakenInv, CommandInv, ThreadsOnlyInSend, Joined, Sent
<1>3. Waiting(p) /\ daq = From[command] /\ p \notin todo
  BY <1>1, <1>2 DEF TakenInv, CommandInv, Progress
<1>4. /\ From[command] # Target /\ Target \notin {"none", "Error", "dead"} /\ Target' = Target
  BY <1>1, EndsDiffer DEF TakenInv, CommandInv, TypeOK, Target
<1>7. \A q \in Procs : q # p => /\ Touched(q)' => Touched(q)
                                /\ Answered(q) => Answered(q)'
  BY <1>1, <1>4 DEF Touched, Answered
<1>8. \A q, r \in Procs : Earlier(q, r)' => Earlier(q, r)
  BY <1>1 DEF Earlier
<1>5. \A q \in Procs : ~Earlier(q, q)
  <2>1. /\ Sub \in [Procs -> Subsystems] /\ rank \in [Subsystems -> Nat]
        /\ priority \in [Procs -> Nat]
    BY DEF SystemAssumption, TakenInv, CommandInv, TypeOK
  <2> QED
    BY <2>1 DEF Earlier
<1>9. /\ proc'[p] \in {From[command], Target, "Error", "dead"}
      /\ late'[p] \in {"none", Target}
  <2>1. /\ p \in DOMAIN proc /\ p \in DOMAIN late
    BY DEF TakenInv, CommandInv, TypeOK
  <2>2. proc[p] \in {From[command], "dead"} /\ late[p] = "none"
    BY <1>3 DEF Waiting
  <2> QED
    BY <2>1, <2>2 DEF ProcessCommand, Enters, Succeeds, SaysBusy, FailsToDo, TimesOut,
       IsRefused, processes
<1>10. ASSUME NEW q \in Procs, Earlier(q, p), Touched(p)'
       PROVE  q # p /\ thread[q] = "done" /\ Answered(q)
  <2>1. q # p
    BY <1>8, <1>10, <1>5
  <2>2. CASE thread[p] = "call"
    <3>1. Touched(p)
      BY <2>2 DEF Touched
    <3> QED
      BY <1>2, <1>8, <1>10, <2>1, <3>1 DEF TakenInv, EffectsInOrder
  <2>3. CASE thread[p] = "begin"
    <3>1. Enters(p)
      BY <2>3 DEF ProcessCommand, Succeeds, SaysBusy, FailsToDo, TimesOut, IsRefused, Returns
    <3>2. ~exception
      <4>1. exception => thread'[p] = "done" /\ proc'[p] = proc[p] /\ late'[p] = late[p]
        BY <3>1 DEF Enters, processes, TakenInv, CommandInv, TypeOK
      <4>2. exception => ~Touched(p)'
        BY <1>3, <1>4, <4>1 DEF Touched, Waiting
      <4> QED
        BY <1>10, <4>2
    <3>3. thread[q] = "done"
      BY <1>2, <1>3, <1>8, <1>10, <2>3 DEF TakenInv, CommandInv, BucketsInOrder
    <3> QED
      BY <1>2, <2>1, <3>2, <3>3 DEF TakenInv, CommandInv, Progress
  <2> QED
    BY <1>1, <2>2, <2>3
<1>11. ASSUME NEW q \in Procs, Earlier(p, q), Touched(q)', q # p
       PROVE  FALSE
  <2>1. Touched(q)
    BY <1>7, <1>11
  <2>2. thread[p] = "done"
    BY <1>2, <1>8, <1>11, <2>1 DEF TakenInv, EffectsInOrder
  <2> QED
    BY <1>1, <2>2
<1>12. ASSUME NEW r \in Procs, NEW q \in Procs, Earlier(q, r)', Touched(r)'
       PROVE  thread'[q] = "done" /\ Answered(q)'
  <2>1. Earlier(q, r)
    BY <1>8, <1>12
  <2>2. CASE r = p
    BY <1>1, <1>7, <1>10, <1>12, <2>1, <2>2
  <2>3. CASE r # p
    <3>1. q # p
      BY <1>11, <1>12, <2>1, <2>3
    <3>2. Touched(r)
      BY <1>7, <1>12, <2>3
    <3>3. thread[q] = "done" /\ Answered(q)
      BY <1>2, <2>1, <3>2 DEF TakenInv, EffectsInOrder
    <3> QED
      BY <1>1, <1>7, <3>1, <3>3
  <2> QED
    BY <2>2, <2>3
<1>13. \A q \in Procs : /\ proc'[q] \in {From[command], Target, "Error", "dead"}
                         /\ late'[q] \in {"none", Target}
  <2>1. ASSUME NEW q \in Procs, q # p
        PROVE  proc'[q] \in {From[command], Target, "Error", "dead"} /\ late'[q] \in {"none", Target}
    BY <1>1, <1>2, <2>1 DEF TakenInv, EffectsInOrder
  <2> QED
    BY <1>9, <2>1
<1>14. \A s \in Subsystems : rank[s] > 0
  BY <1>2 DEF TakenInv, EffectsInOrder
<1> QED
  BY <1>1, <1>4, <1>12, <1>13, <1>14 DEF EffectsInOrder

\* What happens late, or a death, makes no process touched that was not.
LEMMA ProcessEffects ==
    ASSUME SystemAssumption, TakenInv, CommandInv', NEW p \in Procs, FinishesLate(p) \/ Dies(p)
    PROVE  EffectsInOrder'
<1>1. /\ UNCHANGED <<lastreturned, priority, thread, command, phase, rank>>
      /\ \A q \in Procs : q # p => proc'[q] = proc[q] /\ late'[q] = late[q]
      /\ late'[p] = "none"
      /\ proc'[p] = "dead" \/ (late[p] # "none" /\ proc'[p] = late[p])
  <2>1. /\ DOMAIN proc = Procs /\ DOMAIN late = Procs
    BY DEF TakenInv, CommandInv, TypeOK
  <2>2. CASE FinishesLate(p)
    BY <2>1, <2>2 DEF FinishesLate, infos, order
  <2>3. CASE Dies(p)
    BY <2>1, <2>3 DEF Dies, infos, order
  <2> QED
    BY <2>2, <2>3
<1> SUFFICES ASSUME phase \in Sent PROVE EffectsInOrder'
  BY <1>1 DEF EffectsInOrder
<1>2. Target # "dead" /\ Target' = Target
  BY <1>1, EndsDiffer DEF TakenInv, CommandInv, TypeOK, Target
<1>3. \A q \in Procs : Touched(q)' => Touched(q)
  BY <1>1, <1>2 DEF Touched
<1>4. \A q \in Procs : late[q] \in {"none", Target}
  BY DEF TakenInv, EffectsInOrder
<1>5. \A q \in Procs : Answered(q) => Answered(q)'
  BY <1>1, <1>2 DEF Answered
<1>6. \A q, r \in Procs : Earlier(q, r)' => Earlier(q, r)
  BY <1>1 DEF Earlier
<1>7. \A q \in Procs : /\ proc'[q] \in {From[command], Target, "Error", "dead"}
                        /\ late'[q] \in {"none", Target}
  BY <1>1, <1>4 DEF TakenInv, EffectsInOrder
<1> QED
  BY <1>1, <1>2, <1>3, <1>5, <1>6, <1>7 DEF TakenInv, EffectsInOrder

\* The inductive invariant of what the calls do, in time or late.
THEOREM TakenInvariant == Spec => []TakenInv
<1>1. SystemAssumption
  BY SystemAssumption
<1>2. SystemAssumption /\ Init => TakenInv
  BY InitInv DEF TakenInv, Init, EffectsInOrder, Sent
<1>3. TakenInv /\ CommandInv' /\ [Next]_vars => TakenInv'
  <2> SUFFICES ASSUME TakenInv, CommandInv', [Next]_vars PROVE EffectsInOrder'
    BY DEF TakenInv
  <2>1. ASSUME NEW c \in Commands, Begin(c) PROVE EffectsInOrder'
    BY <2>1 DEF Begin, EffectsInOrder, Sent
  <2>2. CASE Polls \/ Relaunches
    BY <2>2 DEF Polls, Relaunches, EffectsInOrder, Sent
  <2>3. CASE UNCHANGED vars
    BY <2>3 DEF vars, TakenInv, EffectsInOrder, Earlier, Touched, Answered, Target
  <2> QED
    BY <1>1, <2>1, <2>2, <2>3, RunnerEffects, ThreadEffects, ProcessEffects DEF Next
<1> QED
  BY <1>1, <1>2, <1>3, CommandInvariant, PTL DEF Spec

\* No process that runs sends its data to one that does not: not while the
\* transition goes through the subsystems, nor after a call timed out, nor when
\* what it asked for happens afterwards.
THEOREM DataAlwaysTaken == Spec => []DataIsTaken
<1>1. ASSUME TakenInv, SystemAssumption PROVE DataIsTaken
  <2> SUFFICES ASSUME NEW p \in Procs, NEW q \in Procs, proc[p] = "Running", Feeds(p, q),
                      proc[q] # "Running", ~Unwell(p), ~Unwell(q)
               PROVE  FALSE
    BY DEF DataIsTaken
  <2>1. CASE phase \in Sent
    <3>1. IF command \in Winding THEN Earlier(p, q) ELSE Earlier(q, p)
      BY <1>1, <2>1, FeedsEarlier DEF TakenInv, CommandInv, EffectsInOrder
    <3>2. \A r \in Procs : Unwell(r) \/ proc[r] \in {From[command], Target}
      BY <1>1, <2>1 DEF TakenInv, EffectsInOrder, Unwell
    <3>3. ASSUME NEW r \in Procs, Answered(r), ~Unwell(r) PROVE proc[r] = Target
      BY <3>3 DEF Answered, Unwell
    <3>4. ASSUME NEW r \in Procs, NEW t \in Procs, Earlier(r, t), proc[t] = Target, ~Unwell(r)
          PROVE  proc[r] = Target
      BY <1>1, <2>1, <3>3, <3>4 DEF TakenInv, EffectsInOrder, Touched
    <3>5. proc[p] \in {From[command], Target} /\ proc[q] \in {From[command], Target}
      BY <3>2
    <3>6. command \in Commands
      BY <1>1 DEF TakenInv, CommandInv, TypeOK
    <3>7. /\ command \in Winding => Target # "Running"
          /\ command \notin Winding => From[command] # "Running"
      BY <3>6, TableEntries DEF Commands, Winding, Target
    <3> QED
      BY <3>1, <3>4, <3>5, <3>7
  <2>2. CASE phase = "idle"
    BY <1>1, <2>2 DEF TakenInv, CommandInv, AchievedByAll, Unwell
  <2>3. CASE phase = "order"
    <3>1. /\ daq = From[command]
          /\ \A r \in Procs : r \in todo <=> thread[r] = "none"
          /\ todo = Procs
      BY <1>1, <2>3 DEF TakenInv, CommandInv, Progress
    <3>2. Waiting(p) /\ Waiting(q)
      BY <1>1, <2>3, <3>1 DEF TakenInv, CommandInv, Progress
    <3> QED
      BY <3>2 DEF Waiting, Unwell
  <2> QED
    BY <1>1, <2>1, <2>2, <2>3 DEF TakenInv, CommandInv, TypeOK, Sent
<1>2. SystemAssumption
  BY SystemAssumption
<1> QED
  BY <1>1, <1>2, TakenInvariant, PTL

-----------------------------------------------------------------------------
(* do_command implements the one step that RunControl takes for it.           *)

\* The tables of the run control, and those of the commands, say the same.
LEMMA NamesAgree ==
    ASSUME NEW c \in Commands
    PROVE  /\ FleetIn[From[c]] = View!CommandFrom[Requested[c]]
           /\ FleetIn[TargetStates[c]] = View!CommandTo[Requested[c]]
           /\ FleetIn[From[c]] \in View!Up /\ FleetIn[From[c]] # "none"
<1>1. /\ Requested["Init"] = "configuring" /\ Requested["Start"] = "starting"
      /\ Requested["Pause"] = "pausing" /\ Requested["Resume"] = "resuming"
      /\ Requested["Stop"] = "stopping" /\ Requested["Shutdown"] = "shutting"
  BY DEF Requested
<1>2. /\ FleetIn["Booted"] = "booted" /\ FleetIn["Ready"] = "ready"
      /\ FleetIn["Running"] = "running" /\ FleetIn["Paused"] = "paused"
      /\ FleetIn["Stopped"] = "booted"
  BY DEF FleetIn
<1>3. /\ View!CommandFrom["configuring"] = "booted" /\ View!CommandFrom["starting"] = "ready"
      /\ View!CommandFrom["pausing"] = "running" /\ View!CommandFrom["resuming"] = "paused"
      /\ View!CommandFrom["stopping"] = "running" /\ View!CommandFrom["shutting"] = "ready"
  BY DEF View!CommandFrom
<1>4. /\ View!CommandTo["configuring"] = "ready" /\ View!CommandTo["starting"] = "running"
      /\ View!CommandTo["pausing"] = "paused" /\ View!CommandTo["resuming"] = "running"
      /\ View!CommandTo["stopping"] = "ready" /\ View!CommandTo["shutting"] = "booted"
  BY DEF View!CommandTo
<1> QED
  BY <1>1, <1>2, <1>3, <1>4, TableEntries DEF Commands, View!Up

\* With no mishap every call is answered, and do_command never raises.
LEMMA FlawlessStep ==
    ASSUME CommandInv, Flawless, [Next]_vars
    PROVE  Flawless'
<1> SUFFICES ASSUME Mishaps = {} PROVE Flawless'
  BY DEF Flawless
<1>1. /\ ~exception /\ phase \notin {"retry", "raised"}
      /\ \A p \in Procs : /\ proc[p] # "dead"
                          /\ phase = "send" /\ thread[p] = "done" => lastreturned[p] = "Success"
  BY DEF Flawless
<1>2. ASSUME NEW c \in Commands, Begin(c) PROVE Flawless'
  BY <1>1, <1>2 DEF Begin, Flawless, processes, infos
<1>3. ASSUME NEW s \in Subsystems, PlaceSubsystem(s) PROVE Flawless'
  BY <1>1, <1>3 DEF PlaceSubsystem, Flawless, processes, infos
<1>4. CASE OrderDone
  <2>1. \A p \in Procs : thread'[p] = "none"
    BY <1>4 DEF OrderDone, CommandInv, Progress
  <2> QED
    BY <1>1, <1>4, <2>1 DEF OrderDone, Flawless, processes, infos
<1>5. CASE NextBucket
  <2>1. \A p \in Procs : thread'[p] = "done" => thread[p] = "done"
    BY <1>5 DEF NextBucket
  <2> QED
    BY <1>1, <1>5, <2>1 DEF NextBucket, Flawless, processes, infos
<1>6. CASE Achieves
  BY <1>1, <1>6 DEF Achieves, Flawless, processes, infos
<1>7. CASE Raises \/ Doubts \/ GivesUp
  <2>1. Doubts
    BY <1>1, <1>7 DEF Raises, GivesUp
  <2>2. PICK p \in Procs : ~AnsweredWell(p)
    BY <2>1 DEF Doubts
  <2>3. phase = "send" /\ thread[p] = "done"
    BY <2>1 DEF Doubts, AllSent, Joined, CommandInv, Progress
  <2> QED
    BY <1>1, <2>2, <2>3 DEF AnsweredWell
<1>8. CASE Polls
  BY <1>1, <1>8 DEF Polls, Flawless, processes
<1>9. CASE Relaunches
  BY <1>9 DEF Relaunches, Flawless, All
<1>10. ASSUME NEW p \in Procs, ProcessCommand(p) PROVE Flawless'
  <2>1. Enters(p) \/ Succeeds(p)
    BY <1>1, <1>10 DEF ProcessCommand, SaysBusy, FailsToDo, TimesOut, IsRefused
  <2>2. /\ DOMAIN proc = Procs /\ DOMAIN thread = Procs /\ DOMAIN lastreturned = Procs
    BY DEF CommandInv, TypeOK
  <2>3. Target # "dead"
    BY CommandTyped DEF CommandInv, TypeOK, Target, AtRest
  <2>4. CASE Enters(p)
    <3>1. \A q \in Procs : thread'[q] = "done" => thread[q] = "done"
      BY <1>1, <2>2, <2>4 DEF Enters
    <3> QED
      BY <1>1, <2>4, <3>1 DEF Enters, Flawless, processes
  <2>5. CASE Succeeds(p)
    <3>1. \A q \in Procs : /\ proc'[q] # "dead"
                           /\ q # p => thread'[q] = thread[q] /\ lastreturned'[q] = lastreturned[q]
      BY <1>1, <2>2, <2>3, <2>5 DEF Succeeds, Returns
    <3>2. lastreturned'[p] = "Success"
      BY <2>2, <2>5 DEF Succeeds
    <3>3. UNCHANGED <<exception, phase>>
      BY <2>5 DEF Succeeds, Returns
    <3> QED
      BY <1>1, <3>1, <3>2, <3>3 DEF Flawless
  <2> QED
    BY <2>1, <2>4, <2>5
<1>11. ASSUME NEW p \in Procs, FinishesLate(p) \/ Dies(p) PROVE Flawless'
  <2>1. FinishesLate(p)
    BY <1>11 DEF Dies
  <2>2. \A q \in Procs : proc'[q] # "dead"
    BY <1>1, <2>1 DEF FinishesLate, CommandInv, TypeOK, AtRest
  <2> QED
    BY <1>1, <2>1, <2>2 DEF FinishesLate, Flawless, infos
<1>12. CASE UNCHANGED vars
  BY <1>1, <1>12 DEF vars, Flawless
<1> QED
  BY <1>2, <1>3, <1>4, <1>5, <1>6, <1>7, <1>8, <1>9, <1>10, <1>11, <1>12 DEF Next, Runner

\* What the run control sees of a command that is not being sent: it follows
\* where the processes are.
LEMMA FleetAtRest ==
    ASSUME AchievedByAll, phase = "idle"
    PROVE  Fleet = FleetIn[daq] /\ ~Sending
BY DEF AchievedByAll, Fleet, Sending

\* One step of the runner, of a thread or of a process.
LEMMA StepImplementsFleet ==
    ASSUME SystemAssumption, CommandInv, CommandInv', Flawless, [Next]_vars
    PROVE  [FleetStep]_<<Fleet, Thrown, Sending>>
<1> SUFFICES ASSUME ~UNCHANGED <<Fleet, Thrown, Sending>> PROVE FleetStep
  OBVIOUS
<1>1. command \in Commands /\ command' \in Commands
  BY DEF CommandInv, TypeOK
<1>2. (phase = "idle" => AchievedByAll /\ Calm) /\ AchievedByAll
  BY DEF CommandInv
<1>3. ASSUME UNCHANGED <<phase, command, exception, daq>>, phase \in {"order", "send", "retry"}
      PROVE  FALSE
  BY <1>3 DEF Fleet, Thrown, Sending
<1>4. ASSUME NEW c \in Commands, Begin(c) PROVE IsCalled
  <2>1. Fleet = FleetIn[From[c]] /\ ~Sending /\ ~exception
    BY <1>2, <1>4, FleetAtRest DEF Begin, Calm
  <2>2. Sending' /\ Fleet' = FleetIn[From[c]] /\ command' = c
    BY <1>4 DEF Begin, Sending, Fleet
  <2>3. ~Thrown /\ ~Thrown'
    BY <2>1, <2>2 DEF Thrown
  <2>4. Thrown' = Thrown
    BY <2>3 DEF Thrown
  <2>5. View!CommandMay(Requested[command'])
    BY <2>1, <2>2, NamesAgree DEF View!CommandMay
  <2> QED
    BY <2>1, <2>2, <2>4, <2>5 DEF IsCalled
<1>5. CASE \E s \in Subsystems : PlaceSubsystem(s)
  BY <1>3, <1>5 DEF PlaceSubsystem
<1>6. CASE OrderDone
  BY <1>6 DEF OrderDone, Fleet, Thrown, Sending
<1>7. CASE NextBucket
  BY <1>3, <1>7 DEF NextBucket
<1>8. CASE Achieves
  <2>1. Sending /\ Fleet = FleetIn[From[command]] /\ ~Thrown
    BY <1>8 DEF Achieves, AllSent, Sending, Fleet, Thrown
  <2>2. phase' = "idle" /\ daq' = Target /\ ~exception' /\ command' = command
    BY <1>8 DEF Achieves
  <2>3. AchievedByAll'
    BY DEF CommandInv
  <2>4. Fleet' = FleetIn[Target]
    BY <2>2, <2>3 DEF AchievedByAll, Fleet, Sending
  <2>5. Thrown' = Thrown
    BY <2>1, <2>2 DEF Thrown
  <2>6. View!CommandDone(Requested[command])
    BY <1>1, <2>1, <2>4, <2>5, NamesAgree DEF View!CommandDone, View!CommandMay, Target
  <2> QED
    BY <2>1, <2>2, <2>6 DEF Returned, FleetStep
<1>9. CASE Raises \/ Doubts \/ GivesUp
  <2>1. Sending /\ Fleet = FleetIn[From[command]]
    BY <1>9 DEF Raises, Doubts, GivesUp, AllSent, Sending, Fleet
  <2>2. CASE phase' = "raised"
    <3>1. Fleet' = "mixed" /\ Thrown' \in BOOLEAN
      BY <2>2 DEF Fleet, Thrown, Sending, CommandInv, TypeOK
    <3>2. Mishaps # {}
      BY <1>9, FlawlessStep, <2>2 DEF Flawless
    <3>3. "command" \in IF Mishaps = {} THEN {} ELSE {"command"}
      BY <3>2
    <3>4. Fleet \in View!Up /\ Fleet # "listed" /\ Fleet # "none"
      BY <1>1, <2>1, NamesAgree DEF View!Up
    <3>5. View!CommandBreaks(Requested[command])
      BY <3>1, <3>3, <3>4 DEF View!CommandBreaks, View!CommandMust
    <3> QED
      BY <2>1, <2>2, <3>5 DEF Failed, FleetStep
  <2>3. CASE phase' = "retry"
    BY <1>9, <2>3 DEF Raises, Doubts, GivesUp, AllSent, Fleet, Thrown, Sending
  <2> QED
    BY <1>9, <2>2, <2>3 DEF Raises, Doubts, GivesUp
<1>10. CASE Polls
  BY <1>10 DEF Polls, processes, Fleet, Thrown, Sending
<1>11. CASE Relaunches
  <2>1. ~Sending /\ ~Sending' /\ ~Thrown'
    BY <1>11 DEF Relaunches, Sending, Thrown
  <2>2. AchievedByAll' /\ phase' = "idle" /\ daq' = "Booted"
    BY <1>11 DEF Relaunches, CommandInv
  <2>3. Fleet' = FleetIn["Booted"]
    BY <2>2 DEF AchievedByAll, Fleet, Sending
  <2> QED
    BY <2>1, <2>3 DEF FleetIn, Relaunched, FleetStep
<1>12. ASSUME NEW p \in Procs, ProcessCommand(p) PROVE FALSE
  <2>1. thread[p] \in {"begin", "call"}
    BY <1>12 DEF ProcessCommand, Enters, Succeeds, SaysBusy, FailsToDo, TimesOut, IsRefused, Returns
  <2>2. phase = "send"
    BY <2>1 DEF CommandInv, ThreadsOnlyInSend, Joined
  <2>3. UNCHANGED <<phase, command, daq>>
    BY <1>12 DEF ProcessCommand, Enters, Succeeds, SaysBusy, FailsToDo, TimesOut, IsRefused, Returns
  <2> QED
    BY <2>2, <2>3 DEF Fleet, Thrown, Sending
<1>13. ASSUME NEW p \in Procs, FinishesLate(p) \/ Dies(p) PROVE FALSE
  <2>1. UNCHANGED <<phase, command, daq, exception>>
    BY <1>13 DEF FinishesLate, Dies
  <2>2. AchievedByAll /\ AchievedByAll'
    BY DEF CommandInv
  <2> QED
    BY <2>1, <2>2 DEF AchievedByAll, Fleet, Thrown, Sending
<1>14. CASE UNCHANGED vars
  BY <1>14 DEF vars, Fleet, Thrown, Sending
<1> QED
  BY <1>4, <1>5, <1>6, <1>7, <1>8, <1>9, <1>10, <1>11, <1>12, <1>13, <1>14
     DEF Next, Runner, FleetStep

\* A command, with its buckets, its threads and what becomes of their calls, is
\* the one step that the handlers of RunControl take for it.
THEOREM CommandIsOneStep == Spec => ImplementsFleet
<1>1. SystemAssumption
  BY SystemAssumption
<1>2. Init => Flawless
  BY DEF Init, Flawless, All
<1>3. CommandInv /\ Flawless /\ [Next]_vars => Flawless'
  BY FlawlessStep
<1>4. CommandInv /\ CommandInv' /\ Flawless /\ [Next]_vars
         => [FleetStep]_<<Fleet, Thrown, Sending>>
  BY <1>1, StepImplementsFleet
<1> QED
  BY <1>2, <1>3, <1>4, CommandInvariant, PTL DEF Spec, ImplementsFleet

-----------------------------------------------------------------------------
(* Every command comes to its end *)

\* How far do_command has come, which subsystems have no place yet, and which processes
\* are still to be called, or to answer.
PhaseOf  == [order |-> 1, send |-> 2, retry |-> 3, raised |-> 4, idle |-> 4]
Unplaced == {s \in Subsystems : ~Ordered(s)}
Uncalled == {p \in Procs : thread[p] = "begin"}
Awaited  == {p \in Procs : thread[p] \in {"begin", "call"}}

StrictlyIn(S, T) == S \subseteq T /\ S # T

\* The runner comes to a later phase or to fewer subsystems or processes; a thread makes
\* its call or has its answer; and whatever happens to a process meanwhile sets nothing
\* of it back.
CommandGetsOn ==
    phase \in {"order", "send", "retry"} =>
        \/ phase' \in DOMAIN PhaseOf /\ PhaseOf[phase'] > PhaseOf[phase]
        \/ phase = "order" /\ phase' = phase /\ StrictlyIn(Unplaced', Unplaced)
        \/ phase = "send" /\ phase' = phase /\ StrictlyIn(todo', todo)
        \/ /\ phase = "send" /\ UNCHANGED <<phase, todo>>
           /\ \/ StrictlyIn(Awaited', Awaited)
              \/ Awaited' = Awaited /\ StrictlyIn(Uncalled', Uncalled)
        \/ /\ \E p \in Procs : FinishesLate(p) \/ Dies(p)
           /\ UNCHANGED <<phase, rank, todo, thread>>

\* The next bucket is never empty: of the processes still to be called, take those of the
\* subsystem that comes first in the order, or last; of these, those of the type that is
\* first or last; of these, one of the least priority.  Nothing comes before it.
LEMMA SomeoneIsNext ==
    ASSUME SystemAssumption, TypeOK, SourcesLower, NEW S \in SUBSET Procs, S # {}
    PROVE  \E p \in S : \A q \in S : ~Earlier(q, p)
<1> DEFINE place(p) == IF command \in Winding THEN rank[Sub[p]] ELSE count - rank[Sub[p]]
           type(p) == IF command \in Winding THEN Upstream[Type[p]] ELSE 5 - Upstream[Type[p]]
<1>1. ASSUME NEW p \in S
      PROVE  /\ Sub[p] \in Subsystems /\ Type[p] \in DOMAIN Upstream
             /\ rank[Sub[p]] \in Nat /\ rank[Sub[p]] <= count /\ count \in Nat
             /\ priority[p] \in Nat
  BY DEF SystemAssumption, TypeOK, SourcesLower
<1>2. ASSUME NEW t \in DOMAIN Upstream PROVE Upstream[t] \in 1..5
  BY DEF Upstream
<1>3. ASSUME NEW p \in S PROVE place(p) \in Nat /\ type(p) \in Nat /\ priority[p] \in Nat
  <2>1. Upstream[Type[p]] \in 1..5
    BY <1>1, <1>2
  <2> QED
    BY <1>1, <2>1
<1>4. ASSUME NEW p \in S, NEW q \in S, Earlier(q, p)
      PROVE  \/ place(q) < place(p)
             \/ place(q) = place(p) /\ type(q) < type(p)
             \/ place(q) = place(p) /\ type(q) = type(p) /\ priority[q] < priority[p]
  <2>1. CASE IF command \in Winding THEN rank[Sub[q]] < rank[Sub[p]]
                                   ELSE rank[Sub[q]] > rank[Sub[p]]
    BY <1>1, <2>1
  <2>2. CASE /\ Sub[q] = Sub[p] /\ Type[q] # Type[p]
             /\ (command \in Winding) <=> (Upstream[Type[q]] < Upstream[Type[p]])
    <3>1. Upstream[Type[q]] # Upstream[Type[p]]
      BY <1>1, <2>2 DEF Upstream
    <3>2. Upstream[Type[q]] \in 1..5 /\ Upstream[Type[p]] \in 1..5
      BY <1>1, <1>2
    <3>3. type(q) < type(p)
      BY <2>2, <3>1, <3>2
    <3>4. place(q) = place(p)
      BY <2>2
    <3> QED
      BY <3>3, <3>4
  <2>3. CASE Sub[q] = Sub[p] /\ Type[q] = Type[p] /\ priority[q] < priority[p]
    BY <2>3
  <2> QED
    BY <1>4, <2>1, <2>2, <2>3 DEF Earlier
<1> HIDE DEF place, type
<1>5. PICK a \in S : \A q \in S : place(a) <= place(q)
  <2> DEFINE N == {place(p) : p \in S}
  <2>1. N \subseteq Nat /\ N # {}
    BY <1>3
  <2>2. PICK m \in N : \A n \in N : m <= n
    BY <2>1, LeastNat
  <2>3. PICK r \in S : m = place(r)
    OBVIOUS
  <2>4. ASSUME NEW q \in S PROVE place(r) <= place(q)
    BY <2>2, <2>3
  <2> QED
    BY <2>4
<1> DEFINE A == {p \in S : place(p) = place(a)}
<1>6. PICK b \in A : \A q \in A : type(b) <= type(q)
  <2> DEFINE N == {type(p) : p \in A}
  <2>1. N \subseteq Nat /\ N # {}
    BY <1>3, <1>5
  <2>2. PICK m \in N : \A n \in N : m <= n
    BY <2>1, LeastNat
  <2>3. PICK r \in A : m = type(r)
    OBVIOUS
  <2>4. ASSUME NEW q \in A PROVE type(r) <= type(q)
    BY <2>2, <2>3
  <2> QED
    BY <2>4
<1> DEFINE B == {p \in A : type(p) = type(b)}
<1>7. PICK c \in B : \A q \in B : priority[c] <= priority[q]
  <2> DEFINE N == {priority[p] : p \in B}
  <2>1. N \subseteq Nat /\ N # {}
    BY <1>3, <1>6
  <2>2. PICK m \in N : \A n \in N : m <= n
    BY <2>1, LeastNat
  <2>3. PICK r \in B : m = priority[r]
    OBVIOUS
  <2>4. ASSUME NEW q \in B PROVE priority[r] <= priority[q]
    BY <2>2, <2>3
  <2> QED
    BY <2>4
<1>8. c \in S /\ place(c) = place(a) /\ type(c) = type(b)
  BY <1>7
<1>9. ASSUME NEW q \in S, Earlier(q, c) PROVE FALSE
  <2>1. place(q) \in Nat /\ type(q) \in Nat /\ priority[q] \in Nat
        /\ place(c) \in Nat /\ type(c) \in Nat /\ priority[c] \in Nat
    BY <1>3, <1>8
  <2>2. place(c) <= place(q)
    BY <1>5, <1>8
  <2>3. place(q) = place(c) => q \in A /\ type(c) <= type(q)
    BY <1>6, <1>8
  <2>4. place(q) = place(c) /\ type(q) = type(c) => priority[c] <= priority[q]
    BY <1>7, <1>8, <2>3
  <2>5. \/ place(q) < place(c)
        \/ place(q) = place(c) /\ type(q) < type(c)
        \/ place(q) = place(c) /\ type(q) = type(c) /\ priority[q] < priority[c]
    BY <1>4, <1>8, <1>9
  <2> QED
    BY <2>1, <2>2, <2>3, <2>4, <2>5
<1> QED
  BY <1>8, <1>9

\* The runner, in do_command.
LEMMA RunnerGetsOn ==
    ASSUME SystemAssumption, CommandInv, Runner
    PROVE  CommandGetsOn
<1>1. CASE \E s \in Subsystems : PlaceSubsystem(s)
  <2>1. PICK s \in Subsystems : PlaceSubsystem(s)
    BY <1>1
  <2>2. /\ phase = "order" /\ phase' = phase /\ ~Ordered(s) /\ count \in Nat
        /\ rank \in [Subsystems -> Nat] /\ rank' = [rank EXCEPT ![s] = count + 1]
    BY <2>1 DEF PlaceSubsystem, CommandInv, TypeOK
  <2>3. Unplaced' = Unplaced \ {s}
    BY <2>2 DEF Unplaced, Ordered
  <2>4. s \in Unplaced
    BY <2>2 DEF Unplaced
  <2> QED
    BY <2>2, <2>3, <2>4 DEF CommandGetsOn, StrictlyIn
<1>2. CASE NextBucket
  <2> DEFINE bucket == {p \in todo : \A q \in todo : ~Earlier(q, p)}
  <2>1. phase = "send" /\ phase' = phase /\ todo # {} /\ todo' = todo \ bucket
    BY <1>2 DEF NextBucket
  <2>2. \E p \in todo : \A q \in todo : ~Earlier(q, p)
    BY <2>1, SomeoneIsNext DEF CommandInv, TypeOK
  <2>3. StrictlyIn(todo', todo)
    BY <2>1, <2>2 DEF StrictlyIn
  <2> QED
    BY <2>1, <2>3 DEF CommandGetsOn
<1>3. CASE OrderDone \/ Achieves \/ Raises \/ Doubts \/ GivesUp
  <2>1. \/ phase = "order" /\ phase' = "send"
        \/ phase = "send" /\ phase' \in {"idle", "raised", "retry"}
        \/ phase = "retry" /\ phase' = "raised"
    BY <1>3 DEF OrderDone, Achieves, Raises, Doubts, GivesUp, AllSent
  <2> QED
    BY <2>1 DEF CommandGetsOn, PhaseOf
<1> QED
  BY <1>1, <1>2, <1>3 DEF Runner

\* A thread of process_command.
LEMMA CallGetsOn ==
    ASSUME CommandInv, NEW p \in Procs, ProcessCommand(p)
    PROVE  CommandGetsOn
<1>1. /\ thread \in [Procs -> {"none", "begin", "call", "done"}]
      /\ phase # "send" => thread[p] \in {"none", "done"}
  BY DEF CommandInv, TypeOK, ThreadsOnlyInSend, Joined
<1>2. /\ UNCHANGED <<phase, todo>>
      /\ \/ thread[p] = "begin" /\ thread' = [thread EXCEPT ![p] = "call"]
         \/ thread[p] \in {"begin", "call"} /\ thread' = [thread EXCEPT ![p] = "done"]
  BY DEF ProcessCommand, Enters, Succeeds, SaysBusy, FailsToDo, TimesOut, IsRefused, Returns
<1>3. phase = "send"
  BY <1>1, <1>2
<1>4. CASE thread[p] = "begin" /\ thread' = [thread EXCEPT ![p] = "call"]
  <2>1. Awaited' = Awaited /\ Uncalled' = Uncalled \ {p} /\ p \in Uncalled
    BY <1>1, <1>4 DEF Awaited, Uncalled
  <2> QED
    BY <1>2, <1>3, <2>1 DEF CommandGetsOn, StrictlyIn
<1>5. CASE thread[p] \in {"begin", "call"} /\ thread' = [thread EXCEPT ![p] = "done"]
  <2>1. Awaited' = Awaited \ {p} /\ p \in Awaited
    BY <1>1, <1>5 DEF Awaited
  <2> QED
    BY <1>2, <1>3, <2>1 DEF CommandGetsOn, StrictlyIn
<1> QED
  BY <1>2, <1>4, <1>5

\* A command that do_command has begun to send is over, for every tree of subsystems and
\* all types and priorities, after boundedly many of its steps, as there are subsystems to
\* place and processes to call: no turn of the loops over the buckets is for nobody, whatever
\* the processes do meanwhile.
THEOREM EveryCallIsMade == Spec => [][CommandGetsOn]_vars
<1>1. ASSUME CommandInv, Next PROVE CommandGetsOn
  <2>1. SystemAssumption
    BY SystemAssumption
  <2>2. CASE (\E c \in Commands : Begin(c)) \/ Polls \/ Relaunches
    BY <2>2 DEF Begin, Polls, Relaunches, CommandGetsOn
  <2>3. ASSUME NEW p \in Procs, FinishesLate(p) \/ Dies(p) PROVE CommandGetsOn
    <3>1. UNCHANGED <<phase, rank, todo, thread>>
      BY <2>3 DEF FinishesLate, Dies, order
    <3> QED
      BY <2>3, <3>1 DEF CommandGetsOn
  <2> QED
    BY <1>1, <2>1, <2>2, <2>3, RunnerGetsOn, CallGetsOn DEF Next
<1>2. CommandInv /\ [Next]_vars => [CommandGetsOn]_vars
  BY <1>1
<1> QED
  BY <1>2, CommandInvariant, PTL DEF Spec

=============================================================================
