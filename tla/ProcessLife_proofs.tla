------------------------- MODULE ProcessLife_proofs -------------------------
(***************************************************************************)
(* Theorems about ProcessLife, for every set of hosts, processes and       *)
(* systems, every requirements file and every set of faults; two of them   *)
(* assume that no launch fails.                                            *)
(***************************************************************************)
EXTENDS ProcessLife, FiniteSetTheorems, TLAPS

-----------------------------------------------------------------------------
(* Counting the processes that a line of the requirements matches *)

\* The processes of a system that a line matches are finitely many.
LEMMA CountTyped ==
    ASSUME LifeAssumption, NEW r \in Rules, NEW S \in SUBSET Procs
    PROVE  IsFiniteSet(Matches[r] \cap S) /\ Cardinality(Matches[r] \cap S) \in Nat
<1>1. IsFiniteSet(Procs) /\ Matches[r] \cap S \in SUBSET Procs
  BY DEF LifeAssumption
<1>2. IsFiniteSet(Matches[r] \cap S)
  BY <1>1, FS_Subset
<1> QED
  BY <1>2, FS_CardinalityType

\* What the loss of one process does to the number of those a line matches.
LEMMA CountLoses ==
    ASSUME LifeAssumption, NEW r \in Rules, NEW S \in SUBSET Procs, NEW p \in S
    PROVE  /\ p \in Matches[r] =>
                /\ Cardinality(Matches[r] \cap (S \ {p})) = Cardinality(Matches[r] \cap S) - 1
                /\ Cardinality(Matches[r] \cap S) >= 1
           /\ p \notin Matches[r] =>
                Cardinality(Matches[r] \cap (S \ {p})) = Cardinality(Matches[r] \cap S)
<1>1. IsFiniteSet(Matches[r] \cap S) /\ Cardinality(Matches[r] \cap S) \in Nat
  BY CountTyped
<1>2. CASE p \in Matches[r]
  <2>1. Matches[r] \cap (S \ {p}) = (Matches[r] \cap S) \ {p}
    OBVIOUS
  <2>2. Cardinality((Matches[r] \cap S) \ {p}) = Cardinality(Matches[r] \cap S) - 1
    BY <1>1, <1>2, FS_RemoveElement
  <2>3. Cardinality((Matches[r] \cap S) \ {p}) \in Nat
    BY <1>1, FS_RemoveElement, FS_CardinalityType
  <2>4. \A m, n \in Nat : m = n - 1 => n >= 1
    OBVIOUS
  <2>5. Cardinality(Matches[r] \cap S) >= 1
    BY <1>1, <2>2, <2>3, <2>4
  <2> QED
    BY <1>2, <2>1, <2>2, <2>5
<1>3. CASE p \notin Matches[r]
  <2>1. Matches[r] \cap (S \ {p}) = Matches[r] \cap S
    BY <1>3
  <2> QED
    BY <1>3, <2>1
<1> QED
  BY <1>2, <1>3

\* The strictest of a line's two requirements is a number.
LEMMA StrictestTyped ==
    ASSUME LifeAssumption, NEW r \in Rules, NEW S \in SUBSET Procs
    PROVE  Strictest(r, S) \in Nat
<1> DEFINE n == Cardinality(Matches[r] \cap S)
<1>1. n \in Nat /\ Percent[r] \in Nat /\ AtLeast[r] \in Nat
  BY CountTyped DEF LifeAssumption
<1> HIDE DEF n
<1>2. n * Percent[r] \in Nat
  BY <1>1
<1>3. \A k \in Nat : (k + 99) \div 100 \in Nat
  OBVIOUS
<1>4. RequiredByFraction(r, S) \in Nat
  BY <1>2, <1>3 DEF RequiredByFraction, n
<1> QED
  BY <1>1, <1>4 DEF Strictest

-----------------------------------------------------------------------------
(* The loss of one process *)

\* The counts and the judgement when a process leaves the list: unless the
\* run ends, the counts are those of the shorter list, no requirement is
\* violated, and the loss was one the requirements allow.
LEMMA LoseKeeps ==
    ASSUME LifeAssumption, LifeInv, Counted,
           NEW p \in listed, Lose(p), booted' = booted
    PROVE  /\ current' \in [Rules -> Nat]
           /\ ~EndsTheRun(p) =>
                /\ \A r \in Rules : /\ current'[r] = Cardinality(Matches[r] \cap listed')
                                    /\ required'[r] <= current'[r]
                /\ \A q \in booted' \ listed' : Ruled(q) = {} =>
                      /\ Kind[q] # "BoardReader" /\ q \notin DiskWriters
                      /\ Kind[q] = "EventBuilder" =>
                            \E s \in booted' : Kind[s] = "RoutingManager"
<1>0. /\ listed \in SUBSET Procs /\ p \in Procs /\ listed \subseteq booted
      /\ current \in [Rules -> Nat] /\ required \in [Rules -> Nat]
      /\ \A r \in Rules : current[r] = Cardinality(Matches[r] \cap listed)
      /\ \A r \in Rules : required[r] <= current[r]
  BY DEF LifeInv, TypeOK, LifeShape, CountsKept
<1>7. \A r \in Rules :
        /\ p \in Matches[r] =>
              /\ Cardinality(Matches[r] \cap (listed \ {p})) = Cardinality(Matches[r] \cap listed) - 1
              /\ Cardinality(Matches[r] \cap listed) >= 1
        /\ p \notin Matches[r] =>
              Cardinality(Matches[r] \cap (listed \ {p})) = Cardinality(Matches[r] \cap listed)
  <2> SUFFICES ASSUME NEW r \in Rules
               PROVE  /\ p \in Matches[r] =>
                            /\ Cardinality(Matches[r] \cap (listed \ {p}))
                                  = Cardinality(Matches[r] \cap listed) - 1
                            /\ Cardinality(Matches[r] \cap listed) >= 1
                      /\ p \notin Matches[r] =>
                            Cardinality(Matches[r] \cap (listed \ {p}))
                                = Cardinality(Matches[r] \cap listed)
    OBVIOUS
  <2> QED
    BY <1>0, CountLoses
<1>1. \A r \in Rules : p \in Matches[r] => current[r] >= 1
  BY <1>0, <1>7
<1>2. \A r \in Rules : r \in Decremented(p) => p \in Matches[r]
  BY DEF Decremented, Ruled
<1>3. \A r \in Rules : (IF r \in Decremented(p) THEN current[r] - 1 ELSE current[r]) \in Nat
  BY <1>0, <1>1, <1>2
<1>4. current' \in [Rules -> Nat]
  BY <1>3 DEF Lose
<1>5. ASSUME ~EndsTheRun(p)
      PROVE  \A r \in Rules : /\ current'[r] = Cardinality(Matches[r] \cap listed')
                              /\ required'[r] <= current'[r]
  <2>1. \A r \in Rules : p \in Matches[r] => ~Violated(p, r)
    BY <1>5 DEF EndsTheRun, Ruled
  <2>2. \A r \in Rules : r \in Decremented(p) <=> p \in Matches[r]
    BY <2>1 DEF Decremented, Ruled
  <2> SUFFICES ASSUME NEW r \in Rules
               PROVE  /\ current'[r] = Cardinality(Matches[r] \cap listed')
                      /\ required'[r] <= current'[r]
    OBVIOUS
  <2>3. listed' = listed \ {p} /\ required' = required
    BY DEF Lose
  <2>4. CASE p \in Matches[r]
    <3>1. current'[r] = current[r] - 1
      BY <2>2, <2>4 DEF Lose
    <3>2. ~(current[r] - 1 < required[r])
      BY <2>1, <2>4 DEF Violated
    <3>3. current'[r] = Cardinality(Matches[r] \cap listed')
      BY <1>0, <1>7, <2>3, <2>4, <3>1
    <3>4. required[r] \in Nat /\ current[r] \in Nat
      BY <1>0
    <3>5. required'[r] <= current'[r]
      BY <2>3, <3>1, <3>2, <3>4
    <3> QED
      BY <3>3, <3>5
  <2>5. CASE p \notin Matches[r]
    <3>1. current'[r] = current[r]
      BY <2>2, <2>5 DEF Lose
    <3> QED
      BY <1>0, <1>7, <2>3, <2>5, <3>1
  <2> QED
    BY <2>4, <2>5
<1>6. ASSUME ~EndsTheRun(p), NEW q \in booted' \ listed', Ruled(q) = {}
      PROVE  /\ Kind[q] # "BoardReader" /\ q \notin DiskWriters
             /\ Kind[q] = "EventBuilder" => \E s \in booted' : Kind[s] = "RoutingManager"
  <2>1. CASE q = p
    <3>1. ~Vital(p, listed \ {p})
      BY <1>6, <2>1 DEF EndsTheRun
    <3> QED
      BY <1>0, <2>1, <3>1 DEF Vital
  <2>2. CASE q # p
    <3>1. q \in booted \ listed
      BY <1>6, <2>2 DEF Lose
    <3> QED
      BY <1>6, <3>1 DEF LifeInv, LossesAllowed
  <2> QED
    BY <2>1, <2>2
<1> QED
  BY <1>4, <1>5, <1>6

\* What leaves the list and the counts alone keeps what is said of them.
LEMMA CountsCarry ==
    ASSUME CountsKept, LossesAllowed, listed' = listed, booted' = booted, counts' = counts,
           Counted' => Counted
    PROVE  CountsKept' /\ LossesAllowed'
<1>1. required' = required /\ current' = current
  BY DEF counts
<1> QED
  BY <1>1 DEF CountsKept, LossesAllowed, Ruled

-----------------------------------------------------------------------------
(* The inductive invariant LifeInv *)

\* The steps of the server thread, the launch threads and the processes touch
\* neither the list nor the counts.
LEMMA OthersStep ==
    ASSUME LifeAssumption, LifeInv,
           \/ Request
           \/ \E h \in Hosts : LaunchThread(h)
           \/ \E p \in Procs : Dies(p) \/ Errs(p)
    PROVE  LifeInv'
<1> USE DEF LifeInv
<1>1. CASE Request
  <2>1. TypeOK'
    BY <1>1 DEF Request, TypeOK, counts, launches, loop
  <2>2. LifeShape'
    BY <1>1 DEF Request, LifeShape, Active, TypeOK, BootPoints, MonitorPoints, loop
  <2>3. CountsKept' /\ LossesAllowed'
    <3>1. Counted' => Counted
      BY <1>1 DEF Request, LifeShape, Counted, Active, TypeOK, BootPoints, MonitorPoints
    <3> QED
      BY <1>1, <3>1, CountsCarry DEF Request
  <2> QED
    BY <2>1, <2>2, <2>3
<1>2. ASSUME NEW h \in Hosts, LaunchThread(h)
      PROVE  LifeInv'
  <2>1. RunnerAsIs
    BY <1>2 DEF LaunchThread, LaunchCheck, LaunchRuns, StaleRuns
  <2>2. alive' \in [Procs -> {"up", "error", "down"}]
    BY <1>2 DEF LaunchThread, LaunchCheck, LaunchRuns, StaleRuns, AliveWithout, Started,
                TypeOK
  <2>3. thread' \in [Hosts -> {"none", "check", "launch", "done", "raised"}]
        /\ stale' \subseteq Procs
    BY <1>2 DEF LaunchThread, LaunchCheck, LaunchRuns, StaleRuns, TypeOK
  <2>4. TypeOK'
    BY <2>1, <2>2, <2>3 DEF RunnerAsIs, TypeOK, counts, loop
  <2>5. LifeShape'
    BY <2>1 DEF RunnerAsIs, LifeShape, Active, loop
  <2>6. CountsKept' /\ LossesAllowed'
    <3>1. Counted' => Counted
      BY <2>1 DEF RunnerAsIs, Counted, Active
    <3> QED
      BY <2>1, <3>1, CountsCarry DEF RunnerAsIs
  <2> QED
    BY <2>4, <2>5, <2>6
<1>3. ASSUME NEW p \in Procs, Dies(p) \/ Errs(p)
      PROVE  LifeInv'
  <2>1. EnvironmentOnly
    BY <1>3 DEF Dies, Errs
  <2>2. alive' \in [Procs -> {"up", "error", "down"}]
    BY <1>3 DEF Dies, Errs, AliveWithout, TypeOK
  <2>3. TypeOK'
    BY <2>1, <2>2 DEF EnvironmentOnly, TypeOK, counts, launches, loop
  <2>4. LifeShape'
    BY <2>1 DEF EnvironmentOnly, LifeShape, Active, loop
  <2>5. CountsKept' /\ LossesAllowed'
    <3>1. Counted' => Counted
      BY <2>1 DEF EnvironmentOnly, Counted, Active
    <3> QED
      BY <2>1, <3>1, CountsCarry DEF EnvironmentOnly
  <2> QED
    BY <2>3, <2>4, <2>5
<1> QED
  BY <1>1, <1>2, <1>3

\* do_boot counts what it lists, and goes on only if no requirement is violated.
LEMMA BootCounts ==
    ASSUME LifeAssumption, LifeInv, NEW S \in Systems, Boot(S)
    PROVE  LifeInv'
<1> USE DEF LifeInv
<1>1. S \in SUBSET Procs /\ listed' = S /\ booted' = S
  BY DEF Boot, LifeAssumption
<1>2. \A r \in Rules : Strictest(r, S) \in Nat /\ Cardinality(Matches[r] \cap S) \in Nat
  <2> SUFFICES ASSUME NEW r \in Rules
               PROVE  Strictest(r, S) \in Nat /\ Cardinality(Matches[r] \cap S) \in Nat
    OBVIOUS
  <2> QED
    BY <1>1, StrictestTyped, CountTyped
<1>3. required' \in [Rules -> Nat] /\ current' \in [Rules -> Nat]
  BY <1>2 DEF Boot
<1>4. state = "booting"
  BY DEF Boot, LifeShape
<1>5. TypeOK'
  <2>1. /\ state' = state /\ alive' = alive /\ flag' = "none" /\ refused' = {}
        /\ asked' = asked /\ lost' = lost
        /\ called' \in BOOLEAN /\ pc' \in {"recover", "join"}
    BY DEF Boot, loop
  <2>2. thread' \in [Hosts -> {"none", "check", "launch", "done", "raised"}]
    BY DEF Boot
  <2>3. stale' \subseteq Procs
    BY DEF Boot, Abandoned, TypeOK
  <2> QED
    BY <1>1, <1>3, <2>1, <2>2, <2>3 DEF TypeOK
<1>6. LifeShape'
  BY <1>1, <1>4 DEF Boot, LifeShape, Active, BootPoints, MonitorPoints
<1>7. CountsKept'
  <2>1. CASE pc' = "recover"
    BY <2>1 DEF CountsKept, Counted, BootPoints, MonitorPoints
  <2>2. CASE pc' = "join"
    <3>1. \A r \in Rules : ~(current'[r] < required'[r])
      BY <2>2 DEF Boot
    <3>2. \A r \in Rules : current'[r] = Cardinality(Matches[r] \cap listed')
      BY <1>1 DEF Boot
    <3>3. \A r \in Rules : required'[r] <= current'[r]
      BY <1>3, <3>1
    <3> QED
      BY <3>2, <3>3 DEF CountsKept
  <2> QED
    BY <2>1, <2>2 DEF Boot
<1>8. LossesAllowed'
  BY <1>1 DEF LossesAllowed
<1> QED
  BY <1>5, <1>6, <1>7, <1>8

\* The steps of the runner that move it on and take nothing off the list.
LEMMA MovesOn ==
    ASSUME LifeAssumption, LifeInv,
           \/ JoinRaises \/ JoinsAll \/ FoundAll \/ GivesUpWaiting
           \/ \E p \in Procs : Contact(p) \/ AnswersWell(p) \/ QueryTimesOut(p) \/ QueryBreaks(p)
           \/ MonitorBegins \/ NobodyLeftToAsk \/ AllBeat \/ SomeMissed \/ Judge
    PROVE  LifeInv'
<1> USE DEF LifeInv
<1>1. /\ pc' \in {"idle", "wait", "contact", "query", "heartbeat", "judge", "remove", "recover"}
      /\ UNCHANGED <<state, flag, alive, listed, booted, called, counts, refused, launches>>
  BY DEF JoinRaises, JoinsAll, FoundAll, GivesUpWaiting, Contact, AnswersWell, QueryTimesOut,
         QueryBreaks, MonitorBegins, NobodyLeftToAsk, AllBeat, SomeMissed, Judge, Goto
<1>2. asked' \subseteq Procs /\ lost' \subseteq Procs
  BY DEF JoinRaises, JoinsAll, FoundAll, GivesUpWaiting, Contact, AnswersWell, QueryTimesOut,
         QueryBreaks, MonitorBegins, NobodyLeftToAsk, AllBeat, SomeMissed, Judge, LoopOver,
         loop, TypeOK, Dead
<1>3. TypeOK'
  BY <1>1, <1>2 DEF TypeOK, counts, launches
<1>4. pc # "idle" \/ (Active /\ flag = "none")
  BY DEF JoinRaises, JoinsAll, FoundAll, GivesUpWaiting, Contact, AnswersWell, QueryTimesOut,
         QueryBreaks, MonitorBegins, NobodyLeftToAsk, AllBeat, SomeMissed, Judge, Asks, Active
<1>5. /\ pc' \in BootPoints => pc \in BootPoints
      /\ pc' \in MonitorPoints => pc \in MonitorPoints \/ (pc = "idle" /\ Active)
      /\ pc' = "idle" => pc \in MonitorPoints
      /\ pc' = "recover" => pc \in BootPoints \cup MonitorPoints
      /\ pc \in BootPoints \cup MonitorPoints \cup {"idle"}
  BY DEF JoinRaises, JoinsAll, FoundAll, GivesUpWaiting, Contact, AnswersWell, QueryTimesOut,
         QueryBreaks, MonitorBegins, NobodyLeftToAsk, AllBeat, SomeMissed, Judge, Asks, Active,
         Goto, BootPoints, MonitorPoints
<1>6. pc' \in {"judge", "remove"} => lost' \subseteq listed'
  BY DEF JoinRaises, JoinsAll, FoundAll, GivesUpWaiting, Contact, AnswersWell, QueryTimesOut,
         QueryBreaks, MonitorBegins, NobodyLeftToAsk, AllBeat, SomeMissed, Judge, Goto, loop,
         LoopOver, Dead, LifeShape
<1>7. LifeShape'
  BY <1>1, <1>4, <1>5, <1>6 DEF LifeShape, Active, BootPoints, MonitorPoints
<1>8. Counted' => Counted
  BY <1>1, <1>5 DEF Counted, Active
<1>9. CountsKept' /\ LossesAllowed'
  BY <1>1, <1>8, CountsCarry
<1> QED
  BY <1>3, <1>7, <1>9

\* The steps of the runner that write the state, or clear the flag, and take
\* nothing off the list.
LEMMA HandlersStep ==
    ASSUME LifeAssumption, LifeInv,
           \/ BootDone \/ CommandSucceeds \/ CommandFails \/ TerminateFails \/ RecoverSkips
           \/ \E p \in Procs : Refuses(p)
    PROVE  LifeInv'
<1> USE DEF LifeInv
<1>1. CASE BootDone
  <2>1. TypeOK' /\ LifeShape'
    BY <1>1 DEF BootDone, LoopOver, TypeOK, LifeShape, Active, BootPoints, MonitorPoints,
                counts, launches
  <2>2. CountsKept' /\ LossesAllowed'
    BY <1>1, CountsCarry DEF BootDone, Counted, BootPoints
  <2> QED
    BY <2>1, <2>2
<1>2. CASE CommandSucceeds
  <2>1. TypeOK' /\ LifeShape'
    BY <1>2 DEF CommandSucceeds, TypeOK, LifeShape, Active, BootPoints, MonitorPoints,
                counts, launches, loop
  <2>2. CountsKept' /\ LossesAllowed'
    BY <1>2, CountsCarry DEF CommandSucceeds, Counted, Active, LifeShape
  <2> QED
    BY <2>1, <2>2
<1>3. CASE CommandFails \/ TerminateFails
  <2>1. TypeOK' /\ LifeShape'
    BY <1>3 DEF CommandFails, TerminateFails, TypeOK, LifeShape, Active, BootPoints,
                MonitorPoints, counts, launches, loop
  <2>2. CountsKept' /\ LossesAllowed'
    BY <1>3 DEF CommandFails, TerminateFails, CountsKept, LossesAllowed, Counted, BootPoints,
                MonitorPoints
  <2> QED
    BY <2>1, <2>2
<1>4. CASE RecoverSkips
  <2>1. TypeOK' /\ LifeShape'
    BY <1>4 DEF RecoverSkips, TypeOK, LifeShape, Active, BootPoints, MonitorPoints, counts,
                launches, loop
  <2>2. CountsKept' /\ LossesAllowed'
    BY <1>4 DEF RecoverSkips, CountsKept, LossesAllowed, Counted, Active, BootPoints,
                MonitorPoints
  <2> QED
    BY <2>1, <2>2
<1>5. ASSUME NEW p \in Procs, Refuses(p)
      PROVE  LifeInv'
  <2>1. TypeOK' /\ LifeShape'
    BY <1>5 DEF Refuses, Asks, LoopOver, TypeOK, LifeShape, Active, BootPoints, MonitorPoints,
                counts, launches
  <2>2. CountsKept' /\ LossesAllowed'
    BY <1>5, CountsCarry DEF Refuses, Asks, Counted, MonitorPoints
  <2> QED
    BY <2>1, <2>2
<1> QED
  BY <1>1, <1>2, <1>3, <1>4, <1>5

\* The steps that take processes off the list.
LEMMA ListStep ==
    ASSUME LifeAssumption, LifeInv,
           \/ Terminates \/ Recovers
           \/ \E p \in Procs : AnswersError(p) \/ Remove(p)
    PROVE  LifeInv'
<1> USE DEF LifeInv
<1>1. CASE Terminates \/ Recovers
  <2>1. alive' \in [Procs -> {"up", "error", "down"}] /\ listed' = {}
    BY <1>1 DEF Terminates, Recovers, KillProcs, AliveWithout, TypeOK
  <2>2. TypeOK'
    BY <1>1, <2>1 DEF Terminates, Recovers, TypeOK, counts, launches, loop
  <2>3. LifeShape'
    BY <1>1, <2>1 DEF Terminates, Recovers, LifeShape, Active, BootPoints, MonitorPoints
  <2>4. CountsKept' /\ LossesAllowed'
    BY <1>1 DEF Terminates, Recovers, CountsKept, LossesAllowed, Counted, Active, BootPoints,
                MonitorPoints
  <2> QED
    BY <2>2, <2>3, <2>4
<1>2. ASSUME NEW p \in Procs, AnswersError(p)
      PROVE  LifeInv'
  <2>1. p \in listed /\ Counted /\ booted' = booted
    BY <1>2 DEF AnswersError, Asks, First, Counted, MonitorPoints
  <2>2. Lose(p)
    BY <1>2 DEF AnswersError
  <2>3. alive' \in [Procs -> {"up", "error", "down"}]
    BY <1>2 DEF AnswersError, AliveWithout, TypeOK
  <2>4. current' \in [Rules -> Nat]
    BY <2>1, <2>2, LoseKeeps
  <2>5. TypeOK'
    BY <1>2, <2>3, <2>4 DEF AnswersError, Lose, LoopOver, TypeOK, launches
  <2>6. LifeShape'
    BY <1>2, <2>2 DEF AnswersError, Asks, Lose, LoopOver, LifeShape, Active, BootPoints,
                      MonitorPoints
  <2>7. CountsKept' /\ LossesAllowed'
    <3>1. CASE EndsTheRun(p)
      BY <1>2, <3>1 DEF AnswersError, CountsKept, LossesAllowed, Counted, BootPoints,
                        MonitorPoints
    <3>2. CASE ~EndsTheRun(p)
      BY <2>1, <2>2, <3>2, LoseKeeps DEF CountsKept, LossesAllowed, Ruled
    <3> QED
      BY <3>1, <3>2
  <2> QED
    BY <2>5, <2>6, <2>7
<1>3. ASSUME NEW p \in Procs, Remove(p)
      PROVE  LifeInv'
  <2>1. p \in listed /\ Counted /\ booted' = booted
    BY <1>3 DEF Remove, LifeShape, Counted, MonitorPoints
  <2>2. Lose(p)
    BY <1>3 DEF Remove
  <2>3. lost' \subseteq Procs
    BY <1>3 DEF Remove, TypeOK
  <2>4. current' \in [Rules -> Nat]
    BY <2>1, <2>2, LoseKeeps
  <2>5. TypeOK'
    BY <1>3, <2>3, <2>4 DEF Remove, Lose, TypeOK, launches
  <2>6. LifeShape'
    BY <1>3, <2>2 DEF Remove, Lose, LifeShape, Active, BootPoints, MonitorPoints
  <2>7. CountsKept' /\ LossesAllowed'
    <3>1. CASE EndsTheRun(p)
      BY <1>3, <3>1 DEF Remove, CountsKept, LossesAllowed, Counted, BootPoints, MonitorPoints
    <3>2. CASE ~EndsTheRun(p)
      BY <2>1, <2>2, <3>2, LoseKeeps DEF CountsKept, LossesAllowed, Ruled
    <3> QED
      BY <3>1, <3>2
  <2> QED
    BY <2>5, <2>6, <2>7
<1> QED
  BY <1>1, <1>2, <1>3

\* No process, no list, nothing to count.
LEMMA LifeInit == ASSUME LifeAssumption, Init PROVE LifeInv
<1>1. TypeOK
  BY DEF Init, TypeOK
<1>2. LifeShape /\ CountsKept /\ LossesAllowed
  BY DEF Init, LifeShape, CountsKept, LossesAllowed, Counted, Active, BootPoints, MonitorPoints
<1> QED
  BY <1>1, <1>2 DEF LifeInv

\* Every step keeps the invariant.
LEMMA LifeStep == ASSUME LifeAssumption, LifeInv, [Next]_vars PROVE LifeInv'
<1>1. CASE Next
  <2>1. CASE Request \/ (\E h \in Hosts : LaunchThread(h)) \/ (\E p \in Procs : Dies(p) \/ Errs(p))
    BY <2>1, OthersStep
  <2>2. CASE BootStep
    <3>1. CASE \E S \in Systems : Boot(S)
      BY <3>1, BootCounts
    <3>2. CASE BootDone
      BY <3>2, HandlersStep
    <3>3. CASE \/ JoinRaises \/ JoinsAll \/ FoundAll \/ GivesUpWaiting
               \/ \E p \in Procs : Contact(p)
      BY <3>3, MovesOn
    <3> QED
      BY <2>2, <3>1, <3>2, <3>3 DEF BootStep
  <2>3. CASE Monitor
    <3>1. CASE \E p \in Procs : AnswersError(p) \/ Remove(p)
      BY <3>1, ListStep
    <3>2. CASE \E p \in Procs : Refuses(p)
      BY <3>2, HandlersStep
    <3>3. CASE \/ \E p \in Procs : AnswersWell(p) \/ QueryTimesOut(p) \/ QueryBreaks(p)
               \/ MonitorBegins \/ NobodyLeftToAsk \/ AllBeat \/ SomeMissed \/ Judge
      BY <3>3, MovesOn
    <3> QED
      BY <2>3, <3>1, <3>2, <3>3 DEF Monitor
  <2>4. CASE CommandSucceeds \/ CommandFails \/ TerminateFails \/ RecoverSkips
    BY <2>4, HandlersStep
  <2>5. CASE Terminates \/ Recovers
    BY <2>5, ListStep
  <2> QED
    BY <1>1, <2>1, <2>2, <2>3, <2>4, <2>5 DEF Next, Runner
<1>2. CASE UNCHANGED vars
  <2>1. TypeOK'
    BY <1>2 DEF vars, LifeInv, TypeOK
  <2>2. LifeShape'
    BY <1>2 DEF vars, LifeInv, LifeShape, Active
  <2>3. CountsKept' /\ LossesAllowed'
    BY <1>2 DEF vars, LifeInv, CountsKept, LossesAllowed, Counted, Active, Ruled
  <2> QED
    BY <2>1, <2>2, <2>3 DEF LifeInv
<1> QED
  BY <1>1, <1>2

\* The counts of overriding_process_requirements, which decide whether a run
\* goes on, are those of self.procinfos, whatever the threads and the
\* processes do.
THEOREM LifeInvariant == Spec => []LifeInv
<1>1. LifeAssumption
  BY LifeAssumption
<1>2. Init => LifeInv
  BY <1>1, LifeInit
<1>3. LifeInv /\ [Next]_vars => LifeInv'
  BY <1>1, LifeStep
<1> QED
  BY <1>2, <1>3, PTL DEF Spec

\* Every variable keeps its type; in particular no count that
\* throw_exception_if_losing_process_violates_requirements decrements drops
\* below zero.
THEOREM LifeTypeCorrect == Spec => []TypeOK
<1>1. LifeInv => TypeOK
  BY DEF LifeInv
<1> QED
  BY <1>1, LifeInvariant, PTL

\* check_proc_exceptions and check_proc_heartbeats let a run go on only with
\* what init_process_requirements, or the default rules, demand.
THEOREM RequirementsHold == Spec => []RunMeetsRequirements
<1>1. LifeInv => RunMeetsRequirements
  <2> SUFFICES ASSUME LifeInv, pc = "idle", Active
               PROVE  /\ \A r \in Rules : Cardinality(Matches[r] \cap listed) >= required[r]
                      /\ \A p \in booted \ listed : Ruled(p) = {} =>
                            /\ Kind[p] # "BoardReader" /\ p \notin DiskWriters
                            /\ Kind[p] = "EventBuilder" =>
                                  \E q \in booted : Kind[q] = "RoutingManager"
    BY DEF RunMeetsRequirements
  <2>1. Counted
    BY DEF Counted
  <2>2. \A r \in Rules : Cardinality(Matches[r] \cap listed) >= required[r]
    <3>1. \A r \in Rules : /\ current[r] = Cardinality(Matches[r] \cap listed)
                           /\ required[r] <= current[r]
                           /\ required[r] \in Nat /\ current[r] \in Nat
      BY <2>1 DEF LifeInv, CountsKept, TypeOK
    <3> QED
      BY <3>1
  <2> QED
    BY <2>1, <2>2 DEF LifeInv, LossesAllowed
<1> QED
  BY <1>1, LifeInvariant, PTL

-----------------------------------------------------------------------------
(* What is killed, if no launch fails *)

\* What KilledInv adds to LifeInv.
KilledParts == LaunchesEnd /\ OnlyListed /\ LostAreDown /\ NoneWhenStopped

\* Only the runner's join waits for a thread that has not ended.
LEMMA NoThreadLeft ==
    ASSUME LaunchesEnd, pc # "join"
    PROVE  \A h \in Hosts : thread[h] \notin {"check", "launch"}
BY DEF LaunchesEnd

\* The launch threads find their hosts empty and start what is on the list.
LEMMA ThreadsKeep ==
    ASSUME LifeAssumption, LifeInv, KilledParts, "launch" \notin Faults,
           NEW h \in Hosts, LaunchThread(h)
    PROVE  KilledParts'
<1> USE DEF KilledParts
<1>0. /\ RunnerAsIs
      /\ thread \in [Hosts -> {"none", "check", "launch", "done", "raised"}]
      /\ alive \in [Procs -> {"up", "error", "down"}] /\ booted \subseteq Procs
  BY DEF LaunchThread, LaunchCheck, LaunchRuns, StaleRuns, LifeInv, TypeOK
<1>1. ~StaleRuns(h)
  BY DEF StaleRuns, LaunchesEnd
<1>2. /\ thread[h] \in {"check", "launch"} /\ pc = "join" /\ listed = booted
      /\ booted \cap On(h) # {} /\ \A p \in On(h) : alive[p] = "down"
  BY <1>1 DEF LaunchThread, LaunchCheck, LaunchRuns, LaunchesEnd
<1>3. /\ stale' = {} /\ thread' \in [Hosts -> {"none", "check", "launch", "done", "raised"}]
      /\ \A g \in Hosts : g # h => thread'[g] = thread[g]
      /\ thread'[h] \in {"launch", "done"}
      /\ thread'[h] = "launch" => alive' = alive
      /\ \A p \in Procs : alive'[p] # "down" => alive[p] # "down" \/ p \in booted \cap On(h)
  <2>1. ASSUME NEW attempt \in BOOLEAN, LaunchCheck(h, attempt)
        PROVE  thread' = [thread EXCEPT ![h] = "launch"] /\ alive' = alive /\ stale' = stale
    <3>1. listed \cap On(h) # {} /\ ~\E p \in listed \cap On(h) : alive[p] # "down"
      BY <1>2
    <3> QED
      BY <2>1, <3>1 DEF LaunchCheck
  <2>2. ASSUME LaunchRuns(h)
        PROVE  /\ thread' = [thread EXCEPT ![h] = "done"] /\ stale' = stale
               /\ \A p \in Procs : alive'[p] # "down" => alive[p] # "down" \/ p \in booted \cap On(h)
    BY <2>2 DEF LaunchRuns, Started
  <2>3. stale = {}
    BY DEF LaunchesEnd
  <2> QED
    BY <1>0, <1>1, <2>1, <2>2, <2>3 DEF LaunchThread
<1>4. LaunchesEnd'
  <2>1. \A g \in Hosts : g # h => \A p \in On(g) : p \notin On(h)
    BY DEF On
  <2>2. \A g \in Hosts : g # h => thread'[g] # "raised"
    BY <1>3 DEF LaunchesEnd
  <2>3. ASSUME NEW g \in Hosts, thread'[g] \in {"check", "launch"}
        PROVE  booted \cap On(g) # {} /\ \A p \in On(g) : alive'[p] = "down"
    <3>1. CASE g = h
      BY <1>2, <1>3, <2>3, <3>1
    <3>2. CASE g # h
      <4>1. booted \cap On(g) # {} /\ \A p \in On(g) : alive[p] = "down"
        BY <1>3, <2>3, <3>2 DEF LaunchesEnd
      <4> QED
        BY <1>3, <2>1, <3>2, <4>1 DEF On
    <3> QED
      BY <3>1, <3>2
  <2>4. pc' = "join" /\ listed' = listed /\ booted' = booted
    BY <1>0, <1>2 DEF RunnerAsIs
  <2> QED
    BY <1>2, <1>3, <2>2, <2>3, <2>4 DEF LaunchesEnd, On
<1>5. OnlyListed'
  BY <1>0, <1>2, <1>3 DEF OnlyListed, RunnerAsIs
<1>6. LostAreDown' /\ NoneWhenStopped'
  BY <1>0, <1>2 DEF LostAreDown, NoneWhenStopped, RunnerAsIs, LifeInv, LifeShape, BootPoints
<1> QED
  BY <1>4, <1>5, <1>6

\* A boot starts from an empty machine and leaves no thread of another boot.
LEMMA BootKeeps ==
    ASSUME LifeAssumption, LifeInv, KilledParts, NEW S \in Systems, Boot(S)
    PROVE  KilledParts'
<1> USE DEF KilledParts
<1>1. pc = "idle" /\ state = "booting" /\ \A p \in Procs : alive[p] = "down"
  BY DEF Boot, LifeInv, LifeShape, NoneWhenStopped
<1>2. \A h \in Hosts : thread[h] \notin {"check", "launch"}
  BY <1>1, NoThreadLeft
<1>3. stale' = {}
  <2>1. Abandoned = {}
    BY <1>2 DEF Abandoned, LifeAssumption, LifeInv, TypeOK
  <2> QED
    BY <2>1 DEF Boot, LaunchesEnd
<1>4. LaunchesEnd'
  <2>1. \A h \in Hosts : thread'[h] \in {"none", "check"}
    BY DEF Boot
  <2>2. \A h \in Hosts : thread'[h] = "check" => pc' = "join" /\ S \cap On(h) # {}
    BY DEF Boot
  <2>3. listed' = S /\ booted' = S /\ alive' = alive
    BY DEF Boot
  <2> QED
    BY <1>1, <1>3, <2>1, <2>2, <2>3 DEF LaunchesEnd, On
<1>5. OnlyListed' /\ LostAreDown' /\ NoneWhenStopped'
  BY <1>1 DEF Boot, OnlyListed, LostAreDown, NoneWhenStopped
<1> QED
  BY <1>4, <1>5

\* The runner moves on, or a handler fails or succeeds, with the processes and
\* the list as they are.
LEMMA MovesKeep ==
    ASSUME LifeAssumption, LifeInv, KilledParts,
           UNCHANGED <<alive, listed, booted, called, launches>>,
           pc = "join" => pc' = "join" \/ \A h \in Hosts : thread[h] \notin {"check", "launch"},
           pc' = "join" => pc = "join",
           pc' \in {"judge", "remove"} =>
              \/ pc \in {"judge", "remove"} /\ lost' \subseteq lost
              \/ lost' = Dead(listed),
           \/ state' \notin {"stopped", "booting"}
           \/ state' = "booting" /\ (pc' # "idle" \/ state = "stopped")
           \/ state' = "stopped" /\ (state = "stopped" \/ ~called)
    PROVE  KilledParts'
<1> USE DEF KilledParts
<1>1. thread' = thread /\ stale' = stale
  BY DEF launches
<1>2. LaunchesEnd'
  BY <1>1 DEF LaunchesEnd, On
<1>3. OnlyListed'
  BY DEF OnlyListed
<1>4. LostAreDown'
  BY DEF LostAreDown, Dead
<1>5. NoneWhenStopped'
  BY DEF NoneWhenStopped
<1> QED
  BY <1>2, <1>3, <1>4, <1>5

\* The server thread and the runner where they kill nothing.
LEMMA QuietKeeps ==
    ASSUME LifeAssumption, LifeInv, KilledParts,
           \/ Request
           \/ JoinRaises \/ JoinsAll \/ FoundAll \/ GivesUpWaiting \/ BootDone
           \/ \E p \in Procs : \/ Contact(p) \/ AnswersWell(p) \/ Refuses(p)
                               \/ QueryTimesOut(p) \/ QueryBreaks(p)
           \/ MonitorBegins \/ NobodyLeftToAsk \/ AllBeat \/ SomeMissed \/ Judge
           \/ CommandSucceeds \/ CommandFails \/ TerminateFails \/ RecoverSkips
    PROVE  KilledParts'
<1>1. ~JoinRaises
  <2>1. \A h \in Hosts : thread[h] # "raised"
    BY DEF KilledParts, LaunchesEnd
  <2>2. \A h \in Used : h \in Hosts
    BY DEF Used, LifeAssumption, LifeInv, TypeOK
  <2> QED
    BY <2>1, <2>2 DEF JoinRaises
<1>2. JoinsAll => \A h \in Hosts : thread[h] \notin {"check", "launch"}
  BY DEF JoinsAll, Used, KilledParts, LaunchesEnd, On
<1>3. UNCHANGED <<alive, listed, booted, called, launches>>
  BY <1>1 DEF Request, JoinsAll, FoundAll, GivesUpWaiting, BootDone, Contact, AnswersWell,
     Refuses, QueryTimesOut, QueryBreaks, MonitorBegins, NobodyLeftToAsk, AllBeat, SomeMissed,
     Judge, CommandSucceeds, CommandFails, TerminateFails, RecoverSkips, Goto
<1>4. pc = "join" => pc' = "join" \/ \A h \in Hosts : thread[h] \notin {"check", "launch"}
  BY <1>1, <1>2 DEF Request, JoinsAll, FoundAll, GivesUpWaiting, BootDone, Contact, AnswersWell,
     Refuses, QueryTimesOut, QueryBreaks, MonitorBegins, NobodyLeftToAsk, AllBeat, SomeMissed,
     Judge, CommandSucceeds, CommandFails, TerminateFails, RecoverSkips, Goto, Asks
<1>5. pc' = "join" => pc = "join"
  BY <1>1 DEF Request, JoinsAll, FoundAll, GivesUpWaiting, BootDone, Contact, AnswersWell,
     Refuses, QueryTimesOut, QueryBreaks, MonitorBegins, NobodyLeftToAsk, AllBeat, SomeMissed,
     Judge, CommandSucceeds, CommandFails, TerminateFails, RecoverSkips, Goto, Asks
<1>6. pc' \in {"judge", "remove"} => \/ pc \in {"judge", "remove"} /\ lost' \subseteq lost
                                     \/ lost' = Dead(listed)
  BY <1>1 DEF Request, JoinsAll, FoundAll, GivesUpWaiting, BootDone, Contact, AnswersWell,
     Refuses, QueryTimesOut, QueryBreaks, MonitorBegins, NobodyLeftToAsk, AllBeat, SomeMissed,
     Judge, CommandSucceeds, CommandFails, TerminateFails, RecoverSkips, Goto, Asks, loop, LoopOver
<1>7. \/ state' \notin {"stopped", "booting"}
      \/ state' = "booting" /\ (pc' # "idle" \/ state = "stopped")
      \/ state' = "stopped" /\ (state = "stopped" \/ ~called)
  BY <1>1 DEF Request, JoinsAll, FoundAll, GivesUpWaiting, BootDone, Contact, AnswersWell,
     Refuses, QueryTimesOut, QueryBreaks, MonitorBegins, NobodyLeftToAsk, AllBeat, SomeMissed,
     Judge, CommandSucceeds, CommandFails, TerminateFails, RecoverSkips, Goto, Asks,
     LifeInv, LifeShape, Active, BootPoints, MonitorPoints
<1> QED
  BY <1>3, <1>4, <1>5, <1>6, <1>7, MovesKeep

\* A process taken off the list is down: mopped up, or found missing.
LEMMA LosingKeeps ==
    ASSUME LifeAssumption, LifeInv, KilledParts, NEW q \in Procs, AnswersError(q) \/ Remove(q)
    PROVE  KilledParts'
<1> USE DEF KilledParts
<1>1. /\ pc \in {"query", "remove"} /\ pc' # "join" /\ listed' = listed \ {q}
      /\ UNCHANGED <<state, booted, called, launches>>
      /\ pc' = "remove" => pc = "remove" /\ lost' \subseteq lost
      /\ pc' # "judge"
  BY DEF AnswersError, Remove, Asks, Lose
<1>2. alive'[q] = "down" /\ \A p \in Procs : alive'[p] # "down" => alive[p] # "down"
  BY DEF AnswersError, Remove, AliveWithout, LostAreDown, LifeInv, TypeOK
<1>3. LaunchesEnd'
  <2>1. \A h \in Hosts : thread[h] \notin {"check", "launch"}
    BY <1>1, NoThreadLeft
  <2> QED
    BY <1>1, <2>1 DEF LaunchesEnd, launches
<1>4. OnlyListed'
  BY <1>1, <1>2 DEF OnlyListed
<1>5. LostAreDown'
  BY <1>1, <1>2 DEF LostAreDown, LifeInv, TypeOK
<1>6. NoneWhenStopped'
  BY <1>1 DEF NoneWhenStopped, LifeInv, LifeShape, MonitorPoints, Active
<1> QED
  BY <1>3, <1>4, <1>5, <1>6

\* kill_procs reaches everything that is up.
LEMMA KillsKeep ==
    ASSUME LifeAssumption, LifeInv, KilledParts, Terminates \/ Recovers
    PROVE  KilledParts'
<1> USE DEF KilledParts
<1>1. /\ pc # "join" /\ pc' = "idle" /\ KillProcs /\ state' = "stopped"
      /\ UNCHANGED <<booted, launches>>
  BY DEF Terminates, Recovers
<1>2. \A p \in listed : p \in Killed(listed)
  BY DEF Killed, Programs, LifeInv, TypeOK
<1>3. \A p \in Procs : alive'[p] = "down"
  BY <1>1, <1>2 DEF KillProcs, AliveWithout, OnlyListed
<1>4. LaunchesEnd'
  <2>1. \A h \in Hosts : thread[h] \notin {"check", "launch"}
    BY <1>1, NoThreadLeft
  <2> QED
    BY <1>1, <2>1 DEF LaunchesEnd, launches
<1>5. OnlyListed' /\ LostAreDown' /\ NoneWhenStopped'
  BY <1>1, <1>3 DEF OnlyListed, LostAreDown, NoneWhenStopped
<1> QED
  BY <1>4, <1>5

\* A process that dies or errs was up.
LEMMA MishapsKeep ==
    ASSUME LifeAssumption, LifeInv, KilledParts, NEW q \in Procs, Dies(q) \/ Errs(q)
    PROVE  KilledParts'
<1> USE DEF KilledParts
<1>1. EnvironmentOnly /\ alive[q] # "down"
  BY DEF Dies, Errs
<1>2. \A p \in Procs : alive'[p] # "down" => alive[p] # "down"
  BY <1>1 DEF Dies, Errs, AliveWithout, LifeInv, TypeOK
<1>3. LaunchesEnd'
  <2>1. UNCHANGED <<pc, thread, stale, booted, listed>>
    BY <1>1 DEF EnvironmentOnly, launches
  <2> QED
    BY <1>2, <2>1 DEF LaunchesEnd, On
<1>4. OnlyListed'
  BY <1>1, <1>2 DEF OnlyListed, EnvironmentOnly
<1>5. LostAreDown'
  BY <1>1, <1>2 DEF LostAreDown, EnvironmentOnly, loop, LifeInv, TypeOK
<1>6. NoneWhenStopped'
  BY <1>1 DEF NoneWhenStopped, EnvironmentOnly
<1> QED
  BY <1>3, <1>4, <1>5, <1>6

\* If no launch fails, every step keeps the stronger invariant.
LEMMA KilledStep ==
    ASSUME LifeAssumption, "launch" \notin Faults, KilledInv, [Next]_vars
    PROVE  KilledInv'
<1>1. LifeInv /\ KilledParts
  BY DEF KilledInv, KilledParts
<1>2. LifeInv'
  BY <1>1, LifeStep
<1>3. KilledParts'
  <2>1. CASE \E h \in Hosts : LaunchThread(h)
    BY <1>1, <2>1, ThreadsKeep
  <2>2. CASE \E S \in Systems : Boot(S)
    BY <1>1, <2>2, BootKeeps
  <2>3. CASE \E p \in Procs : AnswersError(p) \/ Remove(p)
    BY <1>1, <2>3, LosingKeeps
  <2>4. CASE Terminates \/ Recovers
    BY <1>1, <2>4, KillsKeep
  <2>5. CASE \E p \in Procs : Dies(p) \/ Errs(p)
    BY <1>1, <2>5, MishapsKeep
  <2>6. CASE \/ Request
             \/ JoinRaises \/ JoinsAll \/ FoundAll \/ GivesUpWaiting \/ BootDone
             \/ \E p \in Procs : \/ Contact(p) \/ AnswersWell(p) \/ Refuses(p)
                                 \/ QueryTimesOut(p) \/ QueryBreaks(p)
             \/ MonitorBegins \/ NobodyLeftToAsk \/ AllBeat \/ SomeMissed \/ Judge
             \/ CommandSucceeds \/ CommandFails \/ TerminateFails \/ RecoverSkips
    BY <1>1, <2>6, QuietKeeps
  <2>7. CASE UNCHANGED vars
    BY <1>1, <2>7 DEF vars, KilledParts, LaunchesEnd, OnlyListed, LostAreDown, NoneWhenStopped, On
  <2> QED
    BY <2>1, <2>2, <2>3, <2>4, <2>5, <2>6, <2>7 DEF Next, Runner, BootStep, Monitor
<1> QED
  BY <1>2, <1>3 DEF KilledInv, KilledParts

\* Nothing runs before the first boot.
LEMMA KilledInit == ASSUME LifeAssumption, Init PROVE KilledInv
<1>1. LifeInv
  BY LifeInit
<1>2. LaunchesEnd /\ OnlyListed /\ LostAreDown /\ NoneWhenStopped
  BY DEF Init, LaunchesEnd, OnlyListed, LostAreDown, NoneWhenStopped
<1> QED
  BY <1>1, <1>2 DEF KilledInv

\* If no launch_procs_on_host fails, the processes that are up are those in
\* self.procinfos.
THEOREM KilledInvariant == ASSUME "launch" \notin Faults PROVE Spec => []KilledInv
<1>1. LifeAssumption
  BY LifeAssumption
<1>2. Init => KilledInv
  BY <1>1, KilledInit
<1>3. KilledInv /\ [Next]_vars => KilledInv'
  BY <1>1, KilledStep
<1> QED
  BY <1>2, <1>3, PTL DEF Spec

\* A process that check_proc_exceptions or check_proc_heartbeats took off
\* self.procinfos is dead, however the losses and the transitions interleave.
THEOREM RemovedDown == ASSUME "launch" \notin Faults PROVE Spec => []RemovedAreDown
<1>1. KilledInv => RemovedAreDown
  BY DEF KilledInv, LifeInv, TypeOK, OnlyListed, RemovedAreDown
<1> QED
  BY <1>1, KilledInvariant, PTL

\* do_recover and do_terminate leave no process behind, from wherever in the
\* boot, the monitoring or a transition they are called.
THEOREM NoneLeft == ASSUME "launch" \notin Faults PROVE Spec => []NothingLeft
<1>1. KilledInv => NothingLeft
  BY DEF KilledInv, NoneWhenStopped, NothingLeft
<1> QED
  BY <1>1, KilledInvariant, PTL

-----------------------------------------------------------------------------
(* Every call of runner comes to its end *)

\* How far a boot or a check has come, and whom its loop has still to come to.
PlaceOf == [idle |-> 0, join |-> 1, wait |-> 2, contact |-> 3, query |-> 4, heartbeat |-> 5,
            judge |-> 6, remove |-> 7, recover |-> 8]
StillTo == IF pc \in {"contact", "query"} THEN listed \ asked ELSE lost

\* A step takes up a request or leads further on, to the end, or to fewer processes.
FurtherOn ==
    \/ pc = "idle" /\ pc' = "idle" /\ flag # "none" /\ flag' = "none"
    \/ PlaceOf[pc'] > PlaceOf[pc]
    \/ pc # "idle" /\ pc' = "idle"
    \/ /\ pc \in {"contact", "query", "remove"} /\ pc' = pc
       /\ Cardinality(StillTo) \in Nat /\ Cardinality(StillTo') \in Nat
       /\ Cardinality(StillTo') < Cardinality(StillTo)

\* No launch thread, request or process moves the runner, or lengthens its loop.
RunnerGetsOn == IF Runner THEN FurtherOn ELSE UNCHANGED <<pc, listed, asked, lost>>

\* One member of a finite set less.
LEMMA OneLess ==
    ASSUME NEW S, IsFiniteSet(S), NEW p \in S
    PROVE  /\ Cardinality(S) \in Nat /\ Cardinality(S \ {p}) \in Nat
           /\ Cardinality(S \ {p}) < Cardinality(S)
<1>1. IsFiniteSet(S \ {p}) /\ Cardinality(S \ {p}) = Cardinality(S) - 1
  BY FS_RemoveElement
<1>2. Cardinality(S) \in Nat /\ Cardinality(S \ {p}) \in Nat
  BY <1>1, FS_CardinalityType
<1> QED
  BY <1>1, <1>2

\* The loops of do_boot, check_proc_exceptions and check_proc_heartbeats come to every
\* process once: the first two ask it, the last takes it off what is lost.
LEMMA LoopsGoOn ==
    ASSUME LifeAssumption, TypeOK,
           \/ \E p \in listed \ asked : /\ pc \in {"contact", "query"} /\ pc' = pc
                                       /\ asked' = asked \cup {p} /\ listed' = listed
           \/ \E p \in lost : pc = "remove" /\ pc' = pc /\ lost' = lost \ {p}
    PROVE  FurtherOn
<1>1. IsFiniteSet(listed \ asked) /\ IsFiniteSet(lost)
  <2>1. listed \ asked \in SUBSET Procs /\ lost \in SUBSET Procs /\ IsFiniteSet(Procs)
    BY DEF TypeOK, LifeAssumption
  <2> QED
    BY <2>1, FS_Subset
<1>2. IsFiniteSet(StillTo) /\ \E p \in StillTo : StillTo' = StillTo \ {p}
  BY <1>1 DEF StillTo
<1>3. PICK p \in StillTo : StillTo' = StillTo \ {p}
  BY <1>2
<1>4. /\ Cardinality(StillTo) \in Nat /\ Cardinality(StillTo') \in Nat
      /\ Cardinality(StillTo') < Cardinality(StillTo)
  BY <1>2, <1>3, OneLess
<1>5. pc \in {"contact", "query", "remove"} /\ pc' = pc
  OBVIOUS
<1> QED
  BY <1>4, <1>5 DEF FurtherOn

\* The other ways from one point of runner to another.
LEMMA PointsGoOn ==
    ASSUME \/ pc = "idle" /\ pc' \in {"join", "query", "recover"}
           \/ pc = "join" /\ pc' \in {"wait", "recover"}
           \/ pc = "wait" /\ pc' \in {"contact", "recover"}
           \/ pc = "query" /\ pc' \in {"heartbeat", "recover"}
           \/ pc = "heartbeat" /\ pc' = "judge"
           \/ pc = "judge" /\ pc' \in {"remove", "recover"}
           \/ pc = "remove" /\ pc' = "recover"
           \/ pc # "idle" /\ pc' = "idle"
    PROVE  FurtherOn
BY DEF FurtherOn, PlaceOf

\* A boot, a check or a recovery that runner has begun is over after boundedly many of
\* its steps for every system, whatever dies, answers or is launched under it.  Where it
\* waits instead, for a launch thread or an answer to status(), it takes none.
THEOREM CallsEnd == Spec => [][RunnerGetsOn]_vars
<1>1. ASSUME LifeInv, Runner PROVE FurtherOn
  <2>1. LifeAssumption /\ TypeOK
    BY <1>1, LifeAssumption DEF LifeInv
  <2>2. CASE BootStep
    <3>1. CASE (\E S \in Systems : Boot(S)) \/ JoinRaises \/ JoinsAll \/ FoundAll
               \/ GivesUpWaiting \/ BootDone
      BY <3>1, PointsGoOn DEF Boot, JoinRaises, JoinsAll, FoundAll, GivesUpWaiting, BootDone, Goto
    <3>2. ASSUME NEW p \in Procs, Contact(p) PROVE FurtherOn
      BY <2>1, <3>2, LoopsGoOn DEF Contact, Goto, First
    <3> QED
      BY <2>2, <3>1, <3>2 DEF BootStep
  <2>3. CASE Monitor
    <3>1. CASE MonitorBegins \/ NobodyLeftToAsk \/ AllBeat \/ SomeMissed \/ Judge
      BY <3>1, PointsGoOn DEF MonitorBegins, NobodyLeftToAsk, AllBeat, SomeMissed, Judge, Goto
    <3>2. ASSUME NEW p \in Procs, AnswersWell(p) \/ AnswersError(p) \/ QueryBreaks(p)
          PROVE  FurtherOn
      BY <3>2, PointsGoOn DEF AnswersWell, AnswersError, QueryBreaks, Asks, Goto
    <3>3. ASSUME NEW p \in Procs, QueryTimesOut(p) PROVE FurtherOn
      BY <2>1, <3>3, LoopsGoOn DEF QueryTimesOut, Asks, Goto, First
    <3>4. ASSUME NEW p \in Procs, Refuses(p) PROVE FurtherOn
      <4>1. CASE p \in refused
        BY <3>4, <4>1, PointsGoOn DEF Refuses, Asks
      <4>2. CASE p \notin refused
        BY <2>1, <3>4, <4>2, LoopsGoOn DEF Refuses, Asks, First
      <4> QED
        BY <4>1, <4>2
    <3>5. ASSUME NEW p \in Procs, Remove(p) PROVE FurtherOn
      <4>1. pc = "remove" /\ p \in lost
        BY <3>5 DEF Remove
      <4>2. pc' \in {"recover", "idle"} \/ (pc' = "remove" /\ lost' = lost \ {p})
        BY <3>5 DEF Remove
      <4>3. CASE pc' \in {"recover", "idle"}
        BY <4>1, <4>3, PointsGoOn
      <4>4. CASE pc' = "remove" /\ lost' = lost \ {p}
        BY <2>1, <4>1, <4>4, LoopsGoOn
      <4> QED
        BY <4>2, <4>3, <4>4
    <3> QED
      BY <2>3, <3>1, <3>2, <3>3, <3>4, <3>5 DEF Monitor
  <2>4. CASE CommandSucceeds \/ Terminates
    BY <2>4 DEF CommandSucceeds, Terminates, FurtherOn
  <2>5. CASE CommandFails \/ TerminateFails \/ RecoverSkips \/ Recovers
    BY <2>5, PointsGoOn DEF CommandFails, TerminateFails, RecoverSkips, Recovers
  <2> QED
    BY <1>1, <2>2, <2>3, <2>4, <2>5 DEF Runner
<1>2. ASSUME Request PROVE UNCHANGED <<pc, listed, asked, lost>>
  BY <1>2 DEF Request, loop
<1>3. ASSUME NEW h \in Hosts, LaunchThread(h) PROVE UNCHANGED <<pc, listed, asked, lost>>
  BY <1>3 DEF LaunchThread, LaunchCheck, LaunchRuns, StaleRuns, RunnerAsIs, loop
<1>4. ASSUME NEW p \in Procs, Dies(p) \/ Errs(p) PROVE UNCHANGED <<pc, listed, asked, lost>>
  BY <1>4 DEF Dies, Errs, EnvironmentOnly, loop
<1>5. LifeInv /\ [Next]_vars => [RunnerGetsOn]_vars
  BY <1>1, <1>2, <1>3, <1>4 DEF Next, RunnerGetsOn
<1> QED
  BY <1>5, LifeInvariant, PTL DEF Spec

=============================================================================
