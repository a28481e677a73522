------------------------- MODULE Bookkeeping_proofs -------------------------
(***************************************************************************)
(* Proofs about the bookkeeping of the FHiCL documents, for every system   *)
(* that a boot file may describe: the types, the search for cycles, the    *)
(* filling of the tables and what it makes of the connections.             *)
(*                                                                         *)
(* The bookkeeping is one thread in stages, so that an invariant says what *)
(* a stage has done once it is over, and how far the loop of a stage has   *)
(* come while it runs.                                                     *)
(***************************************************************************)
EXTENDS Bookkeeping, Sums_proofs

\* What the assumption on the boot files says of the one at hand.
LEMMA SystemFacts ==
    ASSUME BookkeepingAssumption, system \in Systems
    PROVE  /\ IsFiniteSet(Subs) /\ Subs \subseteq Nat \ {None}
           /\ \A s \in Subs : Sources(s) \subseteq Nat /\ IsFiniteSet(Sources(s))
           /\ \A s \in Subs : Destination(s) \in Nat
           /\ IsFiniteSet(Procs) /\ Procs # {} /\ Procs \subseteq Nat
           /\ \A p \in Procs : system.type[p] \in Types /\ system.sub[p] \in Subs
           /\ \A p \in Procs : Target(p) \in {"EventBuilder", "DataLogger", "Dispatcher"}
           /\ system.dfos \subseteq Procs
           /\ \A p \in system.dfos : system.type[p] = "EventBuilder"
           /\ \A p \in Readers : system.size[p] \in Nat
           /\ \A p \in Readers : system.ids[p] \subseteq Nat /\ IsFiniteSet(system.ids[p])
           /\ \A p \in Procs : system.stated[p] \in Nat /\ system.analyzers[p] \in Nat
<1>1. IsSystem(system)
  BY DEF BookkeepingAssumption
<1>2. IsFiniteSet(Subs) /\ Subs \subseteq Nat \ {None}
  BY <1>1 DEF IsSystem, Subs
<1>3. \A s \in Subs : Sources(s) \subseteq Nat /\ IsFiniteSet(Sources(s)) /\ Destination(s) \in Nat
  <2>1. /\ system.sources \in [Subs -> SUBSET Nat] /\ system.destination \in [Subs -> Nat]
        /\ \A s \in Subs : IsFiniteSet(system.sources[s])
    BY <1>1 DEF IsSystem, Subs
  <2> QED
    BY <2>1 DEF Sources, Destination
<1>4. IsFiniteSet(Procs) /\ Procs # {} /\ Procs \subseteq Nat
  BY <1>1 DEF IsSystem, Procs
<1>5. \A p \in Procs : system.type[p] \in Types /\ system.sub[p] \in Subs
  <2>1. system.type \in [Procs -> Types] /\ system.sub \in [Procs -> Subs]
    BY <1>1 DEF IsSystem, Procs, Subs
  <2> QED
    BY <2>1
<1>6. \A p \in Procs : Target(p) \in {"EventBuilder", "DataLogger", "Dispatcher"}
  <2>1. \A p \in Procs :
           system.target[p] \in {"not set", "EventBuilder", "DataLogger", "Dispatcher"}
    <3>1. system.target \in [Procs -> {"not set", "EventBuilder", "DataLogger", "Dispatcher"}]
      BY <1>1 DEF IsSystem, Procs
    <3> QED
      BY <3>1
  <2> QED
    BY <2>1 DEF Target
<1>7. system.dfos \subseteq Procs /\ \A p \in system.dfos : system.type[p] = "EventBuilder"
  BY <1>1 DEF IsSystem, Procs
<1>8. \A p \in Readers : /\ system.size[p] \in Nat
                         /\ system.ids[p] \subseteq Nat /\ IsFiniteSet(system.ids[p])
  BY <1>1 DEF IsSystem, Procs, Readers
<1>9. \A p \in Procs : system.stated[p] \in Nat /\ system.analyzers[p] \in Nat
  BY <1>1 DEF IsSystem, Procs
<1> QED
  BY <1>2, <1>3, <1>4, <1>5, <1>6, <1>7, <1>8, <1>9

-----------------------------------------------------------------------------
(* The search for cycles *)

Finished == visited \ OnPath
Searched == {"expect", "sanity", "tables", "ports", "routes", "init", "done"}

\* The path of the search follows the sources and passes no subsystem twice; what
\* the search has left is closed under the sources and has no cycle.
SearchInv ==
    /\ visited \subseteq Subs /\ OnPath \subseteq visited
    /\ path \in Seq(Subs)
    /\ \A i, j \in DOMAIN path : path[i] = path[j] => i = j
    /\ \A i \in DOMAIN path : i + 1 \in DOMAIN path => path[i + 1] \in Known(path[i])
    /\ \A s \in Finished : Known(s) \subseteq Finished
    /\ \A c \in SUBSET Finished : c # {} => \E s \in c : Sources(s) \cap c = {}
    /\ pc \in Searched => path = <<>> /\ visited = Subs
    /\ pc = "raised" => reason # "none"
    /\ reason = "cycle" => HasCycle

\* Nothing but the search writes its variables, and the boot file stays.
LEMMA OutsideSearch ==
    ASSUME [Next]_vars, pc # "search"
    PROVE  UNCHANGED <<system, visited, path>>
BY DEF Next, vars, search, CheckBootInfo, CountFragments, SearchFrom, Descend, FindCycle,
       Return, NoCycle, Expect, CheckDFOs, FillTable, NextTables, AssignPorts, InitCounts,
       PortsDone, RoutesDone, RouteTables

\* Later stages raise for reasons of their own.
LEMMA OutsideReasons ==
    ASSUME [Next]_vars, pc # "search"
    PROVE  /\ pc \notin Searched => pc' \notin Searched
           /\ reason' = "cycle" => reason = "cycle"
           /\ pc' = "raised" => reason' # "none" \/ pc = "raised"
           /\ pc = "raised" => reason' = reason
BY DEF Next, vars, search, CheckBootInfo, CountFragments, SearchFrom, Descend, FindCycle,
       Return, NoCycle, Expect, CheckDFOs, FillTable, NextTables, AssignPorts, InitCounts,
       PortsDone, RoutesDone, RouteTables, Goto, Raise, Searched

\* The search starts from a subsystem that it has not visited.
LEMMA SearchFromStep ==
    ASSUME SearchInv, NEW s \in Subs, SearchFrom(s)
    PROVE  SearchInv'
<1>1. /\ pc = "search" /\ path = <<>> /\ s \notin visited
      /\ visited' = visited \union {s} /\ path' = <<s>>
      /\ UNCHANGED <<system, pc, reason>>
  BY DEF SearchFrom
<1>2. OnPath = {} /\ OnPath' = {s} /\ Finished' = Finished
  BY <1>1 DEF OnPath, Finished
<1>3. UNCHANGED <<Subs, HasCycle>> /\ \A x : UNCHANGED <<Known(x), Sources(x)>>
  BY <1>1 DEF Subs, HasCycle, Known, Sources
<1>4. visited' \subseteq Subs' /\ OnPath' \subseteq visited'
  BY <1>1, <1>2, <1>3 DEF SearchInv
<1>5. path' \in Seq(Subs') /\ DOMAIN path' = {1} /\ path'[1] = s
  BY <1>1, <1>3
<1>6. \A i, j \in DOMAIN path' : path'[i] = path'[j] => i = j
  BY <1>5
<1>7. \A i \in DOMAIN path' : i + 1 \in DOMAIN path' => path'[i + 1] \in Known(path'[i])
  BY <1>5
<1> QED
  BY <1>1, <1>2, <1>3, <1>4, <1>5, <1>6, <1>7 DEF SearchInv, Searched

\* It goes on to a source that it has not visited.
LEMMA DescendStep ==
    ASSUME SearchInv, NEW r \in Subs, Descend(r)
    PROVE  SearchInv'
<1>1. /\ pc = "search" /\ path # <<>> /\ r \in Known(Top) \ visited
      /\ visited' = visited \union {r} /\ path' = Append(path, r)
      /\ UNCHANGED <<system, pc, reason>>
  BY DEF Descend
<1> DEFINE n == Len(path)
<1>2. /\ path \in Seq(Subs) /\ n \in Nat \ {0} /\ DOMAIN path = 1..n
      /\ path' \in Seq(Subs) /\ DOMAIN path' = 1..(n + 1)
      /\ path'[n + 1] = r /\ \A i \in 1..n : path'[i] = path[i]
  BY <1>1 DEF SearchInv
<1>3. OnPath' = OnPath \union {r} /\ Finished' = Finished
  <2>1. OnPath' = {path'[i] : i \in 1..(n + 1)}
    BY <1>2 DEF OnPath
  <2>2. OnPath = {path[i] : i \in 1..n}
    BY <1>2 DEF OnPath
  <2>3. OnPath' = OnPath \union {r}
    BY <1>2, <2>1, <2>2
  <2> QED
    BY <1>1, <2>3 DEF Finished
<1>4. UNCHANGED <<Subs, HasCycle>> /\ \A x : UNCHANGED <<Known(x), Sources(x)>>
  BY <1>1 DEF Subs, HasCycle, Known, Sources
<1>5. visited' \subseteq Subs' /\ OnPath' \subseteq visited'
  BY <1>1, <1>3, <1>4 DEF SearchInv
<1>6. \A i \in 1..n : path[i] # r
  BY <1>1, <1>2 DEF SearchInv, OnPath
<1>7. \A i, j \in DOMAIN path' : path'[i] = path'[j] => i = j
  BY <1>2, <1>6 DEF SearchInv
<1>8. \A i \in DOMAIN path' : i + 1 \in DOMAIN path' => path'[i + 1] \in Known(path'[i])
  <2> SUFFICES ASSUME NEW i \in 1..(n + 1), i + 1 \in 1..(n + 1)
               PROVE  path'[i + 1] \in Known(path'[i])
    BY <1>2
  <2>0. n \in Nat \ {0}
    BY <1>2
  <2>1. CASE i = n
    BY <1>1, <1>2, <2>1 DEF Top
  <2>2. CASE i # n
    <3> HIDE DEF n
    <3>1. i \in 1..n /\ i + 1 \in 1..n
      BY <2>0, <2>2
    <3>2. path'[i] = path[i] /\ path'[i + 1] = path[i + 1]
      BY <1>2, <3>1
    <3> QED
      BY <1>2, <3>1, <3>2 DEF SearchInv
  <2> QED
    BY <2>1, <2>2
<1> QED
  BY <1>1, <1>2, <1>3, <1>4, <1>5, <1>7, <1>8 DEF SearchInv, Searched

\* A source on the path closes a cycle: from it on along the path and back.
LEMMA FindCycleStep ==
    ASSUME SearchInv, FindCycle
    PROVE  SearchInv'
<1>1. /\ pc = "search" /\ path # <<>> /\ Known(Top) \cap OnPath # {}
      /\ pc' = "raised" /\ reason' = "cycle"
      /\ UNCHANGED <<system, visited, path>>
  BY DEF FindCycle, Raise, search
<1> DEFINE n == Len(path)
<1>2. path \in Seq(Subs) /\ n \in Nat \ {0} /\ DOMAIN path = 1..n
  BY <1>1 DEF SearchInv
<1>3. PICK i \in 1..n : path[i] \in Known(path[n])
  BY <1>1, <1>2 DEF OnPath, Top
<1> DEFINE c == {path[k] : k \in i..n}
<1>4. c \in SUBSET Subs /\ path[i] \in c
  BY <1>2
<1>5. ASSUME NEW s \in c PROVE Sources(s) \cap c # {}
  <2>1. PICK k \in i..n : s = path[k]
    OBVIOUS
  <2>2. CASE k = n
    BY <1>3, <1>4, <2>1, <2>2 DEF Known
  <2>3. CASE k # n
    <3>0. n \in Nat /\ i \in 1..n /\ k \in i..n
      BY <1>2
    <3>1. k \in 1..n /\ k + 1 \in 1..n /\ k + 1 \in i..n
      <4> HIDE DEF n
      <4> QED
        BY <3>0, <2>3
    <3>2. path[k + 1] \in Known(path[k])
      <4>1. \A l \in 1..n : l + 1 \in 1..n => path[l + 1] \in Known(path[l])
        BY <1>2 DEF SearchInv
      <4> HIDE DEF n
      <4> QED
        BY <3>1, <4>1
    <3> QED
      BY <2>1, <3>1, <3>2 DEF Known
  <2> QED
    BY <2>2, <2>3
<1>6. HasCycle
  <2>1. c # {} /\ \A s \in c : Sources(s) \cap c # {}
    BY <1>4, <1>5
  <2> HIDE DEF c
  <2> QED
    BY <1>4, <2>1 DEF HasCycle
<1>7. UNCHANGED <<Subs, HasCycle, OnPath, Finished>> /\ \A x : UNCHANGED <<Known(x), Sources(x)>>
  BY <1>1 DEF Subs, HasCycle, OnPath, Finished, Known, Sources
<1> HIDE DEF c, n
<1> QED
  BY <1>1, <1>6, <1>7 DEF SearchInv, Searched

\* A subsystem is left when it is done with its sources: it is in no cycle with
\* what was left before, none of which has it as a source.
LEMMA ReturnStep ==
    ASSUME SearchInv, Return
    PROVE  SearchInv'
<1>1. /\ pc = "search" /\ path # <<>> /\ Known(Top) \subseteq visited \ OnPath
      /\ path' = SubSeq(path, 1, Len(path) - 1)
      /\ UNCHANGED <<system, pc, reason, visited>>
  BY DEF Return
<1> DEFINE n == Len(path)
           t == path[n]
<1>2. /\ path \in Seq(Subs) /\ n \in Nat \ {0} /\ DOMAIN path = 1..n
      /\ path' \in Seq(Subs) /\ DOMAIN path' = 1..(n - 1)
      /\ \A i \in 1..(n - 1) : path'[i] = path[i]
  BY <1>1 DEF SearchInv
<1>3. UNCHANGED <<Subs, HasCycle>> /\ \A x : UNCHANGED <<Known(x), Sources(x)>>
  BY <1>1 DEF Subs, HasCycle, Known, Sources
<1>4. /\ OnPath = OnPath' \union {t} /\ t \notin OnPath' /\ t \in visited /\ t \in Subs
      /\ Finished' = Finished \union {t} /\ t \notin Finished
  <2>1. OnPath' = {path[i] : i \in 1..(n - 1)}
    BY <1>2 DEF OnPath
  <2>2. OnPath = {path[i] : i \in 1..n}
    BY <1>2 DEF OnPath
  <2>3. OnPath = OnPath' \union {t}
    BY <1>2, <2>1, <2>2
  <2>4. \A i \in 1..(n - 1) : path[i] # t
    BY <1>2 DEF SearchInv
  <2>5. t \notin OnPath'
    BY <2>1, <2>4
  <2> QED
    BY <1>1, <2>3, <2>5 DEF Finished, SearchInv
<1>5. Known(t) \subseteq Finished
  BY <1>1 DEF Top, Finished
<1>6. \A i, j \in DOMAIN path' : path'[i] = path'[j] => i = j
  <2>1. \A i, j \in 1..n : path[i] = path[j] => i = j
    BY <1>2 DEF SearchInv
  <2>2. 1..(n - 1) \subseteq 1..n
    BY <1>2
  <2> HIDE DEF n
  <2> QED
    BY <1>2, <2>1, <2>2
<1>7. \A i \in DOMAIN path' : i + 1 \in DOMAIN path' => path'[i + 1] \in Known(path'[i])
  BY <1>2 DEF SearchInv
<1> HIDE DEF t, n
<1>8. ASSUME NEW c \in SUBSET Finished', c # {}
      PROVE  \E s \in c : Sources(s) \cap c = {}
  <2> DEFINE d == c \ {t}
  <2>1. d \in SUBSET Finished /\ Finished \subseteq Subs
    BY <1>4 DEF SearchInv, Finished
  <2>2. CASE d = {}
    <3>1. c = {t}
      BY <1>8, <2>2
    <3>2. t \notin Sources(t)
      BY <1>4, <1>5 DEF Known
    <3> QED
      BY <3>1, <3>2
  <2>3. CASE d # {}
    <3>1. PICK s \in d : Sources(s) \cap d = {}
      BY <2>1, <2>3 DEF SearchInv
    <3>2. Known(s) \subseteq Finished
      BY <2>1, <3>1 DEF SearchInv
    <3>3. t \notin Sources(s)
      BY <1>4, <3>2 DEF Known
    <3> QED
      BY <3>1, <3>3
  <2> QED
    BY <2>2, <2>3
<1>9. \A s \in Finished' : Known(s) \subseteq Finished'
  BY <1>4, <1>5 DEF SearchInv
<1>10. visited' \subseteq Subs' /\ OnPath' \subseteq visited'
  BY <1>1, <1>3, <1>4 DEF SearchInv
<1> QED
  BY <1>1, <1>2, <1>3, <1>6, <1>7, <1>8, <1>9, <1>10 DEF SearchInv, Searched

\* The search keeps its invariant, and no later stage touches what it found.
LEMMA SearchStep ==
    ASSUME SearchInv, [Next]_vars
    PROVE  SearchInv'
<1>1. ASSUME UNCHANGED <<system, visited, path>>,
             pc' \in Searched => path' = <<>> /\ visited' = Subs',
             pc' = "raised" => reason' # "none",
             reason' = "cycle" => HasCycle'
      PROVE  SearchInv'
  <2>1. UNCHANGED <<Subs, HasCycle, OnPath, Finished>>
        /\ \A x : UNCHANGED <<Known(x), Sources(x)>>
    BY <1>1 DEF Subs, HasCycle, OnPath, Finished, Known, Sources
  <2> QED
    BY <1>1, <2>1 DEF SearchInv
<1>2. CASE pc # "search"
  <2>1. UNCHANGED <<system, visited, path>>
    BY <1>2, OutsideSearch
  <2>2. UNCHANGED <<Subs, HasCycle>>
    BY <2>1 DEF Subs, HasCycle, Sources
  <2> QED
    BY <1>1, <1>2, <2>1, <2>2, OutsideReasons DEF SearchInv
<1>3. CASE pc = "search" /\ ~UNCHANGED vars
  <2>1. \/ \E s \in Subs : SearchFrom(s) \/ Descend(s)
        \/ FindCycle \/ Return \/ NoCycle
    BY <1>3 DEF Next, CheckBootInfo, CountFragments, Expect, CheckDFOs, FillTable, NextTables,
                AssignPorts, InitCounts, PortsDone, RoutesDone, RouteTables
  <2>2. CASE NoCycle
    <3>1. /\ path = <<>> /\ visited = Subs /\ pc' = "expect"
          /\ UNCHANGED <<system, visited, path, reason>>
      BY <2>2 DEF NoCycle, search, Goto
    <3> QED
      BY <1>1, <3>1 DEF SearchInv, Subs, HasCycle, Sources
  <2> QED
    BY <2>1, <2>2, SearchFromStep, DescendStep, FindCycleStep, ReturnStep
<1>4. CASE UNCHANGED vars
  <2>1. UNCHANGED <<system, visited, path, pc, reason>>
    BY <1>4 DEF vars, search
  <2> QED
    BY <1>1, <2>1 DEF SearchInv, Subs, HasCycle, Sources
<1> QED
  BY <1>2, <1>3, <1>4

\* At boot nothing is visited.
LEMMA SearchInit == Init => SearchInv
<1> SUFFICES ASSUME Init PROVE SearchInv
  OBVIOUS
<1>1. visited = {} /\ path = <<>> /\ pc = "boot" /\ reason = "none"
  BY DEF Init
<1>2. OnPath = {} /\ Finished = {}
  BY <1>1 DEF OnPath, Finished
<1>3. path \in Seq(Subs) /\ DOMAIN path = {}
  BY <1>1
<1> QED
  BY <1>1, <1>2, <1>3 DEF SearchInv, Searched

\* After the search the graph of sources has no cycle.
LEMMA NoCycleLater ==
    ASSUME SearchInv, pc \in Searched
    PROVE  Acyclic(Subs, [s \in Subs |-> Sources(s)]) /\ ~HasCycle
<1>1. path = <<>> /\ visited = Subs
  BY DEF SearchInv
<1>2. Finished = Subs
  BY <1>1 DEF Finished, OnPath
<1>3. \A c \in SUBSET Subs : c # {} => \E s \in c : Sources(s) \cap c = {}
  BY <1>2 DEF SearchInv
<1> QED
  <2> DEFINE K == [s \in Subs |-> Sources(s)]
  <2>1. \A s \in Subs : K[s] = Sources(s)
    OBVIOUS
  <2> HIDE DEF K
  <2>2. Acyclic(Subs, K)
    BY <1>3, <2>1 DEF Acyclic
  <2>3. ~HasCycle
    BY <1>3 DEF HasCycle
  <2> QED
    BY <2>2, <2>3 DEF K

-----------------------------------------------------------------------------
(* Counts and sizes *)

Counted == pc \in {"search"} \union Searched
Worked  == pc \in Searched \ {"expect"}

\* fragments, space, expected and eventSize are naturals at all times, and after
\* its stage each is what the stage works out from the boot file.
SizesInv ==
    /\ fragments \in [Subs -> SUBSET (Readers \X Nat)]
    /\ \A s \in Subs : IsFiniteSet(fragments[s])
    /\ space \in [Subs -> Nat] /\ expected \in [Subs -> Nat] /\ eventSize \in [Subs -> Nat]
    /\ Counted => /\ fragments = [s \in Subs |-> CountedFragments(s)]
                  /\ space = [s \in Subs |-> Space(s)]
    /\ Worked => /\ \A s \in Subs : Sources(s) \subseteq Subs
                 /\ expected = Expected /\ eventSize = EventSize

\* A subsystem counts finitely many fragments, of readers.
LEMMA CountedTyped ==
    ASSUME BookkeepingAssumption, system \in Systems, NEW s \in Subs
    PROVE  CountedFragments(s) \in SUBSET (Readers \X Nat) /\ IsFiniteSet(CountedFragments(s))
<1> DEFINE readers == Senders \cap Group(s, "BoardReader")
           ids == UNION {system.ids[q] : q \in readers}
<1>1. readers \subseteq Readers /\ readers \subseteq Procs
  BY DEF Senders, Readers
<1>2. /\ IsFiniteSet(Procs)
      /\ \A p \in Readers : system.ids[p] \subseteq Nat /\ IsFiniteSet(system.ids[p])
  BY SystemFacts
<1>3. IsFiniteSet(readers)
  BY <1>1, <1>2, FS_Subset
<1>4. IsFiniteSet(ids) /\ ids \subseteq Nat
  <2>1. IsFiniteSet({system.ids[q] : q \in readers})
    BY <1>3, ImageFinite
  <2>2. \A T \in {system.ids[q] : q \in readers} : IsFiniteSet(T) /\ T \subseteq Nat
    BY <1>1, <1>2
  <2> QED
    BY <2>1, <2>2, FS_UNION
<1>5. CountedFragments(s) \subseteq readers \X ids
  BY DEF CountedFragments
<1> HIDE DEF readers, ids
<1>6. IsFiniteSet(readers \X ids)
  BY <1>3, <1>4, FS_Product
<1> QED
  BY <1>1, <1>4, <1>5, <1>6, FS_Subset

\* Its space is a natural.
LEMMA SpaceTyped ==
    ASSUME BookkeepingAssumption, system \in Systems, NEW s \in Subs
    PROVE  Space(s) \in Nat
<1> DEFINE A == CountedFragments(s)
           f == [x \in A |-> system.size[x[1]]]
           B == {p \in Senders : system.sub[p] = s /\ system.ids[p] = {}}
<1>1. IsFiniteSet(A) /\ A \in SUBSET (Readers \X Nat)
  BY CountedTyped
<1>2. \A p \in Readers : system.size[p] \in Nat
  BY SystemFacts
<1>3. SumFunction(f) \in Nat
  <2>1. \A x \in A : f[x] \in Nat
    BY <1>1, <1>2
  <2>2. DOMAIN f = A
    OBVIOUS
  <2> HIDE DEF f, A
  <2> QED
    BY <1>1, <2>1, <2>2, SumNat DEF SumFunction
<1>4. SumFunctionOnSet(system.size, B) \in Nat
  <2>1. B \subseteq Readers /\ B \subseteq Procs /\ IsFiniteSet(Procs)
    BY SystemFacts DEF Senders, Readers
  <2> HIDE DEF B
  <2>2. IsFiniteSet(B)
    BY <2>1, FS_Subset
  <2>3. \A p \in B : system.size[p] \in Nat
    BY <1>2, <2>1
  <2> QED
    BY <2>2, <2>3, SumNat
<1> QED
  BY <1>3, <1>4 DEF Space

\* The sources as a graph, and the inflow when no source sends its data on whole.
Graph == [s \in Subs |-> Sources(s)]
Whole == [s \in Subs |-> TRUE]

\* With the counts of a stage typed, expected_fragments_per_event is what its
\* recursion says, and a natural: the recursion ends since there is no cycle.
LEMMA ExpectedSolves ==
    ASSUME BookkeepingAssumption, system \in Systems, SearchInv, pc \in Searched,
           \A s \in Subs : Sources(s) \subseteq Subs, \A s \in Subs : IsFiniteSet(fragments[s])
    PROVE  /\ Expected \in [Subs -> Nat]
           /\ \A s \in Subs : Expected[s] = Cardinality(fragments[s])
                                            + Inflow(Graph, system.fragmentMode, Expected, s)
<1> DEFINE h == [x \in Subs \X Nat |-> Cardinality(fragments[x[1]]) + x[2]]
           in(e, s) == Inflow(Graph, system.fragmentMode, e, s)
           Body(e) == [s \in Subs |-> Cardinality(fragments[s])
               + SumFunction([r \in Sources(s) |-> IF system.fragmentMode[r] THEN e[r] ELSE 1])]
<1>1. IsFiniteSet(Subs) /\ Graph \in [Subs -> SUBSET Subs] /\ Acyclic(Subs, Graph)
  BY SystemFacts, NoCycleLater DEF Graph
<1>2. \A s \in Subs : Cardinality(fragments[s]) \in Nat
  BY FS_CardinalityType
<1>3. h \in [Subs \X Nat -> Nat] /\ \A s \in Subs, n \in Nat : h[<<s, n>>] = Cardinality(fragments[s]) + n
  BY <1>2
<1>4. ASSUME NEW e, NEW s \in Subs
      PROVE  in(e, s) = SumFunction([r \in Sources(s) |-> IF system.fragmentMode[r] THEN e[r] ELSE 1])
  BY DEF Inflow, Graph
<1>5. ASSUME NEW e, NEW s \in Subs, \A r \in Sources(s) : e[r] \in Nat
      PROVE  in(e, s) \in Nat
  <2>1. IsFiniteSet(Graph[s]) /\ \A r \in Graph[s] : e[r] = e[r] /\ e[r] \in Nat
    BY <1>5, SystemFacts DEF Graph
  <2> QED
    BY <2>1, InflowSame
<1> HIDE DEF h
<1> DEFINE e == Solution(Subs, Graph, system.fragmentMode, h)
<1>6. Solves(Subs, Graph, system.fragmentMode, h, e)
  BY <1>1, <1>3, GraphRecursion
<1> HIDE DEF e
<1>7. e = Body(e)
  <2>0. e \in [Subs -> Nat] /\ \A s \in Subs : e[s] = h[<<s, in(e, s)>>]
    BY <1>6 DEF Solves
  <2>1. \A s \in Subs : e[s] = Cardinality(fragments[s]) + in(e, s)
    BY <1>3, <1>5, <2>0
  <2>2. \A s \in Subs : Body(e)[s] = Cardinality(fragments[s]) + in(e, s)
    BY <1>4
  <2>3. e = [s \in Subs |-> e[s]] /\ Body(e) = [s \in Subs |-> Body(e)[s]]
    BY <2>0
  <2> HIDE DEF Body, in
  <2> QED
    BY <2>1, <2>2, <2>3
<1>8. Expected = CHOOSE d : d = Body(d)
  BY DEF Expected
<1>9. Expected = Body(Expected)
  <2> HIDE DEF Body
  <2> QED
    BY <1>7, <1>8
<1>10. \A s \in Subs : Expected[s] = Cardinality(fragments[s]) + in(Expected, s)
  <2>1. \A s \in Subs : Body(Expected)[s] = Cardinality(fragments[s]) + in(Expected, s)
    BY <1>4
  <2> HIDE DEF Body, in
  <2> QED
    BY <1>9, <2>1
<1>11. Follows(Subs, Graph, system.fragmentMode, h, Expected)
  <2> SUFFICES ASSUME NEW s \in Subs, \A r \in Graph[s] : Expected[r] \in Nat
               PROVE  Expected[s] = h[<<s, in(Expected, s)>>]
    BY DEF Follows
  <2>1. in(Expected, s) \in Nat
    BY <1>5 DEF Graph
  <2> HIDE DEF in
  <2> QED
    BY <1>3, <1>10, <2>1
<1>12. \A s \in Subs : Expected[s] = e[s]
  BY <1>1, <1>6, <1>11, GraphUnique
<1>13. DOMAIN Expected = Subs /\ Expected = [s \in Subs |-> Expected[s]]
  BY <1>9
<1> QED
  BY <1>6, <1>10, <1>12, <1>13 DEF Solves

\* What the sources add to the size of an event of s, whole each time.
LEMMA SizeInflow ==
    ASSUME BookkeepingAssumption, system \in Systems,
           \A s \in Subs : Sources(s) \subseteq Subs, NEW e, NEW s \in Subs
    PROVE  /\ SumFunctionOnSet(e, Sources(s)) = Inflow(Graph, Whole, e, s)
           /\ (\A r \in Sources(s) : e[r] \in Nat) => Inflow(Graph, Whole, e, s) \in Nat
<1> DEFINE g == [r \in Graph[s] |-> IF Whole[r] THEN e[r] ELSE 1]
<1>1. IsFiniteSet(Sources(s)) /\ Graph[s] = Sources(s)
  BY SystemFacts DEF Graph
<1>2. DOMAIN g = Sources(s) /\ \A r \in Sources(s) : e[r] = g[r]
  BY <1>1 DEF Whole
<1>3. Inflow(Graph, Whole, e, s) = SumFunction(g)
  BY DEF Inflow
<1> HIDE DEF g
<1>4. SumFunctionOnSet(e, Sources(s)) = SumFunctionOnSet(g, Sources(s))
  BY <1>1, <1>2, SumSame
<1>5. (\A r \in Sources(s) : e[r] \in Nat) => SumFunctionOnSet(e, Sources(s)) \in Nat
  BY <1>1, SumNat
<1> QED
  BY <1>2, <1>3, <1>4, <1>5 DEF SumFunction

OwnSize(s) == IF system.advanced THEN Scaled(space[s]) ELSE space[s]
AtLeast(n) == IF n < 10240 THEN 10240 ELSE n

\* The size of what a subsystem reads itself is a natural, no less than its space.
LEMMA OwnSizeTyped ==
    ASSUME NEW s, space[s] \in Nat
    PROVE  OwnSize(s) \in Nat /\ OwnSize(s) >= space[s]
<1> DEFINE n == space[s]
           m == (11 * n) \div 10
<1>1. m \in Nat /\ m >= n
  OBVIOUS
<1>2. Scaled(n) = m + ((8 - (m % 8)) % 8)
  BY DEF Scaled
<1>3. (8 - (m % 8)) % 8 \in Nat
  <2> HIDE DEF m
  <2>1. m % 8 \in 0..7
    BY <1>1
  <2> QED
    BY <2>1
<1> HIDE DEF m
<1>4. Scaled(n) \in Nat /\ Scaled(n) >= n
  BY <1>1, <1>2, <1>3
<1> QED
  BY <1>4 DEF OwnSize

\* max_event_sizes is what its recursion says, and a natural.
LEMMA EventSizeSolves ==
    ASSUME BookkeepingAssumption, system \in Systems, SearchInv, pc \in Searched,
           \A s \in Subs : Sources(s) \subseteq Subs, space \in [Subs -> Nat]
    PROVE  /\ EventSize \in [Subs -> Nat]
           /\ \A s \in Subs :
                 EventSize[s] = AtLeast(OwnSize(s) + SumFunctionOnSet(EventSize, Sources(s)))
<1> DEFINE h == [x \in Subs \X Nat |-> AtLeast(OwnSize(x[1]) + x[2])]
           e == Solution(Subs, Graph, Whole, h)
           Body(d) == [s \in Subs |-> AtLeast(OwnSize(s) + SumFunctionOnSet(d, Sources(s)))]
<1>1. IsFiniteSet(Subs) /\ Graph \in [Subs -> SUBSET Subs] /\ Acyclic(Subs, Graph)
  BY SystemFacts, NoCycleLater DEF Graph
<1>2. \A s \in Subs : OwnSize(s) \in Nat
  BY OwnSizeTyped
<1>3. h \in [Subs \X Nat -> Nat] /\ \A s \in Subs, n \in Nat : h[<<s, n>>] = AtLeast(OwnSize(s) + n)
  BY <1>2 DEF AtLeast
<1> HIDE DEF h
<1>4. Solves(Subs, Graph, Whole, h, e)
  BY <1>1, <1>3, GraphRecursion
<1> HIDE DEF e
<1>5. e = Body(e)
  <2>1. e \in [Subs -> Nat] /\ \A s \in Subs : e[s] = h[<<s, Inflow(Graph, Whole, e, s)>>]
    BY <1>4 DEF Solves
  <2>2. \A s \in Subs : e[s] = AtLeast(OwnSize(s) + SumFunctionOnSet(e, Sources(s)))
    <3> SUFFICES ASSUME NEW s \in Subs
                 PROVE  e[s] = AtLeast(OwnSize(s) + SumFunctionOnSet(e, Sources(s)))
      OBVIOUS
    <3>1. \A r \in Sources(s) : e[r] \in Nat
      BY <2>1
    <3>2. /\ SumFunctionOnSet(e, Sources(s)) = Inflow(Graph, Whole, e, s)
          /\ Inflow(Graph, Whole, e, s) \in Nat
      BY <3>1, SizeInflow
    <3> QED
      BY <1>3, <2>1, <3>2
  <2>3. e = [s \in Subs |-> e[s]]
    BY <2>1
  <2> QED
    BY <2>2, <2>3
<1>6. EventSize = CHOOSE d : d = Body(d)
  BY DEF EventSize, AtLeast, OwnSize
<1>7. EventSize = Body(EventSize)
  <2> HIDE DEF Body
  <2> QED
    BY <1>5, <1>6
<1>8. /\ DOMAIN EventSize = Subs /\ EventSize = [s \in Subs |-> EventSize[s]]
      /\ \A s \in Subs :
            EventSize[s] = AtLeast(OwnSize(s) + SumFunctionOnSet(EventSize, Sources(s)))
  <2> DEFINE z == EventSize
  <2>1. z = Body(z)
    BY <1>7
  <2> HIDE DEF z
  <2>2. /\ DOMAIN z = Subs /\ z = [s \in Subs |-> z[s]]
        /\ \A s \in Subs : z[s] = AtLeast(OwnSize(s) + SumFunctionOnSet(z, Sources(s)))
    BY <2>1
  <2> QED
    BY <2>2 DEF z
<1>9. Follows(Subs, Graph, Whole, h, EventSize)
  <2> SUFFICES ASSUME NEW s \in Subs, \A r \in Graph[s] : EventSize[r] \in Nat
               PROVE  EventSize[s] = h[<<s, Inflow(Graph, Whole, EventSize, s)>>]
    BY DEF Follows
  <2>1. /\ SumFunctionOnSet(EventSize, Sources(s)) = Inflow(Graph, Whole, EventSize, s)
        /\ Inflow(Graph, Whole, EventSize, s) \in Nat
    BY SizeInflow DEF Graph
  <2> QED
    BY <1>3, <1>8, <2>1
<1>10. \A s \in Subs : EventSize[s] = e[s]
  BY <1>1, <1>4, <1>9, GraphUnique
<1> QED
  BY <1>4, <1>8, <1>10 DEF Solves

\* Nothing but its stage writes a count or a size.
LEMMA OutsideSizes ==
    ASSUME [Next]_vars, ~CountFragments, ~Expect
    PROVE  /\ UNCHANGED <<system, fragments, space, expected, eventSize>>
           /\ Counted' => Counted
           /\ Worked' => Worked
BY DEF Next, vars, sizes, CheckBootInfo, SearchFrom, Descend, FindCycle, Return, NoCycle,
       CheckDFOs, FillTable, NextTables, AssignPorts, InitCounts, PortsDone, RoutesDone,
       RouteTables, Goto, Raise, Counted, Worked, Searched

\* The stages keep the invariant of the counts and sizes.
LEMMA SizesStep ==
    ASSUME BookkeepingAssumption, system \in Systems, SearchInv, SizesInv, [Next]_vars
    PROVE  SizesInv'
<1>1. CASE ~CountFragments /\ ~Expect
  <2>1. /\ UNCHANGED <<system, fragments, space, expected, eventSize>>
        /\ Counted' => Counted
        /\ Worked' => Worked
    BY <1>1, OutsideSizes
  <2>2. /\ UNCHANGED <<Subs, Readers, Expected, EventSize>>
        /\ \A s : UNCHANGED <<Sources(s), CountedFragments(s), Space(s)>>
    BY <2>1 DEF Subs, Readers, Expected, EventSize, Sources, CountedFragments, Space, Senders,
                Group, Before, Procs
  <2> QED
    BY <2>1, <2>2 DEF SizesInv
<1>2. CASE CountFragments
  <2>1. /\ UNCHANGED <<system, expected, eventSize>> /\ pc' = "search"
        /\ fragments' = [s \in Subs |-> CountedFragments(s)]
        /\ space' = [s \in Subs |-> Space(s)]
    BY <1>2 DEF CountFragments, Goto
  <2>2. /\ UNCHANGED <<Subs, Readers>>
        /\ \A s : UNCHANGED <<Sources(s), CountedFragments(s), Space(s)>>
    <3>1. UNCHANGED <<Subs, Readers>> /\ \A s : UNCHANGED Sources(s)
      BY <2>1 DEF Subs, Readers, Sources, Procs
    <3>2. UNCHANGED Senders /\ \A s, type : UNCHANGED Group(s, type)
      BY <2>1 DEF Readers, Senders, Group, Procs
    <3>3. \A p, q : Before(p, q)' <=> Before(p, q)
      BY <2>1 DEF Before
    <3>4. \A s : UNCHANGED CountedFragments(s)
      BY <2>1, <3>2, <3>3 DEF CountedFragments
    <3>5. \A s : UNCHANGED Space(s)
      BY <2>1, <3>2, <3>4 DEF Space
    <3> QED
      BY <3>1, <3>4, <3>5
  <2>3. \A s \in Subs : CountedFragments(s) \in SUBSET (Readers \X Nat)
                        /\ IsFiniteSet(CountedFragments(s)) /\ Space(s) \in Nat
    BY CountedTyped, SpaceTyped
  <2>4. fragments' \in [Subs -> SUBSET (Readers \X Nat)] /\ space' \in [Subs -> Nat]
        /\ \A s \in Subs : IsFiniteSet(fragments'[s])
    BY <2>1, <2>3
  <2>5. ~Worked'
    BY <2>1 DEF Worked, Searched
  <2>6. fragments' = [s \in Subs' |-> CountedFragments(s)']
        /\ space' = [s \in Subs' |-> Space(s)']
    BY <2>1, <2>2
  <2> QED
    BY <2>1, <2>2, <2>4, <2>5, <2>6 DEF SizesInv
<1>3. CASE Expect
  <2>1. /\ UNCHANGED <<system, fragments, space>> /\ pc = "expect" /\ Counted
    BY <1>3 DEF Expect, Counted, Searched
  <2>2. /\ UNCHANGED <<Subs, Readers, Expected, EventSize>>
        /\ \A s : UNCHANGED <<Sources(s), CountedFragments(s), Space(s)>>
    BY <2>1 DEF Subs, Readers, Expected, EventSize, Sources, CountedFragments, Space, Senders,
                Group, Before, Procs
  <2>3. CASE \E s \in Subs : Sources(s) \ Subs # {}
    <3>1. UNCHANGED <<expected, eventSize>> /\ pc' = "raised"
      BY <1>3, <2>3 DEF Expect, Raise
    <3>2. ~Worked'
      BY <3>1 DEF Worked, Searched
    <3> QED
      BY <2>1, <2>2, <3>1, <3>2 DEF SizesInv
  <2>4. CASE \A s \in Subs : Sources(s) \subseteq Subs
    <3>1. expected' = Expected /\ eventSize' = EventSize
      BY <1>3, <2>4 DEF Expect
    <3>2. Expected \in [Subs -> Nat] /\ EventSize \in [Subs -> Nat]
      BY <2>1, <2>4, ExpectedSolves, EventSizeSolves DEF SizesInv, Searched
    <3> QED
      BY <2>1, <2>2, <2>4, <3>1, <3>2 DEF SizesInv
  <2> QED
    BY <2>3, <2>4
<1> QED
  BY <1>1, <1>2, <1>3

\* At boot they are empty and 0.
LEMMA SizesInit == Init => SizesInv
<1> SUFFICES ASSUME Init PROVE SizesInv
  OBVIOUS
<1>1. /\ fragments = [s \in Subs |-> {}] /\ space = [s \in Subs |-> 0]
      /\ expected = [s \in Subs |-> 0] /\ eventSize = [s \in Subs |-> 0]
      /\ ~Counted /\ ~Worked
  BY DEF Init, Counted, Worked, Searched
<1> QED
  BY <1>1, FS_EmptySet DEF SizesInv

-----------------------------------------------------------------------------
(* The order of the processes, and the places of the tables in a document *)

\* Procinfo.__lt__ orders the processes: of two, one comes before the other.
LEMMA BeforeOrder ==
    ASSUME BookkeepingAssumption, system \in Systems, NEW p \in Procs, NEW q \in Procs
    PROVE  /\ p # q => Before(p, q) \/ Before(q, p)
           /\ ~(Before(p, q) /\ Before(q, p))
           /\ ~Before(p, p)
           /\ \A r \in Procs : Before(p, q) /\ Before(q, r) => Before(p, r)
<1> DEFINE place(x) == Place[system.type[x]]
<1>1. \A x \in Procs : x \in Nat /\ system.type[x] \in Types
  BY SystemFacts
<1>2. \A x, y \in Procs : /\ place(x) \in Nat
                          /\ system.type[x] # system.type[y] => place(x) # place(y)
  BY <1>1 DEF Place, Types
<1>3. \A x, y \in Procs : Before(x, y) <=> \/ place(x) < place(y)
                                           \/ system.type[x] = system.type[y] /\ x < y
  BY DEF Before
<1>4. \A x, y \in Procs : system.type[x] = system.type[y] => place(x) = place(y)
  OBVIOUS
<1> HIDE DEF place
<1> QED
  BY <1>1, <1>2, <1>3, <1>4

\* The first of some processes is one of them, and before the others.
LEMMA FirstBefore ==
    ASSUME BookkeepingAssumption, system \in Systems, NEW ps \in SUBSET Procs, ps # {}
    PROVE  First(ps) \in ps /\ \A q \in ps \ {First(ps)} : Before(First(ps), q)
<1> DEFINE place(x) == Place[system.type[x]]
           places == {place(x) : x \in ps}
           Lowest(m) == {x \in ps : place(x) = m}
<1>1. \A x \in Procs : x \in Nat /\ system.type[x] \in Types
  BY SystemFacts
<1>2. \A x \in Procs : place(x) \in Nat
  BY <1>1 DEF Place, Types
<1>3. places \subseteq Nat /\ places # {}
  BY <1>2
<1>4. PICK m \in places : \A n \in places : m <= n
  <2> HIDE DEF places
  <2> QED
    BY <1>3, LeastNat
<1>5. Lowest(m) \subseteq Nat /\ Lowest(m) # {}
  BY <1>1
<1>6. PICK f \in Lowest(m) : \A x \in Lowest(m) : f <= x
  <2> HIDE DEF Lowest
  <2> QED
    BY <1>5, LeastNat
<1>7. ASSUME NEW q \in ps \ {f} PROVE Before(f, q)
  <2>1. place(f) <= place(q) /\ place(f) \in Nat /\ place(q) \in Nat /\ f \in Nat /\ q \in Nat
    BY <1>1, <1>2, <1>4
  <2>2. CASE place(f) = place(q)
    <3>1. system.type[f] = system.type[q]
      BY <1>1, <2>2 DEF Place, Types
    <3>2. f <= q
      BY <1>6, <2>2
    <3> QED
      BY <2>1, <3>1, <3>2 DEF Before
  <2>3. CASE place(f) # place(q)
    <3>1. place(f) < place(q)
      BY <2>1, <2>3
    <3> QED
      BY <3>1 DEF Before
  <2> QED
    BY <2>2, <2>3
<1>8. \E x \in ps : \A q \in ps \ {x} : Before(x, q)
  BY <1>7
<1> QED
  BY <1>8 DEF First

\* g has the places where the first n tables of a document start.
Starts(doc, n, g) ==
    g = [k \in 1..n |-> doc[k].gap + IF k = 1 THEN 0 ELSE g[k-1] + doc[k-1].length]

\* Start is such a function's value.
LEMMA StartUnfolded == \A doc, j : Start(doc, j) = (CHOOSE g : Starts(doc, j, g))[j]
BY DEF Start, Starts

\* There is one, though it is worked out table by table.
LEMMA StartsExist ==
    ASSUME NEW doc, NEW n \in Nat
    PROVE  \E g : Starts(doc, n, g)
<1> DEFINE Bad == {m \in Nat : ~\E g : Starts(doc, m, g)}
<1> SUFFICES ASSUME Bad # {} PROVE FALSE
  OBVIOUS
<1>1. PICK m \in Bad : \A l \in Bad : m <= l
  <2>1. Bad \subseteq Nat
    OBVIOUS
  <2> HIDE DEF Bad
  <2> QED
    BY <2>1, LeastNat
<1>2. CASE m = 0
  <2>1. Starts(doc, 0, [k \in 1..0 |-> 0])
    BY DEF Starts
  <2> QED
    BY <1>1, <1>2, <2>1
<1>3. CASE m # 0
  <2>1. m - 1 \in Nat /\ m - 1 \notin Bad /\ m \in Nat
    BY <1>1, <1>3
  <2>2. PICK g : Starts(doc, m - 1, g)
    BY <2>1
  <2> DEFINE h == [k \in 1..m |-> doc[k].gap + IF k = 1 THEN 0 ELSE g[k-1] + doc[k-1].length]
  <2>3. ASSUME NEW k \in 1..m, k # m PROVE h[k] = g[k]
    <3>1. k \in 1..(m - 1)
      BY <2>1, <2>3
    <3>2. g[k] = doc[k].gap + IF k = 1 THEN 0 ELSE g[k-1] + doc[k-1].length
      BY <2>2, <3>1 DEF Starts
    <3> QED
      BY <3>2
  <2>4. \A k \in 1..m : h[k] = doc[k].gap + IF k = 1 THEN 0 ELSE h[k-1] + doc[k-1].length
    <3> SUFFICES ASSUME NEW k \in 1..m
                 PROVE  h[k] = doc[k].gap + IF k = 1 THEN 0 ELSE h[k-1] + doc[k-1].length
      OBVIOUS
    <3>1. CASE k = 1
      BY <3>1
    <3>2. CASE k # 1
      <4>1. k - 1 \in 1..m /\ k - 1 # m
        BY <2>1, <3>2
      <4>2. h[k-1] = g[k-1]
        BY <2>3, <4>1
      <4>3. h[k] = doc[k].gap + (g[k-1] + doc[k-1].length)
        BY <3>2
      <4> QED
        BY <3>2, <4>2, <4>3
    <3> QED
      BY <3>1, <3>2
  <2>5. h = [k \in 1..m |-> h[k]]
    OBVIOUS
  <2> HIDE DEF h
  <2>6. Starts(doc, m, h)
    BY <2>4, <2>5 DEF Starts
  <2> QED
    BY <1>1, <2>6
<1> QED
  BY <1>2, <1>3

\* Tables of naturals.
Sized(doc, n) == \A k \in 1..n : doc[k].gap \in Nat /\ doc[k].length \in Nat

\* Two of them agree where both know, and have naturals.
LEMMA StartsAgree ==
    ASSUME NEW doc, NEW n \in Nat, NEW m \in 0..n, NEW g, NEW h, Sized(doc, n),
           Starts(doc, n, g), Starts(doc, m, h), NEW k \in 1..m
    PROVE  g[k] = h[k] /\ g[k] \in Nat
<1> DEFINE Bad == {i \in 1..m : ~(g[i] = h[i] /\ g[i] \in Nat)}
<1> SUFFICES ASSUME Bad # {} PROVE FALSE
  OBVIOUS
<1>1. PICK i \in Bad : \A l \in Bad : i <= l
  <2>1. Bad \subseteq Nat
    OBVIOUS
  <2> HIDE DEF Bad
  <2> QED
    BY <2>1, LeastNat
<1>2. /\ g[i] = doc[i].gap + IF i = 1 THEN 0 ELSE g[i-1] + doc[i-1].length
      /\ h[i] = doc[i].gap + IF i = 1 THEN 0 ELSE h[i-1] + doc[i-1].length
  <2>1. i \in 1..m
    OBVIOUS
  <2> HIDE DEF Bad
  <2>2. i \in 1..n
    BY <2>1
  <2>3. g[i] = doc[i].gap + IF i = 1 THEN 0 ELSE g[i-1] + doc[i-1].length
    BY <2>2 DEF Starts
  <2>4. h[i] = doc[i].gap + IF i = 1 THEN 0 ELSE h[i-1] + doc[i-1].length
    BY <2>1 DEF Starts
  <2> QED
    BY <2>3, <2>4
<1>3. doc[i].gap \in Nat
  <2>1. i \in 1..m
    BY <1>1
  <2> HIDE DEF Bad
  <2>2. i \in 1..n
    BY <2>1
  <2> QED
    BY <2>2 DEF Sized
<1>4. CASE i = 1
  <2>1. g[i] = doc[i].gap + 0 /\ h[i] = doc[i].gap + 0
    BY <1>2, <1>4
  <2> QED
    BY <1>1, <1>3, <2>1
<1>5. CASE i # 1
  <2>1. i - 1 \in 1..m /\ i - 1 \notin Bad
    BY <1>1, <1>5
  <2>2. g[i-1] = h[i-1] /\ g[i-1] \in Nat
    BY <2>1
  <2>3. doc[i-1].length \in Nat
    BY <2>1 DEF Sized
  <2>4. g[i] = doc[i].gap + (g[i-1] + doc[i-1].length) /\ h[i] = doc[i].gap + (h[i-1] + doc[i-1].length)
    BY <1>2, <1>5
  <2> QED
    BY <1>1, <1>3, <2>2, <2>3, <2>4
<1> QED
  BY <1>4, <1>5

\* Where a table starts is worked out from where the one before it ends.
LEMMA StartEquation ==
    ASSUME NEW doc, NEW n \in Nat, Sized(doc, n), NEW j \in 1..n
    PROVE  /\ Start(doc, j) \in Nat
           /\ Start(doc, j) =
                 doc[j].gap + IF j = 1 THEN 0 ELSE Start(doc, j - 1) + doc[j - 1].length
<1>1. PICK g : Starts(doc, n, g)
  BY StartsExist
<1>2. ASSUME NEW i \in 1..n PROVE Start(doc, i) = g[i] /\ g[i] \in Nat
  <2> DEFINE h == CHOOSE h : Starts(doc, i, h)
  <2>1. i \in Nat /\ i \in 0..n /\ i \in 1..i
    OBVIOUS
  <2>2. \E h0 : Starts(doc, i, h0)
    BY <2>1, StartsExist
  <2>3. Starts(doc, i, h) /\ Start(doc, i) = h[i]
    BY <2>2, StartUnfolded
  <2> HIDE DEF h
  <2> QED
    BY <1>1, <2>1, <2>3, StartsAgree
<1>3. g[j] = doc[j].gap + IF j = 1 THEN 0 ELSE g[j-1] + doc[j-1].length
  BY <1>1 DEF Starts
<1>4. CASE j = 1
  BY <1>2, <1>3, <1>4
<1>5. CASE j # 1
  <2>1. j - 1 \in 1..n
    BY <1>5
  <2> QED
    BY <1>2, <1>3, <1>5, <2>1
<1> QED
  BY <1>4, <1>5

\* A later table starts after an earlier one ends.
LEMMA StartAfter ==
    ASSUME NEW doc, NEW n \in Nat, Sized(doc, n), NEW i \in 1..n, NEW j \in 1..n, i < j
    PROVE  Start(doc, j) >= Start(doc, i) + doc[i].length
<1> DEFINE Bad == {k \in (i + 1)..n : ~(Start(doc, k) >= Start(doc, i) + doc[i].length)}
<1> SUFFICES ASSUME Bad # {} PROVE FALSE
  <2>1. j \in (i + 1)..n
    OBVIOUS
  <2> QED
    BY <2>1
<1>1. PICK k \in Bad : \A l \in Bad : k <= l
  <2>1. Bad \subseteq Nat
    OBVIOUS
  <2> HIDE DEF Bad
  <2> QED
    BY <2>1, LeastNat
<1>2. k \in 1..n /\ k # 1 /\ k - 1 \in 1..n
  BY <1>1
<1>3. Start(doc, k) = doc[k].gap + (Start(doc, k - 1) + doc[k - 1].length)
  BY <1>2, StartEquation
<1>4. /\ doc[k].gap \in Nat /\ doc[k - 1].length \in Nat /\ doc[i].length \in Nat
      /\ Start(doc, k - 1) \in Nat /\ Start(doc, i) \in Nat
  BY <1>2, StartEquation DEF Sized
<1>5. CASE k = i + 1
  <2>1. k - 1 = i
    BY <1>5
  <2> QED
    BY <1>1, <1>3, <1>4, <2>1
<1>6. CASE k # i + 1
  <2>1. k - 1 \in (i + 1)..n /\ k - 1 \notin Bad
    BY <1>1, <1>6
  <2> QED
    BY <1>1, <1>3, <1>4, <2>1
<1> QED
  BY <1>5, <1>6

\* Where a table starts depends on what is before it only.
LEMMA StartSame ==
    ASSUME NEW doc, NEW new, NEW n \in Nat, Sized(doc, n), Sized(new, n), NEW j \in 1..n,
           \A k \in 1..n : new[k].gap = doc[k].gap,
           \A k \in 1..n : k < j => new[k].length = doc[k].length
    PROVE  \A k \in 1..j : Start(new, k) = Start(doc, k)
<1> DEFINE Bad == {k \in 1..j : Start(new, k) # Start(doc, k)}
<1> SUFFICES ASSUME Bad # {} PROVE FALSE
  OBVIOUS
<1>1. PICK k \in Bad : \A l \in Bad : k <= l
  <2>1. Bad \subseteq Nat
    OBVIOUS
  <2> HIDE DEF Bad
  <2> QED
    BY <2>1, LeastNat
<1>2. k \in 1..n /\ new[k].gap = doc[k].gap
  BY <1>1
<1>3. /\ Start(doc, k) = doc[k].gap + IF k = 1 THEN 0 ELSE Start(doc, k - 1) + doc[k - 1].length
      /\ Start(new, k) = new[k].gap + IF k = 1 THEN 0 ELSE Start(new, k - 1) + new[k - 1].length
  BY <1>2, StartEquation
<1>4. CASE k = 1
  BY <1>1, <1>2, <1>3, <1>4
<1>5. CASE k # 1
  <2>1. k - 1 \in 1..j /\ k - 1 \notin Bad /\ k - 1 \in 1..n /\ k - 1 < j
    BY <1>1, <1>5
  <2>2. Start(new, k - 1) = Start(doc, k - 1) /\ new[k - 1].length = doc[k - 1].length
    BY <2>1
  <2> QED
    BY <1>1, <1>2, <1>3, <1>5, <2>2
<1> QED
  BY <1>4, <1>5

-----------------------------------------------------------------------------
(* The filling of the tables *)

Node == [node: Procs, words: Nat]
Table == [name: {"sources", "destinations"}, within: STRING, gap: Nat, length: Nat,
          nodes: SUBSET Node, filled: BOOLEAN]

\* A table stays where it was put; when filled it has its nodes and their length,
\* and until then none.
OfBootFile(p, j) ==
    /\ docs[p][j].name = system.docs[p][j].name
    /\ docs[p][j].within = system.docs[p][j].within
FilledRight(p, j) ==
    IF docs[p][j].filled
    THEN /\ docs[p][j].within # "message"
         /\ docs[p][j].nodes = Nodes(p, docs[p][j])
         /\ docs[p][j].length = 1 + Cardinality(Nodes(p, docs[p][j]))
    ELSE docs[p][j].nodes = {} /\ docs[p][j].length = 1

Ready(t) == t.filled \/ t.within = "message"
ReadyBefore(p, name, from) ==
    \A j \in DOMAIN docs[p] :
        docs[p][j].name = name /\ Start(docs[p], j) < from => Ready(docs[p][j])
AllReady(p, name) == \A j \in DOMAIN docs[p] : docs[p][j].name = name => Ready(docs[p][j])

Early == {"boot", "count", "search", "expect", "sanity"}

\* The loop has come to at: it is done with the processes before that one, with
\* the sources before the destinations, and with the tables before the position.
Progress ==
    /\ pc \in Early => /\ at = [p |-> First(Procs), name |-> "sources", from |-> 0]
                       /\ \A p \in Procs : \A j \in DOMAIN docs[p] : ~docs[p][j].filled
    /\ pc = "tables" => /\ ReadyBefore(at.p, at.name, at.from)
                        /\ at.name = "destinations" => AllReady(at.p, "sources")
                        /\ \A q \in Procs : Before(q, at.p) =>
                              AllReady(q, "sources") /\ AllReady(q, "destinations")
    /\ Filled => \A q \in Procs : AllReady(q, "sources") /\ AllReady(q, "destinations")

TablesInv ==
    /\ docs \in [Procs -> Seq(Table)]
    /\ \A p \in Procs : Len(docs[p]) = Len(system.docs[p])
    /\ \A p \in Procs : \A j \in DOMAIN docs[p] : OfBootFile(p, j) /\ FilledRight(p, j)
    /\ at \in [p: Procs, name: {"sources", "destinations"}, from: Nat]
    /\ Progress

\* The nodes of a table are finitely many, and processes with a number of words.
LEMMA NodesTyped ==
    ASSUME BookkeepingAssumption, system \in Systems, eventSize \in [Subs -> Nat],
           NEW p \in Procs, NEW table
    PROVE  Nodes(p, table) \subseteq Node /\ IsFiniteSet(Nodes(p, table))
<1> DEFINE name == table.name
           Q == IF name = "sources" THEN SourceNodes(p)
                ELSE IF table.within \in Inter THEN InterNodes(p) ELSE OrdinaryNodes(p)
           f == [q \in Q |-> [node |-> q, words |-> Words(p, q, name)]]
<1>1. Q \subseteq Procs
  <2>1. SourceNodes(p) \subseteq Procs
    BY DEF SourceNodes, Group, Feeding
  <2>2. OrdinaryNodes(p) \subseteq Procs
    BY DEF OrdinaryNodes, Group
  <2>3. InterNodes(p) \subseteq Procs
    BY DEF InterNodes, Group
  <2> QED
    BY <2>1, <2>2, <2>3
<1>2. IsFiniteSet(Q)
  <2> HIDE DEF Q
  <2> QED
    BY <1>1, SystemFacts, FS_Subset
<1>3. Nodes(p, table) = {f[q] : q \in Q}
  BY DEF Nodes
<1>4. ASSUME NEW q \in Procs PROVE Words(p, q, name) \in Nat
  <2>1. /\ system.sub[p] \in Subs /\ system.sub[q] \in Subs /\ system.stated[p] \in Nat
        /\ \A r \in Readers : system.size[r] \in Nat
    BY SystemFacts
  <2>2. DocumentSize(p) \in Nat /\ eventSize[system.sub[q]] \in Nat
    BY <2>1 DEF DocumentSize
  <2> DEFINE n == IF system.type[p] = "BoardReader" THEN system.size[p]
                  ELSE IF system.type[p] # "EventBuilder" \/ name # "sources" THEN DocumentSize(p)
                  ELSE IF system.type[q] = "BoardReader" THEN system.size[q]
                  ELSE eventSize[system.sub[q]]
  <2>3. n \in Nat
    BY <2>1, <2>2 DEF Readers
  <2>4. Words(p, q, name) = n \div 8
    BY DEF Words
  <2> HIDE DEF n
  <2> QED
    BY <2>3, <2>4
<1>5. \A q \in Q : f[q] \in Node
  BY <1>1, <1>4 DEF Node
<1> HIDE DEF f, Q
<1> QED
  BY <1>2, <1>3, <1>5, ImageFinite

\* The least of the places that are found is one of them.
LEMMA LeastFound ==
    ASSUME NEW S, S \subseteq Nat, S # {}
    PROVE  Min(S) \in S /\ \A n \in S : Min(S) <= n
<1>1. \E m \in S : \A n \in S : m <= n
  BY LeastNat
<1> QED
  BY <1>1 DEF Min

\* Until a later stage, and but for the loop itself, no table is touched.
LEMMA OutsideTables ==
    ASSUME [Next]_vars, ~FillTable, ~NextTables
    PROVE  /\ UNCHANGED <<system, docs, at>>
           /\ pc' \in Early => pc \in Early
           /\ pc' = "tables" => pc = "tables" \/ pc = "sanity"
           /\ Filled' => Filled
           /\ eventSize' # eventSize => pc \in Early
BY DEF Next, vars, sizes, filling, CheckBootInfo, CountFragments, SearchFrom, Descend, FindCycle,
       Return, NoCycle, Expect, CheckDFOs, AssignPorts, InitCounts, PortsDone, RoutesDone,
       RouteTables, Goto, Raise, Early, Filled

\* The documents are those of the boot file at first.
LEMMA TablesInit ==
    ASSUME BookkeepingAssumption, Init
    PROVE  TablesInv
<1>1. /\ system \in Systems /\ docs = system.docs /\ pc = "boot"
      /\ at = [p |-> First(Procs), name |-> "sources", from |-> 0]
  BY DEF Init
<1>2. docs \in [Procs -> Seq(EmptyTable)]
  <2>1. IsSystem(system)
    BY <1>1 DEF BookkeepingAssumption
  <2> QED
    BY <1>1, <2>1 DEF IsSystem, Procs
<1>3. First(Procs) \in Procs
  BY <1>1, FirstBefore, SystemFacts
<1>4. EmptyTable \subseteq Table
  <2> SUFFICES ASSUME NEW t \in EmptyTable PROVE t \in Table
    OBVIOUS
  <2>1. t = [name |-> t.name, within |-> t.within, gap |-> t.gap, length |-> t.length,
             nodes |-> t.nodes, filled |-> t.filled]
    BY DEF EmptyTable
  <2>2. /\ t.name \in {"sources", "destinations"} /\ t.within \in STRING
        /\ t.gap \in Nat /\ t.length \in Nat
    BY DEF EmptyTable
  <2>3. t.nodes \in SUBSET Node
    BY DEF EmptyTable
  <2>4. t.filled \in BOOLEAN
    BY DEF EmptyTable
  <2> QED
    BY <2>1, <2>2, <2>3, <2>4 DEF Table
<1>5. docs \in [Procs -> Seq(Table)]
  BY <1>2, <1>4
<1>6. \A p \in Procs : \A j \in DOMAIN docs[p] : docs[p][j] \in EmptyTable
  BY <1>2
<1>7. \A p \in Procs : \A j \in DOMAIN docs[p] : OfBootFile(p, j) /\ FilledRight(p, j)
  BY <1>1, <1>6 DEF OfBootFile, FilledRight, EmptyTable
<1>8. \A p \in Procs : \A j \in DOMAIN docs[p] : ~docs[p][j].filled
  BY <1>6 DEF EmptyTable
<1>9. at \in [p: Procs, name: {"sources", "destinations"}, from: Nat]
  BY <1>1, <1>3
<1>10. Progress
  BY <1>1, <1>8 DEF Progress, Filled, Early
<1> QED
  BY <1>1, <1>5, <1>7, <1>9, <1>10 DEF TablesInv

\* The table of p at the place j, and what one turn of the loop makes of it.
Refilled(p, j) ==
    LET t == docs[p][j] IN
    IF t.within = "message" THEN t
    ELSE [t EXCEPT !.nodes = Nodes(p, t), !.filled = TRUE, !.length = 1 + Cardinality(Nodes(p, t))]

\* A refilled table is right, stays where it was and is no shorter than before.
LEMMA RefilledRight ==
    ASSUME BookkeepingAssumption, system \in Systems, eventSize \in [Subs -> Nat], TablesInv,
           NEW p \in Procs, NEW j \in DOMAIN docs[p]
    PROVE  /\ Refilled(p, j) \in Table
           /\ Refilled(p, j).name = docs[p][j].name
           /\ Refilled(p, j).within = docs[p][j].within
           /\ Refilled(p, j).gap = docs[p][j].gap
           /\ Ready(Refilled(p, j))
           /\ Refilled(p, j).length >= docs[p][j].length
           /\ docs[p][j].within # "message" =>
                 /\ Refilled(p, j).filled
                 /\ Refilled(p, j).nodes = Nodes(p, docs[p][j])
                 /\ Refilled(p, j).length = 1 + Cardinality(Nodes(p, docs[p][j]))
<1> DEFINE t == docs[p][j]
           N == Nodes(p, t)
           u == Refilled(p, j)
<1>1. t \in Table
  BY DEF TablesInv
<1>2. N \subseteq Node /\ IsFiniteSet(N)
  BY NodesTyped
<1>3. Cardinality(N) \in Nat
  BY <1>2, FS_CardinalityType
<1>4. IF t.filled THEN t.length = 1 + Cardinality(N) ELSE t.length = 1
  BY DEF TablesInv, FilledRight
<1>5. CASE t.within = "message"
  <2>1. u = t
    BY <1>5 DEF Refilled
  <2>2. t.length >= t.length
    BY <1>1 DEF Table
  <2> QED
    BY <1>1, <1>5, <2>1, <2>2 DEF Ready
<1>6. CASE t.within # "message"
  <2>1. u = [t EXCEPT !.nodes = N, !.filled = TRUE, !.length = 1 + Cardinality(N)]
    BY <1>6 DEF Refilled
  <2> HIDE DEF t, N, u
  <2>2. u = [name |-> t.name, within |-> t.within, gap |-> t.gap,
             length |-> 1 + Cardinality(N), nodes |-> N, filled |-> TRUE]
    BY <1>1, <2>1 DEF Table
  <2>3. u.name = t.name /\ u.within = t.within /\ u.gap = t.gap
    BY <2>2
  <2>4. u.nodes = N /\ u.length = 1 + Cardinality(N)
    BY <2>2
  <2>5. u.filled = TRUE
    BY <2>2
  <2>6. u \in Table
    <3>1. t.name \in {"sources", "destinations"} /\ t.within \in STRING /\ t.gap \in Nat
      BY <1>1 DEF Table
    <3>2. N \in SUBSET Node /\ 1 + Cardinality(N) \in Nat
      BY <1>2, <1>3
    <3>3. TRUE \in BOOLEAN
      OBVIOUS
    <3> QED
      BY <2>2, <3>1, <3>2, <3>3 DEF Table
  <2>7. u.length >= t.length
    BY <1>3, <1>4, <2>4
  <2>8. Ready(u)
    BY <2>5 DEF Ready
  <2> QED
    BY <2>3, <2>4, <2>5, <2>6, <2>7, <2>8 DEF t, N, u
<1> QED
  BY <1>5, <1>6

\* The tables of the name that the loop has still to come to.
Ahead == Found(docs[at.p], at.name, at.from)

\* One turn takes the first table ahead, changes no other, and leaves the position
\* where the text of that one ended.
LEMMA FillTableEffect ==
    ASSUME BookkeepingAssumption, system \in Systems, eventSize \in [Subs -> Nat], TablesInv,
           FillTable
    PROVE  LET p == at.p
               D == docs[p]
               E == docs'[p]
               j == Min(Ahead)
               u == Refilled(p, j)
               n == Len(D)
           IN  /\ Ahead # {} /\ Ahead \subseteq 1..n
               /\ \A k \in 1..n : k \in Ahead <=> D[k].name = at.name /\ Start(D, k) >= at.from
               /\ j \in Ahead /\ \A k \in Ahead : j <= k
               /\ D[j].name = at.name /\ Start(D, j) >= at.from
               /\ docs' \in [Procs -> Seq(Table)] /\ docs' = [docs EXCEPT ![p][j] = u]
               /\ DOMAIN E = 1..n /\ Len(E) = n
               /\ E[j] = u /\ \A k \in 1..n : k # j => E[k] = D[k]
               /\ \A q \in Procs : q # p => docs'[q] = docs[q]
               /\ at' = [at EXCEPT !.from = Start(D, j) + D[j].length]
               /\ at' \in [p: Procs, name: {"sources", "destinations"}, from: Nat]
<1> DEFINE p == at.p
           name == at.name
           D == docs[p]
           E == docs'[p]
           n == Len(D)
           found == Ahead
           j == Min(found)
           u == Refilled(p, j)
<1>1. /\ pc = "tables" /\ found # {}
      /\ UNCHANGED <<system, pc, eventSize>>
      /\ at' = [at EXCEPT !.from = Start(D, j) + D[j].length]
  BY DEF FillTable, sizes, Ahead
<1>2. docs' = IF D[j].within = "message" THEN docs
              ELSE [docs EXCEPT ![p][j] = [@ EXCEPT !.nodes = Nodes(p, D[j]), !.filled = TRUE,
                                           !.length = 1 + Cardinality(Nodes(p, D[j]))]]
  BY DEF FillTable, Ahead
<1>3. /\ p \in Procs /\ name \in {"sources", "destinations"} /\ at.from \in Nat
      /\ docs \in [Procs -> Seq(Table)] /\ D \in Seq(Table) /\ n \in Nat /\ DOMAIN D = 1..n
      /\ \A k \in 1..n : D[k] \in Table
  BY DEF TablesInv
<1>4. /\ found \subseteq 1..n
      /\ \A k \in 1..n : k \in found <=> D[k].name = name /\ Start(D, k) >= at.from
  BY <1>3 DEF Ahead, Found
<1>5. j \in found /\ \A k \in found : j <= k
  <2>1. found \subseteq Nat
    BY <1>3, <1>4
  <2> HIDE DEF found
  <2> QED
    BY <1>1, <2>1, LeastFound
<1>6. j \in 1..n /\ D[j].name = name /\ Start(D, j) >= at.from
  BY <1>4, <1>5
<1>7. /\ u \in Table
      /\ u.name = D[j].name /\ u.within = D[j].within /\ u.gap = D[j].gap
      /\ Ready(u) /\ u.length >= D[j].length
      /\ D[j].within # "message" =>
            /\ u.filled /\ u.nodes = Nodes(p, D[j])
            /\ u.length = 1 + Cardinality(Nodes(p, D[j]))
  <2>1. p \in Procs /\ j \in DOMAIN docs[p]
    BY <1>3, <1>6
  <2> HIDE DEF p, j
  <2> QED
    BY <2>1, RefilledRight
<1>8. docs' = [docs EXCEPT ![p][j] = u]
  <2>1. CASE D[j].within = "message"
    <3>1. u = docs[p][j]
      BY <2>1 DEF Refilled
    <3> HIDE DEF u, j
    <3>2. docs' = docs
      BY <1>2, <2>1
    <3>3. [docs EXCEPT ![p][j] = docs[p][j]] = docs
      BY <1>3, <1>6
    <3> QED
      BY <3>1, <3>2, <3>3
  <2>2. CASE D[j].within # "message"
    BY <1>2, <2>2 DEF Refilled
  <2> QED
    BY <2>1, <2>2
<1> HIDE DEF u, j, found
<1>9. /\ docs' \in [Procs -> Seq(Table)]
      /\ DOMAIN E = 1..n /\ Len(E) = n /\ E[j] = u /\ \A k \in 1..n : k # j => E[k] = D[k]
      /\ \A q \in Procs : q # p => docs'[q] = docs[q]
  <2>1. E = [D EXCEPT ![j] = u] /\ docs' = [docs EXCEPT ![p] = E]
    BY <1>3, <1>6, <1>8
  <2> DEFINE e == E
  <2> HIDE DEF e
  <2>2. e = [D EXCEPT ![j] = u]
    BY <2>1 DEF e
  <2>3. e \in Seq(Table)
    BY <1>3, <1>6, <1>7, <2>2
  <2>4. DOMAIN e = 1..n /\ Len(e) = n /\ e[j] = u /\ \A k \in 1..n : k # j => e[k] = D[k]
    BY <1>3, <1>6, <2>2, <2>3
  <2> QED
    BY <1>3, <2>1, <2>3, <2>4 DEF e
<1>10. at'.p = p /\ at'.name = name /\ at'.from = Start(D, j) + D[j].length
       /\ at' \in [p: Procs, name: {"sources", "destinations"}, from: Nat]
  <2>1. Sized(D, n)
    BY <1>3 DEF Sized, Table
  <2>2. Start(D, j) \in Nat /\ D[j].length \in Nat
    BY <1>3, <1>6, <2>1, StartEquation DEF Table
  <2>3. at \in [p: Procs, name: {"sources", "destinations"}, from: Nat]
    BY DEF TablesInv
  <2> QED
    BY <1>1, <2>2, <2>3
<1> QED
  BY <1>1, <1>4, <1>5, <1>6, <1>8, <1>9, <1>10 DEF u, j, found

\* One turn fills the first table of the name from the position on, and no table of
\* the name is left between the position and the next, however long it has grown.
LEMMA FillTableStep ==
    ASSUME BookkeepingAssumption, system \in Systems, eventSize \in [Subs -> Nat], TablesInv,
           FillTable
    PROVE  TablesInv'
<1> DEFINE p == at.p
           name == at.name
           D == docs[p]
           E == docs'[p]
           n == Len(D)
           found == Ahead
           j == Min(found)
           u == Refilled(p, j)
<1>1. /\ pc = "tables" /\ found # {}
      /\ UNCHANGED <<system, pc, eventSize>>
      /\ at' = [at EXCEPT !.from = Start(D, j) + D[j].length]
  BY DEF FillTable, sizes, Ahead
<1>2. docs' = IF D[j].within = "message" THEN docs
              ELSE [docs EXCEPT ![p][j] = [@ EXCEPT !.nodes = Nodes(p, D[j]), !.filled = TRUE,
                                           !.length = 1 + Cardinality(Nodes(p, D[j]))]]
  BY DEF FillTable, Ahead
<1>3. /\ p \in Procs /\ name \in {"sources", "destinations"} /\ at.from \in Nat
      /\ docs \in [Procs -> Seq(Table)] /\ D \in Seq(Table) /\ n \in Nat /\ DOMAIN D = 1..n
      /\ \A k \in 1..n : D[k] \in Table
  BY DEF TablesInv
<1>4. /\ found \subseteq 1..n
      /\ \A k \in 1..n : k \in found <=> D[k].name = name /\ Start(D, k) >= at.from
  BY FillTableEffect
<1>5. j \in found /\ \A k \in found : j <= k
  BY FillTableEffect
<1>6. j \in 1..n /\ D[j].name = name /\ Start(D, j) >= at.from
  BY <1>4, <1>5
<1>7. /\ u \in Table
      /\ u.name = D[j].name /\ u.within = D[j].within /\ u.gap = D[j].gap
      /\ Ready(u) /\ u.length >= D[j].length
      /\ D[j].within # "message" =>
            /\ u.filled /\ u.nodes = Nodes(p, D[j])
            /\ u.length = 1 + Cardinality(Nodes(p, D[j]))
  <2>1. p \in Procs /\ j \in DOMAIN docs[p]
    BY <1>3, <1>6
  <2> HIDE DEF p, j
  <2> QED
    BY <2>1, RefilledRight
<1>9. /\ docs' \in [Procs -> Seq(Table)]
      /\ DOMAIN E = 1..n /\ Len(E) = n /\ E[j] = u /\ \A k \in 1..n : k # j => E[k] = D[k]
      /\ \A q \in Procs : q # p => docs'[q] = docs[q]
  BY FillTableEffect
<1> HIDE DEF u, j, found
<1>10. at'.p = p /\ at'.name = name /\ at'.from = Start(D, j) + D[j].length
       /\ at' \in [p: Procs, name: {"sources", "destinations"}, from: Nat]
  <2>1. at' \in [p: Procs, name: {"sources", "destinations"}, from: Nat]
    BY FillTableEffect
  <2>2. at \in [p: Procs, name: {"sources", "destinations"}, from: Nat]
    BY DEF TablesInv
  <2> QED
    BY <1>1, <2>1, <2>2
<1>11. /\ UNCHANGED <<Procs, Subs, Node>> /\ Table' = Table
       /\ \A q, t : UNCHANGED <<Nodes(q, t), Before(q, t)>>
  BY <1>1 DEF Procs, Subs, Node, Table, Nodes, Before, SourceNodes, InterNodes, OrdinaryNodes,
              Words, DocumentSize, Group, Feeding, Destination, HasLoggers
<1>12. ASSUME NEW q \in Procs, NEW k \in DOMAIN docs'[q]
       PROVE  OfBootFile(q, k)' /\ FilledRight(q, k)'
  <2>1. CASE q = p /\ k = j
    <3>1. docs'[q][k] = u
      BY <1>9, <2>1
    <3>2. OfBootFile(q, k)'
      BY <1>1, <1>3, <1>6, <1>7, <2>1, <3>1 DEF OfBootFile, TablesInv
    <3>3. Nodes(p, u) = Nodes(p, D[j])
      BY <1>7 DEF Nodes
    <3>4. FilledRight(q, k)'
      <4>1. CASE D[j].within = "message"
        <5>1. docs'[p][j] = docs[p][j]
          BY <1>2, <4>1
        <5>2. FilledRight(p, j)
          BY <1>3, <1>6 DEF TablesInv
        <5> QED
          BY <1>11, <2>1, <5>1, <5>2 DEF FilledRight
      <4>2. CASE D[j].within # "message"
        BY <1>7, <1>11, <2>1, <3>1, <3>3, <4>2 DEF FilledRight
      <4> QED
        BY <4>1, <4>2
    <3> QED
      BY <3>2, <3>4
  <2>2. CASE ~(q = p /\ k = j)
    <3>1. docs'[q][k] = docs[q][k] /\ k \in DOMAIN docs[q]
      BY <1>3, <1>9, <2>2
    <3>2. OfBootFile(q, k) /\ FilledRight(q, k)
      BY <3>1 DEF TablesInv
    <3> QED
      BY <1>1, <1>11, <3>1, <3>2 DEF OfBootFile, FilledRight
  <2> QED
    BY <2>1, <2>2
<1>13. ASSUME NEW k \in 1..n, Ready(D[k]) PROVE Ready(E[k])
  BY <1>7, <1>9, <1>13
<1>14. ASSUME NEW q \in Procs, NEW m, AllReady(q, m) PROVE AllReady(q, m)'
  <2> SUFFICES ASSUME NEW k \in DOMAIN docs'[q], docs'[q][k].name = m
               PROVE  Ready(docs'[q][k])
    BY DEF AllReady, Ready
  <2>1. CASE q = p
    <3>1. k \in 1..n /\ D[k].name = m
      BY <1>7, <1>9, <2>1
    <3>2. Ready(D[k])
      BY <1>3, <1>14, <2>1, <3>1 DEF AllReady
    <3> QED
      BY <1>13, <2>1, <3>1, <3>2
  <2>2. CASE q # p
    BY <1>9, <1>14, <2>2 DEF AllReady
  <2> QED
    BY <2>1, <2>2
<1>15. ReadyBefore(at.p, at.name, at.from)'
  <2> SUFFICES ASSUME NEW k \in 1..n, E[k].name = name,
                      Start(E, k) < Start(D, j) + D[j].length
               PROVE  Ready(E[k])
    BY <1>9, <1>10 DEF ReadyBefore, Ready
  <2>1. Sized(D, n) /\ Sized(E, n) /\ \A i \in 1..n : E[i].gap = D[i].gap
    BY <1>3, <1>7, <1>9 DEF Sized, Table
  <2>2. \A i \in 1..j : Start(E, i) = Start(D, i)
    <3>1. \A i \in 1..n : i < j => E[i].length = D[i].length
      BY <1>9
    <3> QED
      BY <1>3, <1>6, <2>1, <3>1, StartSame
  <2>3. D[k].name = name
    BY <1>6, <1>7, <1>9
  <2>4. CASE k = j
    BY <1>7, <1>9, <2>4
  <2>5. CASE k < j
    <3>1. k \notin found /\ Start(D, k) \in Nat
      BY <1>5, <1>3, <1>6, <2>1, <2>5, StartEquation
    <3>2. Start(D, k) < at.from
      BY <1>3, <1>4, <2>3, <3>1
    <3>3. ReadyBefore(p, name, at.from)
      BY <1>1 DEF TablesInv, Progress
    <3>4. Ready(D[k])
      BY <1>3, <2>3, <3>2, <3>3 DEF ReadyBefore
    <3> QED
      BY <1>13, <3>4
  <2>6. CASE k > j
    <3>1. Start(E, k) >= Start(E, j) + E[j].length
      BY <1>3, <1>6, <2>1, <2>6, StartAfter
    <3>2. Start(E, j) = Start(D, j) /\ E[j].length >= D[j].length
      BY <1>6, <1>7, <1>9, <2>2
    <3>3. Start(E, k) \in Nat /\ Start(D, j) \in Nat /\ D[j].length \in Nat /\ E[j].length \in Nat
      BY <1>3, <1>6, <2>1, StartEquation DEF Sized
    <3> QED
      BY <3>1, <3>2, <3>3
  <2> QED
    BY <1>6, <2>4, <2>5, <2>6
<1>16. Progress'
  <2>1. pc' = "tables" /\ pc' \notin Early /\ ~Filled'
    BY <1>1 DEF Early, Filled
  <2>2. at'.name = "destinations" => AllReady(at.p, "sources")'
    <3>1. at.name = "destinations" => AllReady(p, "sources")
      BY <1>1 DEF TablesInv, Progress
    <3>2. ASSUME AllReady(p, "sources")
          PROVE  \A k \in DOMAIN docs'[p] : docs'[p][k].name = "sources" => Ready(docs'[p][k])
      <4> SUFFICES ASSUME NEW k \in 1..n, E[k].name = "sources" PROVE Ready(E[k])
        BY <1>9
      <4>1. D[k].name = "sources"
        BY <1>7, <1>9
      <4>2. Ready(D[k])
        BY <1>3, <3>2, <4>1 DEF AllReady
      <4> QED
        BY <1>13, <4>2
    <3> QED
      BY <1>10, <3>1, <3>2 DEF AllReady, Ready
  <2>3. ASSUME NEW q \in Procs', Before(q, at.p)'
        PROVE  AllReady(q, "sources")' /\ AllReady(q, "destinations")'
    <3>1. Before(q, at.p)' <=> Before(q, p)
      BY <1>1, <1>10 DEF Before
    <3>2. q \in Procs /\ AllReady(q, "sources") /\ AllReady(q, "destinations")
      BY <1>1, <1>11, <2>3, <3>1 DEF TablesInv, Progress
    <3> QED
      BY <1>14, <3>2
  <2> QED
    BY <1>15, <2>1, <2>2, <2>3 DEF Progress
<1>17. \A q \in Procs : Len(docs'[q]) = Len(system'.docs[q])
  BY <1>1, <1>9 DEF TablesInv
<1> QED
  BY <1>9, <1>10, <1>11, <1>12, <1>16, <1>17 DEF TablesInv

\* When no table of the name is left the loop goes on to the other name, then to
\* the next process, of which the ones before it are all done.
LEMMA NextTablesStep ==
    ASSUME BookkeepingAssumption, system \in Systems, TablesInv, NextTables
    PROVE  TablesInv'
<1> DEFINE rest == {q \in Procs : Before(at.p, q)}
<1>1. /\ pc = "tables" /\ Found(docs[at.p], at.name, at.from) = {}
      /\ UNCHANGED <<system, docs, eventSize>>
      /\ IF at.name = "sources"
         THEN at' = [at EXCEPT !.name = "destinations", !.from = 0] /\ pc' = "tables"
         ELSE IF rest # {}
         THEN at' = [p |-> First(rest), name |-> "sources", from |-> 0] /\ pc' = "tables"
         ELSE at' = at /\ pc' = "ports"
  BY DEF NextTables, sizes, Goto
<1>2. /\ at \in [p: Procs, name: {"sources", "destinations"}, from: Nat]
      /\ at.p \in Procs /\ at.name \in {"sources", "destinations"} /\ at.from \in Nat
      /\ docs \in [Procs -> Seq(Table)]
  BY DEF TablesInv
<1>3. UNCHANGED <<Procs, Subs, Table>>
      /\ \A q, t : UNCHANGED <<Nodes(q, t), Before(q, t)>>
  BY <1>1 DEF Procs, Subs, Node, Table, Nodes, Before, SourceNodes, InterNodes, OrdinaryNodes,
              Words, DocumentSize, Group, Feeding, Destination, HasLoggers
<1>4. /\ \A q, k : OfBootFile(q, k)' <=> OfBootFile(q, k)
      /\ \A q, k : FilledRight(q, k)' <=> FilledRight(q, k)
      /\ \A q, m : AllReady(q, m)' <=> AllReady(q, m)
  <2>1. \A q, k : OfBootFile(q, k)' <=> OfBootFile(q, k)
    BY <1>1 DEF OfBootFile
  <2>2. \A q, k : FilledRight(q, k)' <=> FilledRight(q, k)
    BY <1>1, <1>3 DEF FilledRight
  <2>3. \A q, m : AllReady(q, m)' <=> AllReady(q, m)
    BY <1>1 DEF AllReady, Ready
  <2> QED
    BY <2>1, <2>2, <2>3
<1>5. ASSUME NEW q \in Procs, NEW k \in DOMAIN docs[q] PROVE Start(docs[q], k) \in Nat
  <2> DEFINE n == Len(docs[q])
  <2>1. docs[q] \in Seq(Table) /\ n \in Nat /\ DOMAIN docs[q] = 1..n
    BY <1>2
  <2>2. Sized(docs[q], n)
    <3>1. \A i \in 1..n : docs[q][i] \in Table
      BY <2>1
    <3> HIDE DEF n
    <3> QED
      BY <3>1 DEF Sized, Table
  <2> HIDE DEF n
  <2> QED
    BY <2>1, <2>2, StartEquation
<1>6. AllReady(at.p, at.name)
  <2> SUFFICES ASSUME NEW k \in DOMAIN docs[at.p], docs[at.p][k].name = at.name
               PROVE  Ready(docs[at.p][k])
    BY DEF AllReady
  <2>1. ~(Start(docs[at.p], k) >= at.from)
    BY <1>1 DEF Found
  <2>2. Start(docs[at.p], k) < at.from
    BY <1>2, <1>5, <2>1
  <2>3. ReadyBefore(at.p, at.name, at.from)
    BY <1>1 DEF TablesInv, Progress
  <2> QED
    BY <2>2, <2>3 DEF ReadyBefore
<1>7. ASSUME NEW p \in Procs, NEW m PROVE ReadyBefore(p, m, 0)
  BY <1>5 DEF ReadyBefore
<1>8. /\ at.name = "destinations" => AllReady(at.p, "sources")
      /\ \A q \in Procs : Before(q, at.p) => AllReady(q, "sources") /\ AllReady(q, "destinations")
  BY <1>1 DEF TablesInv, Progress
<1>9. /\ at' \in [p: Procs, name: {"sources", "destinations"}, from: Nat]
      /\ Progress'
  <2>1. CASE at.name = "sources"
    <3>0. at' = [p |-> at.p, name |-> "destinations", from |-> 0] /\ pc' = "tables"
      BY <1>1, <1>2, <2>1
    <3>1. at'.p = at.p /\ at'.name = "destinations" /\ at'.from = 0 /\ pc' = "tables"
          /\ at' \in [p: Procs, name: {"sources", "destinations"}, from: Nat]
      BY <1>2, <3>0
    <3>2. ReadyBefore(at.p, at.name, at.from)'
      BY <1>1, <1>2, <1>7, <3>1 DEF ReadyBefore, Ready
    <3>3. AllReady(at.p, "sources")'
      BY <1>1, <1>6, <2>1, <3>1 DEF AllReady, Ready
    <3>4. \A q \in Procs' : Before(q, at.p)' => AllReady(q, "sources")' /\ AllReady(q, "destinations")'
      <4>1. \A q : Before(q, at.p)' <=> Before(q, at.p)
        BY <1>1, <3>1 DEF Before
      <4> QED
        BY <1>3, <1>4, <1>8, <4>1
    <3> QED
      BY <3>1, <3>2, <3>3, <3>4 DEF Progress, Early, Filled
  <2>2. CASE at.name = "destinations" /\ rest # {}
    <3> DEFINE f == First(rest)
    <3>1. rest \in SUBSET Procs
      OBVIOUS
    <3>2. f \in rest /\ \A q \in rest \ {f} : Before(f, q)
      BY <2>2, <3>1, FirstBefore
    <3>3. f \in Procs /\ Before(at.p, f)
      BY <3>2
    <3> HIDE DEF f
    <3>4. at'.p = f /\ at'.name = "sources" /\ at'.from = 0 /\ pc' = "tables"
          /\ at' \in [p: Procs, name: {"sources", "destinations"}, from: Nat]
      BY <1>1, <2>2, <3>3 DEF f
    <3>5. ReadyBefore(at.p, at.name, at.from)'
      BY <1>1, <1>7, <3>3, <3>4 DEF ReadyBefore, Ready
    <3>6. ASSUME NEW q \in Procs, Before(q, f)
          PROVE  AllReady(q, "sources") /\ AllReady(q, "destinations")
      <4>1. q \notin rest
        <5>1. q # f /\ ~Before(f, q)
          BY <3>3, <3>6, BeforeOrder
        <5> QED
          BY <3>2, <5>1
      <4>2. q = at.p \/ Before(q, at.p)
        BY <1>2, <4>1, BeforeOrder
      <4> QED
        BY <1>6, <1>8, <2>2, <4>2
    <3>7. \A q \in Procs' : Before(q, at.p)' => AllReady(q, "sources")' /\ AllReady(q, "destinations")'
      <4>1. \A q : Before(q, at.p)' <=> Before(q, f)
        BY <1>1, <3>4 DEF Before
      <4> QED
        BY <1>3, <1>4, <3>6, <4>1
    <3> QED
      BY <3>4, <3>5, <3>7 DEF Progress, Early, Filled
  <2>3. CASE at.name = "destinations" /\ rest = {}
    <3>1. at' = at /\ pc' = "ports"
      BY <1>1, <2>3
    <3>2. ASSUME NEW q \in Procs PROVE AllReady(q, "sources") /\ AllReady(q, "destinations")
      <4>1. q = at.p \/ Before(q, at.p)
        BY <1>2, <2>3, BeforeOrder
      <4> QED
        BY <1>6, <1>8, <2>3, <4>1
    <3> QED
      BY <1>2, <1>3, <1>4, <3>1, <3>2 DEF Progress, Early, Filled
  <2> QED
    BY <1>2, <2>1, <2>2, <2>3
<1> QED
  BY <1>1, <1>3, <1>4, <1>9 DEF TablesInv

\* The bookkeeping keeps the invariant of the tables: what they are filled from is
\* settled before the first is.
LEMMA TablesStep ==
    ASSUME BookkeepingAssumption, system \in Systems, eventSize \in [Subs -> Nat], TablesInv,
           [Next]_vars
    PROVE  TablesInv'
<1>1. CASE ~FillTable /\ ~NextTables
  <2>1. /\ UNCHANGED <<system, docs, at>>
        /\ pc' \in Early => pc \in Early
        /\ pc' = "tables" => pc = "tables" \/ pc = "sanity"
        /\ Filled' => Filled
        /\ eventSize' # eventSize => pc \in Early
    BY <1>1, OutsideTables
  <2>2. /\ UNCHANGED <<Procs, Subs, Table>>
        /\ \A q, r, k, m, n : UNCHANGED <<Before(q, r), OfBootFile(q, k), AllReady(q, m),
                                          ReadyBefore(q, m, n)>>
    BY <2>1 DEF Procs, Subs, Node, Table, Before, OfBootFile, AllReady, ReadyBefore, Ready
  <2>3. ASSUME NEW p \in Procs, NEW j \in DOMAIN docs[p], FilledRight(p, j)
        PROVE  FilledRight(p, j)'
    <3>1. CASE eventSize' = eventSize
      <4>1. \A q, t : UNCHANGED Nodes(q, t)
        BY <2>1, <3>1 DEF Procs, Subs, Nodes, SourceNodes, InterNodes, OrdinaryNodes,
                          Words, DocumentSize, Group, Feeding, Destination, HasLoggers
      <4> QED
        BY <2>1, <2>3, <4>1 DEF FilledRight
    <3>2. CASE eventSize' # eventSize
      <4>1. ~docs[p][j].filled
        BY <2>1, <3>2 DEF TablesInv, Progress
      <4> QED
        BY <2>1, <2>3, <4>1 DEF FilledRight
    <3> QED
      BY <3>1, <3>2
  <2>4. Progress'
    <3>1. pc' \in Early => /\ at' = [p |-> First(Procs), name |-> "sources", from |-> 0]
                           /\ \A p \in Procs : \A j \in DOMAIN docs[p] : ~docs[p][j].filled
      BY <2>1 DEF TablesInv, Progress
    <3>2. UNCHANGED First(Procs)
      BY <2>1 DEF First, Procs, Before
    <3>3. Filled' => \A q \in Procs : AllReady(q, "sources") /\ AllReady(q, "destinations")
      BY <2>1 DEF TablesInv, Progress
    <3>4. pc' = "tables" => /\ ReadyBefore(at.p, at.name, at.from)
                            /\ at.name = "destinations" => AllReady(at.p, "sources")
                            /\ \A q \in Procs : Before(q, at.p) =>
                                  AllReady(q, "sources") /\ AllReady(q, "destinations")
      <4>1. CASE pc = "tables"
        BY <4>1 DEF TablesInv, Progress
      <4>2. CASE pc = "sanity" /\ pc' = "tables"
        <5>1. at.p = First(Procs) /\ at.name = "sources" /\ at.from = 0
          BY <4>2 DEF TablesInv, Progress, Early
        <5>2. ReadyBefore(at.p, at.name, at.from)
          <6> SUFFICES ASSUME NEW k \in DOMAIN docs[at.p], Start(docs[at.p], k) < 0 PROVE FALSE
            BY <5>1 DEF ReadyBefore
          <6> DEFINE n == Len(docs[at.p])
          <6>0. docs[at.p] \in Seq(Table) /\ n \in Nat /\ DOMAIN docs[at.p] = 1..n
            BY DEF TablesInv
          <6>1. Sized(docs[at.p], n)
            <7>1. \A i \in 1..n : docs[at.p][i] \in Table
              BY <6>0
            <7> HIDE DEF n
            <7> QED
              BY <7>1 DEF Sized, Table
          <6> HIDE DEF n
          <6>2. Start(docs[at.p], k) \in Nat
            BY <6>0, <6>1, StartEquation
          <6> QED
            BY <6>2
        <5>3. \A q \in Procs : ~Before(q, at.p)
          <6>1. Procs # {}
            BY SystemFacts
          <6>2. \A q \in Procs \ {at.p} : Before(at.p, q)
            BY <5>1, <6>1, FirstBefore
          <6>3. at.p \in Procs
            BY DEF TablesInv
          <6> QED
            BY <6>2, <6>3, BeforeOrder
        <5> QED
          BY <5>1, <5>2, <5>3
      <4> QED
        BY <2>1, <4>1, <4>2
    <3>5. \A n, m : ReadyBefore(at.p, n, m)' <=> ReadyBefore(at.p, n, m)
      BY <2>1 DEF ReadyBefore, Ready
    <3>6. AllReady(at.p, "sources")' <=> AllReady(at.p, "sources")
      BY <2>1 DEF AllReady, Ready
    <3>7. \A q : Before(q, at.p)' <=> Before(q, at.p)
      BY <2>1 DEF Before
    <3>8. ReadyBefore(at.p, at.name, at.from)' <=> ReadyBefore(at.p, at.name, at.from)
      BY <2>1 DEF ReadyBefore, Ready
    <3>9. pc' \in Early => at' = [p |-> First(Procs)', name |-> "sources", from |-> 0]
      BY <3>1, <3>2
    <3> QED
      BY <2>1, <2>2, <3>1, <3>3, <3>4, <3>6, <3>7, <3>8, <3>9 DEF Progress
  <2>5. \A p \in Procs : \A j \in DOMAIN docs[p] : OfBootFile(p, j) /\ FilledRight(p, j)
    BY DEF TablesInv
  <2> QED
    BY <2>1, <2>2, <2>3, <2>4, <2>5 DEF TablesInv
<1> QED
  BY <1>1, FillTableStep, NextTablesStep

-----------------------------------------------------------------------------
(* The invariant *)

\* What is left of the types.
StagesInv ==
    /\ pc \in Stages
    /\ reason \in {"none", "boot", "cycle", "KeyError", "DFO", "routers"}
    /\ DOMAIN token \subseteq Subs \X Types
    /\ todo \subseteq Subs \union Procs
    /\ initCount \in [Procs -> Nat]

\* What a process waits for is a natural.
LEMMA IncomingTyped ==
    ASSUME BookkeepingAssumption, system \in Systems, NEW p
    PROVE  Incoming(p) \in Nat
<1>1. ASSUME NEW ps, ps \subseteq Procs PROVE FromSenders(ps, p) \in Nat
  <2> DEFINE S == {q \in ps : SendsViaRootNetOutput(q, p)}
  <2>1. S \subseteq Procs
    BY <1>1
  <2> HIDE DEF S
  <2>2. IsFiniteSet(S) /\ \A q \in S : system.analyzers[q] \in Nat
    BY <2>1, SystemFacts, FS_Subset
  <2>3. SumFunctionOnSet(system.analyzers, S) \in Nat
    BY <2>2, SumNat
  <2> QED
    BY <2>3 DEF FromSenders, S
<1>2. \A s, type : Group(s, type) \subseteq Procs
  BY DEF Group
<1>3. \A s : UNION {Group(r, "EventBuilder") : r \in Sources(s)} \subseteq Procs
  BY <1>2
<1> QED
  BY <1>1, <1>2, <1>3 DEF Incoming

\* Every stage goes on to a stage and keeps the types of what it writes.
LEMMA StagesStep ==
    ASSUME BookkeepingAssumption, system \in Systems, StagesInv, [Next]_vars
    PROVE  StagesInv' /\ system' = system
<1>1. system' = system
  BY DEF Next, vars, CheckBootInfo, CountFragments, SearchFrom, Descend, FindCycle, Return,
         NoCycle, Expect, CheckDFOs, FillTable, NextTables, AssignPorts, InitCounts, PortsDone,
         RoutesDone, RouteTables
<1>2. UNCHANGED <<Subs, Procs>>
  BY <1>1 DEF Subs, Procs
<1>3. pc' \in Stages /\ reason' \in {"none", "boot", "cycle", "KeyError", "DFO", "routers"}
  BY DEF Next, vars, CheckBootInfo, CountFragments, SearchFrom, Descend, FindCycle, Return,
         NoCycle, Expect, CheckDFOs, FillTable, NextTables, AssignPorts, InitCounts, PortsDone,
         RoutesDone, RouteTables, Goto, Raise, StagesInv, Stages
<1>4. DOMAIN token' \subseteq Subs \X Types
  <2>1. CASE \E s \in Subs : AssignPorts(s)
    <3>1. PICK s \in Subs : AssignPorts(s)
      BY <2>1
    <3> DEFINE targets == {Target(p) : p \in RoutersOf(s)}
    <3>2. RoutersOf(s) \subseteq Procs
      BY SystemFacts DEF RoutersOf, RoutingManagers
    <3>3. targets \subseteq Types
      BY <3>2, SystemFacts DEF Types
    <3>4. DOMAIN token' \subseteq DOMAIN token \union ({s} \X targets)
      BY <3>1 DEF AssignPorts
    <3> HIDE DEF targets
    <3> QED
      BY <3>3, <3>4 DEF StagesInv
  <2>2. CASE ~\E s \in Subs : AssignPorts(s)
    <3>1. token' = token
      BY <2>2 DEF Next, vars, routing, CheckBootInfo, CountFragments, SearchFrom, Descend,
             FindCycle, Return, NoCycle, Expect, CheckDFOs, FillTable, NextTables, InitCounts,
             PortsDone, RoutesDone, RouteTables
    <3> QED
      BY <3>1 DEF StagesInv
  <2> QED
    BY <2>1, <2>2
<1>5. todo' \subseteq Subs \union Procs
  BY DEF Next, vars, routing, CheckBootInfo, CountFragments, SearchFrom, Descend, FindCycle,
         Return, NoCycle, Expect, CheckDFOs, FillTable, NextTables, AssignPorts, InitCounts,
         PortsDone, RoutesDone, RouteTables, StagesInv
<1>6. initCount' \in [Procs -> Nat]
  <2>1. CASE \E s \in Subs : InitCounts(s)
    <3>1. PICK s \in Subs : InitCounts(s)
      BY <2>1
    <3>2. initCount' = [p \in Procs |->
             IF system.sub[p] = s THEN Incoming(First(Group(s, system.type[p]))) ELSE initCount[p]]
      BY <3>1 DEF InitCounts
    <3>3. \A p : Incoming(p) \in Nat
      BY IncomingTyped
    <3> QED
      BY <3>2, <3>3 DEF StagesInv
  <2>2. CASE ~\E s \in Subs : InitCounts(s)
    <3>1. initCount' = initCount
      BY <2>2 DEF Next, vars, routing, CheckBootInfo, CountFragments, SearchFrom, Descend,
             FindCycle, Return, NoCycle, Expect, CheckDFOs, FillTable, NextTables, AssignPorts,
             PortsDone, RoutesDone, RouteTables
    <3> QED
      BY <3>1 DEF StagesInv
  <2> QED
    BY <2>1, <2>2
<1> QED
  BY <1>1, <1>2, <1>3, <1>4, <1>5, <1>6 DEF StagesInv

\* The inductive invariant of the bookkeeping.
Booked ==
    /\ system \in Systems
    /\ SearchInv
    /\ SizesInv
    /\ TablesInv
    /\ StagesInv

\* It holds at boot.
LEMMA BookedInit == Init => Booked
<1> SUFFICES ASSUME Init PROVE Booked
  OBVIOUS
<1> USE BookkeepingAssumption
<1>1. StagesInv
  <2>1. pc = "boot" /\ reason = "none" /\ token = [k \in {} |-> 0] /\ todo = {}
        /\ initCount = [p \in Procs |-> 0]
    BY DEF Init
  <2>2. DOMAIN token = {}
    BY <2>1
  <2> QED
    BY <2>1, <2>2 DEF StagesInv, Stages
<1> QED
  BY <1>1, SearchInit, SizesInit, TablesInit DEF Booked, Init

\* Every step of the bookkeeping keeps it.
LEMMA BookedStep == Booked /\ [Next]_vars => Booked'
<1> SUFFICES ASSUME Booked, [Next]_vars PROVE Booked'
  OBVIOUS
<1>1. BookkeepingAssumption /\ system \in Systems /\ eventSize \in [Subs -> Nat]
  BY BookkeepingAssumption DEF Booked, SizesInv
<1>2. SearchInv'
  BY SearchStep DEF Booked
<1>3. SizesInv'
  BY <1>1, SizesStep DEF Booked
<1>4. TablesInv'
  BY <1>1, TablesStep DEF Booked
<1>5. StagesInv' /\ system' = system
  BY <1>1, StagesStep DEF Booked
<1> QED
  BY <1>1, <1>2, <1>3, <1>4, <1>5 DEF Booked

\* For every system that a boot file may describe the bookkeeping keeps its
\* invariant through all the stages.
THEOREM BookkeepingInvariant == Spec => []Booked
BY BookedInit, BookedStep, PTL DEF Spec

-----------------------------------------------------------------------------
(* What follows from it *)

\* Every variable of the bookkeeping keeps its shape through all the stages, for
\* every system.
THEOREM BookkeepingTyped == Spec => []TypeOK
<1>1. Booked => TypeOK
  <2> SUFFICES ASSUME Booked PROVE TypeOK
    OBVIOUS
  <2>1. /\ pc \in Stages
        /\ reason \in {"none", "boot", "cycle", "KeyError", "DFO", "routers"}
        /\ DOMAIN token \subseteq Subs \X Types /\ todo \subseteq Subs \union Procs
        /\ initCount \in [Procs -> Nat]
    BY DEF Booked, StagesInv
  <2>2. \A s \in Subs : fragments[s] \subseteq Readers \X Int
    BY DEF Booked, SizesInv
  <2>3. visited \subseteq Subs /\ OnPath \subseteq visited
    BY DEF Booked, SearchInv
  <2>4. \A f \in {space, expected, eventSize} : f \in [Subs -> Nat]
    BY DEF Booked, SizesInv
  <2>5. \A p \in Procs : \A j \in DOMAIN docs[p] : \A n \in docs[p][j].nodes : n.node \in Procs
    <3> SUFFICES ASSUME NEW p \in Procs, NEW j \in DOMAIN docs[p]
                 PROVE  \A n \in docs[p][j].nodes : n.node \in Procs
      OBVIOUS
    <3>1. docs[p][j] \in Table
      BY DEF Booked, TablesInv
    <3>2. docs[p][j].nodes \subseteq Node
      BY <3>1 DEF Table
    <3> QED
      BY <3>2 DEF Node
  <2>6. at.p \in Procs /\ at.name \in {"sources", "destinations"} /\ at.from \in Nat
    BY DEF Booked, TablesInv
  <2> QED
    BY <2>1, <2>2, <2>3, <2>4, <2>5, <2>6 DEF TypeOK
<1> QED
  BY <1>1, BookkeepingInvariant, PTL

\* find_cycle_in_subsystem_graph raises for a cyclic graph of sources and for no
\* other, whatever the number of subsystems.
THEOREM CyclesAreFound == Spec => []CyclesFound
<1>1. Booked => CyclesFound
  BY NoCycleLater DEF Booked, CyclesFound, SearchInv, Searched
<1> QED
  BY <1>1, BookkeepingInvariant, PTL

\* The loop over the documents passes no table by, whatever the tables, their
\* distances and the number of nodes that each grows by.
THEOREM TablesAreFilled == Spec => []AllTablesFilled
<1>1. Booked => AllTablesFilled
  <2> SUFFICES ASSUME Booked, Filled, NEW p \in Procs, NEW j \in DOMAIN docs[p]
               PROVE  docs[p][j].filled <=> docs[p][j].within # "message"
    BY DEF AllTablesFilled
  <2>1. FilledRight(p, j) /\ docs[p][j] \in Table
    BY DEF Booked, TablesInv
  <2>2. AllReady(p, "sources") /\ AllReady(p, "destinations")
    BY DEF Booked, TablesInv, Progress
  <2>3. Ready(docs[p][j])
    BY <2>1, <2>2 DEF AllReady, Table
  <2> QED
    BY <2>1, <2>3 DEF FilledRight, Ready
<1> QED
  BY <1>1, BookkeepingInvariant, PTL

-----------------------------------------------------------------------------
(* The connections that the tables make *)

\* After the filling every table that no message table encloses has its nodes.
LEMMA NodesFilled ==
    ASSUME Booked, Filled, NEW p \in Procs, NEW j \in DOMAIN docs[p],
           docs[p][j].within # "message"
    PROVE  docs[p][j].nodes = Nodes(p, docs[p][j])
<1>1. FilledRight(p, j) /\ docs[p][j] \in Table
  BY DEF Booked, TablesInv
<1>2. AllReady(p, "sources") /\ AllReady(p, "destinations")
  BY DEF Booked, TablesInv, Progress
<1> QED
  BY <1>1, <1>2 DEF AllReady, Table, Ready, FilledRight

\* Which processes are the nodes of a table.
LEMMA NodesOf ==
    ASSUME NEW p, NEW t, NEW q
    PROVE  (\E n \in Nodes(p, t) : n.node = q) <=>
               q \in IF t.name = "sources" THEN SourceNodes(p)
                     ELSE IF t.within \in Inter THEN InterNodes(p)
                     ELSE OrdinaryNodes(p)
<1> DEFINE Q == IF t.name = "sources" THEN SourceNodes(p)
                ELSE IF t.within \in Inter THEN InterNodes(p)
                ELSE OrdinaryNodes(p)
           node(r) == [node |-> r, words |-> Words(p, r, t.name)]
<1>1. Nodes(p, t) = {node(r) : r \in Q}
  BY DEF Nodes
<1>2. \A r : node(r).node = r
  OBVIOUS
<1> HIDE DEF Q, node
<1>3. (\E n \in Nodes(p, t) : n.node = q) <=> q \in Q
  BY <1>1, <1>2
<1> QED
  BY <1>3 DEF Q

\* After the filling, the ends that a process has under a name are the nodes of
\* its tables of that name.
LEMMA EndsFilled ==
    ASSUME Booked, Filled, NEW p \in Procs, NEW name
    PROVE  \A n : n \in Ends(p, name) <=>
               \E j \in DOMAIN docs[p] : /\ docs[p][j].name = name
                                         /\ docs[p][j].within # "message"
                                         /\ n \in Nodes(p, docs[p][j])
BY NodesFilled DEF Ends

\* Whom the tables of a process connect it to when it has the tables it needs: as
\* sources its SourceNodes, as destinations its OrdinaryNodes and InterNodes.
LEMMA PeersFilled ==
    ASSUME Booked, Filled, NEW p \in Procs
    PROVE  /\ Peers(p, "sources") \subseteq SourceNodes(p)
           /\ Peers(p, "destinations") \subseteq OrdinaryNodes(p) \union InterNodes(p)
           /\ Complete(p) => /\ Peers(p, "sources") = SourceNodes(p)
                             /\ Peers(p, "destinations") = OrdinaryNodes(p) \union InterNodes(p)
<1>1. \A name : \A q : q \in Peers(p, name) <=>
          \E j \in DOMAIN docs[p] : /\ docs[p][j].name = name
                                    /\ docs[p][j].within # "message"
                                    /\ \E n \in Nodes(p, docs[p][j]) : n.node = q
  BY EndsFilled DEF Peers
<1>2. ASSUME NEW t, NEW q
      PROVE  (\E n \in Nodes(p, t) : n.node = q) <=>
                 q \in IF t.name = "sources" THEN SourceNodes(p)
                       ELSE IF t.within \in Inter THEN InterNodes(p)
                       ELSE OrdinaryNodes(p)
  BY NodesOf
<1>3. Peers(p, "sources") \subseteq SourceNodes(p)
  BY <1>1, <1>2
<1>4. Peers(p, "destinations") \subseteq OrdinaryNodes(p) \union InterNodes(p)
  <2>1. ASSUME NEW t, t.name = "destinations", NEW q, \E n \in Nodes(p, t) : n.node = q
        PROVE  q \in OrdinaryNodes(p) \union InterNodes(p)
    BY <1>2, <2>1
  <2> QED
    BY <1>1, <2>1
<1>5. ASSUME Complete(p) PROVE SourceNodes(p) \subseteq Peers(p, "sources")
  <2> SUFFICES ASSUME NEW q \in SourceNodes(p) PROVE q \in Peers(p, "sources")
    OBVIOUS
  <2>1. system.type[p] \in {"EventBuilder", "DataLogger", "Dispatcher"}
    BY DEF SourceNodes
  <2>2. PICK j \in DOMAIN docs[p] : docs[p][j].name = "sources" /\ docs[p][j].within = "daq"
    BY <1>5, <2>1 DEF Complete
  <2> QED
    BY <1>1, <1>2, <2>2
<1>6. ASSUME Complete(p)
      PROVE  OrdinaryNodes(p) \union InterNodes(p) \subseteq Peers(p, "destinations")
  <2>1. ASSUME NEW q \in OrdinaryNodes(p) PROVE q \in Peers(p, "destinations")
    <3>1. PICK j \in DOMAIN docs[p] : /\ docs[p][j].name = "destinations"
                                      /\ docs[p][j].within \in {"daq", "rootNetOutput"}
      BY <1>6, <2>1 DEF Complete
    <3>2. docs[p][j].within # "message" /\ docs[p][j].within \notin Inter
      BY <3>1 DEF Inter
    <3> QED
      BY <1>1, <1>2, <2>1, <3>1, <3>2
  <2>2. ASSUME NEW q \in InterNodes(p) PROVE q \in Peers(p, "destinations")
    <3>1. PICK j \in DOMAIN docs[p] : /\ docs[p][j].name = "destinations"
                                      /\ docs[p][j].within \in Inter
      BY <1>6, <2>2 DEF Complete
    <3>2. docs[p][j].within # "message"
      BY <3>1 DEF Inter
    <3> QED
      BY <1>1, <1>2, <2>2, <3>1, <3>2
  <2> QED
    BY <2>1, <2>2
<1> QED
  BY <1>3, <1>4, <1>5, <1>6

\* Who is in a group, and who feeds a subsystem.
LEMMA GroupMembers ==
    ASSUME BookkeepingAssumption, system \in Systems
    PROVE  /\ \A s, type, p : p \in Group(s, type) <=>
                  p \in Procs /\ system.sub[p] = s /\ system.type[p] = type
           /\ \A s, p : p \in Feeding(s) <=>
                  /\ p \in Procs /\ system.type[p] = "EventBuilder"
                  /\ Destination(system.sub[p]) = s
<1>1. \A p \in Procs : system.sub[p] \in Subs
  BY SystemFacts
<1> QED
  BY <1>1 DEF Group, Feeding

\* The rules for the destinations are those for the sources turned round.
LEMMA NodesMutual ==
    ASSUME BookkeepingAssumption, system \in Systems, NEW p \in Procs, NEW q \in Procs
    PROVE  q \in OrdinaryNodes(p) \union InterNodes(p) <=> p \in SourceNodes(q)
<1>1. system.type[p] \in Types /\ system.type[q] \in Types /\ system.sub[q] # None
  BY SystemFacts
<1>2. \A s, type : \A r \in Procs :
         r \in Group(s, type) <=> system.sub[r] = s /\ system.type[r] = type
  BY GroupMembers
<1>3. \A s : p \in Feeding(s) <=> /\ system.type[p] = "EventBuilder"
                                  /\ Destination(system.sub[p]) = s
  BY GroupMembers
<1>4. \A r \in Procs : system.type[r] = "DataLogger" => HasLoggers(system.sub[r])
  BY <1>2 DEF HasLoggers
<1>5. p \in SourceNodes(q) <=>
         \/ /\ system.type[q] = "EventBuilder"
            /\ \/ system.sub[p] = system.sub[q] /\ system.type[p] = "BoardReader"
               \/ system.type[p] = "EventBuilder" /\ Destination(system.sub[p]) = system.sub[q]
         \/ /\ system.type[q] = "DataLogger"
            /\ system.sub[p] = system.sub[q] /\ system.type[p] = "EventBuilder"
         \/ /\ system.type[q] = "Dispatcher" /\ system.sub[p] = system.sub[q]
            /\ system.type[p] = IF HasLoggers(system.sub[q]) THEN "DataLogger" ELSE "EventBuilder"
  BY <1>1, <1>2, <1>3 DEF SourceNodes
<1>6. q \in OrdinaryNodes(p) <=>
         /\ system.sub[q] = system.sub[p]
         /\ \/ system.type[p] = "BoardReader" /\ system.type[q] = "EventBuilder"
            \/ /\ system.type[p] = "EventBuilder"
               /\ system.type[q] = IF HasLoggers(system.sub[p]) THEN "DataLogger" ELSE "Dispatcher"
            \/ system.type[p] = "DataLogger" /\ system.type[q] = "Dispatcher"
  BY <1>1, <1>2 DEF OrdinaryNodes
<1>7. q \in InterNodes(p) <=>
         /\ system.type[p] = "EventBuilder" /\ system.type[q] = "EventBuilder"
         /\ Destination(system.sub[p]) = system.sub[q]
  BY <1>1, <1>2 DEF InterNodes
<1> QED
  BY <1>1, <1>4, <1>5, <1>6, <1>7

\* Two processes are connected at both ends or at neither, within a subsystem and
\* between two, for every system whose documents have the tables.
THEOREM TwoEnds == Spec => []LinksHaveTwoEnds
<1>1. Booked => LinksHaveTwoEnds
  <2> SUFFICES ASSUME Booked, Filled, \A p \in Procs : Complete(p), NEW p \in Procs, NEW q \in Procs
               PROVE  q \in Peers(p, "destinations") <=> p \in Peers(q, "sources")
    BY DEF LinksHaveTwoEnds
  <2>1. BookkeepingAssumption /\ system \in Systems
    BY BookkeepingAssumption DEF Booked
  <2>2. Peers(q, "sources") = SourceNodes(q)
    BY PeersFilled
  <2>3. Peers(p, "destinations") = OrdinaryNodes(p) \union InterNodes(p)
    BY PeersFilled
  <2> QED
    BY <2>1, <2>2, <2>3, NodesMutual
<1> QED
  BY <1>1, BookkeepingInvariant, PTL

\* Both ends of a connection give it the same buffers, whatever the sizes of the
\* fragments and events are, when no document states its own.
THEOREM SameBuffers == Spec => []BuffersAgree
<1>1. Booked => BuffersAgree
  <2> SUFFICES ASSUME Booked, Filled, \A p \in Procs : system.advanced \/ system.stated[p] = 0,
                      NEW p \in Procs, NEW q \in Procs,
                      NEW n \in Ends(p, "destinations"), NEW m \in Ends(q, "sources"),
                      n.node = q, m.node = p
               PROVE  n.words = m.words
    BY DEF BuffersAgree
  <2>1. BookkeepingAssumption /\ system \in Systems
    BY BookkeepingAssumption DEF Booked
  <2>2. n.words = Words(p, q, "destinations")
    BY EndsFilled DEF Nodes
  <2>3. m.words = Words(q, p, "sources")
    BY EndsFilled DEF Nodes
  <2>4. p \in SourceNodes(q)
    BY PeersFilled DEF Peers
  <2>5. DocumentSize(p) = eventSize[system.sub[p]] /\ DocumentSize(q) = eventSize[system.sub[q]]
    <3>1. system.stated[p] \in Nat /\ system.stated[q] \in Nat
      BY <2>1, SystemFacts
    <3> QED
      BY <3>1 DEF DocumentSize
  <2>6. /\ system.type[q] \in {"EventBuilder", "DataLogger", "Dispatcher"}
        /\ system.type[q] # "EventBuilder" =>
              system.sub[p] = system.sub[q] /\ system.type[p] # "BoardReader"
    BY <2>1, <2>4, GroupMembers DEF SourceNodes
  <2> QED
    BY <2>2, <2>3, <2>5, <2>6 DEF Words
<1> QED
  BY <1>1, BookkeepingInvariant, PTL

-----------------------------------------------------------------------------
(* What arrives along the connections *)

\* The eventbuilders that the tables connect to those of a subsystem are those of
\* its sources in the boot file.
LEMMA FeedersAreSources ==
    ASSUME Booked, Filled, WellDescribed, NEW s \in Subs
    PROVE  Feeders(s) = Sources(s)
<1>1. BookkeepingAssumption /\ system \in Systems
  BY BookkeepingAssumption DEF Booked
<1>2. Sources(s) \subseteq Subs /\ s # None
  <2>1. Worked
    BY DEF Filled, Worked, Searched
  <2> QED
    BY <1>1, <2>1, SystemFacts DEF Booked, SizesInv
<1>3. \A r \in Subs : r \in Sources(s) <=> Destination(r) = s
  BY DEF WellDescribed, Mutual
<1>4. \A t, type, p : p \in Group(t, type) <=>
         p \in Procs /\ system.sub[p] = t /\ system.type[p] = type
  BY <1>1, GroupMembers
<1>5. ASSUME NEW r \in Subs, NEW p \in Group(r, "EventBuilder"), NEW q \in Group(s, "EventBuilder")
      PROVE  q \in Peers(p, "destinations") <=> Destination(r) = s
  <2>1. /\ p \in Procs /\ system.type[p] = "EventBuilder" /\ system.sub[p] = r
        /\ q \in Procs /\ system.type[q] = "EventBuilder" /\ system.sub[q] = s
    BY <1>4, <1>5
  <2>2. Peers(p, "destinations") = OrdinaryNodes(p) \union InterNodes(p)
    BY <2>1, PeersFilled DEF WellDescribed
  <2>3. q \in Peers(p, "destinations") <=> p \in SourceNodes(q)
    BY <1>1, <2>1, <2>2, NodesMutual
  <2>4. p \in SourceNodes(q) <=> p \in Feeding(s)
    BY <1>4, <2>1 DEF SourceNodes
  <2>5. p \in Feeding(s) <=> Destination(r) = s
    BY <1>1, <2>1, GroupMembers
  <2> QED
    BY <2>3, <2>4, <2>5
<1>6. ASSUME NEW r \in Subs PROVE r \in Feeders(s) <=> Destination(r) = s
  <2>1. ASSUME r \in Feeders(s) PROVE Destination(r) = s
    BY <1>5, <2>1 DEF Feeders
  <2>2. ASSUME Destination(r) = s PROVE r \in Feeders(s)
    <3>1. Group(r, "EventBuilder") # {} /\ Group(s, "EventBuilder") # {}
      BY <1>2, <2>2 DEF WellDescribed
    <3>2. PICK p \in Group(r, "EventBuilder"), q \in Group(s, "EventBuilder") : TRUE
      BY <3>1
    <3>3. q \in Peers(p, "destinations")
      BY <1>5, <2>2, <3>2
    <3> QED
      BY <3>2, <3>3 DEF Feeders
  <2> QED
    BY <2>1, <2>2
<1>7. Feeders(s) \subseteq Subs
  BY DEF Feeders
<1> QED
  BY <1>2, <1>3, <1>6, <1>7

\* A subsystem counts each fragment of its readers, or each id once.
LEMMA OwnCounted ==
    ASSUME BookkeepingAssumption, system \in Systems, NEW s \in Subs
    PROVE  OwnFragments(s) = Cardinality(CountedFragments(s))
<1> DEFINE readers == Senders \cap Group(s, "BoardReader")
           C == CountedFragments(s)
           ids == UNION {system.ids[p] : p \in readers}
<1>1. /\ readers \subseteq Readers /\ readers \subseteq Procs /\ IsFiniteSet(readers)
      /\ \A p \in readers : IsFiniteSet(system.ids[p])
  <2>1. readers \subseteq Readers /\ readers \subseteq Procs
    BY DEF Senders, Readers
  <2> QED
    BY <2>1, SystemFacts, FS_Subset
<1>2. C = {f \in {<<p, i>> : p \in readers, i \in ids} :
              /\ f[2] \in system.ids[f[1]]
              /\ system.strict => \A p \in readers : Before(p, f[1]) => f[2] \notin system.ids[p]}
  BY DEF CountedFragments
<1>3. IsFiniteSet(C)
  BY CountedTyped
<1>4. CASE system.strict
  <2> DEFINE id == [f \in C |-> f[2]]
  <2>1. ASSUME NEW f \in C, NEW g \in C, f[2] = g[2] PROVE f = g
    <3>1. PICK p \in readers, i \in ids : f = <<p, i>>
      BY <1>2
    <3>2. PICK q \in readers, k \in ids : g = <<q, k>>
      BY <1>2
    <3>3. i = k /\ i \in system.ids[p] /\ i \in system.ids[q]
      BY <1>2, <2>1, <3>1, <3>2
    <3>4. ~Before(p, q) /\ ~Before(q, p)
      BY <1>2, <1>4, <3>1, <3>2, <3>3
    <3>5. p \in Procs /\ q \in Procs
      BY <1>1
    <3>6. p = q
      BY <3>4, <3>5, BeforeOrder
    <3> QED
      BY <3>1, <3>2, <3>3, <3>6
  <2>2. {id[f] : f \in C} = ids
    <3>1. ASSUME NEW f \in C PROVE f[2] \in ids
      BY <1>2
    <3>2. ASSUME NEW i \in ids PROVE \E f \in C : f[2] = i
      <4> DEFINE having == {p \in readers : i \in system.ids[p]}
      <4>1. having \in SUBSET Procs /\ having # {}
        BY <1>1, <3>2
      <4>2. PICK p \in having : \A q \in having \ {p} : Before(p, q)
        <5> HIDE DEF having
        <5> QED
          BY <4>1, FirstBefore
      <4>3. \A q \in readers : Before(q, p) => i \notin system.ids[q]
        <5> SUFFICES ASSUME NEW q \in readers, Before(q, p), i \in system.ids[q] PROVE FALSE
          OBVIOUS
        <5>1. q = p \/ Before(p, q)
          BY <4>2
        <5>2. p \in Procs /\ q \in Procs
          BY <1>1
        <5> QED
          BY <5>1, <5>2, BeforeOrder
      <4>4. <<p, i>> \in C
        BY <1>2, <4>2, <4>3
      <4> QED
        BY <4>4
    <3> QED
      BY <3>1, <3>2
  <2>3. \A f, g \in C : id[f] = id[g] => f = g
    BY <2>1
  <2> HIDE DEF id, C
  <2>4. Cardinality({id[f] : f \in C}) = Cardinality(C)
    BY <1>3, <2>3, ImageApart
  <2> QED
    BY <1>4, <2>2, <2>4 DEF OwnFragments, C
<1>5. CASE ~system.strict
  <2> DEFINE one == [p \in readers |-> 1]
             each == [f \in C |-> 1]
             count == [p \in readers |-> Cardinality(system.ids[p])]
  <2>1. C = Pairs(readers, system.ids)
    <3>1. \A f \in C : f \in Pairs(readers, system.ids)
      BY <1>2 DEF Pairs
    <3>2. ASSUME NEW f \in Pairs(readers, system.ids) PROVE f \in C
      <4>1. PICK p \in readers : \E i \in system.ids[p] : f = <<p, i>>
        BY <3>2 DEF Pairs
      <4> QED
        BY <1>2, <1>5, <4>1
    <3> QED
      BY <3>1, <3>2
  <2>2. \A p \in readers : one[p] = 1 /\ one[p] \in Nat
    OBVIOUS
  <2>3. \A f \in Pairs(readers, system.ids) : each[f] = one[f[1]]
    BY <2>1 DEF Pairs
  <2>4. \A p \in readers : count[p] = one[p] * Cardinality(system.ids[p])
    BY <1>1, <2>2, FS_CardinalityType
  <2>5. \A f \in C : each[f] = 1
    OBVIOUS
  <2>6. OwnFragments(s) = SumFunction(count) /\ DOMAIN count = readers
    BY <1>5 DEF OwnFragments
  <2> HIDE DEF one, each, count, C, readers
  <2>7. SumFunctionOnSet(each, Pairs(readers, system.ids)) = SumFunctionOnSet(count, readers)
    BY <1>1, <2>2, <2>3, <2>4, SumPairs
  <2>8. SumFunctionOnSet(each, C) = 1 * Cardinality(C)
    BY <1>3, <2>5, SumConstant
  <2>9. Cardinality(C) \in Nat
    BY <1>3, FS_CardinalityType
  <2> QED
    BY <2>1, <2>6, <2>7, <2>8, <2>9 DEF SumFunction, C
<1> QED
  BY <1>4, <1>5

\* What the sources are expected to send is what arrives from the eventbuilders
\* that are connected, in all systems whose subsystems and documents agree.
THEOREM ArrivalsExpected == Spec => []ExpectedArrive
<1>1. Booked => ExpectedArrive
  <2> SUFFICES ASSUME Booked, Filled, WellDescribed, NEW s \in Subs
               PROVE  expected[s] = Arriving[s]
    BY DEF ExpectedArrive
  <2> DEFINE own(r) == Cardinality(fragments[r])
             split == system.fragmentMode
             h == [x \in Subs \X Nat |-> own(x[1]) + x[2]]
             Body(a) == [r \in Subs |-> OwnFragments(r)
                 + SumFunction([t \in Feeders(r) |-> IF split[t] THEN a[t] ELSE 1])]
  <2>1. BookkeepingAssumption /\ system \in Systems
    BY BookkeepingAssumption DEF Booked
  <2>2. pc \in Searched /\ Worked /\ Counted
    BY DEF Filled, Worked, Counted, Searched
  <2>3. /\ \A r \in Subs : Sources(r) \subseteq Subs /\ IsFiniteSet(fragments[r])
        /\ SearchInv /\ expected = Expected
    BY <2>2 DEF Booked, SizesInv
  <2>4. /\ Expected \in [Subs -> Nat]
        /\ \A r \in Subs : Expected[r] = own(r) + Inflow(Graph, split, Expected, r)
    BY <2>1, <2>2, <2>3, ExpectedSolves
  <2>5. \A r \in Subs : OwnFragments(r) = own(r)
    <3>1. \A r \in Subs : fragments[r] = CountedFragments(r)
      BY <2>2 DEF Booked, SizesInv
    <3> QED
      BY <2>1, <3>1, OwnCounted
  <2>6. ASSUME NEW a, NEW r \in Subs PROVE Body(a)[r] = own(r) + Inflow(Graph, split, a, r)
    <3>1. Feeders(r) = Sources(r)
      BY FeedersAreSources
    <3> QED
      BY <2>5, <3>1 DEF Inflow, Graph
  <2>7. Arriving = CHOOSE a : a = Body(a)
    BY DEF Arriving
  <2>8. Expected = Body(Expected)
    <3>1. Expected = [r \in Subs |-> Expected[r]]
      BY <2>4
    <3>2. Body(Expected) = [r \in Subs |-> Body(Expected)[r]]
      OBVIOUS
    <3> HIDE DEF Body, own
    <3> QED
      BY <2>4, <2>6, <3>1, <3>2
  <2>9. Arriving = Body(Arriving)
    <3> HIDE DEF Body
    <3> QED
      BY <2>7, <2>8
  <2>10. \A r \in Subs : Arriving[r] = own(r) + Inflow(Graph, split, Arriving, r)
    <3> HIDE DEF Body, own
    <3> QED
      BY <2>6, <2>9
  <2>11. \A r \in Subs : own(r) \in Nat
    BY <2>3, FS_CardinalityType
  <2>12. h \in [Subs \X Nat -> Nat] /\ \A r \in Subs, n \in Nat : h[<<r, n>>] = own(r) + n
    BY <2>11
  <2> HIDE DEF h, own, Body
  <2>13. ASSUME NEW a, NEW r \in Subs, \A t \in Graph[r] : a[t] \in Nat
         PROVE  Inflow(Graph, split, a, r) \in Nat
    <3>1. IsFiniteSet(Graph[r]) /\ \A t \in Graph[r] : a[t] = a[t] /\ a[t] \in Nat
      BY <2>1, <2>13, SystemFacts DEF Graph
    <3> QED
      BY <3>1, InflowSame
  <2>14. \A r \in Subs : Graph[r] \subseteq Subs
    BY <2>3 DEF Graph
  <2>15. Solves(Subs, Graph, split, h, Expected)
    BY <2>4, <2>12, <2>13, <2>14 DEF Solves
  <2>16. Follows(Subs, Graph, split, h, Arriving)
    BY <2>10, <2>12, <2>13 DEF Follows
  <2>17. IsFiniteSet(Subs) /\ Graph \in [Subs -> SUBSET Subs] /\ Acyclic(Subs, Graph)
    BY <2>1, <2>2, <2>3, SystemFacts, NoCycleLater DEF Graph
  <2> QED
    BY <2>3, <2>15, <2>16, <2>17, GraphUnique
<1> QED
  BY <1>1, BookkeepingInvariant, PTL

\* What the readers of a subsystem may bring of one event is no more than its
\* fragment space.
ReadBytes(s) == SumFunction([p \in Senders \cap Group(s, "BoardReader") |->
                                system.size[p] * Cardinality(system.ids[p])])

\* Fragment ids that are not strict are all counted with the space of their reader.
LEMMA ReadBytesFit ==
    ASSUME BookkeepingAssumption, system \in Systems, ~system.strict, NEW s \in Subs
    PROVE  ReadBytes(s) \in Nat /\ ReadBytes(s) <= Space(s)
<1> DEFINE readers == Senders \cap Group(s, "BoardReader")
           C == CountedFragments(s)
           B == {p \in Senders : system.sub[p] = s /\ system.ids[p] = {}}
           each == [f \in C |-> system.size[f[1]]]
           bytes == [p \in readers |-> system.size[p] * Cardinality(system.ids[p])]
<1>1. /\ readers \subseteq Readers /\ readers \subseteq Procs /\ B \subseteq Readers
      /\ B \subseteq Procs
  BY DEF Senders, Readers
<1>2. /\ IsFiniteSet(readers) /\ IsFiniteSet(B)
      /\ \A p \in readers : IsFiniteSet(system.ids[p]) /\ system.size[p] \in Nat
      /\ \A p \in B : system.size[p] \in Nat
  BY <1>1, SystemFacts, FS_Subset
<1>3. C = Pairs(readers, system.ids)
  <2>1. C = {f \in {<<p, i>> : p \in readers, i \in UNION {system.ids[q] : q \in readers}} :
                f[2] \in system.ids[f[1]]}
    BY DEF CountedFragments
  <2>2. \A f \in C : f \in Pairs(readers, system.ids)
    BY <2>1 DEF Pairs
  <2>3. ASSUME NEW f \in Pairs(readers, system.ids) PROVE f \in C
    <3>1. PICK p \in readers : \E i \in system.ids[p] : f = <<p, i>>
      BY <2>3 DEF Pairs
    <3> QED
      BY <2>1, <3>1
  <2> QED
    BY <2>2, <2>3
<1>4. /\ DOMAIN each = C /\ DOMAIN bytes = readers
      /\ \A f \in Pairs(readers, system.ids) : each[f] = system.size[f[1]]
      /\ \A p \in readers : bytes[p] = system.size[p] * Cardinality(system.ids[p])
  BY <1>3
<1>5. /\ Space(s) = SumFunction(each) + SumFunctionOnSet(system.size, B)
      /\ ReadBytes(s) = SumFunction(bytes)
  BY DEF Space, ReadBytes
<1>6. \A p \in readers : bytes[p] \in Nat
  BY <1>2, FS_CardinalityType
<1> HIDE DEF readers, C, B, each, bytes
<1>7. SumFunctionOnSet(each, C) = SumFunctionOnSet(bytes, readers)
  <2> DEFINE size == system.size
             ids == system.ids
  <2>1. \A p \in readers : IsFiniteSet(ids[p])
    BY <1>2
  <2>2. \A p \in readers : size[p] \in Nat
    BY <1>2
  <2>3. \A f \in Pairs(readers, ids) : each[f] = size[f[1]]
    BY <1>4
  <2>4. \A p \in readers : bytes[p] = size[p] * Cardinality(ids[p])
    BY <1>4
  <2>5. C = Pairs(readers, ids)
    BY <1>3
  <2> HIDE DEF size, ids
  <2>6. SumFunctionOnSet(each, Pairs(readers, ids)) = SumFunctionOnSet(bytes, readers)
    BY <1>2, <2>1, <2>2, <2>3, <2>4, SumPairs
  <2> QED
    BY <2>5, <2>6
<1>8. SumFunctionOnSet(bytes, readers) \in Nat /\ SumFunctionOnSet(system.size, B) \in Nat
  BY <1>2, <1>6, SumNat
<1> QED
  BY <1>4, <1>5, <1>7, <1>8 DEF SumFunction

\* The largest event that can come along the connections fits in the event size of
\* its subsystem, through any number of subsystems.
THEOREM LargestEventFits == Spec => []EventsFit
<1>1. Booked => EventsFit
  <2> SUFFICES ASSUME Booked, Filled, WellDescribed, ~system.strict
               PROVE  \A s \in Subs : eventSize[s] >= Bytes[s]
    BY DEF EventsFit
  <2> DEFINE Body(b) == [s \in Subs |-> ReadBytes(s) + SumFunctionOnSet(b, Feeders(s))]
             h == [x \in Subs \X Nat |-> ReadBytes(x[1]) + x[2]]
             b == Solution(Subs, Graph, Whole, h)
  <2>1. BookkeepingAssumption /\ system \in Systems
    BY BookkeepingAssumption DEF Booked
  <2>2. pc \in Searched /\ Worked /\ Counted
    BY DEF Filled, Worked, Counted, Searched
  <2>3. /\ \A s \in Subs : Sources(s) \subseteq Subs
        /\ SearchInv /\ eventSize = EventSize
        /\ space \in [Subs -> Nat] /\ \A s \in Subs : space[s] = Space(s)
    BY <2>2 DEF Booked, SizesInv
  <2>4. /\ eventSize \in [Subs -> Nat]
        /\ \A s \in Subs :
              eventSize[s] = AtLeast(OwnSize(s) + SumFunctionOnSet(eventSize, Sources(s)))
    BY <2>1, <2>2, <2>3, EventSizeSolves
  <2>5. \A s \in Subs : ReadBytes(s) \in Nat /\ ReadBytes(s) <= OwnSize(s) /\ OwnSize(s) \in Nat
    <3> SUFFICES ASSUME NEW s \in Subs
                 PROVE  ReadBytes(s) \in Nat /\ ReadBytes(s) <= OwnSize(s) /\ OwnSize(s) \in Nat
      OBVIOUS
    <3>1. ReadBytes(s) \in Nat /\ ReadBytes(s) <= Space(s)
      BY <2>1, ReadBytesFit
    <3>2. space[s] = Space(s) /\ space[s] \in Nat
      BY <2>3
    <3>3. OwnSize(s) \in Nat /\ OwnSize(s) >= space[s]
      BY <3>2, OwnSizeTyped
    <3> QED
      BY <3>1, <3>2, <3>3
  <2>6. IsFiniteSet(Subs) /\ Graph \in [Subs -> SUBSET Subs] /\ Acyclic(Subs, Graph)
    BY <2>1, <2>2, <2>3, SystemFacts, NoCycleLater DEF Graph
  <2>7. /\ h \in [Subs \X Nat -> Nat]
        /\ \A s \in Subs, n \in Nat : h[<<s, n>>] = ReadBytes(s) + n
    BY <2>5
  <2> HIDE DEF h
  <2>8. Solves(Subs, Graph, Whole, h, b)
    BY <2>6, <2>7, GraphRecursion
  <2> HIDE DEF b
  <2>9. ASSUME NEW d, NEW s \in Subs
        PROVE  Body(d)[s] = ReadBytes(s) + SumFunctionOnSet(d, Sources(s))
    BY FeedersAreSources
  <2>10. b \in [Subs -> Nat] /\ \A s \in Subs : b[s] = ReadBytes(s) + SumFunctionOnSet(b, Sources(s))
    <3>1. b \in [Subs -> Nat] /\ \A s \in Subs : b[s] = h[<<s, Inflow(Graph, Whole, b, s)>>]
      BY <2>8 DEF Solves
    <3>2. ASSUME NEW s \in Subs PROVE b[s] = ReadBytes(s) + SumFunctionOnSet(b, Sources(s))
      <4>1. \A r \in Sources(s) : b[r] \in Nat
        BY <2>3, <3>1
      <4>2. /\ SumFunctionOnSet(b, Sources(s)) = Inflow(Graph, Whole, b, s)
            /\ Inflow(Graph, Whole, b, s) \in Nat
        BY <2>1, <2>3, <4>1, SizeInflow
      <4> QED
        BY <2>7, <3>1, <4>2
    <3> QED
      BY <3>1, <3>2
  <2>11. b = Body(b)
    <3>1. b = [s \in Subs |-> b[s]] /\ Body(b) = [s \in Subs |-> Body(b)[s]]
      BY <2>10
    <3> HIDE DEF Body
    <3> QED
      BY <2>9, <2>10, <3>1
  <2>12. Bytes = CHOOSE d : d = Body(d)
    BY DEF Bytes, ReadBytes
  <2>13. Bytes = Body(Bytes)
    <3> HIDE DEF Body
    <3> QED
      BY <2>11, <2>12
  <2>14. \A s \in Subs : Bytes[s] = ReadBytes(s) + SumFunctionOnSet(Bytes, Sources(s))
    <3> HIDE DEF Body
    <3> QED
      BY <2>9, <2>13
  <2> DEFINE Good == {s \in Subs : Bytes[s] \in Nat /\ eventSize[s] >= Bytes[s]}
  <2>15. ASSUME NEW s \in Subs, \A r \in Graph[s] \cap Subs : r \in Good PROVE s \in Good
    <3>1. Sources(s) \subseteq Good /\ IsFiniteSet(Sources(s))
      BY <2>1, <2>3, <2>15, SystemFacts DEF Graph
    <3>2. \A r \in Sources(s) : Bytes[r] \in Nat /\ eventSize[r] \in Nat /\ Bytes[r] <= eventSize[r]
      BY <2>4, <3>1
    <3>3. /\ SumFunctionOnSet(Bytes, Sources(s)) <= SumFunctionOnSet(eventSize, Sources(s))
          /\ SumFunctionOnSet(Bytes, Sources(s)) \in Nat
          /\ SumFunctionOnSet(eventSize, Sources(s)) \in Nat
      BY <3>1, <3>2, SumMonotone, SumNat
    <3>4. Bytes[s] \in Nat /\ Bytes[s] <= OwnSize(s) + SumFunctionOnSet(eventSize, Sources(s))
      BY <2>5, <2>14, <3>3
    <3>5. eventSize[s] >= OwnSize(s) + SumFunctionOnSet(eventSize, Sources(s)) /\ eventSize[s] \in Nat
      BY <2>4, <2>5, <3>3 DEF AtLeast
    <3> QED
      BY <2>5, <3>3, <3>4, <3>5
  <2> HIDE DEF Good
  <2>16. \A s \in Subs : s \in Good
    BY <2>6, <2>15, GraphInduction
  <2> QED
    BY <2>16 DEF Good
<1> QED
  BY <1>1, BookkeepingInvariant, PTL

=============================================================================
