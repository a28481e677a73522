----------------------------- MODULE Bookkeeping -----------------------------
(***************************************************************************)
(* The bookkeeping of the FHiCL documents (bookkeeping.py): from the       *)
(* subsystems and processes of the boot file it works out how many         *)
(* fragments each subsystem expects and how large its events may be, fills *)
(* in the tables that connect the processes, hands out the ports of the    *)
(* routers, points every sender at its router, and counts the init         *)
(* fragments each process waits for.                                       *)
(*                                                                         *)
(* It runs in one thread, through the stages of pc, and may raise between  *)
(* two of them.  The system it is given is chosen in Init.  A process is   *)
(* its rank, a subsystem its id; a document is the sequence of its sources *)
(* and destinations tables, whose lengths are counted in connected nodes.  *)
(***************************************************************************)
EXTENDS Integers, Sequences, FiniteSets, FiniteSetsExt

CONSTANTS
    Systems,            \* the systems a boot file may describe
    BasePort,           \* ARTDAQ_BASE_PORT
    PortsPerPartition,  \* ARTDAQ_PORTS_PER_PARTITION
    Partition           \* self.partition_number

VARIABLES
    system,     \* what the boot file and the documents say
    pc,         \* the stage bookkeeping is in
    reason,     \* what it raised for
    fragments,  \* subsystem_fragment_ids, each with the reader it is counted for
    space,      \* subsystem_fragment_space
    visited,    \* the search for cycles: visited
    path,       \* and in_stack, in the order of the calls
    expected,   \* expected_fragments_per_event
    eventSize,  \* max_event_sizes
    docs,       \* the tables of every process's document
    at,         \* the process, table name and position the filling has come to
    token,      \* routing_base_ports: which router, in order, has each key
    todo,       \* the subsystems or processes the stage has still to visit
    routes,     \* the router that each table of a document points at
    initCount   \* init_fragment_count

search == <<visited, path>>
sizes  == <<fragments, space, expected, eventSize>>
filling == <<docs, at>>
routing == <<token, todo, routes>>
vars == <<system, pc, reason, search, sizes, filling, routing, initCount>>

Types == {"BoardReader", "EventBuilder", "DataLogger", "Dispatcher", "RoutingManager"}
Stages == {"boot", "count", "search", "expect", "sanity", "tables", "ports", "routes",
           "init", "done", "raised"}
None == 0                       \* no destination
NoRoute == <<None, "none">>
Inter == {"routingNetOutput", "binaryNetOutput", "subsystemOutput"}

\* A sources or destinations table as the documents have it: empty, in the table
\* that encloses it, gap after the end of the one before.
EmptyTable == [name: {"sources", "destinations"}, within: STRING, gap: Nat,
               length: {1}, nodes: {{}}, filled: {FALSE}]

\* Who routes where: the keys that routing_base_ports may have.
Routing(sys) ==
    {r \in sys.subs \X sys.procs :
        \/ sys.type[r[2]] = "RoutingManager" /\ sys.sub[r[2]] = r[1]
        \/ r[2] \in sys.dfos /\ sys.sub[r[2]] \in sys.sources[r[1]]}

\* What a boot file and the documents may say: subsystems and processes in any
\* number, whose sources and destinations may name what is none.  The ports of a
\* partition leave room for its processes, and those below them for 45 routers.
IsSystem(sys) ==
    LET readers == {p \in sys.procs : sys.type[p] = "BoardReader"} IN
    /\ IsFiniteSet(sys.subs) /\ sys.subs \subseteq Nat \ {None}
    /\ sys.sources \in [sys.subs -> SUBSET Nat]
    /\ \A s \in sys.subs : IsFiniteSet(sys.sources[s])
    /\ sys.destination \in [sys.subs -> Nat]
    /\ sys.fragmentMode \in [sys.subs -> BOOLEAN]
    /\ IsFiniteSet(sys.procs) /\ sys.procs # {}
    /\ sys.procs \subseteq {p \in Nat : p + 90 < PortsPerPartition}
    /\ sys.type \in [sys.procs -> Types] /\ sys.sub \in [sys.procs -> sys.subs]
    /\ sys.target \in [sys.procs -> {"not set", "EventBuilder", "DataLogger", "Dispatcher"}]
    /\ sys.dfos \subseteq {p \in sys.procs : sys.type[p] = "EventBuilder"}
    /\ Cardinality(Routing(sys)) <= 45
    /\ sys.silent \subseteq readers
    /\ sys.ids \in [readers -> SUBSET Nat] /\ \A p \in readers : IsFiniteSet(sys.ids[p])
    /\ sys.size \in [readers -> Nat]
    /\ sys.stated \in [sys.procs -> Nat] /\ sys.analyzers \in [sys.procs -> Nat]
    /\ sys.strict \in BOOLEAN /\ sys.advanced \in BOOLEAN
    /\ sys.docs \in [sys.procs -> Seq(EmptyTable)]
    \* A process connects by RootNetOutput only as a sender, and art does.
    /\ \A p \in sys.procs : \A j \in DOMAIN sys.docs[p] :
           sys.docs[p][j].within \in {"rootNetOutput", "subsystemOutput"} =>
               sys.docs[p][j].name = "destinations" /\ sys.type[p] # "BoardReader"

ASSUME BookkeepingAssumption ==
    /\ BasePort \in Nat /\ PortsPerPartition \in Nat /\ Partition \in Nat
    /\ \A sys \in Systems : IsSystem(sys)

Subs == system.subs
Procs == system.procs
Sources(s) == system.sources[s]
Destination(s) == system.destination[s]
Group(s, type) == {p \in Procs : system.sub[p] = s /\ system.type[p] = type}
Readers == {p \in Procs : system.type[p] = "BoardReader"}
Senders == Readers \ system.silent
RoutingManagers == {p \in Procs : system.type[p] = "RoutingManager"}

\* Procinfo.__lt__: by type from upstream to downstream, then by port.
Place == [BoardReader |-> 1, EventBuilder |-> 2, DataLogger |-> 3, Dispatcher |-> 4,
          RoutingManager |-> 5]
Before(p, q) == \/ Place[system.type[p]] < Place[system.type[q]]
                \/ system.type[p] = system.type[q] /\ p < q
First(ps) == CHOOSE p \in ps : \A q \in ps \ {p} : Before(p, q)

\* Mutant: a target that is not set stays so.
MutantTarget(p) == system.target[p]

\* A router without a target routes to the eventbuilders.
Target(p) == IF system.target[p] = "not set" THEN "EventBuilder" ELSE system.target[p]

Init ==
    /\ system \in Systems
    /\ pc = "boot" /\ reason = "none"
    /\ fragments = [s \in Subs |-> {}] /\ space = [s \in Subs |-> 0]
    /\ visited = {} /\ path = <<>>
    /\ expected = [s \in Subs |-> 0] /\ eventSize = [s \in Subs |-> 0]
    /\ docs = system.docs
    /\ at = [p |-> First(Procs), name |-> "sources", from |-> 0]
    /\ token = [k \in {} |-> 0] /\ todo = {}
    /\ routes = [p \in Procs |-> [own |-> NoRoute, table |-> NoRoute, tokens |-> NoRoute]]
    /\ initCount = [p \in Procs |-> 0]

Goto(stage) == pc' = stage /\ UNCHANGED reason
Raise(why) == pc' = "raised" /\ reason' = why

-----------------------------------------------------------------------------
(* What the boot file says, and what the documents send *)

\* check_boot_info, at boot.  That a source has the subsystem as its destination
\* is not asked.
CheckBootInfo ==
    /\ pc = "boot"
    /\ IF /\ Cardinality(RoutingManagers) <= Cardinality(Subs)
          /\ \A s \in Subs : Destination(s) # None =>
                /\ Destination(s) \in Subs
                /\ s \in Sources(Destination(s))
       THEN Goto("count")
       ELSE Raise("boot")
    /\ UNCHANGED <<system, search, sizes, filling, routing, initCount>>

\* In strict mode an id is counted for the first reader that has it.
CountedFragments(s) ==
    LET readers == Senders \cap Group(s, "BoardReader")
        all == {<<p, i>> : p \in readers, i \in UNION {system.ids[q] : q \in readers}}
    IN  {f \in all : /\ f[2] \in system.ids[f[1]]
                     /\ system.strict =>
                          \A p \in readers : Before(p, f[1]) => f[2] \notin system.ids[p]}

\* A reader whose document names no fragment id takes the space of one fragment,
\* unless ids are strict.
Space(s) ==
    SumFunction([f \in CountedFragments(s) |-> system.size[f[1]]])
    + IF system.strict THEN 0
      ELSE SumFunctionOnSet(system.size,
                            {p \in Senders : system.sub[p] = s /\ system.ids[p] = {}})

CountFragments ==
    /\ pc = "count"
    /\ fragments' = [s \in Subs |-> CountedFragments(s)]
    /\ space' = [s \in Subs |-> Space(s)]
    /\ Goto("search")
    /\ UNCHANGED <<system, search, expected, eventSize, filling, routing, initCount>>

-----------------------------------------------------------------------------
(* find_cycle_in_subsystem_graph: a depth-first search along the sources *)

Top == path[Len(path)]
OnPath == {path[i] : i \in DOMAIN path}
Known(s) == Sources(s) \cap Subs     \* a source that is no subsystem is skipped

SearchFrom(s) ==
    /\ pc = "search" /\ path = <<>> /\ s \notin visited
    /\ visited' = visited \union {s}
    /\ path' = <<s>>
    /\ UNCHANGED <<system, pc, reason, sizes, filling, routing, initCount>>

Descend(r) ==
    /\ pc = "search" /\ path # <<>> /\ r \in Known(Top) \ visited
    /\ visited' = visited \union {r}
    /\ path' = Append(path, r)
    /\ UNCHANGED <<system, pc, reason, sizes, filling, routing, initCount>>

\* Mutant: any source that was visited counts as a cycle, a diamond too.
MutantFindCycle ==
    /\ pc = "search" /\ path # <<>> /\ Known(Top) \cap visited # {}
    /\ Raise("cycle")
    /\ UNCHANGED <<system, search, sizes, filling, routing, initCount>>

FindCycle ==
    /\ pc = "search" /\ path # <<>> /\ Known(Top) \cap OnPath # {}
    /\ Raise("cycle")
    /\ UNCHANGED <<system, search, sizes, filling, routing, initCount>>

\* Mutant: a source is left alone once it is visited, on the path or not.
MutantReturn ==
    /\ pc = "search" /\ path # <<>>
    /\ Known(Top) \subseteq visited
    /\ path' = SubSeq(path, 1, Len(path) - 1)
    /\ UNCHANGED <<system, pc, reason, visited, sizes, filling, routing, initCount>>

Return ==
    /\ pc = "search" /\ path # <<>>
    /\ Known(Top) \subseteq visited \ OnPath
    /\ path' = SubSeq(path, 1, Len(path) - 1)
    /\ UNCHANGED <<system, pc, reason, visited, sizes, filling, routing, initCount>>

NoCycle ==
    /\ pc = "search" /\ path = <<>> /\ visited = Subs
    /\ Goto("expect")
    /\ UNCHANGED <<system, search, sizes, filling, routing, initCount>>

-----------------------------------------------------------------------------
(* calculate_expected_fragments_per_event, calculate_max_event_size *)

\* Mutant: an event of a source always counts as one fragment.
MutantExpected ==
    [s \in Subs |-> Cardinality(fragments[s]) + Cardinality(Sources(s))]

\* A source's eventbuilders send on their fragments, or one event each time.
Expected ==
    LET e[s \in Subs] == Cardinality(fragments[s])
            + SumFunction([r \in Sources(s) |-> IF system.fragmentMode[r] THEN e[r] ELSE 1])
    IN  e

Scaled(n) == LET m == (11 * n) \div 10 IN m + ((8 - (m % 8)) % 8)

\* Mutant: what comes from the sources is not added.
MutantEventSize == [s \in Subs |-> IF space[s] < 10240 THEN 10240 ELSE space[s]]

EventSize ==
    LET z[s \in Subs] ==
            LET n == (IF system.advanced THEN Scaled(space[s]) ELSE space[s])
                     + SumFunctionOnSet(z, Sources(s))
            IN  IF n < 10240 THEN 10240 ELSE n
    IN  z

\* A source that is no subsystem is a KeyError.
Expect ==
    /\ pc = "expect"
    /\ IF \E s \in Subs : Sources(s) \ Subs # {}
       THEN Raise("KeyError") /\ UNCHANGED <<expected, eventSize>>
       ELSE Goto("sanity") /\ expected' = Expected /\ eventSize' = EventSize
    /\ UNCHANGED <<system, search, fragments, space, filling, routing, initCount>>

\* A DFO shares its subsystem with no eventbuilder, and its destination with no
\* RoutingManager.
CheckDFOs ==
    /\ pc = "sanity"
    /\ IF \A p \in system.dfos :
             /\ Group(system.sub[p], "EventBuilder") = {p}
             /\ \A q \in RoutingManagers : system.sub[q] # Destination(system.sub[p])
       THEN Goto("tables") ELSE Raise("DFO")
    /\ UNCHANGED <<system, search, sizes, filling, routing, initCount>>

-----------------------------------------------------------------------------
(* create_sources_or_destinations_string, and the loop that fills the tables *)

HasLoggers(s) == Group(s, "DataLogger") # {}

\* Mutant: the eventbuilders of the sources, whatever their destination.
MutantFeeding(s) == UNION {Group(r, "EventBuilder") : r \in Sources(s)}

Feeding(s) == UNION {Group(r, "EventBuilder") : r \in {r \in Subs : Destination(r) = s}}

SourceNodes(p) ==
    LET s == system.sub[p] IN
    CASE system.type[p] = "EventBuilder" -> Group(s, "BoardReader") \union Feeding(s)
      [] system.type[p] = "DataLogger"   -> Group(s, "EventBuilder")
      [] system.type[p] = "Dispatcher"   ->
            IF HasLoggers(s) THEN Group(s, "DataLogger") ELSE Group(s, "EventBuilder")
      [] OTHER -> {}

OrdinaryNodes(p) ==
    LET s == system.sub[p] IN
    CASE system.type[p] = "BoardReader"  -> Group(s, "EventBuilder")
      [] system.type[p] = "EventBuilder" ->
            IF HasLoggers(s) THEN Group(s, "DataLogger") ELSE Group(s, "Dispatcher")
      [] system.type[p] = "DataLogger"   -> Group(s, "Dispatcher")
      [] OTHER -> {}

InterNodes(p) ==
    IF system.type[p] = "EventBuilder" /\ Destination(system.sub[p]) # None
    THEN Group(Destination(system.sub[p]), "EventBuilder") ELSE {}

\* What max_event_size_bytes of its document will be.
DocumentSize(p) ==
    IF ~system.advanced /\ system.stated[p] > 0 THEN system.stated[p]
    ELSE eventSize[system.sub[p]]

\* Mutant: an eventbuilder gives its own event size to all its sources.
MutantWords(p, q, name) ==
    (IF system.type[p] = "BoardReader" THEN system.size[p] ELSE DocumentSize(p)) \div 8

\* The size of the buffers between p and q, as p's table has it.
Words(p, q, name) ==
    (IF system.type[p] = "BoardReader" THEN system.size[p]
     ELSE IF system.type[p] # "EventBuilder" \/ name # "sources" THEN DocumentSize(p)
     ELSE IF system.type[q] = "BoardReader" THEN system.size[q]
     ELSE eventSize[system.sub[q]]) \div 8

Nodes(p, table) ==
    {[node |-> q, words |-> Words(p, q, table.name)] :
        q \in IF table.name = "sources" THEN SourceNodes(p)
              ELSE IF table.within \in Inter THEN InterNodes(p)
              ELSE OrdinaryNodes(p)}

\* Where the j-th table of a document starts, and the first called name from there.
Start(doc, j) ==
    LET start[k \in 1..j] == doc[k].gap + IF k = 1 THEN 0 ELSE start[k-1] + doc[k-1].length
    IN  start[j]
Found(doc, name, from) ==
    {j \in DOMAIN doc : doc[j].name = name /\ Start(doc, j) >= from}

\* Mutant: an "if" where there was a "while", before 13-Apr-2018.
MutantFillTable ==
    /\ pc = "tables" /\ at.from = 0
    /\ LET p == at.p
           found == Found(docs[p], at.name, at.from)
           j == Min(found)
           nodes == Nodes(p, docs[p][j])
       IN  /\ found # {}
           /\ docs' = [docs EXCEPT ![p][j] =
                  [@ EXCEPT !.nodes = nodes, !.filled = TRUE, !.length = 1 + Cardinality(nodes)]]
           /\ at' = [at EXCEPT !.from = 1000]
    /\ UNCHANGED <<system, pc, reason, search, sizes, routing, initCount>>

\* Mutant: the search goes on from where the table starts.
MutantSearchOn ==
    /\ pc = "tables"
    /\ LET found == Found(docs[at.p], at.name, at.from)
           j == Min(found)
           nodes == Nodes(at.p, docs[at.p][j])
       IN  /\ found # {}
           /\ docs' = [docs EXCEPT ![at.p][j] =
                  [@ EXCEPT !.nodes = nodes, !.filled = TRUE, !.length = 1 + Cardinality(nodes)]]
           /\ at' = [at EXCEPT !.from = Start(docs[at.p], j)]
    /\ UNCHANGED <<system, pc, reason, search, sizes, routing, initCount>>

\* One turn: the table is replaced, unless a message table encloses it, and the
\* search goes on from where the old text of the table ended.
FillTable ==
    /\ pc = "tables"
    /\ LET p == at.p
           found == Found(docs[p], at.name, at.from)
           j == Min(found)
           nodes == Nodes(p, docs[p][j])
       IN  /\ found # {}
           /\ docs' = IF docs[p][j].within = "message" THEN docs
                      ELSE [docs EXCEPT ![p][j] =
                                [@ EXCEPT !.nodes = nodes, !.filled = TRUE,
                                          !.length = 1 + Cardinality(nodes)]]
           /\ at' = [at EXCEPT !.from = Start(docs[p], j) + docs[p][j].length]
    /\ UNCHANGED <<system, pc, reason, search, sizes, routing, initCount>>

\* No such table is left: the other name, then the next process.
NextTables ==
    /\ pc = "tables"
    /\ Found(docs[at.p], at.name, at.from) = {}
    /\ LET rest == {q \in Procs : Before(at.p, q)} IN
       IF at.name = "sources"
       THEN at' = [at EXCEPT !.name = "destinations", !.from = 0] /\ UNCHANGED <<pc, reason, todo>>
       ELSE IF rest # {}
       THEN at' = [p |-> First(rest), name |-> "sources", from |-> 0] /\ UNCHANGED <<pc, reason, todo>>
       ELSE Goto("ports") /\ todo' = Subs /\ UNCHANGED at
    /\ UNCHANGED <<system, search, sizes, docs, token, routes, initCount>>

-----------------------------------------------------------------------------
(* The ports of the routers, and who is pointed at which *)

\* A RoutingManager routes in its own subsystem, a DFO in those it is a source of.
RoutersOf(s) == {p \in RoutingManagers : system.sub[p] = s}
                \union {p \in system.dfos : system.sub[p] \in Sources(s)}

\* The next subsystem, in the order of the boot file: two routers with one target
\* are refused, the others are numbered on.
AssignPorts(s) ==
    /\ pc = "ports" /\ s \in todo /\ s = Min(todo)
    /\ LET new == RoutersOf(s)
           router(t) == CHOOSE p \in new : Target(p) = t
           targets == {Target(p) : p \in new}
       IN  IF Cardinality(targets) < Cardinality(new)
           THEN Raise("routers") /\ UNCHANGED <<token, todo>>
           ELSE /\ token' = [k \in DOMAIN token \union ({s} \X targets) |->
                      IF k[1] # s THEN token[k]
                      ELSE Cardinality(DOMAIN token)
                           + Cardinality({p \in new : Before(p, router(k[2]))})]
                /\ todo' = todo \ {s}
                /\ UNCHANGED <<pc, reason>>
    /\ UNCHANGED <<system, search, sizes, filling, routes, initCount>>

PortsDone ==
    /\ pc = "ports" /\ todo = {}
    /\ Goto("routes") /\ todo' = Procs
    /\ UNCHANGED <<system, search, sizes, filling, token, routes, initCount>>

RouterPort(k) == BasePort + 10 + PortsPerPartition * Partition + token[k]

\* Mutant: the updates are offset by the number of the router, not by their count.
MutantUpdatePort(k) == RouterPort(k) + token[k]

\* routing_base_ports + router_id, which by then counts all the routers.
UpdatePort(k) == RouterPort(k) + Cardinality(DOMAIN token)

\* set_process_manager_default_variables aside: the port of process p.
ProcessPort(p) == BasePort + 100 + PortsPerPartition * Partition + p

ParentsOfRouted == UNION {Sources(system.sub[p]) : p \in RoutingManagers}

\* Mutant: the tokens of a DataLogger go to the router of the eventbuilders.
MutantTokensKey(p) == <<system.sub[p], "EventBuilder">>

\* The router that a process hands its tokens to, if there is one.
TokensKey(p) == <<system.sub[p], system.type[p]>>

\* The router whose table a process follows.  An eventbuilder with a routed
\* subsystem downstream is pointed there last; with neither DataLoggers nor that
\* it is pointed nowhere, since subsystems_without_dataloggers stays empty.
TableKey(p) ==
    LET s == system.sub[p]
        next == CASE system.type[p] = "BoardReader"  -> <<s, "EventBuilder">>
                  [] system.type[p] = "EventBuilder" -> <<s, "DataLogger">>
                  [] system.type[p] = "DataLogger"   -> <<s, "Dispatcher">>
                  [] OTHER -> NoRoute
    IN  IF system.type[p] = "EventBuilder" /\ s \in ParentsOfRouted
        THEN <<Destination(s), "EventBuilder">>
        ELSE IF next \in DOMAIN token /\ p \notin system.silent THEN next ELSE NoRoute

\* The router that a router's own "daq" or "art" table describes: itself.
OwnKey(p) == <<IF p \in system.dfos THEN Destination(system.sub[p]) ELSE system.sub[p],
               Target(p)>>

Route(p) ==
    LET router == p \in system.dfos \union RoutingManagers
        tokens == TokensKey(p) \in DOMAIN token /\ system.type[p] # "BoardReader"
    IN  [own    |-> IF router THEN OwnKey(p) ELSE NoRoute,
         table  |-> IF router THEN NoRoute ELSE TableKey(p),
         tokens |-> IF ~router /\ tokens THEN TokensKey(p) ELSE NoRoute]

\* A key that no router has is a KeyError.
RouteTables(p) ==
    /\ pc = "routes" /\ p \in todo /\ p = First(todo)
    /\ IF {Route(p).own, Route(p).table} \subseteq DOMAIN token \union {NoRoute}
       THEN /\ routes' = [routes EXCEPT ![p] = Route(p)]
            /\ todo' = todo \ {p}
            /\ UNCHANGED <<pc, reason>>
       ELSE Raise("KeyError") /\ UNCHANGED <<routes, todo>>
    /\ UNCHANGED <<system, search, sizes, filling, token, initCount>>

RoutesDone ==
    /\ pc = "routes" /\ todo = {}
    /\ Goto("init") /\ todo' = Subs
    /\ UNCHANGED <<system, search, sizes, filling, token, routes, initCount>>

-----------------------------------------------------------------------------
(* init_fragment_count *)

SendsViaRootNetOutput(p, q) ==
    \E j \in DOMAIN docs[p] :
        /\ docs[p][j].within \in {"rootNetOutput", "subsystemOutput"}
        /\ \E n \in docs[p][j].nodes : n.node = q

FromSenders(ps, q) ==
    SumFunctionOnSet(system.analyzers, {p \in ps : SendsViaRootNetOutput(p, q)})

\* Mutant: an eventbuilder asks its own subsystem's, as the other types do.
MutantIncoming(p) ==
    LET s == system.sub[p]
        loggers == FromSenders(Group(s, "DataLogger"), p)
    IN  CASE system.type[p] \in {"EventBuilder", "DataLogger"} ->
                FromSenders(Group(s, "EventBuilder"), p)
          [] system.type[p] = "Dispatcher" ->
                IF loggers > 0 THEN loggers ELSE FromSenders(Group(s, "EventBuilder"), p)
          [] OTHER -> 0

\* The art processes that send to p over a RootNetOutput.
Incoming(p) ==
    LET s == system.sub[p]
        loggers == FromSenders(Group(s, "DataLogger"), p)
    IN  CASE system.type[p] = "EventBuilder" ->
                FromSenders(UNION {Group(r, "EventBuilder") : r \in Sources(s)}, p)
          [] system.type[p] = "DataLogger"   -> FromSenders(Group(s, "EventBuilder"), p)
          [] system.type[p] = "Dispatcher"   ->
                IF loggers > 0 THEN loggers ELSE FromSenders(Group(s, "EventBuilder"), p)
          [] OTHER -> 0

\* The count of a type in a subsystem is that of its first process.
InitCounts(s) ==
    /\ pc = "init" /\ s \in todo /\ s = Min(todo)
    /\ initCount' = [p \in Procs |->
           IF system.sub[p] = s THEN Incoming(First(Group(s, system.type[p]))) ELSE initCount[p]]
    /\ todo' = todo \ {s}
    /\ IF todo = {s} THEN Goto("done") ELSE UNCHANGED <<pc, reason>>
    /\ UNCHANGED <<system, search, sizes, filling, token, routes>>

-----------------------------------------------------------------------------
Next ==
    \/ CheckBootInfo \/ CountFragments
    \/ \E s \in Subs : SearchFrom(s) \/ Descend(s)
    \/ FindCycle \/ Return \/ NoCycle
    \/ Expect \/ CheckDFOs \/ FillTable \/ NextTables
    \/ \E s \in Subs : AssignPorts(s) \/ InitCounts(s)
    \/ PortsDone \/ RoutesDone
    \/ \E p \in Procs : RouteTables(p)

Spec == Init /\ [][Next]_vars

\* The thread that bookkeeps goes on.
FairSpec == Spec /\ WF_vars(Next)

-----------------------------------------------------------------------------
(* Properties *)

\* Every variable of the bookkeeping keeps its shape through all the stages.
TypeOK ==
    /\ pc \in Stages
    /\ reason \in {"none", "boot", "cycle", "KeyError", "DFO", "routers"}
    /\ \A s \in Subs : fragments[s] \subseteq Readers \X Int
    /\ visited \subseteq Subs /\ OnPath \subseteq visited
    /\ \A f \in {space, expected, eventSize} : f \in [Subs -> Nat]
    /\ \A p \in Procs : \A j \in DOMAIN docs[p] : \A n \in docs[p][j].nodes : n.node \in Procs
    /\ at.p \in Procs /\ at.name \in {"sources", "destinations"} /\ at.from \in Nat
    /\ DOMAIN token \subseteq Subs \X Types
    /\ todo \subseteq Subs \union Procs
    /\ initCount \in [Procs -> Nat]

\* A system of which every member of some part has a source in that part.
HasCycle == \E c \in (SUBSET Subs) \ {{}} : \A s \in c : Sources(s) \cap c # {}

\* find_cycle_in_subsystem_graph raises for a cyclic graph of sources and for no
\* other, a diamond or a subsystem of several destinations included: else the
\* recursions after it do not end, or a good system is refused.
CyclesFound ==
    /\ reason = "cycle" => HasCycle
    /\ pc \in {"expect", "sanity", "tables", "ports", "routes", "init", "done"} => ~HasCycle

Filled == pc \in {"ports", "routes", "init", "done"}

Ends(p, name) ==
    UNION {docs[p][j].nodes : j \in {i \in DOMAIN docs[p] : /\ docs[p][i].name = name
                                                           /\ docs[p][i].within # "message"}}
Peers(p, name) == {n.node : n \in Ends(p, name)}

\* The document of p has the tables its connections need.
Complete(p) ==
    LET has(name, within) ==
            \E j \in DOMAIN docs[p] : docs[p][j].name = name /\ docs[p][j].within \in within
        plain == {"daq", "rootNetOutput"}
    IN  /\ system.type[p] \in {"EventBuilder", "DataLogger", "Dispatcher"} => has("sources", {"daq"})
        /\ OrdinaryNodes(p) # {} => has("destinations", plain)
        /\ InterNodes(p) # {} => has("destinations", Inter)

Mutual == \A s, r \in Subs : r \in Sources(s) <=> Destination(r) = s
WellDescribed ==
    /\ Mutual
    /\ \A p \in Procs : Complete(p)
    /\ \A r \in Subs : Destination(r) # None =>
           \A s \in {r, Destination(r)} : Group(s, "EventBuilder") # {}

\* After the loop over a document every sources and destinations table outside a
\* message table is filled: the search after a replaced table, whose length has
\* changed, passes no table by.
AllTablesFilled ==
    Filled => \A p \in Procs : \A j \in DOMAIN docs[p] :
                  docs[p][j].filled <=> docs[p][j].within # "message"

\* Two processes are connected at both ends or at neither: who is listed as a
\* destination lists the sender as a source, within a subsystem, between two of
\* them, and with or without DataLoggers.
LinksHaveTwoEnds ==
    Filled /\ (\A p \in Procs : Complete(p)) =>
        \A p, q \in Procs : q \in Peers(p, "destinations") <=> p \in Peers(q, "sources")

\* And both ends give the transfer the same buffers, when no document states a
\* size of its own.
BuffersAgree ==
    Filled /\ (\A p \in Procs : system.advanced \/ system.stated[p] = 0) =>
        \A p, q \in Procs :
            \A n \in Ends(p, "destinations"), m \in Ends(q, "sources") :
                n.node = q /\ m.node = p => n.words = m.words

Feeders(s) ==
    {r \in Subs : \E p \in Group(r, "EventBuilder") :
                      Peers(p, "destinations") \cap Group(s, "EventBuilder") # {}}

OwnFragments(s) ==
    LET readers == Senders \cap Group(s, "BoardReader") IN
    IF system.strict THEN Cardinality(UNION {system.ids[p] : p \in readers})
    ELSE SumFunction([p \in readers |-> Cardinality(system.ids[p])])

\* What reaches an eventbuilder of s for each event, along the tables.
Arriving ==
    LET a[s \in Subs] == OwnFragments(s)
            + SumFunction([r \in Feeders(s) |-> IF system.fragmentMode[r] THEN a[r] ELSE 1])
    IN  a

\* expected_fragments_per_event, which is worked out from the sources of the boot
\* file, is the number of fragments the destinations tables bring: an eventbuilder
\* neither closes an event early nor waits for ever.
ExpectedArrive ==
    Filled /\ WellDescribed =>
        \A s \in Subs : Group(s, "EventBuilder") # {} => expected[s] = Arriving[s]

Bytes ==
    LET b[s \in Subs] ==
            SumFunction([p \in Senders \cap Group(s, "BoardReader") |->
                            system.size[p] * Cardinality(system.ids[p])])
            + SumFunctionOnSet(b, Feeders(s))
    IN  b

\* The largest event that can reach a subsystem fits in its max_event_size_bytes,
\* which is rounded and never less than 10240; a process that states a size of its
\* own, and ids that several readers share, are left aside.
EventsFit ==
    Filled /\ WellDescribed /\ ~system.strict => \A s \in Subs : eventSize[s] >= Bytes[s]

\* No two ports that bookkeeping hands out are the same, and none is the port of a
\* process of this partition, or of the routers of the next: routing_base_ports is
\* offset by the final router_id only when the tables are written.
PortsApart ==
    pc \in {"routes", "init", "done"} =>
        LET keys == DOMAIN token
            ports == {RouterPort(k) : k \in keys} \union {UpdatePort(k) : k \in keys}
        IN  /\ Cardinality(ports) = 2 * Cardinality(keys)
            /\ \A p \in Procs : /\ \A n \in ports : n < ProcessPort(p)
                                /\ ProcessPort(p) < BasePort + 10 + PortsPerPartition * (Partition + 1)

Routers == RoutingManagers \union system.dfos

\* The groups of receivers with tokens that p sends to.
RoutedGroups(p) ==
    {TokensKey(q) : q \in Peers(p, "destinations")} \cap DOMAIN token

\* A process that feeds one routed group follows the table of the router which
\* the receivers hand their tokens to and which describes itself under the same
\* port.  The exceptions are known: eventbuilders that send straight to routed
\* Dispatchers or to a subsystem that a DFO routes, and silent readers.
RoutesAgree ==
    pc = "done" /\ WellDescribed =>
        /\ \A p \in Procs \ (Routers \union system.silent) : \A k \in RoutedGroups(p) :
              RoutedGroups(p) = {k}
              /\ ~(system.type[p] = "EventBuilder" /\ k[2] = "Dispatcher")
              /\ (system.type[p] = "EventBuilder" /\ k[2] = "EventBuilder" =>
                     \E r \in RoutingManagers : system.sub[r] = k[1])
              => routes[p].table = k
        /\ \A k \in DOMAIN token :
              /\ \A q \in Group(k[1], k[2]) \ Routers : routes[q].tokens = k
              /\ Cardinality({r \in Routers : routes[r].own = k}) = 1

\* Every process waits for the init fragments of all the art processes that send
\* to it over a RootNetOutput, and of no other, though the count is worked out
\* once for its type and subsystem.
InitCountsRight ==
    pc = "done" /\ WellDescribed =>
        \A q \in Procs : initCount[q] = FromSenders(Procs, q)

\* Systems that bookkeeping has no reason to refuse.
Legal ==
    /\ Cardinality(RoutingManagers) <= Cardinality(Subs)
    /\ Mutual /\ \A s \in Subs : Sources(s) \subseteq Subs /\ Destination(s) \in Subs \union {None}
    /\ ~HasCycle
    /\ \A p \in system.dfos :
          /\ Destination(system.sub[p]) # None
          /\ Group(system.sub[p], "EventBuilder") = {p}
          /\ \A q \in RoutingManagers : system.sub[q] # Destination(system.sub[p])
    /\ \A s \in Subs : \A p, q \in RoutersOf(s) : Target(p) = Target(q) => p = q
    /\ \A p \in RoutingManagers :
          Sources(system.sub[p]) # {} =>
              \E q \in RoutingManagers : system.sub[q] = system.sub[p] /\ Target(q) = "EventBuilder"

\* Bookkeeping does not raise for a system that is legal: none of its dictionaries
\* misses a key half-way, with some documents rewritten and others not.
LegalIsBooked == pc = "raised" => ~Legal

\* For every system the search, the loops over the tables and the rest come to an
\* end, well or with an exception, so that config does.
BookkeepingEnds == <>(pc \in {"done", "raised"})

=============================================================================
