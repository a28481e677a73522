---------------------------- MODULE MCBookkeeping ----------------------------
(* Two families of systems: every graph of sources over three subsystems,    *)
(* with an eventbuilder each, and two or three subsystems in which the       *)
(* processes, their routers and the modes of the settings file vary.         *)
EXTENDS Bookkeeping, TLC

Table(name, within) ==
    [name |-> name, within |-> within, gap |-> 1, length |-> 1, nodes |-> {}, filled |-> FALSE]

\* The documents of the example configurations: empty placeholders.
Document(type) ==
    CASE type = "BoardReader"  -> <<Table("destinations", "daq")>>
      [] type = "EventBuilder" -> <<Table("destinations", "message"), Table("sources", "daq"),
                                    Table("destinations", "rootNetOutput"),
                                    Table("destinations", "subsystemOutput")>>
      [] type = "DataLogger"   -> <<Table("sources", "daq"), Table("destinations", "rootNetOutput")>>
      [] OTHER                 -> <<Table("sources", "daq")>>

Plain == [strict |-> FALSE, advanced |-> FALSE, silent |-> {}, dfos |-> {}]

\* The destination of s among the subsystems that list it, or none.
Listing(sources, s) ==
    LET ts == {t \in DOMAIN sources : s \in sources[t]} IN IF ts = {} THEN None ELSE Min(ts)

GraphProcs == 0..3
Graph(sources, destination) ==
    Plain @@
    [subs |-> 1..3, sources |-> sources, destination |-> destination,
     fragmentMode |-> [s \in 1..3 |-> s # 2],
     procs |-> GraphProcs,
     type |-> [p \in GraphProcs |-> IF p = 0 THEN "BoardReader" ELSE "EventBuilder"],
     sub |-> [p \in GraphProcs |-> IF p = 0 THEN 1 ELSE p],
     target |-> [p \in GraphProcs |-> "not set"],
     ids |-> [p \in {0} |-> {1, 2}], size |-> [p \in {0} |-> 6000],
     stated |-> [p \in GraphProcs |-> 0], analyzers |-> [p \in GraphProcs |-> p],
     docs |-> [p \in GraphProcs |->
                  Document(IF p = 0 THEN "BoardReader" ELSE "EventBuilder")]]

Graphs3 ==
    {Graph(g, [s \in 1..3 |-> Listing(g, s)]) : g \in [1..3 -> SUBSET (1..3)]}
    \union {Graph([s \in 1..3 |-> IF s = 3 THEN {1, 4} ELSE {}], d) :
               d \in {[s \in 1..3 |-> IF s = 1 THEN t ELSE None] : t \in {None, 2, 3}}}

\* Subsystem 1 sends to 2, in one of the forms to 2 along with 3, or to none.
Forms == {"chain", "join", "apart"}
FormSubs(form) == IF form = "join" THEN 1..3 ELSE 1..2
FormSources(form) ==
    [s \in FormSubs(form) |-> IF s # 2 \/ form = "apart" THEN {} ELSE FormSubs(form) \ {2}]

\* 0-2 boardreaders, 3-5 eventbuilders (3 a DFO when there is one), 6 a DataLogger,
\* 7 a Dispatcher, 8 and 9 RoutingManagers.
TypeOf == [p \in 0..9 |-> IF p <= 2 THEN "BoardReader" ELSE IF p <= 5 THEN "EventBuilder"
                          ELSE IF p = 6 THEN "DataLogger" ELSE IF p = 7 THEN "Dispatcher"
                          ELSE "RoutingManager"]

NoRouters == [dfos |-> {}, managers |-> {}, at |-> 2, targets |-> <<"EventBuilder", "DataLogger">>]
RouterChoices ==
    {NoRouters, [NoRouters EXCEPT !.dfos = {3}], [NoRouters EXCEPT !.dfos = {3}, !.managers = {8}],
     [NoRouters EXCEPT !.dfos = {4}]}
    \union {[NoRouters EXCEPT !.managers = {8}, !.at = s, !.targets[1] = t] :
               s \in {1, 2}, t \in {"not set", "DataLogger", "Dispatcher"}}
    \union {[NoRouters EXCEPT !.managers = {8, 9}, !.at = s, !.targets[2] = t] :
               s \in {1, 2}, t \in {"EventBuilder", "DataLogger", "Dispatcher"}}

Modes == {[strict |-> FALSE, advanced |-> FALSE], [strict |-> FALSE, advanced |-> TRUE],
          [strict |-> TRUE, advanced |-> TRUE]}

Build(form, mode, merged, silent, storing, place, routers) ==
    LET procs == (0..5) \union storing \union routers.managers
        sub == [p \in procs |-> CASE p \in {0, 1, 3} -> 1
                                  [] p = 5 /\ form = "join" -> 3
                                  [] p \in {6, 7} -> place
                                  [] p \in {8, 9} -> routers.at
                                  [] OTHER -> 2]
    IN  mode @@
        [subs |-> FormSubs(form), sources |-> FormSources(form),
         destination |-> [s \in FormSubs(form) |-> Listing(FormSources(form), s)],
         fragmentMode |-> [s \in FormSubs(form) |-> ~merged],
         procs |-> procs, type |-> [p \in procs |-> TypeOf[p]], sub |-> sub,
         dfos |-> routers.dfos,
         target |-> [p \in procs |-> IF p >= 8 THEN routers.targets[p - 7] ELSE "not set"],
         silent |-> silent,
         ids |-> [p \in 0..2 |-> IF p = 0 THEN {0, 1} ELSE IF p = 1 THEN {1} ELSE {2}],
         size |-> [p \in 0..2 |-> IF mode.advanced THEN 4000 * p + 6001 ELSE 6000],
         stated |-> [p \in procs |-> IF p = 4 /\ ~mode.advanced /\ merged THEN 9000 ELSE 0],
         analyzers |-> [p \in procs |-> IF p = 4 THEN 2 ELSE 1],
         docs |-> [p \in procs |-> Document(TypeOf[p])]]

Variants ==
    {Build(form, mode, merged, silent, storing, place, routers) :
        form \in Forms, mode \in Modes, merged \in BOOLEAN, silent \in {{}, {0}},
        storing \in {{}, {7}, {6, 7}}, place \in {1, 2}, routers \in RouterChoices}

MCSystems == Graphs3 \union Variants

=============================================================================
