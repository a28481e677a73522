---------------------------- MODULE MCDoCommand ----------------------------
(* Two subsystems, the first a source of the second.  One boardreader is    *)
(* ranked before the other on start; they share a bucket otherwise.          *)
EXTENDS DoCommand

MCProcs      == {"br1", "br2", "eb1", "dl2"}
MCSubsystems == {"s1", "s2"}
MCListed     == [s1 |-> [s1 |-> 0, s2 |-> 0], s2 |-> [s1 |-> 1, s2 |-> 0]]
MCSub        == [br1 |-> "s1", br2 |-> "s1", eb1 |-> "s1", dl2 |-> "s2"]
MCType       == [br1 |-> "BoardReader", br2 |-> "BoardReader", eb1 |-> "EventBuilder",
                 dl2 |-> "DataLogger"]
Alike        == [p \in MCProcs |-> 999]
MCPriorities == [Init |-> Alike, Start |-> [Alike EXCEPT !.br1 = 0, !.br2 = 1], Stop |-> Alike]
=============================================================================
