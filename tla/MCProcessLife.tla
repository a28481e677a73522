--------------------------- MODULE MCProcessLife ---------------------------
(* A boardreader and a dispatcher on one host, two eventbuilders on another, *)
(* one of which must be left, by a line of the requirements that the boot of *)
(* a smaller system violates.  A second line allows any other loss.          *)
EXTENDS ProcessLife

MCProcs    == {"br", "eb1", "eb2", "dp"}
MCHosts    == {"h1", "h2"}
MCHostOf   == [br |-> "h1", eb1 |-> "h2", eb2 |-> "h2", dp |-> "h1"]
MCKind     == [br |-> "BoardReader", eb1 |-> "EventBuilder", eb2 |-> "EventBuilder",
               dp |-> "Dispatcher"]
MCPosition == [br |-> 1, eb1 |-> 2, eb2 |-> 3, dp |-> 4]
MCSystems  == {MCProcs, {"br", "dp"}}
MCRules    == {1, 2}
MCMatches  == <<{"eb1", "eb2"}, {"eb2", "dp"}>>
MCPercent  == <<50, 0>>
MCAtLeast  == <<1, 0>>
=============================================================================
