---------------------------- MODULE OperatorView ----------------------------
(***************************************************************************)
(* What DAQInterface promises whoever asks for its state: the state machine *)
(* that dict_state_to and dict_state_from of rc/control/component.py spell  *)
(* out.  A request is accepted only in the state its transition starts      *)
(* from; a transition ends in the state it leads to, or back where it       *)
(* started (only boot and config can), or, if it fails, in "stopped".       *)
(***************************************************************************)
VARIABLE state

Edges ==
    {<<"stopped", "booting", "booted">>,  <<"booted", "configuring", "ready">>,
     <<"ready", "starting", "running">>,  <<"running", "stopping", "ready">>,
     <<"running", "pausing", "paused">>,  <<"paused", "resuming", "running">>,
     <<"ready", "terminating", "stopped">>,
     <<"booted", "terminating", "stopped">>}

Revertible == {"booting", "configuring"}

Init == state = "stopped"

Request == \E e \in Edges : state = e[1] /\ state' = e[2]
Achieve == \E e \in Edges : state = e[2] /\ state' = e[3]
Revert  == \E e \in Edges : e[2] \in Revertible /\ state = e[2] /\ state' = e[1]
Fail    == \E e \in Edges : state = e[2] /\ state' = "stopped"

End  == Achieve \/ Revert \/ Fail
Next == Request \/ End

\* A transition does not last for ever.
Spec == Init /\ [][Next]_state /\ WF_state(End)
=============================================================================
