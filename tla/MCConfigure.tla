----------------------------- MODULE MCConfigure -----------------------------
(* Two processes, two configurations, two runs, two boots, and every fault. *)
EXTENDS Configure

MCLabels == <<"eb", "dl">>
MCConfigs == {"ots_config", "demo"}
MCRuns == {1, 2}

=============================================================================
