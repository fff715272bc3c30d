---- MODULE MCShutdown ----
(* Every choice of the four listeners, in the order of run. *)
EXTENDS Shutdown

MCConfigs ==
    {SelectSeq(<<"http", "https", "ldap", "ldaps">>, LAMBDA l : l \in enabled) :
        enabled \in SUBSET Listener}
===========================
