---- MODULE MCStore ----
(* Group names include two that differ only in case.                      *)
EXTENDS Store
MCGroupNames == {"ops", "OPS"}
MCFold == [n \in MCGroupNames |-> "ops"]
========================
