---- MODULE MCSearchRate ----
(* Several windows, each long enough to hold the limit in one tick.        *)
EXTENDS SearchRate
=============================
