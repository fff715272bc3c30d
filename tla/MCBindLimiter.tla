---- MODULE MCBindLimiter ----
(* Three windows of time and two addresses: buckets fill, age, are swept   *)
(* and fill again.                                                         *)
EXTENDS BindLimiter
==============================
