---- MODULE MCSessions ----
(* Two names, three tokens and two slots: the table fills, empties by       *)
(* expiry, logout and revocation, and fills again.                          *)
EXTENDS Sessions
===========================
