---------------------- MODULE MC_ChangeRequestButtons ----------------------
(* Two change requests, as model values, for the toolbar model.            *)
EXTENDS ChangeRequestButtons

CONSTANTS r1, r2

MCRequests == {r1, r2}
====
