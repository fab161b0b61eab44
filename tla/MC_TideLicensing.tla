------------------------- MODULE MC_TideLicensing -------------------------
(***************************************************************************)
(* Model-checking instance of TideLicensing.  The constants are given in   *)
(* the .cfg files: one initial license and one renewal (three candidates), *)
(* two verifying-key ids, and the code's 10 retry attempts.                *)
(***************************************************************************)
EXTENDS TideLicensing

====
