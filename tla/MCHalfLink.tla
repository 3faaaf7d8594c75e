----------------------------- MODULE MCHalfLink -----------------------------
(***************************************************************************)
(* One key, deadlines in the source's proportion (a reaffirmation is a     *)
(* quarter of the silence), a fallback after two sends instead of eight.   *)
(***************************************************************************)
EXTENDS HalfLink
=============================================================================
