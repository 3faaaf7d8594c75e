------------------------------- MODULE MCVeille -------------------------------
(***************************************************************************)
(* Two keys, the debounce of the halves: two scans, eager press.           *)
(***************************************************************************)
EXTENDS Veille
=============================================================================
