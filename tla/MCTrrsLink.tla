----------------------------- MODULE MCTrrsLink -----------------------------
(***************************************************************************)
(* The deadlines of link_handshake.h in ticks of 100 ms; the left half may *)
(* have a host, the right half sleeps.                                     *)
(***************************************************************************)
EXTENDS TrrsLink
=============================================================================
