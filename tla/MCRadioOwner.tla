----------------------------- MODULE MCRadioOwner -----------------------------
(***************************************************************************)
(* RadioOwner with a bounded number of half-matrix changes and a receive   *)
(* FIFO of one frame: full as soon as anything was received.               *)
(***************************************************************************)
EXTENDS RadioOwner
=============================================================================
