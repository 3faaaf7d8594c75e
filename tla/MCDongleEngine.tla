--------------------------- MODULE MCDongleEngine ---------------------------
(***************************************************************************)
(* DongleEngine on an instance small enough for TLC: each half has one key *)
(* (down or up), a queue of two states so that it overflows, a timeout of  *)
(* one tick and a link declared lost after three.                          *)
(***************************************************************************)
EXTENDS DongleEngine
=============================================================================
