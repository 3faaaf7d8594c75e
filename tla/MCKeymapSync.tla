---------------------------- MODULE MCKeymapSync ----------------------------
(***************************************************************************)
(* Two chunks of one bit, queues of two.                                   *)
(***************************************************************************)
EXTENDS KeymapSync

MCDepart == [i \in 0 .. N - 1 |-> 0]
=============================================================================
