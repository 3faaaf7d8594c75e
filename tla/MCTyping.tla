------------------------------ MODULE MCTyping ------------------------------
(***************************************************************************)
(* On the way to a host: which of the two engines types (KbdRelay) and how *)
(* the reports of an engine reach the endpoint (HidPath).  The two share   *)
(* no variable: a behaviour is one of either, chosen at the start, and the *)
(* other stays in its first state.                                         *)
(*                                                                         *)
(* KbdRelay: one key on each half, one repeat, every order of the          *)
(* deadlines.  HidPath: two reports (empty, one key down), a queue short   *)
(* enough to fill and a bounded number of productions.                     *)
(***************************************************************************)
EXTENDS KbdRelay, HidPath

VARIABLE chemin  \* which of the two moves

TypingInit ==
    /\ chemin \in {"moteurs", "rapports"}
    /\ Init /\ HidInit
    /\ chemin = "moteurs" => carte = "clavier"
    /\ chemin = "rapports" => ~cable

Moteurs  == chemin = "moteurs" /\ Next /\ UNCHANGED <<hidVars, chemin>>
Rapports == chemin = "rapports" /\ HidNext /\ UNCHANGED <<vars, chemin>>

\* Each under the fairness of its own specification; that of HidPath asks
\* nothing of its first state.
TypingSpec ==
    /\ TypingInit /\ [][Moteurs \/ Rapports]_<<vars, hidVars, chemin>>
    /\ chemin = "moteurs" => Fairness
    /\ HidFairness
=============================================================================
