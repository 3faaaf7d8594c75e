----------------------------- MODULE FusionFile -----------------------------
(***************************************************************************)
(* The transition queue of the dongle engine: a ring of FUSION_FILE_CAP    *)
(* fused states, with the last state pushed kept apart for deduplication.  *)
(* A queue is the record of the C struct; every operation of the source is *)
(* an operator from a queue to the queue it leaves behind.                 *)
(***************************************************************************)
EXTENDS Integers, Sequences

CONSTANTS
    Cap,        \* FUSION_FILE_CAP, 8 in the code
    CountMod    \* the overflow counter is a uint32_t: 2^32 in the code

ASSUME CapAssumption == Cap \in Nat \ {0}
ASSUME CountAssumption == CountMod \in Nat \ {0}

Slots == 0 .. Cap - 1

\* fusion_file_t, for queues of elements of S.
Files(S) == [etats : [Slots -> S], tete : Slots, n : 0 .. Cap,
             dernier : S, dernier_valide : BOOLEAN,
             ecrasees : 0 .. CountMod - 1]

\* The fields in the order of the struct.
File(etats, tete, n, dernier, valide, ecrasees) ==
    [etats |-> etats, tete |-> tete, n |-> n, dernier |-> dernier,
     dernier_valide |-> valide, ecrasees |-> ecrasees]

\* fusion_file_init: memset to zero; zero is the fused state with no key.
FileInit(zero) == File([i \in Slots |-> zero], 0, 0, zero, FALSE, 0)

\* A state identical to the last one pushed is not a transition.
Meme(f, e) == f.dernier_valide /\ f.dernier = e

\* The slot k places after the oldest one.
Slot(f, k) == (f.tete + k) % Cap

\* When full, the most recent slot is overwritten and the overflow counted.
MergeLast(f, e) ==
    File([f.etats EXCEPT ![Slot(f, Cap - 1)] = e], f.tete, f.n,
         e, TRUE, (f.ecrasees + 1) % CountMod)

AddLast(f, e) ==
    File([f.etats EXCEPT ![Slot(f, f.n)] = e], f.tete, f.n + 1,
         e, TRUE, f.ecrasees)

Push(f, e) == IF Meme(f, e) THEN f
              ELSE IF f.n = Cap THEN MergeLast(f, e)
              ELSE AddLast(f, e)

\* The oldest pending state, and the queue without it (for f.n > 0).
\* (Mistaken: the most recent one is played.)
Newest(f) == f.etats[Slot(f, f.n - 1)]

Oldest(f) == f.etats[f.tete]
Pop(f) == File(f.etats, Slot(f, 1), f.n - 1,
               f.dernier, f.dernier_valide, f.ecrasees)

\* Drops what is pending; the overflow counter survives, the last state is
\* forgotten so that the current one passes deduplication on resume.
\* (Mistaken: the last state is remembered.)
ViderEtRetenir(f) == File(f.etats, 0, 0, f.dernier, f.dernier_valide, f.ecrasees)

Vider(f) == File(f.etats, 0, 0, f.dernier, FALSE, f.ecrasees)

\* The sequence of states a queue stands for, oldest first.
Content(f) == [i \in 1 .. f.n |-> f.etats[Slot(f, i - 1)]]

\* What the queue remembers agrees with e: the state kept for deduplication,
\* and the most recent pending one.
EndsOn(f, e) ==
    /\ f.dernier_valide => f.dernier = e
    /\ ~f.dernier_valide => f.n = 0
    /\ f.n > 0 => Content(f)[f.n] = e
=============================================================================
