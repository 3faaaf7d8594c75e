----------------------------- MODULE MCChestLink -----------------------------
(* Two accounts in either order or one alone, a page of one entry, and    *)
(* every interleaving of a handful of events.                              *)
EXTENDS ChestLink

MCListes == {<<0, 1>>, <<1>>}
Reste(t, e) == [touches |-> t, evenements |-> e]
MCBudgets == {Reste(3, 0), Reste(1, 1), Reste(0, 2)}
=============================================================================
