----------------------------- MODULE MCKeyEngine -----------------------------
(***************************************************************************)
(* Three local keys and a remote one under four keymaps: two tap-holds and *)
(* one of the other half, one-shots with a layer-mod, toggles with the     *)
(* lock and a momentary layer found on another, and two combos that share  *)
(* a key beside a layer-tap, with room for two deferred keys of three.  A  *)
(* tick is half the timeout of a tap-hold.                                 *)
(***************************************************************************)
EXTENDS KeyEngine

A(t, c, l, m) == [t |-> t, c |-> c, l |-> l, m |-> m]
C(c) == A("code", c, 0, {})
MO(l) == A("mo", 0, l, {})
LM(l, m) == A("mo", 0, l, {m})
LT(l, c) == A("lt", c, l, {})
MT(m, c) == A("mt", c, 0, {m})
OSM(m) == A("osm", 0, 0, {m})
OSL(l) == A("osl", 0, l, {})
TO(l) == A("to", 0, l, {})
Lock == A("lock", 0, 0, {})

Carte(c0, c1) == 0 :> c0 @@ 1 :> c1
MCKeymaps ==
    {Carte(<<MT("S", 4), LT(1, 5), C(6), MT("C", 7)>>, <<KNo, KNo, C(8), KNo>>),
     Carte(<<OSM("S"), OSL(1), C(6), LM(1, "C")>>, <<KNo, KNo, C(8), KNo>>),
     Carte(<<TO(1), MO(1), C(6), C(7)>>, <<TO(1), Lock, KNo, MO(0)>>),
     Carte(<<C(4), C(5), LT(1, 6), C(7)>>, <<KNo, C(8), KNo, KNo>>)}
MCCombos == <<[k1 |-> 1, k2 |-> 2, c |-> 9], [k1 |-> 2, k2 |-> 4, c |-> 8]>>
=============================================================================
