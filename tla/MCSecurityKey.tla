---------------------------- MODULE MCSecurityKey ----------------------------
(***************************************************************************)
(* A card of two keys, two tries per PIN, a touch awaited for two periods. *)
(***************************************************************************)
EXTENDS SecurityKey

MCSlots == {"sig", "dec"}
Budget(n, parmi, p, c, r) ==
    [commandes |-> n, parmi |-> parmi, pannes |-> p, coupures |-> c, resets |-> r]
MCBudgets ==
    {Budget(2, Ordres, 1, 1, 0), Budget(2, Ordres, 0, 0, 1), Budget(3, Ordres, 0, 0, 0),
     Budget(4, {"select", "verify", "utiliser"}, 0, 1, 0)}
=============================================================================
