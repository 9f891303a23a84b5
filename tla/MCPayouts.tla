----------------------------- MODULE MCPayouts ------------------------------
(***************************************************************************)
(* Module Payouts on a small instance: two orders of the same price, so    *)
(* that their payments can be mistaken for each other, and a division that *)
(* does not come out even.                                                 *)
(***************************************************************************)
EXTENDS Payouts, TLC

MCPrice == [o \in Orders |-> 7]
MCDivisions ==
    {[candidate |-> 5000, organizer |-> 3000, platform |-> 2000],
     [candidate |-> 9999, organizer |-> 1, platform |-> 0]}

Symmetry == Permutations(Orders) \union Permutations(Txs)
=============================================================================
