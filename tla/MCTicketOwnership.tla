------------------------- MODULE MCTicketOwnership --------------------------
(***************************************************************************)
(* Module TicketOwnership on a small instance.  The buyer is one of the    *)
(* users and is not interchangeable with the others.                       *)
(***************************************************************************)
EXTENDS TicketOwnership, TLC

Symmetry ==
    Permutations(Issuances) \union Permutations(Transfers)
        \union Permutations(Tokens) \union Permutations(Txs)
        \union Permutations(Users \ {Buyer})
=============================================================================
