--------------------------- MODULE MCTicketSales ---------------------------
(***************************************************************************)
(* Module TicketSales on a small instance.  All its sets are               *)
(* interchangeable.                                                        *)
(***************************************************************************)
EXTENDS TicketSales, TLC

Symmetry ==
    Permutations(Orders) \union Permutations(Attempts)
        \union Permutations(Events) \union Permutations(Intents)
        \union Permutations(Buyers)
=============================================================================
