------------------------- MODULE MCPredictionContract ------------------------
(***************************************************************************)
(* Module PredictionContract on a small instance: markets with two options *)
(* and two users, stakes of which a third of the pool never comes out even *)
(* and the highest fee.                                                    *)
(***************************************************************************)
EXTENDS PredictionContract, TLC

Symmetry ==
    Permutations(Markets) \union Permutations(Users)
        \union Permutations(Options)
=============================================================================
