------------------------------ MODULE MCVoting ------------------------------
(***************************************************************************)
(* Module Voting on a small instance.  All its sets are interchangeable.   *)
(***************************************************************************)
EXTENDS Voting, TLC

Symmetry ==
    Permutations(Rounds) \union Permutations(Requests)
        \union Permutations(Voters) \union Permutations(Contestants)
        \union Permutations(Txs)
=============================================================================
