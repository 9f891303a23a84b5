----------------------------- MODULE MCPayment -----------------------------
(***************************************************************************)
(* Module Payment on a small instance.  Orders, attempts, events and       *)
(* intents are interchangeable: no definition orders them, so the          *)
(* permutations of each set are a symmetry.                                *)
(***************************************************************************)
EXTENDS Payment, TLC

Symmetry ==
    Permutations(Orders) \union Permutations(Attempts)
        \union Permutations(Events) \union Permutations(Intents)
=============================================================================
