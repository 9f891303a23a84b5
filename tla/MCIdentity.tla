----------------------------- MODULE MCIdentity -----------------------------
(***************************************************************************)
(* Module Identity on a small instance: two challenges, which may be for   *)
(* one wallet or one account, and two requests at a time, so that every    *)
(* pair of handlers can overlap.  AllowMainnet lets setup choose the       *)
(* public network.                                                         *)
(***************************************************************************)
EXTENDS Identity, TLC

Symmetry ==
    Permutations(Users) \union Permutations(Organizations)
        \union Permutations(Addresses) \union Permutations(Challenges)
        \union Permutations(Requests)
=============================================================================
