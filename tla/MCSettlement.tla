---------------------------- MODULE MCSettlement ----------------------------
(***************************************************************************)
(* Modules Markets and Settlement on a small instance: two equal stakes of *)
(* one account, which evidence can mistake for each other, and a fee and a *)
(* division that leave a remainder.                                        *)
(***************************************************************************)
EXTENDS Settlement, TLC

MCAmount == [i \in Intents |-> 5]
MCAccount == [i \in Intents |-> "wallet"]

(* The log's actions before the migration 202607170009 restricts them. *)
MCGovernanceActions ==
    {"market.create", "market.transition", "settlement.plan",
     "settlement.confirmed", "refund.confirmed"}

(* One item, or all that a plan of every position may have. *)
MCBatches == {{t} : t \in Items} \union {{r} \X Intents : r \in Runs}

(* Bound: no item is paid by two transactions. *)
PaidByOne ==
    \A t \in Items : Cardinality({x \in Payments : t \in payment[x]}) <= 1

Symmetry ==
    Permutations(Intents) \union Permutations(Outcomes)
        \union Permutations(StakeTxs)
        \union Permutations(Runs) \union Permutations(Payments)
=============================================================================
