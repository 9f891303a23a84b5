--------------------------- MODULE MCFulfillment ----------------------------
(***************************************************************************)
(* Module Fulfillment on a small instance: two workers for two orders, and *)
(* as many transactions as one order can be minted for.  No symmetry:      *)
(* liveness is checked.                                                    *)
(***************************************************************************)
EXTENDS Fulfillment

(* Every claim of a job by claim_fulfillment_job ends unless its worker    *)
(* crashes.  Fulfillment treats all workers and all orders alike: whatever *)
(* can happen to one pair of them can happen to any, so one stands for     *)
(* all.                                                                    *)
EveryClaimEnds ==
    ClaimEnds(CHOOSE w \in Workers : TRUE, CHOOSE o \in Orders : TRUE)
=============================================================================
