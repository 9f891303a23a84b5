------------------------------ MODULE Settlement -----------------------------
(***************************************************************************)
(* The settlement of a market: a plan that divides the stakes of its       *)
(* active positions or returns them, the submission of every item, and the *)
(* evidence that confirms items, run and market (create_settlement_plan of *)
(* services/api/src/market_positions.rs and market_settlement.rs).         *)
(*                                                                         *)
(* The plan is made under a lock on the market, items are handled under    *)
(* locks on the item and its run: each handler is one action.  The worker  *)
(* that pays the items is not part of the repository.                      *)
(***************************************************************************)
EXTENDS Markets

CONSTANTS
    Runs,       \* settlement runs, by their idempotency key
    FeeBps,     \* fee_bps of the market
    Payments,   \* transactions that pay items
    Batches     \* bound: the sets of items that one transaction may pay

BpsDenominator == 10000

ASSUME SettlementAssumption ==
    /\ FeeBps \in 0..1000
    /\ None \notin Runs \union Payments

VARIABLES
    run,        \* rows of prediction_market_settlement_runs
    item,       \* rows of prediction_market_settlement_items, by position
    receipt,    \* rows of prediction_market_settlement_evidence, by item:
                \* which operation of the item's transaction confirmed it
    payment     \* the items each transaction paid on the ledger, an
                \* operation for each

settlementVars == <<run, item, receipt, payment>>
allMarketVars == <<marketVars, settlementVars>>

Items == Runs \X Intents

Run == [kind : {"payout", "refund"}, stake : Nat, fee : Nat, planned : Nat,
        status : {"planned", "submitting", "confirmed"}]
Item == [payout : Nat, tx : Payments \union {None},
         status : {"planned", "submitted", "confirmed"}]

ASSUME SettlementRowAssumption ==
    /\ None \notin Run /\ None \notin Item /\ None \notin Items
    /\ Batches \subseteq SUBSET Items \ {{}}

SettlementInit ==
    /\ MarketInit
    /\ run = [r \in Runs |-> None]
    /\ item = [t \in Items |-> None]
    /\ receipt = [t \in Items |-> None]
    /\ payment = [x \in Payments |-> {}]
-----------------------------------------------------------------------------
(* FAULT: stakes on the other outcomes are paid out too. *)
AllRecipients(kind) == Active

Recipients(kind) ==
    IF kind = "payout" THEN {i \in Active : intent[i].outcome = winner}
                       ELSE Active

PlannedFee(kind) ==
    IF kind = "payout"
    THEN (SumOfAmounts(Active) * FeeBps) \div BpsDenominator
    ELSE 0

RoundedPayout(i, kind) ==
    (Amount[i] * (SumOfAmounts(Active) - PlannedFee(kind)))
        \div SumOfAmounts(Recipients(kind))

(* What rounding leaves is given out in units, one per recipient. *)
Remainder(kind) ==
    SumOfAmounts(Active) - PlannedFee(kind)
        - SumFunctionOnSet([i \in Intents |-> RoundedPayout(i, kind)],
                           Recipients(kind))

PlannedPayout(i, kind, lucky) ==
    CASE kind = "refund" -> Amount[i]
      [] kind = "payout" ->
            RoundedPayout(i, kind) + (IF i \in lucky THEN 1 ELSE 0)

Settles(kind) ==
    \/ kind = "payout" /\ status = "resolved" /\ winner # None
    \/ kind = "refund" /\ status = "cancelled"

(* The first recipients in the order of their positions are the lucky. *)
CreateSettlementPlan(r, kind, lucky) ==
    /\ run[r] = None
    /\ Settles(kind)
    /\ "settlement.plan" \in GovernanceActions
    /\ Recipients(kind) # {}
    /\ lucky \subseteq Recipients(kind)
    /\ Cardinality(lucky) = (IF kind = "payout" THEN Remainder(kind) ELSE 0)
    /\ run' = [run EXCEPT ![r] =
            [kind |-> kind, status |-> "planned",
             stake |-> SumOfAmounts(Active), fee |-> PlannedFee(kind),
             planned |-> SumOfAmounts(Active) - PlannedFee(kind)]]
    /\ item' = [t \in Items |->
            IF t[1] = r /\ t[2] \in Recipients(kind)
            THEN [payout |-> PlannedPayout(t[2], kind, lucky), tx |-> None,
                  status |-> "planned"]
            ELSE item[t]]
    /\ status' = "settling"
    /\ UNCHANGED <<winner, clock, allowed, delayed, staking, holdings,
                   receipt, payment>>
-----------------------------------------------------------------------------
(* The worker pays items in one transaction; if that fails there is none. *)
PayItems(S, x) ==
    /\ \A t \in S : item[t] # None /\ item[t].status = "planned"
    /\ payment[x] = {}
    /\ payment' = [payment EXCEPT ![x] = S]
    /\ UNCHANGED <<marketVars, run, item, receipt>>

(* UNIQUE (submitted_tx_hash), over the items of all runs. *)
UnusedHash(x) == \A u \in Items : item[u] # None => item[u].tx # x

SubmitItem(t, x) ==
    /\ item[t] # None
    /\ allowed
    /\ item[t].status = "planned"
    /\ run[t[1]].status \in {"planned", "submitting"}
    /\ UnusedHash(x)
    /\ item' = [item EXCEPT ![t].status = "submitted", ![t].tx = x]
    /\ run' = [run EXCEPT ![t[1]].status = "submitting"]
    /\ UNCHANGED <<marketVars, receipt, payment>>

(* FAULT: any payment of the transaction will do. *)
AnyPayment(t, x, u) == item[t].status = "submitted" /\ item[t].tx = x

(* Hash, recipient and amount are those of the item. *)
ItemEvidenceMatches(t, x, u) ==
    /\ item[t].status = "submitted"
    /\ item[t].tx = x
    /\ Account[u[2]] = Account[t[2]]
    /\ item[u].payout = item[t].payout

(* UNIQUE (transaction_hash, operation_index) *)
UnusedOperation(x, u) ==
    \A v \in Items : receipt[v] = u => item[v].tx # x

(* FAULT: one confirmed item completes the run. *)
CompletedByOne(t) == TRUE

(* All other items of the run of t are confirmed. *)
CompletesRun(t) ==
    \A u \in Items \ {t} :
        u[1] = t[1] /\ item[u] # None => item[u].status = "confirmed"

Closed(kind) == IF kind = "refund" THEN "refunded" ELSE "settled"

(* Every active position of the market is closed with the run. *)
FinalizeRun(r) ==
    /\ {"settlement.confirmed", "refund.confirmed"} \subseteq GovernanceActions
    /\ run' = [run EXCEPT ![r].status = "confirmed"]
    /\ position' = [i \in Intents |->
            IF position[i] = "active" THEN Closed(run[r].kind)
                                      ELSE position[i]]
    /\ status' = IF status = "settling" THEN "settled" ELSE status

(* The evidence is of the payment of u in transaction x. *)
AcceptSettlementEvidence(t, x, u) ==
    /\ item[t] # None
    /\ allowed
    /\ u \in payment[x]
    /\ ItemEvidenceMatches(t, x, u)
    /\ UnusedOperation(x, u)
    /\ receipt' = [receipt EXCEPT ![t] = u]
    /\ item' = [item EXCEPT ![t].status = "confirmed"]
    /\ \/ CompletesRun(t) /\ FinalizeRun(t[1])
       \/ ~CompletesRun(t) /\ UNCHANGED <<run, position, status>>
    /\ UNCHANGED <<winner, clock, allowed, delayed, staking, evidence,
                   totalActive, payment>>
-----------------------------------------------------------------------------
SettlementNext ==
    \/ MarketNext /\ UNCHANGED settlementVars
    \/ \E r \in Runs, kind \in {"payout", "refund"},
          lucky \in SUBSET Intents : CreateSettlementPlan(r, kind, lucky)
    \/ \E S \in Batches, x \in Payments : PayItems(S, x)
    \/ \E t \in Items, x \in Payments : SubmitItem(t, x)
    \/ \E t, u \in Items, x \in Payments : AcceptSettlementEvidence(t, x, u)

SettlementSpec == SettlementInit /\ [][SettlementNext]_allMarketVars
-----------------------------------------------------------------------------
SettlementTypeOK ==
    /\ MarketTypeOK
    /\ run \in [Runs -> Run \union {None}]
    /\ item \in [Items -> Item \union {None}]
    /\ receipt \in [Items -> Items \union {None}]
    /\ payment \in [Payments -> SUBSET Items]

Planned(r) == {i \in Intents : item[<<r, i>>] # None}
Payout(r, i) == item[<<r, i>>].payout

(* create_settlement_plan pays out exactly what is staked less the fee,    *)
(* whatever rounding does: to positions on one outcome only, to each its   *)
(* share within one unit and at most one unit apart from another position  *)
(* of the same amount; a refund returns every stake in full.               *)
PlanIsExact ==
    \A r \in {q \in Runs : run[q] # None} :
        /\ run[r].planned =
                SumFunctionOnSet([i \in Intents |-> Payout(r, i)], Planned(r))
        /\ run[r].planned + run[r].fee = run[r].stake
        /\ run[r].kind = "refund" =>
            /\ run[r].fee = 0
            /\ \A i \in Planned(r) : Payout(r, i) = Amount[i]
        /\ run[r].kind = "payout" => \A i, j \in Planned(r) :
            /\ intent[i].outcome = intent[j].outcome
            /\ Amount[i] >= Amount[j] => Payout(r, i) + 1 >= Payout(r, j)
            /\ LET staked == SumOfAmounts(Planned(r))
                   share == Amount[i] * run[r].planned
               IN  /\ Payout(r, i) * staked <= share + staked
                   /\ Payout(r, i) * staked > share - staked

(* A run is reported as confirmed only when every one of its items is, and *)
(* an item only with a payment of its own, to its recipient and of its     *)
(* amount, by an operation of the transaction submitted for it; a position *)
(* is closed as paid or refunded only by such a run.  This is what         *)
(* market_settlement.rs keeps even where a late request sets the market    *)
(* back.                                                                   *)
RunsArePaid ==
    LET confirmed ==
            {t \in Items : item[t] # None /\ item[t].status = "confirmed"}
    IN  /\ SettlementTypeOK
        /\ \A r \in {q \in Runs : run[q] # None} :
            (run[r].status = "confirmed") =
                (\A i \in Planned(r) : <<r, i>> \in confirmed)
        /\ \A t \in confirmed :
            LET paid == receipt[t]
            IN  /\ paid \in payment[item[t].tx]
                /\ Account[paid[2]] = Account[t[2]]
                /\ item[paid].payout = item[t].payout
                /\ \A u \in confirmed :
                    item[u].tx = item[t].tx /\ receipt[u] = paid => u = t
        /\ \A i \in Intents : position[i] \in {"settled", "refunded"} =>
            \E r \in Runs :
                /\ run[r] # None
                /\ run[r].status = "confirmed"
                /\ position[i] = Closed(run[r].kind)

(* "One governed market resolution pays exactly once and one cancellation  *)
(* refunds exactly once" (MILESTONE_E_PREDICTION.md): no position is paid  *)
(* by two runs.  A counterexample, MCSettlementTwice.cfg: a resolution     *)
(* written late over a cancellation lets a payout follow the refund.       *)
PaidOnce ==
    \A i \in Intents, q, r \in Runs :
        /\ i \in Planned(q) /\ item[<<q, i>>].status = "confirmed"
        /\ i \in Planned(r) /\ item[<<r, i>>].status = "confirmed"
        => q = r

(* "One Stellar transaction may carry several independently indexed ops"   *)
(* (migration 202607170006): what a transaction paid can be submitted with *)
(* it, if nothing else was.  A counterexample, MCSettlementShared.cfg: the *)
(* hash of an item is unique (migration 202607170003), so of two items     *)
(* that one transaction paid the second is never confirmed.                *)
SharedPaymentSettles ==
    \A x \in Payments :
        (\A t \in Items : item[t] # None /\ item[t].tx = x => t \in payment[x])
            => \A t \in payment[x] :
                item[t].status = "planned" => UnusedHash(x)

(* What module LedgerConfirmation says of settlement items, where evidence *)
(* is an operation of a transaction.                                       *)
ItemsWanted ==
    [t \in {u \in Items : item[u] # None} |->
        {<<Account[t[2]], item[t].payout>>}]
ItemsApplied ==
    [p \in {q \in Payments \X Items : q[2] \in payment[q[1]]} |->
        <<Account[p[2][2]], item[p[2]].payout>>]
ItemsConfirmed ==
    [t \in {u \in Items : item[u] # None /\ item[u].status = "confirmed"} |->
        <<item[t].tx, receipt[t]>>]

Settling == INSTANCE LedgerConfirmation WITH
    wanted <- ItemsWanted,
    applied <- ItemsApplied,
    confirmedBy <- ItemsConfirmed

(* Confirmed items are on the ledger: whom an item pays, and how much, is  *)
(* fixed by the plan, and it is confirmed once and for good, by a payment  *)
(* that did so and confirms no other item (create_settlement_plan,         *)
(* accept_settlement_evidence).                                            *)
ConfirmsItems == Settling!Spec
=============================================================================
