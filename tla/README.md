# CrownFi: specification, model checking and proofs

CrownFi sells tickets and collectibles, runs official votes and prediction
markets, and records on the Stellar ledger what has to be provable to others.
This directory holds TLA+ models of the parts of it that keep state over time,
the TLC configurations that check them on small instances, and theorems about
them that TLAPS checks for every instance.

Paths below are relative to the repository (`src/` in `PROJECT.json`); `api/`
stands for `services/api/src/`.

## 1. The system

One Rust process (`services/api`) serves an HTTP API over one PostgreSQL
database. Around it are parties the repository does not contain: buyers, voters
and their wallets, a payment provider, workers that send transactions, an
indexer that reports what the ledger applied. They all act by calling the API.

What every handler has in common decides the shape of every model:

* A handler is one transaction at READ COMMITTED. An `Err` rolls all of it
  back. A unique index turns a lost race into `Conflict`.
* A handler that locks (`FOR UPDATE`) the row it decides on before it decides
  is **one action**. A handler that decides on a row it has not locked is
  **several** (`cast_vote`, and `accept_ownership_evidence`, which locks one
  ticket of an order and counts the others).
* A request repeated with its idempotency key, or evidence repeated with its
  hash, is answered from what is stored: a stuttering step.
* `UPDATE ... WHERE status = '...'` either is part of the guard (when the
  handler checks `rows_affected`) or may silently do nothing (when it does not);
  the models keep the difference.

### Inventory

| Part | State | Operations | Talks to | What is hard | What makes it correct |
|---|---|---|---|---|---|
| Checkout (`api/orders.rs`) | orders, order_items, product_inventory, payment_attempts, payment_provider_events | create_order, create_payment_attempt, record_payment_event | intents and evidence, which pay the same orders | two independent ways to pay one order; retries; provider events late, repeated or altered | an order is paid once, by one attempt; no attempt stays open on a settled order |
| Payment intents and reconciliation (`api/stellar_intents.rs`, `stellar_reconciliation.rs`) | transaction_intents, stellar_transactions, evidence, results, cursor | create_transaction_intent, accept_signed_envelope, record_submission_receipt, record_chain_evidence | checkout; indexer | evidence out of order, for the wrong intent, misread; four tables updated in one step | evidence is accepted once per order and only for a success; the rows agree |
| Ticket sales (`api/ticketing.rs`, first half of `ticket_operations.rs`) | ticket_events, products, reservations, issuances | put_event_on_sale, create_reservation (releases what is overdue), prepare_issuance, accept_ownership_evidence | checkout: a reservation is an order | expiry races payment; limits summed over other rows; stock in two counters | stock is conserved; limits hold; only orders paid on chain get tickets |
| Ticket ownership (`api/ticket_transfers.rs`, second half of `ticket_operations.rs`, `contracts/ticket`) | issuance owner, ownership evidence, transfer requests, check-ins | accept_ownership_evidence, create_, review_transfer, record_transfer_submission, accept_transfer_evidence, check_in_ticket | worker, ledger, wallets | the ledger moves first, or without the program; transactions lapse; reports name the wrong one | the recorded history is the ledger's, in its order; one ticket per token |
| Collectible fulfillment (`api/fulfillment.rs`) | fulfillment_jobs, collectible_mints, mint evidence, stock | create job, claim, submission, failure, mint evidence | workers, indexer, checkout | workers crash, are given up and come back; attempts run out; evidence early | job, mint and order agree; an order is fulfilled by one mint made for it |
| Voting (`api/voting.rs`) | voting_rounds, votes, receipts | create_round, open, close, cast_vote | snapshots | cast_vote checks a round it has not locked | one vote per voter; closing freezes the votes |
| Snapshots and receipt proofs (`api/voting_proofs.rs`) | voting_snapshots, leaves | create_snapshot, get_receipt_proof | rounds, anchors | repeated requests after late votes; Merkle arithmetic | a snapshot never changes; a proof verifies exactly for its leaf |
| Anchor (`api/voting_anchor.rs`, `contracts/audit-anchor`) | voting_anchor_intents; the contract's checkpoints | create_anchor_intent, record_anchor_submission, accept_anchor_evidence; publish | ledger | three rows say "anchored"; reports about another transaction | anchored means: on chain, of exactly this snapshot |
| Payouts (`api/payouts.rs`) | rules, batches, transfers, evidence | create_payout_batch, submission, evidence, failure | worker, indexer | a batch is a summary of its transfers; exact split of an amount | nothing is lost in the split; batch status follows its transfers |
| Prediction markets (`api/markets.rs`, `market_positions.rs`, `market_settlement.rs`) | markets, policy decisions, stake intents, positions, settlement runs and items | create, transition, decide, stake, submit, accept stake evidence, plan, pay, accept item evidence | worker, indexer | status read without a lock and written late; positions accepted after the plan; rounding | every position is one payment on the ledger; a plan gives out exactly what is staked |
| Prediction-market contract (`contracts/prediction-market`) | markets, pools, positions, claims, one escrow for all | create, stake, unstake, propose, finalize, cancel, claim, refund, pause | wallets | rounding; claims in any order; cancellation against resolution | the escrow is what the markets owe; a winner never loses |
| Identity and access (`api/identity.rs`, `access.rs`, `authorization_acl.rs`, parts of `manage.rs`, `platform.rs`) | users, wallets, challenges, administrators, memberships, site settings, pageants | challenge, consume, setup, bootstrap, grant, patch settings, pageants | all | transactions that see each other only at their commit; rights read in the middleware, checked again, used later | one account per wallet, one primary wallet; one setup |
| Media (`api/media.rs`, `media_completion_lock.rs`, `storage.rs`, `database.rs`) | media_assets, contestant_media; an advisory lock; the pool | upload intent, complete, attach | object storage, the connection pool | the lock holds one pooled connection while the handler takes another; the client overwrites or disconnects | an asset is decided once; what is shown is stored; every completion is answered |
| Catalogue, management, access, runtime, legacy demo, web pages | single rows, or nothing durable | CRUD | | | |

`PROJECT.json` lists the same parts with what is modelled of each, and the
hazards, each at the line where it bites.

## 2. Plan

Order: what moves money first, then what follows a payment, then the rest.

| # | Modules | Status |
|---|---|---|
| 1 | `OrderLifecycle` (abstract), `Payment` | done |
| 2 | `Voting` (rounds, snapshots, anchors, contract) | done |
| 3 | `TicketSales`, which extends `Payment` | done |
| 4 | `TicketOwnership` | done |
| 5 | `Fulfillment` | done |
| 6 | `Markets`, and `Settlement`, which extends it | done |
| 7 | `PredictionContract` | done |
| 8 | `Payouts` | done |
| 9 | `Merkle`, which `Voting` extends | done |
| 10 | `Media`, with liveness | done |
| 11 | `Identity` | done |
| 12 | `CheckoutProofs`, `TicketOwnershipProofs`, `FulfillmentProofs`, `PayoutsProofs`, `RequestProofs`, `VotingAndMarketProofs`, `PredictionContractProofs`, and `SumTheorems`, which four of them use | done |
| 13 | `LedgerConfirmation` (abstract), which seven modules implement | done |
| 14 | create_event and create_product of `ticketing.rs`, beside the sale | planned |

A module of lock orders was planned and dropped: PostgreSQL ends a cycle of
waiting transactions by aborting one, and an aborted transaction is a stuttering
step of every model here. Such a module could only show that the cycles in the
hazards exist.

Abstract specifications: `OrderLifecycle` (an order), implemented by the
checkout and by the sale of tickets, and `LedgerConfirmation` (a record that
waits for the ledger), implemented by everything that does. One for a settlement
(each position is settled once, out of a fixed pool) was planned for
`Settlement` and the contract. The API does not implement it
(`MCSettlementTwice.cfg`), so `Settlement` states what does hold, and the
contract's own invariants say the same of the contract.

## 3. Modules

`TicketSales` EXTENDS `Payment`: a reservation is an order, and its buyers'
orders, attempts and intents are those of the checkout. `Payment` and
`TicketSales` each INSTANCE `OrderLifecycle`. `Payment`, `TicketOwnership`,
`Fulfillment`, `Voting`, `Payouts`, `Markets` and `Settlement` each INSTANCE
`LedgerConfirmation`. `Fulfillment` takes from the checkout the one fact it
needs, that an order was paid and whether the chain knows (`OrderPaid`).
`TicketOwnership` starts where `PrepareIssuance` of `TicketSales` leaves an
order; there the issued tickets of an order are a count, here they are rows.
`Payouts` starts at a fulfilled order (`OrderFulfilled`). `Settlement` EXTENDS
`Markets` and shares its status and positions; `Voting` EXTENDS `Merkle`.
`Media` and `Identity` share no state with the others; both extend
`ApiRequests`, the requests that are under way.

A definition marked **FAULT** is not part of a model. It is what the definition
after it would be if the code had a plausible mistake: a missing index, a
missing guard, a dropped comparison. `PROJECT.json` ("mutants") names for each
property a fault that violates it, so no property holds vacuously.

### OrderLifecycle

An order is placed; it is paid by exactly one attempt or expires; paid, it is
worked on until it is fulfilled or has failed. Two variables: the status, and
the set of attempts each order was paid by. `Place` may let overdue orders
expire in the same step, because `create_reservation` does.

### LedgerConfirmation

Seven parts of the API confirm a row by evidence of a transaction, each with
code of its own. What they promise is the same, and is stated once: a record
says what has to happen (`wanted`) and does not change its mind; transactions
happen on the ledger (`applied`), whether or not a record waits for them; a
record is confirmed (`confirmedBy`) once, by a transaction that happened, that
did what the record asks for, and that confirms no other record.

| Module | A record | A transaction | Property |
|---|---|---|---|
| `Payment` | an order; it is confirmed when evidence of one of its intents is accepted | a payment that succeeded | `ConfirmsPayments` |
| `TicketOwnership` | a ticket, which takes any token that went to its buyer, or a transfer | a movement of a token | `ConfirmsOwners` |
| `Fulfillment` | the order of a job | a mint that succeeded | `ConfirmsMints` |
| `Voting` | the anchor of a round | what the contract has published | `ConfirmsAnchors` |
| `Payouts` | one transfer of a batch | one payment of a transaction, with account and amount | `ConfirmsTransfers` |
| `Markets` | a stake intent; its position is the confirmation | a stake of an account and an amount | `ConfirmsStakes` |
| `Settlement` | an item of a plan | a payment to an account, of an amount | `ConfirmsItems` |

The three variables are functions that grow, so the specification does not say
which records there can be. It is weaker than "the transaction was made for this
record" where the code is: two stakes of one account and amount, or two batches
with the same payments, may be confirmed by each other's transactions.

### Payment

| State | Code |
|---|---|
| `order`, `quantity`, `inventory` | orders.status, order_items.quantity, product_inventory |
| `attempt`, `attemptOrder` | payment_attempts |
| `event` | payment_provider_events: what was stored of each event id |
| `intent`, `intentAttempt`, `txn` | transaction_intents, stellar_transactions |
| `evidence`, `cursor` | stellar_chain_evidence with its result, stellar_chain_cursors |
| `lapsed`, `ledger`, `place` | the clock past expires_at; the Stellar ledger, and the ledger sequence and paging token a transaction was applied at |

Actions: `CreateOrder`, `CreatePaymentAttempt`, `RecordPaymentEvent`,
`CreateTransactionIntent`, `AcceptSignedEnvelope`, `RecordSubmissionReceipt`,
`RecordChainEvidence` are the handlers that write; `IntentLapses` and
`LedgerApplies` are the environment. Two partial unique indexes are operators
of their own (`HasActiveAttempt`, `HasActiveIntent`), because correctness rests
on them. The cursor has both columns of its row: `AdvanceCursor` compares ledger
sequences and, within one ledger, paging tokens as texts (`Before`). A token is
its rank among texts, which need not be the order of the operations, and any
number of transactions may be applied in one ledger, at the same token even.
An event or a piece of evidence is `exact`, or `altered` in one of the
fields that are compared; evidence may be reported under any intent.

### TicketSales

Adds the sale (`sale`), reservations (`reservation`, `buyer`, `due`), a count of
issued tickets and of the reports of ownership that are under way (`reporting`). `CreateReservation` is the whole handler: it first releases
every overdue reservation of the product (`Overdue`, `ReleasedReservations`,
`ReleasedOrders`, `ReleasedStock`), then checks limit and stock, then places an
order. `RepeatReservation` is the same request repeated with its key, which
still releases. An order for the product without a reservation is possible, as
`create_order` does not ask for the kind of product. A report is two steps:
`CountRemaining` counts the tickets of the order that are not issued, as they are
committed, and `AcceptOwnershipEvidence` commits what the count decided;
`RollBackReport` is a transaction that never commits.

### TicketOwnership

`issuance` (status, owner, token, accepted evidence), `transfer`, `checkIn`,
`order` are the tables; `report` is the uncommitted transaction of
`accept_ownership_evidence` on a ticket, with what it has counted; `sent`,
`lapsed`, `ledger` are the ledger. A check-in records how much evidence preceded
it, which is what the times of both rows say. Actions: the six handlers, the
first of which is `CountRemaining`, then `AcceptOwnershipEvidence` or
`RollBackReport`; and `Mint`, `SendTransfer`, `LedgerApplies`,
`LedgerForgets`, `WalletTransfer` around them. Wallets move tokens (the contract
lets a holder transfer while resale is open) and no handler can record that, so
`HolderIsKnown` excludes tokens that a wallet has moved; the other properties do
not. It also excludes a transfer that the worker submitted with a transaction
that lapsed or was sent for another one (`Misreported`): the hash is never
replaced, so that transfer is never confirmed and what the ledger did for it is
never recorded. Of every other it says that the evidence handler would accept the
ledger's movement now (`ProvesTransfer`).

### Fulfillment

`job`, `mint`, `evidence`, `order`, `stock` are the tables, `proven` the orders
with accepted payment evidence, `worker` what each worker does, `sent` and
`outcome` the ledger. `record_fulfillment_failure` takes the worker's name from
its request, so `OperatorFails` can end the claim of a worker that only seems
dead; that worker's own report is then refused (`ReportRefused`). The branch of
`claim_fulfillment_job` that buries a job without attempts left is left out: the
property `ClaimableHasAttemptsLeft` is that it is never taken.

### Voting and Merkle

`round`, `window` (the clock against opens_at and closes_at), `request` and
`ballot`, `snapshot`, `anchor`, and `published`, the state of the contract.
`cast_vote` is two actions, `CheckVote` and `InsertVote`; between them other
handlers commit. The root and the tally of a snapshot are functions of the votes
they are computed from and are represented by that set.

`Merkle` has root, proof and verification of a receipt as `voting_proofs.rs`
computes them, level by level and step by step (`Levels`, `Path`, `Hashes` are
recursive functions), each with its own treatment of an odd level. A leaf is any
value and the hash of two nodes is their pair. `ReceiptVerifies` evaluates them
for every tree of up to `MaxLeaves` leaves.

### Payouts

`rule`, `batch`, `transfer`, `evidence` are the tables; `sent` and `outcome` the
ledger. One transaction makes the three payments of a batch, so an operation is
a transaction and a role. `Split` is the division of an amount with its
rounding, and the checks around it. A worker may report the transaction of
another batch, or a failure that was none; evidence may be reported for any
batch and role.

### Markets and Settlement

One market. `transition_market`, `create_stake_intent` and `record_submission`
read without a lock and write later: each is a pair of actions (`ReadTransition`
and `WriteTransition`, `CheckStakeIntent` and `InsertStakeIntent`,
`ReadSubmission` and `WriteSubmission`). A write asks for nothing but the id of
its row, as in the code, so submissions overwrite each other and a late
transition sets a market back. `AcceptPositionEvidence` compares what the
handler compares, amount and account, and not the hash or the outcome.
A policy decision is `allow` or `deny`; `review` has the effect of `deny`.
`Settlement` adds `CreateSettlementPlan` (fee, rounding, and the units that
rounding leaves), `SubmitItem` and `AcceptSettlementEvidence`, whose last item
finalizes the run and closes every active position. A transaction may pay several
items (`payment`, in one of the `Batches`); evidence is about one operation of
it, and `receipt` is the operation an item was confirmed by. Both unique indexes
are operators: an operation is evidence once (`UnusedOperation`), and the hash of
a transaction is that of one item (`UnusedHash`).

### PredictionContract

Every call of the contract that changes state: `CreateMarket`, `Stake`,
`Unstake`, `ProposeResolution`, `FinalizeResolution`, `CancelMarket`, `Claim`,
`Refund`, `SetPaused`; `Tick` is the ledger's time. All markets share `escrow`,
the contract's balance of the token. `received` is what each market paid to
whom; it is kept for `WinnersKeepStake`.

### Media

A completion is a path through stages (`connecting`, `trying`, `sleeping`,
`locked`, `heading`, ...), one action per step between which others may run. A
stage under the lock holds a connection of the pool; a statement needs another
to be free. `Handle` is a step of the runtime or the database, `BucketAnswers` one
that waits for the object storage. `Disconnect` drops a request wherever it waits. The client may store
other bytes at any time while its signed address lives.

### Identity

`BeginConsume` and `CommitConsume`, `BeginSetup` and `CommitSetup` are
transactions of several steps: what they write is seen at the commit, where the
unique indexes (`Unique`) decide. Requests about members, pageants and settings
are admitted by the middleware (`Enforce`), check and read (`CheckGrant`,
`CheckPageant`, `CheckSettings`) and write (`GrantMembership`, `CreatePageant`,
`UpdatePageant`, `UpdateSiteSettings`), each with what it read before.

## 4. Runs

All instances are small sets of model values; sets whose elements play the same
role are declared symmetric where no temporal property with `<>` is checked.
CHECK_DEADLOCK is off in every run: each model ends when its bounded supply of
keys, events and transactions is used up, and the system itself may rest at any
time.

### Runs that pass

| Run | Instance | Shows |
|---|---|---|
| `payment` | 2 orders, 3 attempts, 1 event, 2 intents, supply 3, 2 ledgers, 2 paging tokens | `PaidByOneAttempt`, `ConfirmedByOneProof`, `ConfirmedIntentHasEvidence`, `AcceptedOncePerOrder`, `CursorAtLastAccepted`; the checkout implements `OrderLifecycle` (`PaysLifecycle`) and `LedgerConfirmation` (`ConfirmsPayments`) |
| `tickets` | 3 orders, 2 attempts, 1 event, 1 intent, 2 buyers, supply 3, limit 2 | `StockConserved`, `PerUserLimitKept`, `IssuedIsPaidOnChain`, `ReservationFollowsOrder`; the sale implements `OrderLifecycle` (`SellsLifecycle`) |
| `ownership` | 2 tickets, 3 transfers, 3 users, 2 tokens, 4 transactions, a report under way on each ticket | `TransfersComeFromOwner`, `HistoryFollowsLedger`, `HolderIsKnown`, `MovesOnceAfterCheckIn` |
| `fulfillment` | 2 orders, 2 workers, 2 transactions, 2 attempts, no symmetry | `RowsAgree`, `ClaimableHasAttemptsLeft`, `FulfilledByItsMint`, `StockFollowsOrders`, and under fairness `EveryClaimEnds` |
| `voting` | 2 rounds, 3 requests, 2 voters, 2 contestants, 2 transactions; trees of up to 9 leaves | `OneVotePerVoter`, `ReceiptVerifies`, `SnapshotIsKept`, `AnchorRowsAgree`; anchors implement `LedgerConfirmation` (`ConfirmsAnchors`) |
| `payouts` | 2 orders of 7, 2 rules, divisions 50/30/20 % and 99.99/0.01/0 %, 2 transactions | `SharesAreExact`, `BatchFollowsTransfers`; transfers implement `LedgerConfirmation` (`ConfirmsTransfers`) |
| `markets` | 2 stakes of 5 from one account, 2 outcomes, limits 10, 2 stake transactions, 2 runs, 2 payments of one item or of all of a run, fee 10 % | `PositionsAreBacked`, `PlanIsExact`, `RunsArePaid` |
| `contract` | 2 markets, 2 users, 2 options, stakes of 7 and 13, at most 27 on a market, fee 10 %, delay 1 | `EscrowMatchesBooks`, `WinnersKeepStake`, `ResultIsFinal` |
| `media` | 2 assets, 2 requests, 1 contestant, a pool of 2 or 3 | `ShownIsStored`, `DecidedOnce`, and under fairness `EveryRequestEnds` |
| `identity` | 2 users, 2 addresses, 2 challenges, 2 organizations, 1 pageant, 2 requests | `AccountsFollowChallenges`, `OneSetup` |

Types are checked as the first conjunct of an invariant that relies on them
(`StockConserved`, which has those of the checkout too, `HistoryFollowsLedger`,
`RowsAgree`, `AnchorRowsAgree`, `BatchFollowsTransfers`, `RunsArePaid`,
`EscrowMatchesBooks`, `ShownIsStored`, `AccountsFollowChallenges`).

Why the bounds are enough. A conflict between rows takes two of them: two
attempts of one order (and a third for another order), two intents of one
attempt, two tickets of one order, two workers on one job. The order of
acceptance against the order of the ledger takes two transactions, in different
ledgers or in one, where two tokens put them in either order or at one place. A transfer
that repeats an earlier one takes three (there, back, there again). Retries take
two attempts, so that the last one and the one before it differ. Reservation
limits are met exactly and exceeded by one with two seats per buyer and three in
all. Two items of one transaction are the least that evidence can mistake for each
other; no item is paid by two transactions (`PaidByOne` in `MCSettlement.cfg`, a
bound on the worker for time; the theorems do without it). Equal stakes of one
account, and batches of equal price to the same
accounts, are the hardest to tell apart. Amounts of 7 and 13 under a tenth of
fee leave a remainder at every division. A pool of two connections can be held
entirely by two completions; with three, both run. Nine leaves make a level of
the tree odd at every height but the last. `EveryClaimEnds` names one worker and
one order: all are alike. The faults confirm it: each is found on the instance
of its run.

Three configurations, which are not among the runs of `PROJECT.json`, check the
other implementations of `LedgerConfirmation`: `MCFulfillmentLedger.cfg`
(`ConfirmsMints`) and `MCTicketOwnershipLedger.cfg` (`ConfirmsOwners`) on the
instances of `fulfillment` and `ownership`, and `MCSettlementLedger.cfg`
(`ConfirmsStakes`, `ConfirmsItems`) on that of `markets` with no transition
written late, for time; late transitions write the market's status, which
neither property speaks of. All four are proved, late transitions included.
Two invariants are proved and checked by no run: `AnchoredIsOnChain` follows from
`AnchorRowsAgree` and `ConfirmsAnchors`; `ConfirmedByOwnPayment` adds to
`ConfirmsTransfers` that a payment is in the transaction its batch names.

### Runs that find a violation

Each states what the repository says of itself; the quotations are in
`PROJECT.json`, "findings".

| Run | What happens |
|---|---|
| `tickets_oversell` | The seats of an order that is already paid are released when its reservation falls due, sold again and paid again. |
| `voting_freeze` | A vote checked while the round was open is accepted after it was closed and its snapshot taken. |

Seven more configurations, which are not among the runs of `PROJECT.json`, show
other consequences that a reader may want to see step by step:

| Configuration | Property | What happens |
|---|---|---|
| `MCPaymentOnlyChain.cfg` | `OnlyChainPays` | A provider event pays an order for which no chain evidence exists. Such an order can never be issued: issuance asks for evidence, and evidence asks for an order still waiting for payment. |
| `MCPaymentCharge.cfg` | `NoSecondCharge` | An event closes an attempt whose transaction is on its way; a second attempt charges again. |
| `MCFulfillmentLease.cfg` | `CrashReleasesJob` | The job of a worker that crashed for good stays `running` for ever, though another worker is ready. |
| `MCFulfillmentMint.cfg` | `NoSecondMint` | A job is retried while its first mint is on its way, and both mints succeed. |
| `MCSettlementTwice.cfg` | `PaidOnce` | A resolution checked before a cancellation is written after it, and a payout follows the refund of the same positions. "Pays exactly once" is an acceptance criterion (`docs/workstreams/MILESTONE_E_PREDICTION.md:78`). |
| `MCSettlementShared.cfg` | `SharedPaymentSettles` | One transaction pays two items of a run. The comment on the table of evidence says that it may (`migrations/202607170006_prediction_settlement_evidence.sql:1-3`, with `UNIQUE (transaction_hash, operation_index)` at line 20), but `UNIQUE (submitted_tx_hash)` of the items (`202607170003_prediction_positions_settlement.sql:76`) refuses the second: it is paid and never confirmed, and neither is its run. |
| `MCTicketOwnershipStuck.cfg` | `FulfilledOnceIssued` | Reports of the last two tickets of an order each count the ticket of the other; both are issued and the order stays `fulfilling`. |

`MCSettlementShared.cfg` is a disagreement between a comment and the schema.
`MCTicketOwnershipStuck.cfg` is none: the repository promises fulfillment "only
after every issuance" (`docs/workstreams/MILESTONE_D_TICKETING.md:43`), which
holds (`FulfilledOnlyWhenIssued`, proved), and not that it follows.

## 5. Fairness

Two modules state fairness, and each has the liveness property it is for.

`Fulfillment`: `FairSpec` is weak fairness of `Work(w)` for each worker. A
worker that has not crashed takes its next step, as a polling process does; a
crash takes `Work(w)` away until `Restart(w)`, which nothing guarantees, nor
does anything guarantee that an operator or the indexer acts. `EveryClaimEnds`
holds under this, and `CrashReleasesJob` fails under it: the second worker is
fair, and no action of its own is enabled.

`Media`: weak fairness, for each request, of `Handle` (the runtime polls a task
that can go on, the database answers a statement), `LockDeadline` and
`AcquireTimeout` (timers fire). Nothing is assumed of clients, nor that a
connection becomes free for a particular request, nor of the bucket: no timeout
bounds a call of it (`api/storage.rs:111-175`, and `api/main.rs` sets none for a
request). `EveryRequestEnds` therefore says that a completion is answered unless
it waits for the bucket for ever (`AwaitsBucket`), also while another one hangs
in such a call and keeps the lock and a connection. That it holds is due to the
two timeouts; without the pool's the requests wait for each other for ever
(fault `WaitsForEver`).

No other part of the API has a scheduler of its own: a handler runs when
somebody calls it, and the repository promises nothing about that, so the other
modules state safety only.

## 6. Proofs

The theorems are checked by TLAPS for arbitrary values of the constants. Every
invariant, every action property and every refinement that a run checks is
stated by one of them; only liveness is not. None of these properties is
inductive by itself: each detailed model has an inductive invariant (`IInv`, or
the name of the model with `Inv`) from which the rest follows, proved for the
initial states and for every action. Where a module shows several things, its
actions are first reduced to what they do to the rows that matter, and the
invariant is proved once for that.

### Sums: `SumTheorems`

Stocks, limits, pools, escrow and plans are sums over finite sets, written with
`SumFunctionOnSet` of the community modules: a fold, hence a recursive function
that takes out of the set one chosen element after another. The first part of
the module shows that this function exists and that the set alone determines its
value. The library's induction theorems take a predicate and cannot be used
here; `InductionOnSubsets` says the same of a set `Good` of subsets, and follows
from the finiteness of the set of subsets. The second part holds what the proofs
cite: a sum does not depend on which element is taken first (`SumRemove`,
`SumAdd`), changes by what one value changes by (`SumUpdate`), bounds its parts
(`SumOfElement`, `SumOfPart`, `SumOfParts`), is linear and monotone. Three
lemmas of arithmetic close it (`ProductGrows`, `ProductCancels`, `Quotient`),
which the rounding of payouts rests on.

### Checkout and tickets: `CheckoutProofs`

For any orders, attempts, events and intents, any supply and any quantity.

* `LifecyclePaidByOne`: the abstract lifecycle keeps its promise.
* `PaymentTypes`: type correctness of the checkout.
* `PaymentInvariant`: the inductive invariant
  `IInv = TypeOK /\ OrderInv /\ ChainInv`, from which follow
  `PaymentPaidByOne`, `PaymentActiveIsAwaited`, `PaymentHasOneProof`,
  `PaymentIntentHasEvidence`, `PaymentAcceptsOnce` and `PaymentCursor`.
* `PaymentImplementsLifecycle`: the checkout implements `OrderLifecycle`.
* `PaymentConfirmsPayments`: it implements `LedgerConfirmation`. The order of an
  intent is written once (`OrderOfStays`), and evidence is accepted only for an
  order that waits, which no accepted evidence is about (`AcceptedSettles`), so
  the intent that confirms it is the first (`AcceptanceConfirms`).
* `PaymentCursor`: no accepted payment is after the cursor and the cursor is at
  one of them, by ledger and then by token. It rests on `Before` being a total
  order of places, not on there being one payment in a ledger.

That an order is paid once rests on `OneActiveAttempt` (the partial unique
index) and `ActiveAttemptIsAwaited`: the one attempt that can still be confirmed
belongs to an order nobody has paid, so confirming it cannot be a second
payment. `SettledIsConfirmed` and `ConfirmedIsSettled` tie both tables together.
These are `OrderInv`, and they speak of orders and attempts only: all actions
are first reduced to what they do to these two (`OrderStep`: nothing, a new
order, a new attempt, an attempt that is paid, failed or moved on), and the
invariant is proved once for that (`OrderStepKeepsInv`). `ChainInv` adds
intents, transactions, evidence and the cursor; that an attempt has only one
proof needs `OrderInv`, since evidence for an attempt an event has already
confirmed is refused by the guards on attempt and order together.

The sale, for any buyers too: `TicketsIssuedAsPaid` (`IssuedIsPaidOnChain`),
`TicketsFollowOrders` (`ReservationFollowsOrder`), `TicketTypes`,
`TicketStockConserved`, `TicketLimitKept`, and `TicketSalesImplementLifecycle`
(`SellsLifecycle`). The invariant of the checkout does not hold here, since a
release can expire an order under an open attempt. In `SaleInv`, `AttemptInv` is
what is left of it: an open attempt is on an order that waits or has expired,
and an order has at most one attempt that is open or confirmed. `EvidenceInv`
says that accepted evidence is about an order that is settled, because, unlike a
provider event, it is refused for an expired one; so what is paid on the chain
never expires. `RowOf` ties an order, its reservation and its tickets together,
and the reports under way: when one has counted none remaining, all tickets of
its order but one are issued. So an order is fulfilled only when all of its
tickets are. That it is fulfilled as soon as they are is false, as
`MCTicketOwnershipStuck.cfg` shows.
Every step is first reduced to what it does to one order (`RowMoves`, six cases)
and what it never takes back (`Keeps`).

The two sums are inductive beside `SaleInv`. `CreateReservation` first releases
every overdue reservation and then places one, so the proof goes through the
stock in between: the sum of what is held falls by the quantities of the
released orders (`SumOfParts`) and then rises by the new one. A buyer's limit is
kept because the handler sums after it has released, as the model does.

### Ownership: `TicketOwnershipProofs`

`OwnershipTransfersComeFromOwner`, `OwnershipMovesOnceAfterCheckIn`,
`OwnershipOneTicketPerToken`, `OwnershipHistoryFollowsLedger`,
`OwnershipHolderIsKnown` and `OwnershipConfirmsOwners`.

The first three follow from `RowsInv`, which does not depend on what the ledger
does: one active transfer per ticket, of an issued one and from its owner
(`ActiveInv`); after a check-in one more piece of evidence at most, and then no
active transfer that could bring another (`UsedInv`). For the third, and for an
order that is fulfilled only when its tickets are issued (`OrderInv`),
`ReportInv` is about the reports under way: what one has counted stays so,
because what is issued stays issued, and no two are about one token or movement.

The last two compare rows with the ledger and need `LedgerInv`. `SentInv`: a
transaction for a transfer does what the transfer says, and those that have not
lapsed are one at a time; a transfer is submitted with a transaction that was
sent for a transfer, not necessarily for this one. `TransferOf`: it is confirmed
only by a transaction of its own, because its evidence is compared with ticket,
sender and recipient; and while it is active, what the ledger applied for it
comes after all the evidence of the ticket. That order is what lets the next
piece of evidence be appended to a history that stays in the ledger's order.
`HolderInv` says, of a token that no wallet moved, that the ticket's owner holds
it, or that an active transfer was applied and its recipient does; unless it was
misreported, that transfer can then be proven by just this movement.

For `LedgerConfirmation` tickets and transfers are one set of records, as one
table holds the evidence of both. `ProofInv`: what confirmed any of them is in
the evidence of its ticket; the handlers accept only a movement that is in
nobody's, so none confirms two.

### Fulfillment: `FulfillmentProofs`

`FulfillmentRowsAgree`, `FulfillmentClaimable`, `FulfillmentByItsMint`,
`FulfillmentStock` and `FulfillmentConfirmsMints`. `RowOf` says of each status
of a job what its mint and order are, that a waiting job has an attempt left,
and that its transaction was sent for its order; `WorkerInv` that what a worker
has sent mints for the job it holds; `EvidenceInv` that accepted evidence is of
the mint that fulfilled its order, and that a transaction is judged once. A step
on one order disturbs no other (`RowStays`). The stock is a cardinality, so
`Orders` must be finite.

### Voting, markets and settlements: `VotingAndMarketProofs`

`VotingRowsAgree`, `VotingAnchoredIsOnChain`, `VotingSnapshotIsKept`,
`VotingOneVotePerVoter`, `VotingReceiptVerifies`, `VotingConfirmsAnchors`. The
last row that says "anchored" is written from the others, so `AnchorOf` ties
round, snapshot and anchor at every stage and keeps the votes of an anchor those
of its snapshot; `ChainInv` says that a confirmed anchor was published, as it
is, by its transaction.

`VotingReceiptVerifies` is for snapshots of any number of votes and any order of
their hashes, and rests on `MerkleProofsHold`, which is about the operators: in a
tree of different leaves the proof of a leaf leads to the root, and does so from
no other leaf. What recursive functions compute is an induction, and the
library's induction theorems take a predicate, which cannot be instantiated
here; `InductionUpTo` says the same of a set `Good` of numbers and follows from
`LeastElement`. By it, the functions exist (`LevelsExist`, `PathExists`,
`HashesExist`); levels get shorter until one node is left (`LevelsShrink`,
`HeightIs`); after `k` steps of its proof a leaf has become its node of level `k`
(`ProofFollowsPath`), whichever way odd levels are paired (`SiblingsMakeNode`);
and two leaves that one proof leads to the same root were the same, since a hash
determines what was hashed (`ProofServesOneLeaf`). That a snapshot has only
finitely many votes, so that its leaves are a sequence, is an invariant of its
own (`VotingFiniteVotes`).

`MarketPositionsAreBacked`, `SettlementPlanIsExact`, `SettlementRunsArePaid`,
for any stakes, outcomes, limits, runs, payments and any fee of up to 10 %.
`MarketInv`: a position has an intent that stays, evidence that matches it, and
no evidence of another position; the totals are the sums of the positions. Its
main lemma, `BooksKept`, is about every step that adds no position, however the
handlers that write late overwrite submissions and statuses. `SettlementInv`
adds the runs, their items and their payments; a plan is exact when it is made
and stays so because nothing it was made from changes (positions are never
taken back, nor is an intent's outcome or the amount of an item).

`MarketConfirmsStakes` and `SettlementConfirmsItems`, the implementations of
`LedgerConfirmation`, follow from the same invariants: which evidence a position
or an item has is written once, and no two have the same.

The arithmetic of a plan is proved for all amounts. Shares are rounded down, so
together they are at most what there is to give out, and the units left over are
fewer than the recipients: `SettlementRemainderFits`. The handler gives them
one each to the first recipients, so the plan gives out everything and nobody
gets more than one unit too much. One unit too much
is possible even for an exact share: with stakes 2, 1 and 1 and 6 to give out,
the first share is 3, and one of the two left-over units may be added to it.
This was found in the attempt to prove that a payout stays strictly below a unit
above the exact share, so `PlanIsExact` says `<=`.

### Payouts: `PayoutsProofs`

`SplitIsExact`, about the operator: for any amount and any valid basis points
the shares are natural numbers that add up to it. `PayoutSharesAreExact`,
`PayoutBatchFollowsTransfers`, `PayoutConfirmedByOwnPayment`,
`PayoutsConfirmTransfers`. `BatchOf` says what each status of a batch means for
its transfers, `partial` too; `PaidOf` by which payment a transfer was
confirmed; `Unshared` that no two transfers share one.

### Prediction-market contract: `PredictionContractProofs`

`ContractEscrowMatches`, `ContractWinnersKeepStake` and `ContractResultIsFinal`,
for any finite sets of markets and users, 2 to 32 options, any stakes and any fee
of up to 10 %. `ContractInv = TypeOK /\ MarketsInv /\ EscrowIsOwed`. A market
that does not exist is empty; of one that exists, `Books` says that each pool is
the sum of the positions on it and the total is the sum of what users have
staked; `Stage` what has happened at each status; `Claims` that the stakes of
those who have claimed add up to `claimedStake`, that what has been given out is
at most their part of the whole, and all of it once the last has claimed;
`Paid` what each user has received.

That a winner gets back at least the stake is two facts. A claim is rounded
down, but the winning pool is part of the total and the fee is taken from the
winnings only (`ProductGrows`, `Quotient`). The last claim is not computed but
is what is left, and that this is enough is `Claims`: the earlier ones took at
most their part. That the escrow, which all markets share, is what the markets
owe follows with `SumUpdate`: a call changes what one market owes by what it
moves.

### Media and identity: `RequestProofs`

`MediaShownIsStored` and `MediaDecidedOnce`, for any number of requests and any
size of the pool. The handler writes a status without looking at the one it
replaces; that this is harmless rests on `Alone` (one request at a time is under
the lock of an asset) and `ReadIsCurrent` (what it has read is still so).

`IdentityAccountsFollowChallenges` and `IdentityOneSetup`, for any users,
addresses, challenges, organizations, pageants and requests. Requests read in
one step and write in a later one, so `RequestInv` says what of the things read
is never taken back: `ConsumeOf` (the account that a second wallet is linked to
has a primary one), `SetupOf` (nobody else can complete the setup while its
request holds the row), `WriteOf` and `ReadyOf` (what the middleware and the
handler have found still exists). `WalletInv` is `AccountsFollowChallenges` with
the unique indexes as sets of one element. `MemberInv` is about accounts and
owners; `AdminInv` says that the administrator is the one who did the setup.

### Assumptions

Each module assumes of its constants, by name, that placeholder values are not
elements of the sets they stand beside (`PaymentAssumption`, `RecordAssumption`,
`TicketAssumption`, `VotingAssumption`, `OwnershipAssumption`, `MediaAssumption`,
`MarketAssumption`, `IntentAssumption`, `SettlementRowAssumption`,
`IdentityRecordAssumption`), and further:

* that a set whose elements are added up or counted is finite: the orders of the
  sale and of fulfillment, the stake intents, and the markets, users and options
  of the contract (`TicketAssumption`, `FulfillmentAssumption`,
  `MarketsAssumption`, `ContractAssumption`);
* that a transaction pays at least one item, of those there are
  (`SettlementRowAssumption`);
* that ledger sequences and ranks of paging tokens are numbers
  (`PaymentAssumption`);
* that amounts, stakes, limits, times and shares are numbers in the range the
  code or the schema checks: stakes are positive, a fee is at most 10 %, there
  are 2 to 32 options in the contract and 2 or more outcomes in the API
  (`PayoutsAssumption`, `SettlementAssumption` and the two above);
* that an order has a ticket and its buyer is a user (`OwnershipAssumption`);
* that roles and statuses asked for are among those that exist, and that nobody
  is made an owner by a grant (`IdentityAssumption`).

TLC evaluates each in the run of its module.

### Only model-checked

* Liveness under fairness, `EveryClaimEnds` and `EveryRequestEnds`: the prover
  has no reasoning about ENABLED.
* What the runs that find a violation show, which is false.

## 7. Assumptions and what is not modelled

* PostgreSQL: transactions are atomic, row locks are held to the end, unique
  indexes hold. One clock. A deadlock aborts one transaction, which is a
  stuttering step here; which handlers can meet in one is in the hazards.
* The ledger applies a transaction at most once and never forgets it. An indexer
  reports only what the ledger applied, but may report it late, repeatedly,
  never, under the wrong row, or with a field misread.
* The worker that transfers tickets sends a new transaction for a transfer only
  when those before it have lapsed. If it did not, a copy left over could move a
  ticket again after it came back to its first owner; nothing in the API could
  prevent that.
* The cursor is written and read by no handler; it is for an indexer. Where
  texts of paging tokens are not in the order of the operations, a payment may lie
  behind the cursor without having been reported; no property says otherwise.
* Hashes do not collide. Payloads, texts, addresses and amounts are compared,
  never inspected, so they are `exact` or not.
* One product is on sale, one organization sells it, quantities are bounded by
  `MaxQuantity`.
* Payouts: a failed batch is terminal, there is no retry; evidence that precedes
  the submission is rejected and blocks its operation; a failure may be reported
  while the transaction is on its way; two batches may name one hash. The model
  has all of this, and no property promises otherwise.
* Markets: one transition request at a time may be written late
  (`DelayedTargets`), and the window is at most fifteen minutes, so an intent
  expires when the market closes. Decisions on the five policy actions are one.
  `GovernanceActions` are the actions of the log before migration 202607170009,
  whose CHECK omits `market.create` (`api/markets.rs:321`) and
  `market.transition` (`:504`): with it no market can be created or moved. The
  handler also moves a market from settling to settled on an administrator's
  word; limits per user are read without a lock and can be exceeded; the last
  item of a run marks positions that were accepted after its plan as settled,
  without an item of their own.
* Contract: if nobody staked on the winning option the market can only be
  cancelled. Amounts are far from the limits of i128, where calls are refused.
* Media: a signed address outlives its completion, so the bytes of a ready asset
  can be replaced, and `ShownIsStored` says only that there are some. A
  statement already sent when a request is dropped takes effect before the lock
  is released.
* Identity: the settings are read whole, unlocked, and written whole, so of two
  concurrent patches one is undone, and the default pageant may be one archived
  meanwhile; a request that was admitted writes although its actor has lost the
  right since; an owner can be given another role by an administrator. After a
  setup on the public network no patch that leaves the network alone gets
  through, because `mainnet_enabled` is never set (`api/identity.rs:491`). The
  table of routes is not modelled; it omits the internal ticketing, transfer,
  voting and anchor routes (`api/authorization_acl.rs:660`).
* Tickets: create_event and create_product (`api/ticketing.rs`) insert single
  rows and are not modelled; create_product reads the status of its event
  without a lock, so a late product stays a draft in an event that is on sale.
* Audit rows are written in the transaction of the change they describe and read
  by no handler; they are left out.
* Who may call a handler is modelled in `Identity` only; elsewhere authorization
  is taken as passed.
* Not modelled: the rest of catalogue and management CRUD, configuration, codecs
  (XDR, strkeys), the other contracts, the legacy in-memory demonstration and
  the web pages, for the reasons in `PROJECT.json`.
