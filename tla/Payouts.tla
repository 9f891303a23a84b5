------------------------------- MODULE Payouts ------------------------------
(***************************************************************************)
(* Payout of fulfilled orders to three accounts: the rule that divides the *)
(* amount, a batch of three transfers per order, its submission and its    *)
(* failure, and the evidence of every payment (services/api/src/           *)
(* payouts.rs).                                                            *)
(*                                                                         *)
(* Every handler locks the row it decides on, the order or the batch, and  *)
(* is one action; a request repeated with its key or hash changes nothing. *)
(* The worker is not part of the repository: it sends a transaction of     *)
(* three payments for a prepared batch and reports its hash, perhaps the   *)
(* hash it sent for another batch, or a failure.  An indexer reports the   *)
(* payments the ledger applied, against any batch and role, and may        *)
(* misread them.  All rules pay the same three accounts, the case that is  *)
(* hardest to tell apart.                                                  *)
(*                                                                         *)
(* A definition marked FAULT is not part of the model: it is the next      *)
(* definition with a plausible mistake, which a property has to notice.    *)
(***************************************************************************)
EXTENDS Integers, FiniteSets, FiniteSetsExt

CONSTANTS
    Orders,     \* orders of one item of one product
    Price,      \* the amount_minor of each
    Rules,      \* payout rules of that product
    Divisions,  \* basis points a rule may be created with
    Txs,        \* payout transactions
    None

Roles == {"candidate", "organizer", "platform"}
BpsDenominator == 10000

(* An operation of a transaction, by the role whose account it pays. *)
Operations == Txs \X Roles

Rule == [status : {"draft", "active", "archived"}, bps : Divisions]
Batch ==
    [rule : Rules, tx : Txs \union {None}, confirmed : 0..3,
     status : {"prepared", "submitted", "partial", "confirmed", "failed"}]
Transfer ==
    [amount : Nat, operation : Operations \union {None},
     status : {"pending", "submitted", "confirmed", "failed"}]
Verdict == {"accepted", "rejected"}

ASSUME PayoutsAssumption ==
    /\ Price \in [Orders -> Nat]
    /\ Divisions \subseteq [Roles -> 0..BpsDenominator]
    /\ None \notin Orders \union Rules \union Txs \union Verdict
    /\ None \notin Operations
    /\ None \notin Rule
    /\ None \notin Batch
    /\ None \notin [Roles -> Transfer]

VARIABLES
    fulfilled,  \* the orders that are fulfilled, with accepted evidence
    rule,       \* rows of payout_rules
    batch,      \* rows of payout_batches, at most one per order
    transfer,   \* rows of payout_transfers, by order and role
    evidence,   \* processing_status of the evidence of each operation
    sent,       \* the order each transaction pays out
    outcome     \* what the ledger made of it

vars == <<fulfilled, rule, batch, transfer, evidence, sent, outcome>>
rows == <<rule, batch, transfer, evidence>>

Init ==
    /\ fulfilled = {}
    /\ rule = [q \in Rules |-> None]
    /\ batch = [o \in Orders |-> None]
    /\ transfer = [o \in Orders |-> None]
    /\ evidence = [p \in Operations |-> None]
    /\ sent = [x \in Txs |-> None]
    /\ outcome = [x \in Txs |-> "none"]
-----------------------------------------------------------------------------
(* The exact division of an amount: two shares are rounded down, and the   *)
(* platform receives what is left.                                         *)

RoundedShare(total, bps, role) == (total * bps[role]) \div BpsDenominator

(* FAULT: the platform's share is rounded down like the others. *)
SplitRounded(total, bps) ==
    [role \in Roles |-> RoundedShare(total, bps, role)]

Split(total, bps) ==
    [role \in Roles |->
        IF role = "platform"
        THEN total - RoundedShare(total, bps, "candidate")
                   - RoundedShare(total, bps, "organizer")
        ELSE RoundedShare(total, bps, role)]

ValidBps(bps) ==
    bps["candidate"] + bps["organizer"] + bps["platform"] = BpsDenominator
-----------------------------------------------------------------------------
OrderFulfilled(o) ==
    /\ fulfilled' = fulfilled \union {o}
    /\ UNCHANGED <<rows, sent, outcome>>

HasActiveRule == \E q \in Rules : rule[q] # None /\ rule[q].status = "active"

CreatePayoutRule(q, bps, status) ==
    /\ rule[q] = None
    /\ ValidBps(bps)
    /\ status = "active" => ~HasActiveRule
    /\ rule' = [rule EXCEPT ![q] = [status |-> status, bps |-> bps]]
    /\ UNCHANGED <<fulfilled, batch, transfer, evidence, sent, outcome>>

CreatePayoutBatch(o, q) ==
    LET share == Split(Price[o], rule[q].bps)
    IN  /\ o \in fulfilled
        /\ batch[o] = None
        /\ rule[q] # None
        /\ rule[q].status = "active"
        /\ Price[o] > 0
        /\ \A role \in Roles : share[role] > 0
        /\ batch' = [batch EXCEPT ![o] =
                [rule |-> q, tx |-> None, confirmed |-> 0,
                 status |-> "prepared"]]
        /\ transfer' = [transfer EXCEPT ![o] =
                [role \in Roles |->
                    [amount |-> share[role], operation |-> None,
                     status |-> "pending"]]]
        /\ UNCHANGED <<fulfilled, rule, evidence, sent, outcome>>
-----------------------------------------------------------------------------
(* The worker and the ledger. *)

SendPayout(o, x) ==
    /\ batch[o] # None
    /\ batch[o].status = "prepared"
    /\ sent[x] = None
    /\ sent' = [sent EXCEPT ![x] = o]
    /\ UNCHANGED <<fulfilled, rows, outcome>>

(* The payments of a transaction succeed or fail together. *)
LedgerApplies(x, result) ==
    /\ sent[x] # None
    /\ outcome[x] = "none"
    /\ outcome' = [outcome EXCEPT ![x] = result]
    /\ UNCHANGED <<fulfilled, rows, sent>>
-----------------------------------------------------------------------------
(* Sets the status of the transfers of o that have status from. *)
MoveTransfers(o, from, to) ==
    [role \in Roles |->
        IF transfer[o][role].status = from
        THEN [transfer[o][role] EXCEPT !.status = to]
        ELSE transfer[o][role]]

RecordPayoutSubmission(o, x) ==
    /\ batch[o] # None
    /\ batch[o].status = "prepared"
    /\ sent[x] # None
    /\ batch' = [batch EXCEPT ![o].status = "submitted", ![o].tx = x]
    /\ transfer' = [transfer EXCEPT ![o] =
            MoveTransfers(o, "pending", "submitted")]
    /\ UNCHANGED <<fulfilled, rule, evidence, sent, outcome>>

(* FAULT: a failure closes the batch, whatever was confirmed. *)
FailedAnyway(o) == "failed"

StatusAfterFailure(o) ==
    IF batch[o].confirmed > 0 THEN "partial" ELSE "failed"

RecordPayoutFailure(o) ==
    /\ batch[o] # None
    /\ batch[o].status \in {"submitted", "partial"}
    /\ batch' = [batch EXCEPT ![o].status = StatusAfterFailure(o)]
    /\ transfer' = [transfer EXCEPT ![o] =
            MoveTransfers(o, "submitted", "failed")]
    /\ UNCHANGED <<fulfilled, rule, evidence, sent, outcome>>
-----------------------------------------------------------------------------
(* Evidence of one payment, reported for a role of a batch. *)

(* FAULT: evidence may be counted again for another transfer. *)
AnyOperation(p) == TRUE

UnusedOperation(p) == evidence[p] = None

(* The payment is what the transfer expects: its account and amount. *)
PaysTransfer(o, role, p) ==
    /\ p[2] = role
    /\ transfer[sent[p[1]]][role].amount = transfer[o][role].amount

(* FAULT: the transaction of the payment is not compared. *)
ReconcilesAnyTx(o, role, p, exact) ==
    /\ batch[o].status \in {"submitted", "partial"}
    /\ transfer[o][role].status = "submitted"
    /\ exact
    /\ PaysTransfer(o, role, p)
    /\ outcome[p[1]] = "success"

Reconciles(o, role, p, exact) ==
    /\ batch[o].status \in {"submitted", "partial"}
    /\ transfer[o][role].status = "submitted"
    /\ batch[o].tx = p[1]
    /\ exact
    /\ PaysTransfer(o, role, p)
    /\ outcome[p[1]] = "success"

Confirmed(o) == {role \in Roles : transfer[o][role].status = "confirmed"}

(* The batch once one more transfer is confirmed. *)
RefreshedBatch(o) ==
    LET count == Cardinality(Confirmed(o)) + 1
    IN  [batch[o] EXCEPT !.confirmed = count,
                         !.status = IF count = 3 THEN "confirmed"
                                                 ELSE "partial"]

RecordTransferEvidence(o, role, p, exact) ==
    LET accepted == Reconciles(o, role, p, exact)
    IN  /\ batch[o] # None
        /\ outcome[p[1]] # "none"
        /\ UnusedOperation(p)
        /\ transfer[o][role].status # "confirmed"
        /\ evidence' = [evidence EXCEPT ![p] =
                IF accepted THEN "accepted" ELSE "rejected"]
        /\ \/ /\ accepted
              /\ transfer' = [transfer EXCEPT
                    ![o][role].status = "confirmed",
                    ![o][role].operation = p]
              /\ batch' = [batch EXCEPT ![o] = RefreshedBatch(o)]
           \/ /\ ~accepted
              /\ UNCHANGED <<transfer, batch>>
        /\ UNCHANGED <<fulfilled, rule, sent, outcome>>
-----------------------------------------------------------------------------
Next ==
    \/ \E o \in Orders \ fulfilled : OrderFulfilled(o)
    \/ \E q \in Rules, bps \in Divisions,
          status \in {"draft", "active", "archived"} :
            CreatePayoutRule(q, bps, status)
    \/ \E o \in Orders, q \in Rules : CreatePayoutBatch(o, q)
    \/ \E o \in Orders, x \in Txs :
            SendPayout(o, x) \/ RecordPayoutSubmission(o, x)
    \/ \E x \in Txs, result \in {"success", "failed"} :
            LedgerApplies(x, result)
    \/ \E o \in Orders : RecordPayoutFailure(o)
    \/ \E o \in Orders, role \in Roles, p \in Operations, exact \in BOOLEAN :
            RecordTransferEvidence(o, role, p, exact)

Spec == Init /\ [][Next]_vars
-----------------------------------------------------------------------------
(* Every variable has its type: the rows the handlers of payouts.rs write. *)
TypeOK ==
    /\ fulfilled \in SUBSET Orders
    /\ rule \in [Rules -> Rule \union {None}]
    /\ batch \in [Orders -> Batch \union {None}]
    /\ transfer \in [Orders -> [Roles -> Transfer] \union {None}]
    /\ \A o \in Orders : batch[o] = None <=> transfer[o] = None
    /\ evidence \in [Operations -> Verdict \union {None}]
    /\ sent \in [Txs -> Orders \union {None}]
    /\ outcome \in [Txs -> {"none", "success", "failed"}]

(* calculate_split loses and invents nothing: the shares of a batch add up *)
(* to what was paid, nobody is left without one, and none of the two       *)
(* rounded shares exceeds its basis points.                                *)
SharesAreExact ==
    \A o \in {k \in Orders : batch[k] # None} :
        LET bps == rule[batch[o].rule].bps
            amount == [role \in Roles |-> transfer[o][role].amount]
        IN  /\ amount["candidate"] + amount["organizer"]
                    + amount["platform"] = Price[o]
            /\ \A role \in Roles : amount[role] > 0
            /\ \A role \in Roles \ {"platform"} :
                    amount[role] * BpsDenominator <= Price[o] * bps[role]

(* The batch row, written by record_payout_submission, _failure and        *)
(* refresh_batch_status, tells the truth about its three transfers: a      *)
(* failed batch paid nobody, a partial one somebody but not all.           *)
BatchFollowsTransfers ==
    /\ TypeOK
    /\ \A o \in {k \in Orders : batch[k] # None} :
        LET all(status) ==
                \A role \in Roles : transfer[o][role].status = status
        IN  /\ batch[o].confirmed = Cardinality(Confirmed(o))
            /\ (batch[o].status = "prepared") = all("pending")
            /\ (batch[o].status = "submitted") = all("submitted")
            /\ (batch[o].status = "failed") = all("failed")
            /\ (batch[o].status = "confirmed") = all("confirmed")

(* Money is reported as paid only once and only when it was: each          *)
(* confirmed transfer has a successful payment of its own, of its amount,  *)
(* in the transaction of its batch, however record_transfer_evidence was   *)
(* misled about batch and role.                                            *)
ConfirmedByOwnPayment ==
    LET confirmed ==
            {t \in Orders \X Roles :
                /\ batch[t[1]] # None
                /\ transfer[t[1]][t[2]].status = "confirmed"}
        payment(t) == transfer[t[1]][t[2]].operation
    IN  /\ \A t \in confirmed :
            /\ payment(t) # None
            /\ outcome[payment(t)[1]] = "success"
            /\ payment(t)[1] = batch[t[1]].tx
            /\ PaysTransfer(t[1], t[2], payment(t))
        /\ \A t, u \in confirmed : payment(t) = payment(u) => t = u

(* What module LedgerConfirmation says of transfers: a payment has a role, *)
(* whose account it goes to, and an amount.                                *)
Transfers == {t \in Orders \X Roles : batch[t[1]] # None}
TransfersWanted ==
    [t \in Transfers |-> {<<t[2], transfer[t[1]][t[2]].amount>>}]
TransfersApplied ==
    [p \in {q \in Operations : outcome[q[1]] = "success"} |->
        <<p[2], transfer[sent[p[1]]][p[2]].amount>>]
TransfersConfirmed ==
    [t \in {u \in Transfers : transfer[u[1]][u[2]].status = "confirmed"} |->
        transfer[t[1]][t[2]].operation]

Confirmation == INSTANCE LedgerConfirmation WITH
    wanted <- TransfersWanted,
    applied <- TransfersApplied,
    confirmedBy <- TransfersConfirmed

(* Confirmed transfers are on the ledger: what a transfer pays, and whom,  *)
(* is fixed with its batch, and it is confirmed once and for good, by one  *)
(* payment that did so and confirms no other transfer                      *)
(* (create_payout_batch, record_transfer_evidence).                        *)
ConfirmsTransfers == Confirmation!Spec
=============================================================================
