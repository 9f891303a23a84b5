-------------------------- MODULE TicketOwnership --------------------------
(***************************************************************************)
(* The life of a ticket once its order is prepared for issuance: the       *)
(* evidence of its mint, transfers from owner to owner, and check-in       *)
(* (services/api/src/ticket_operations.rs, ticket_transfers.rs), over the  *)
(* ledger on which the tokens are minted and moved.                        *)
(*                                                                         *)
(* Issuances are the tickets of one order of Buyer, in the state that      *)
(* prepare_issuance leaves them.  A user stands for its verified wallet.   *)
(* A handler locks the rows it decides on while it runs, and is one        *)
(* action; a request repeated with its key or hash changes nothing.        *)
(* accept_ownership_evidence also counts rows that it does not lock: it    *)
(* counts in one action and commits in another.                            *)
(*                                                                         *)
(* The worker sends transactions for the application: for a transfer a new *)
(* one only once those before it have lapsed.  It may report any of them   *)
(* as the transfer's, but reports evidence only of what the ledger         *)
(* applied.  The ledger also applies what a holder sends from a wallet,    *)
(* which no handler knows of.                                              *)
(*                                                                         *)
(* A definition marked FAULT is not part of the model: it is the next      *)
(* definition with a plausible mistake, which a property has to notice.    *)
(***************************************************************************)
EXTENDS Naturals, SequencesExt

CONSTANTS
    Issuances,      \* ticket_issuances of one order
    Transfers,      \* ticket_transfer_requests
    Users,
    Buyer,          \* the buyer of the order
    Tokens,
    Txs,            \* transactions on the ledger
    None

Issuance ==
    [status : {"pending", "issued"}, owner : Users,
     token : Tokens \union {None}, evidence : Seq(Txs)]
ActiveTransfer == {"requested", "approved", "submitted"}
TransferRecord ==
    [issuance : Issuances, token : Tokens, from : Users, to : Users,
     status : ActiveTransfer \union {"confirmed", "rejected"},
     tx : Txs \union {None}]

(* A report of ownership: the mint, and whether no other ticket remains.   *)
Report == [tx : Txs, last : BOOLEAN]

(* What a transaction asks of the ledger, and for which transfer.          *)
Movement ==
    [for : Transfers \union {None}, token : Tokens,
     from : Users \union {None}, to : Users]

ASSUME OwnershipAssumption ==
    /\ Issuances # {}
    /\ Buyer \in Users
    /\ None \notin Issuances \union Transfers \union Users \union Tokens
            \union Txs
    /\ None \notin TransferRecord \union Movement \union Report

VARIABLES
    policy,     \* ticket_products.transfer_policy
    order,      \* orders.status
    issuance,   \* rows of ticket_issuances, with their accepted evidence
    report,     \* the report of a ticket's ownership that is not committed yet
    checkIn,    \* for a row of ticket_check_ins, how much evidence preceded it
    transfer,   \* rows of ticket_transfer_requests
    sent,       \* what each transaction does
    lapsed,     \* the transactions the ledger will never apply
    ledger      \* the transactions it applied, in its order

vars ==
    <<policy, order, issuance, report, checkIn, transfer, sent, lapsed,
      ledger>>

Init ==
    /\ policy \in {"non_transferable", "organizer_approved", "open"}
    /\ order = "fulfilling"
    /\ issuance = [i \in Issuances |->
            [status |-> "pending", owner |-> Buyer,
             token |-> None, evidence |-> <<>>]]
    /\ report = [i \in Issuances |-> None]
    /\ checkIn = [i \in Issuances |-> None]
    /\ transfer = [r \in Transfers |-> None]
    /\ sent = [x \in Txs |-> None]
    /\ lapsed = {}
    /\ ledger = <<>>
-----------------------------------------------------------------------------
(* The ledger, and the worker that sends transactions to it. *)

(* The places of the ledger where a token moves. *)
Moves(k) == {n \in DOMAIN ledger : sent[ledger[n]].token = k}

HolderOf(k) ==
    IF Moves(k) = {} THEN None ELSE sent[ledger[Max(Moves(k))]].to

SentFromWallet(x) == sent[x].for = None /\ sent[x].from # None

(* The worker mints a token for a ticket that waits for one. *)
Mint(x, k) ==
    /\ sent[x] = None
    /\ HolderOf(k) = None
    /\ \E i \in Issuances : issuance[i].status = "pending"
    /\ sent' = [sent EXCEPT ![x] =
            [for |-> None, token |-> k, from |-> None, to |-> Buyer]]
    /\ ledger' = Append(ledger, x)
    /\ UNCHANGED <<policy, order, issuance, report, checkIn, transfer, lapsed>>

SendTransfer(x, r) ==
    /\ sent[x] = None
    /\ transfer[r] # None
    /\ transfer[r].status \in {"approved", "submitted"}
    /\ \A y \in Txs : sent[y] # None /\ sent[y].for = r => y \in lapsed
    /\ sent' = [sent EXCEPT ![x] =
            [for |-> r, token |-> transfer[r].token,
             from |-> transfer[r].from, to |-> transfer[r].to]]
    /\ UNCHANGED <<policy, order, issuance, report, checkIn, transfer, lapsed,
                   ledger>>

(* A token moves if the one who gives it away holds it. *)
LedgerApplies(x) ==
    /\ sent[x] # None
    /\ x \notin Range(ledger) \union lapsed
    /\ HolderOf(sent[x].token) = sent[x].from
    /\ ledger' = Append(ledger, x)
    /\ UNCHANGED <<policy, order, issuance, report, checkIn, transfer, sent,
                   lapsed>>

LedgerForgets(x) ==
    /\ sent[x] # None
    /\ x \notin Range(ledger) \union lapsed
    /\ lapsed' = lapsed \union {x}
    /\ UNCHANGED <<policy, order, issuance, report, checkIn, transfer, sent,
                   ledger>>

WalletTransfer(x, k, u) ==
    /\ sent[x] = None
    /\ HolderOf(k) \notin {None, u}
    /\ sent' = [sent EXCEPT ![x] =
            [for |-> None, token |-> k, from |-> HolderOf(k), to |-> u]]
    /\ ledger' = Append(ledger, x)
    /\ UNCHANGED <<policy, order, issuance, report, checkIn, transfer, lapsed>>
-----------------------------------------------------------------------------
(* ticket_operations.rs *)

(* FAULT: a transaction proves as often as it is reported. *)
AnyEvidence(x) == TRUE

(* The index ticket_ownership_evidence_event_identity and UNIQUE(token_id) *)
(* of ticket_issuances: an insert waits for those under way.               *)
UnusedEvidence(x) ==
    \A i \in Issuances : /\ x \notin Range(issuance[i].evidence)
                         /\ report[i] # None => report[i].tx # x

UnusedToken(k) ==
    \A i \in Issuances : /\ issuance[i].token # k
                         /\ report[i] # None => sent[report[i].tx].token # k

(* The others of the order, as they are committed: none of them is locked. *)
NoneRemains(i) == \A j \in Issuances \ {i} : issuance[j].status = "issued"

CountRemaining(i, x) ==
    /\ x \in Range(ledger)
    /\ issuance[i].status = "pending"
    /\ report[i] = None
    /\ sent[x].to = issuance[i].owner
    /\ UnusedEvidence(x)
    /\ UnusedToken(sent[x].token)
    /\ report' = [report EXCEPT ![i] = [tx |-> x, last |-> NoneRemains(i)]]
    /\ UNCHANGED <<policy, order, issuance, checkIn, transfer, sent, lapsed,
                   ledger>>

AcceptOwnershipEvidence(i) ==
    /\ report[i] # None
    /\ LET x == report[i].tx
       IN  issuance' = [issuance EXCEPT
                ![i].status = "issued",
                ![i].token = sent[x].token,
                ![i].evidence = <<x>>]
    /\ order' = IF report[i].last THEN "fulfilled" ELSE order
    /\ report' = [report EXCEPT ![i] = None]
    /\ UNCHANGED <<policy, checkIn, transfer, sent, lapsed, ledger>>

(* The connection is lost, or the process dies, before the commit. *)
RollBackReport(i) ==
    /\ report[i] # None
    /\ report' = [report EXCEPT ![i] = None]
    /\ UNCHANGED <<policy, order, issuance, checkIn, transfer, sent, lapsed,
                   ledger>>

(* No handler cancels or archives an event, so none stops a check-in. *)
CheckIn(i) ==
    /\ issuance[i].status = "issued"
    /\ checkIn[i] = None
    /\ checkIn' = [checkIn EXCEPT ![i] = Len(issuance[i].evidence)]
    /\ UNCHANGED <<policy, order, issuance, report, transfer, sent, lapsed,
                   ledger>>
-----------------------------------------------------------------------------
(* ticket_transfers.rs *)

(* FAULT: a ticket that was used to enter can still be given away. *)
TransferableOnceUsed(i) ==
    /\ policy # "non_transferable"
    /\ issuance[i].status = "issued"

Transferable(i) ==
    /\ policy # "non_transferable"
    /\ issuance[i].status = "issued"
    /\ checkIn[i] = None

(* FAULT: the index of active transfers is dropped. *)
NoActiveTransferIndex(i) == FALSE

(* The index ticket_transfer_one_active_per_issuance. *)
HasActiveTransfer(i) ==
    \E r \in Transfers :
        /\ transfer[r] # None
        /\ transfer[r].issuance = i
        /\ transfer[r].status \in ActiveTransfer

InitialStatus == IF policy = "open" THEN "approved" ELSE "requested"

CreateTransfer(r, i, u) ==
    /\ transfer[r] = None
    /\ Transferable(i)
    /\ u # issuance[i].owner
    /\ ~HasActiveTransfer(i)
    /\ transfer' = [transfer EXCEPT ![r] =
            [issuance |-> i, token |-> issuance[i].token,
             from |-> issuance[i].owner, to |-> u, tx |-> None,
             status |-> InitialStatus]]
    /\ UNCHANGED <<policy, order, issuance, report, checkIn, sent, lapsed,
                   ledger>>

(* FAULT: the organizer may change the decision. *)
ReviewableUntilSubmitted(r) ==
    transfer[r].status \in {"requested", "approved"}

Reviewable(r) == transfer[r].status = "requested"

ReviewTransfer(r, decision) ==
    /\ transfer[r] # None
    /\ Reviewable(r)
    /\ policy = "organizer_approved"
    /\ transfer' = [transfer EXCEPT ![r].status = decision]
    /\ UNCHANGED <<policy, order, issuance, report, checkIn, sent, lapsed,
                   ledger>>

RecordTransferSubmission(r, x) ==
    /\ transfer[r] # None
    /\ transfer[r].status = "approved"
    /\ sent[x] # None
    /\ sent[x].for # None
    /\ transfer' = [transfer EXCEPT ![r].status = "submitted", ![r].tx = x]
    /\ UNCHANGED <<policy, order, issuance, report, checkIn, sent, lapsed,
                   ledger>>

MatchesTransfer(r, x) ==
    /\ transfer[r].token = sent[x].token
    /\ transfer[r].from = sent[x].from
    /\ transfer[r].to = sent[x].to

ProvesTransfer(r, x) ==
    LET i == transfer[r].issuance
    IN  /\ x \in Range(ledger)
        /\ MatchesTransfer(r, x)
        /\ issuance[i].owner = transfer[r].from
        /\ issuance[i].token = sent[x].token
        /\ UnusedEvidence(x)

AcceptTransferEvidence(r, x) ==
    /\ transfer[r] # None
    /\ transfer[r].status = "submitted"
    /\ transfer[r].tx = x
    /\ ProvesTransfer(r, x)
    /\ issuance' = [issuance EXCEPT
            ![transfer[r].issuance].status = "issued",
            ![transfer[r].issuance].owner = transfer[r].to,
            ![transfer[r].issuance].evidence = Append(@, x)]
    /\ transfer' = [transfer EXCEPT ![r].status = "confirmed"]
    /\ UNCHANGED <<policy, order, report, checkIn, sent, lapsed, ledger>>
-----------------------------------------------------------------------------
Next ==
    \/ \E x \in Txs, k \in Tokens : Mint(x, k)
    \/ \E x \in Txs, r \in Transfers : SendTransfer(x, r)
    \/ \E x \in Txs : LedgerApplies(x)
    \/ \E x \in Txs : LedgerForgets(x)
    \/ \E x \in Txs, k \in Tokens, u \in Users : WalletTransfer(x, k, u)
    \/ \E i \in Issuances, x \in Txs : CountRemaining(i, x)
    \/ \E i \in Issuances : AcceptOwnershipEvidence(i)
    \/ \E i \in Issuances : RollBackReport(i)
    \/ \E i \in Issuances : CheckIn(i)
    \/ \E r \in Transfers, i \in Issuances, u \in Users :
            CreateTransfer(r, i, u)
    \/ \E r \in Transfers, decision \in {"approved", "rejected"} :
            ReviewTransfer(r, decision)
    \/ \E r \in Transfers, x \in Txs : RecordTransferSubmission(r, x)
    \/ \E r \in Transfers, x \in Txs : AcceptTransferEvidence(r, x)

Spec == Init /\ [][Next]_vars
-----------------------------------------------------------------------------
(* Every variable has its type, and the evidence of a ticket is in the     *)
(* ledger: ticket_issuances, ticket_transfer_requests.                     *)
TypeOK ==
    /\ policy \in {"non_transferable", "organizer_approved", "open"}
    /\ order \in {"fulfilling", "fulfilled"}
    /\ issuance \in [Issuances -> Issuance]
    /\ report \in [Issuances -> Report \union {None}]
    /\ checkIn \in [Issuances -> Nat \union {None}]
    /\ transfer \in [Transfers -> TransferRecord \union {None}]
    /\ sent \in [Txs -> Movement \union {None}]
    /\ lapsed \subseteq {x \in Txs : sent[x] # None}
    /\ ledger \in Seq({x \in Txs : sent[x] # None} \ lapsed)

(* An order is fulfilled only when each of its tickets has accepted        *)
(* evidence, although accept_ownership_evidence counts what remains in     *)
(* rows it has not locked: what was issued stays issued.                   *)
FulfilledOnlyWhenIssued ==
    order = "fulfilled" => \A i \in Issuances : issuance[i].status = "issued"

(* The converse does not hold of the program and is no part of what is     *)
(* claimed: reports of the last two tickets, under way together, each      *)
(* count the ticket of the other, and the order stays 'fulfilling'.        *)
FulfilledOnceIssued ==
    (\A i \in Issuances : issuance[i].status = "issued") => order = "fulfilled"

(* An open transfer is always from the present owner of its ticket, so the *)
(* answer ticket_transfer_source_owner_drift of accept_transfer_evidence   *)
(* is never given and no approved transfer is in vain.                     *)
TransfersComeFromOwner ==
    \A r \in Transfers :
        transfer[r] # None /\ transfer[r].status \in ActiveTransfer =>
            LET i == transfer[r].issuance
            IN  /\ transfer[r].from = issuance[i].owner
                /\ transfer[r].token = issuance[i].token

(* No token and no movement of one stands for two tickets, although each   *)
(* is looked at and stored in a transaction that locks one ticket only.    *)
OneTicketPerToken ==
    \A i, j \in Issuances :
        i # j =>
            /\ issuance[i].token \notin {issuance[j].token} \ {None}
            /\ Range(issuance[i].evidence) \intersect
                Range(issuance[j].evidence) = {}

(* Where a transaction stands in a ledger. *)
Place(L, x) == CHOOSE n \in DOMAIN L : L[n] = x

HistoryOf(i) ==
    LET E == issuance[i].evidence
    IN  /\ \A n \in DOMAIN E :
            /\ E[n] \in Range(ledger)
            /\ sent[E[n]].token = issuance[i].token
            /\ n > 1 =>
                /\ Place(ledger, E[n - 1]) < Place(ledger, E[n])
                /\ sent[E[n]].from = sent[E[n - 1]].to
        /\ E # <<>> => issuance[i].owner = sent[Last(E)].to

(* The evidence of a ticket tells its history as the ledger has it: every  *)
(* transaction moved its token, in the ledger's order, from the one the    *)
(* one before it moved the token to, and the last one to the owner.        *)
(* accept_transfer_evidence appends to it, at any time after the ledger.   *)
(* With it come the types and the two conditions above.                    *)
HistoryFollowsLedger ==
    /\ TypeOK /\ FulfilledOnlyWhenIssued /\ OneTicketPerToken
    /\ \A i \in Issuances : HistoryOf(i)

(* What was submitted for a transfer will never prove it: the worker named *)
(* a transaction that lapsed, or one that it sent for another transfer.    *)
(* The hash cannot be replaced (record_transfer_submission).               *)
Misreported(r) ==
    /\ transfer[r].status = "submitted"
    /\ transfer[r].tx \in lapsed \/ sent[transfer[r].tx].for # r

(* Unless a wallet moved the token or the worker misreported the transfer, *)
(* the token is held by the owner the program knows, or the program can    *)
(* still get to know its holder: a transfer of the ticket waits for just   *)
(* the movement that the ledger made, which nothing has used up            *)
(* (review_transfer, record_transfer_submission, accept_transfer_evidence).*)
HolderIsKnown ==
    \A i \in Issuances :
        LET k == issuance[i].token
        IN  \/ k = None
            \/ \E n \in Moves(k) : SentFromWallet(ledger[n])
            \/ HolderOf(k) = issuance[i].owner
            \/ \E r \in Transfers :
                /\ transfer[r] # None
                /\ transfer[r].issuance = i
                /\ \/ Misreported(r)
                   \/ \E x \in Txs :
                        /\ \/ transfer[r].status = "approved"
                           \/ transfer[r].status = "submitted"
                                /\ transfer[r].tx = x
                        /\ ProvesTransfer(r, x)
                        /\ sent[x].to = HolderOf(k)

(* A ticket that was checked in changes owners at most once more, by the   *)
(* transfer that was open at the time: create_transfer refuses a ticket    *)
(* that is checked in, accept_transfer_evidence does not ask.              *)
MovesOnceAfterCheckIn ==
    \A i \in Issuances :
        checkIn[i] # None => Len(issuance[i].evidence) <= checkIn[i] + 1

(* What module LedgerConfirmation says of tickets, which are there from    *)
(* the start, and of transfers.  For a ticket, any movement of a token to  *)
(* the buyer will do.                                                      *)
Effect(m) == <<m.token, m.from, m.to>>

Records ==
    {"ticket"} \X Issuances
    \union {"transfer"} \X {r \in Transfers : transfer[r] # None}
WantedOf(k) ==
    IF k[1] = "ticket" THEN Tokens \X (Users \union {None}) \X {Buyer}
                       ELSE {Effect(transfer[k[2]])}
IsConfirmed(k) ==
    IF k[1] = "ticket" THEN issuance[k[2]].status = "issued"
                       ELSE transfer[k[2]].status = "confirmed"
ProofOf(k) ==
    IF k[1] = "ticket" THEN issuance[k[2]].evidence[1]
                       ELSE transfer[k[2]].tx

OwnersWanted == [k \in Records |-> WantedOf(k)]
OwnersApplied == [x \in Range(ledger) |-> Effect(sent[x])]
OwnersConfirmed == [k \in {j \in Records : IsConfirmed(j)} |-> ProofOf(k)]

Confirmation == INSTANCE LedgerConfirmation WITH
    wanted <- OwnersWanted,
    applied <- OwnersApplied,
    confirmedBy <- OwnersConfirmed

(* Tickets and transfers are confirmed by the ledger: a ticket by any      *)
(* token that went to its buyer, a transfer by just its token going from   *)
(* just that owner to the new one; either once and for good, by a movement *)
(* that confirms nothing else, ticket or transfer                          *)
(* (accept_ownership_evidence, accept_transfer_evidence).                  *)
ConfirmsOwners == Confirmation!Spec
=============================================================================
