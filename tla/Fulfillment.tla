---------------------------- MODULE Fulfillment ----------------------------
(***************************************************************************)
(* Fulfillment of paid orders of a one-of-one collectible: a durable job   *)
(* per order, the workers that claim it and mint, and the evidence of the  *)
(* mint (services/api/src/fulfillment.rs).                                 *)
(*                                                                         *)
(* Every handler locks its job while it runs and is one action.  A request *)
(* repeated with its key or hash changes nothing.  The workers are not     *)
(* part of the repository: a worker claims a job, mints, and reports the   *)
(* transaction or a failure, in this order, and can crash between any two  *)
(* steps.  An operator may report a failure in a worker's name, of a       *)
(* worker that crashed or only seems to have.  An indexer reports what the *)
(* ledger applied, against any job, and may misread it, or find another    *)
(* token than the worker named.                                            *)
(*                                                                         *)
(* A definition marked FAULT is not part of the model: it is the next      *)
(* definition with a plausible mistake, which a property has to notice.    *)
(***************************************************************************)
EXTENDS Naturals, FiniteSets

CONSTANTS
    Orders,         \* orders of one collectible, and their jobs and mints
    Workers,        \* the worker_id a worker claims with
    Txs,            \* mint transactions
    MaxAttempts,    \* fulfillment_jobs.max_attempts
    None

Job ==
    [status : {"queued", "running", "awaiting_chain", "fulfilled",
               "failed", "dead_letter"},
     attempts : 0..MaxAttempts, lockedBy : Workers \union {None}]
MintRow ==
    [status : {"queued", "submitted", "confirmed", "failed"},
     tx : Txs \union {None}]

ASSUME FulfillmentAssumption ==
    /\ MaxAttempts \in Nat \ {0}
    /\ IsFiniteSet(Orders)
    /\ None \notin Orders \union Workers \union Txs \union Job \union MintRow

VARIABLES
    order,      \* orders.status
    proven,     \* the orders whose intent has accepted chain evidence
    stock,      \* the row of product_inventory
    job,        \* rows of fulfillment_jobs
    mint,       \* rows of collectible_mints
    evidence,   \* rows of collectible_mint_evidence
    worker,     \* what each worker is doing
    sent,       \* the order each transaction mints for
    outcome     \* what the ledger made of it

vars == <<order, proven, stock, job, mint, evidence, worker, sent, outcome>>

Evidence ==
    [tx : Txs, order : Orders, exact : BOOLEAN,
     status : {"accepted", "rejected"}]
Idle == [state |-> "idle", job |-> None, tx |-> None]

Init ==
    /\ order = [o \in Orders |-> "awaiting_payment"]
    /\ proven = {}
    /\ stock = [reserved |-> Cardinality(Orders), fulfilled |-> 0]
    /\ job = [o \in Orders |-> None]
    /\ mint = [o \in Orders |-> None]
    /\ evidence = {}
    /\ worker = [w \in Workers |-> Idle]
    /\ sent = [x \in Txs |-> None]
    /\ outcome = [x \in Txs |-> "none"]
-----------------------------------------------------------------------------
(* What module Payment does to the order: a provider event pays it, or     *)
(* chain evidence does.                                                    *)
OrderPaid(o, onChain) ==
    /\ order[o] = "awaiting_payment"
    /\ order' = [order EXCEPT ![o] = "paid"]
    /\ proven' = IF onChain THEN proven \union {o} ELSE proven
    /\ UNCHANGED <<stock, job, mint, evidence, worker, sent, outcome>>

ReadyForFulfillment(o) == order[o] = "paid" /\ o \in proven

CreateFulfillmentJob(o) ==
    /\ ReadyForFulfillment(o)
    /\ job' = [job EXCEPT ![o] =
            [status |-> "queued", attempts |-> 0, lockedBy |-> None]]
    /\ mint' = [mint EXCEPT ![o] = [status |-> "queued", tx |-> None]]
    /\ order' = [order EXCEPT ![o] = "fulfilling"]
    /\ UNCHANGED <<proven, stock, evidence, worker, sent, outcome>>
-----------------------------------------------------------------------------
(* Claims.  The branch of claim_fulfillment_job that buries a job without  *)
(* attempts left is never taken: see ClaimableHasAttemptsLeft.             *)
(* available_at of a failed job only delays its next claim.                *)

HasJob(o, status) == job[o] # None /\ job[o].status \in status

OwnedBy(w, o) == HasJob(o, {"running"}) /\ job[o].lockedBy = w

(* FAULT: the mint that failed is not set back. *)
MintLeftAsItIs(o) == mint[o]

MintOfClaim(o) ==
    IF mint[o].status = "failed" THEN [mint[o] EXCEPT !.status = "queued"]
                                 ELSE mint[o]

ClaimFulfillmentJob(w, o) ==
    /\ worker[w] = Idle
    /\ HasJob(o, {"queued", "failed"})
    /\ job[o].attempts < MaxAttempts
    /\ job' = [job EXCEPT ![o] =
            [status |-> "running", lockedBy |-> w,
             attempts |-> @.attempts + 1]]
    /\ mint' = [mint EXCEPT ![o] = MintOfClaim(o)]
    /\ worker' = [worker EXCEPT ![w] =
            [state |-> "working", job |-> o, tx |-> None]]
    /\ UNCHANGED <<order, proven, stock, evidence, sent, outcome>>

(* A worker that was restarted under its name gets its job back. *)
ClaimAgain(w, o) ==
    /\ worker[w] = Idle
    /\ OwnedBy(w, o)
    /\ worker' = [worker EXCEPT ![w] =
            [state |-> "working", job |-> o, tx |-> None]]
    /\ UNCHANGED <<order, proven, stock, job, mint, evidence, sent, outcome>>
-----------------------------------------------------------------------------
(* The worker and the ledger. *)

(* A new transaction, or one that was sent for the job before. *)
SendMint(w, x) ==
    /\ worker[w].state = "working"
    /\ worker[w].tx = None
    /\ sent[x] \in {None, worker[w].job}
    /\ sent' = [sent EXCEPT ![x] = worker[w].job]
    /\ worker' = [worker EXCEPT ![w].tx = x]
    /\ UNCHANGED <<order, proven, stock, job, mint, evidence, outcome>>

LedgerApplies(x, result) ==
    /\ sent[x] # None
    /\ outcome[x] = "none"
    /\ outcome' = [outcome EXCEPT ![x] = result]
    /\ UNCHANGED <<order, proven, stock, job, mint, evidence, worker, sent>>

Crash(w) ==
    /\ worker[w].state = "working"
    /\ worker' = [worker EXCEPT ![w] =
            [state |-> "crashed", job |-> None, tx |-> None]]
    /\ UNCHANGED <<order, proven, stock, job, mint, evidence, sent, outcome>>

Restart(w) ==
    /\ worker[w].state = "crashed"
    /\ worker' = [worker EXCEPT ![w] = Idle]
    /\ UNCHANGED <<order, proven, stock, job, mint, evidence, sent, outcome>>
-----------------------------------------------------------------------------
(* What a worker reports. *)

RecordMintSubmission(w) ==
    LET o == worker[w].job
    IN  /\ worker[w].tx # None
        /\ OwnedBy(w, o)
        /\ mint[o].status = "queued"
        /\ mint' = [mint EXCEPT ![o] =
                [status |-> "submitted", tx |-> worker[w].tx]]
        /\ job' = [job EXCEPT ![o].status = "awaiting_chain",
                              ![o].lockedBy = None]
        /\ worker' = [worker EXCEPT ![w] = Idle]
        /\ UNCHANGED <<order, proven, stock, evidence, sent, outcome>>

(* Either report is refused, and the worker drops the job. *)
ReportRefused(w) ==
    LET o == worker[w].job
    IN  /\ worker[w].state = "working"
        /\ \/ ~OwnedBy(w, o)
           \/ worker[w].tx # None /\ mint[o].status # "queued"
        /\ worker' = [worker EXCEPT ![w] = Idle]
        /\ UNCHANGED <<order, proven, stock, job, mint, evidence>>
        /\ UNCHANGED <<sent, outcome>>

(* FAULT: one attempt too many. *)
MayRetryOnceMore(o) == job[o].attempts <= MaxAttempts

MayRetry(o) == job[o].attempts < MaxAttempts

MintOfFailure(o, status) ==
    IF mint[o].status = "queued" THEN [mint[o] EXCEPT !.status = "failed"]
                                 ELSE mint[o]

RecordFulfillmentFailure(w, o, retryable) ==
    LET retry == retryable /\ MayRetry(o)
        status == IF retry THEN "failed" ELSE "dead_letter"
    IN  /\ OwnedBy(w, o)
        /\ job' = [job EXCEPT ![o].status = status, ![o].lockedBy = None]
        /\ mint' = [mint EXCEPT ![o] = MintOfFailure(o, status)]
        /\ order' = IF ~retry /\ order[o] = "fulfilling"
                    THEN [order EXCEPT ![o] = "failed"] ELSE order
        /\ UNCHANGED <<proven, stock, evidence, sent, outcome>>

WorkerFails(w, retryable) ==
    /\ worker[w].state = "working"
    /\ RecordFulfillmentFailure(w, worker[w].job, retryable)
    /\ worker' = [worker EXCEPT ![w] = Idle]

OperatorFails(w, o, retryable) ==
    /\ RecordFulfillmentFailure(w, o, retryable)
    /\ UNCHANGED worker
-----------------------------------------------------------------------------
(* Mint evidence. *)

(* FAULT: any mint will do, if the fields are right. *)
ReconcilesAnyMint(o, x, exact) ==
    /\ HasJob(o, {"awaiting_chain"})
    /\ outcome[x] = "succeeded"
    /\ exact

Reconciles(o, x, exact) ==
    /\ HasJob(o, {"awaiting_chain"})
    /\ mint[o].status = "submitted"
    /\ mint[o].tx = x
    /\ outcome[x] = "succeeded"
    /\ exact

(* FAULT: what was reserved stays reserved. *)
FulfilledBesides == [stock EXCEPT !.fulfilled = @ + 1]

FulfilledStock ==
    [reserved |-> stock.reserved - 1, fulfilled |-> stock.fulfilled + 1]

ConfirmMint(o) ==
    /\ stock.reserved >= 1
    /\ order[o] = "fulfilling"
    /\ mint' = [mint EXCEPT ![o].status = "confirmed"]
    /\ job' = [job EXCEPT ![o].status = "fulfilled", ![o].lockedBy = None]
    /\ stock' = FulfilledStock
    /\ order' = [order EXCEPT ![o] = "fulfilled"]

(* Evidence that does not reconcile is stored as rejected.  Either way its *)
(* transaction is not looked at again.                                     *)
RecordMintEvidence(o, x, exact) ==
    LET result == IF Reconciles(o, x, exact) THEN "accepted" ELSE "rejected"
    IN  /\ job[o] # None
        /\ outcome[x] # "none"
        /\ \A e \in evidence : e.tx # x
        /\ evidence' = evidence \union
                {[tx |-> x, order |-> o, exact |-> exact, status |-> result]}
        /\ \/ result = "accepted" /\ ConfirmMint(o)
           \/ result = "rejected" /\ UNCHANGED <<order, stock, job, mint>>
        /\ UNCHANGED <<proven, worker, sent, outcome>>
-----------------------------------------------------------------------------
Api ==
    \/ \E o \in Orders, onChain \in BOOLEAN : OrderPaid(o, onChain)
    \/ \E o \in Orders : CreateFulfillmentJob(o)
    \/ \E o \in Orders, x \in Txs, exact \in BOOLEAN :
            RecordMintEvidence(o, x, exact)
    \/ \E w \in Workers, o \in Orders, retryable \in BOOLEAN :
            OperatorFails(w, o, retryable)

Work(w) ==
    \/ \E o \in Orders : ClaimFulfillmentJob(w, o) \/ ClaimAgain(w, o)
    \/ \E x \in Txs : SendMint(w, x)
    \/ RecordMintSubmission(w)
    \/ ReportRefused(w)
    \/ \E retryable \in BOOLEAN : WorkerFails(w, retryable)

Next ==
    \/ Api
    \/ \E w \in Workers : Work(w) \/ Crash(w) \/ Restart(w)
    \/ \E x \in Txs, result \in {"succeeded", "failed"} :
            LedgerApplies(x, result)

Spec == Init /\ [][Next]_vars

(* A worker that does not crash goes on working.  Nothing makes a crashed  *)
(* worker restart, or an indexer report.                                   *)
FairSpec == Spec /\ \A w \in Workers : WF_vars(Work(w))
-----------------------------------------------------------------------------
(* Every variable has its type, and a job no more attempts than it may:    *)
(* fulfillment_jobs, collectible_mints.                                    *)
TypeOK ==
    /\ order \in [Orders -> {"awaiting_payment", "paid", "fulfilling",
                             "fulfilled", "failed"}]
    /\ proven \subseteq Orders
    /\ stock \in [reserved : 0..Cardinality(Orders),
                  fulfilled : 0..Cardinality(Orders)]
    /\ job \in [Orders -> Job \union {None}]
    /\ mint \in [Orders -> MintRow \union {None}]
    /\ evidence \subseteq Evidence
    /\ DOMAIN worker = Workers
    /\ sent \in [Txs -> Orders \union {None}]
    /\ outcome \in [Txs -> {"none", "succeeded", "failed"}]

StatusOfMint ==
    [queued |-> "queued", running |-> "queued",
     awaiting_chain |-> "submitted", fulfilled |-> "confirmed",
     failed |-> "failed", dead_letter |-> "failed"]
StatusOfOrder ==
    [queued |-> "fulfilling", running |-> "fulfilling",
     awaiting_chain |-> "fulfilling", fulfilled |-> "fulfilled",
     failed |-> "fulfilling", dead_letter |-> "failed"]

(* The rows of a job, its mint and its order never disagree, whoever       *)
(* reports what and in which order: a running job can always be submitted, *)
(* an order fails exactly with its job, and a job waits for the chain only *)
(* with a transaction to wait for.  Four handlers update them one by one.  *)
RowsAgree ==
    /\ TypeOK
    /\ \A o \in Orders :
        job[o] # None =>
            /\ mint[o].status = StatusOfMint[job[o].status]
            /\ order[o] = StatusOfOrder[job[o].status]
            /\ job[o].status = "running" <=> job[o].lockedBy # None
            /\ HasJob(o, {"awaiting_chain", "fulfilled"}) <=>
                    mint[o].tx # None

(* A job that can be claimed has an attempt left, so claim never buries    *)
(* one, which would leave its order 'fulfilling' for ever: of two limits,  *)
(* in claim_fulfillment_job and record_fulfillment_failure, the second     *)
(* must be the stricter.                                                   *)
ClaimableHasAttemptsLeft ==
    \A o \in Orders :
        HasJob(o, {"queued", "failed"}) => job[o].attempts < MaxAttempts

(* An order is fulfilled by one mint that was made for it and succeeded,   *)
(* and only if chain evidence paid it, however many workers minted and     *)
(* whatever was reported of the others: record_mint_evidence.              *)
FulfilledByItsMint ==
    \A o \in Orders :
        order[o] = "fulfilled" =>
            /\ o \in proven
            /\ \E e \in evidence :
                /\ e.order = o /\ e.status = "accepted" /\ e.tx = mint[o].tx
                /\ sent[e.tx] = o
                /\ outcome[e.tx] = "succeeded"
                /\ \A f \in evidence :
                    f.order = o /\ f.status = "accepted" => f = e

(* Stock is neither lost nor fulfilled twice: what is fulfilled is what    *)
(* fulfilled orders took from what was reserved (confirm_mint).            *)
StockFollowsOrders ==
    LET fulfilled == Cardinality({o \in Orders : order[o] = "fulfilled"})
    IN  stock = [reserved |-> Cardinality(Orders) - fulfilled,
                 fulfilled |-> fulfilled]

(* A claim ends, or its worker crashed: the worker can always get rid of a *)
(* job, by a transaction or a failure, and is never refused for good       *)
(* (record_mint_submission, record_fulfillment_failure).                   *)
ClaimEnds(w, o) ==
    OwnedBy(w, o) ~> ~OwnedBy(w, o) \/ worker[w].state = "crashed"

(* Violated.  A job does not stay with a worker that crashed for good:     *)
(* claim_fulfillment_job.                                                  *)
CrashReleasesJob ==
    \A w \in Workers, o \in Orders :
        []<>~(OwnedBy(w, o) /\ worker[w].state = "crashed")

(* Violated.  However often it is retried, a job mints once:               *)
(* claim_fulfillment_job, record_fulfillment_failure.                      *)
NoSecondMint ==
    \A x, y \in Txs :
        /\ sent[x] # None /\ sent[x] = sent[y]
        /\ outcome[x] = "succeeded" /\ outcome[y] = "succeeded"
        => x = y

(* What module LedgerConfirmation says of mints.                           *)
MintsWanted == [o \in {k \in Orders : job[k] # None} |-> {o}]
MintsApplied == [x \in {y \in Txs : outcome[y] = "succeeded"} |-> sent[x]]
MintsConfirmed ==
    [o \in {k \in Orders : order[k] = "fulfilled"} |-> mint[o].tx]

Confirmation == INSTANCE LedgerConfirmation WITH
    wanted <- MintsWanted,
    applied <- MintsApplied,
    confirmedBy <- MintsConfirmed

(* Confirmed mints are on the ledger: an order is fulfilled once and for   *)
(* good, by a transaction that minted for it and fulfils no other order    *)
(* (record_mint_evidence, confirm_mint).                                   *)
ConfirmsMints == Confirmation!Spec
=============================================================================
