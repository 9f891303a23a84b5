-------------------------- MODULE FulfillmentProofs --------------------------
(***************************************************************************)
(* Proofs about module Fulfillment: for any number of orders, workers,     *)
(* transactions and attempts, the rows of a job, its mint and its order    *)
(* agree, a job that can be claimed has an attempt left, a fulfilled order *)
(* was fulfilled by one mint made for it, and stock follows the orders.    *)
(*                                                                         *)
(* A step of one order disturbs no row of another, so each handler has a   *)
(* lemma for what it does to the rows of its own order, and RowStays does  *)
(* the rest.  Mints implement module LedgerConfirmation; AppliedWasSent    *)
(* says that nothing on the ledger was made up.                            *)
(***************************************************************************)
EXTENDS Fulfillment, FiniteSetTheorems, TLAPS

WorkerRow ==
    [state : {"idle", "working", "crashed"}, job : Orders \union {None},
     tx : Txs \union {None}]

(* A worker with a job is working, and what it sent mints for its job.     *)
WorkerInv ==
    /\ worker \in [Workers -> WorkerRow]
    /\ \A w \in Workers :
        /\ worker[w].state = "working" => worker[w].job # None
        /\ worker[w].tx # None => /\ worker[w].state = "working"
                                  /\ sent[worker[w].tx] = worker[w].job

Accepted(o, e) == e.order = o /\ e.status = "accepted"

(* What RowsAgree says of one job.                                         *)
Agree(o) ==
    /\ mint[o].status = StatusOfMint[job[o].status]
    /\ order[o] = StatusOfOrder[job[o].status]
    /\ job[o].status = "running" <=> job[o].lockedBy # None
    /\ job[o].status \in {"awaiting_chain", "fulfilled"} <=> mint[o].tx # None

(* A job waits for a transaction that was sent for its order, and is       *)
(* fulfilled by one that succeeded and was accepted.                       *)
MintedFor(o) ==
    /\ mint[o].tx # None => sent[mint[o].tx] = o
    /\ job[o].status = "fulfilled" =>
        /\ outcome[mint[o].tx] = "succeeded"
        /\ \E e \in evidence : Accepted(o, e) /\ e.tx = mint[o].tx

RowOf(o) ==
    IF job[o] = None
    THEN order[o] \in {"awaiting_payment", "paid"}
    ELSE /\ mint[o] # None
         /\ o \in proven
         /\ Agree(o)
         /\ job[o].status \in {"queued", "failed"} =>
                job[o].attempts < MaxAttempts
         /\ MintedFor(o)

RowsInv == \A o \in Orders : RowOf(o)

(* Accepted evidence is of the mint that fulfilled its order, and every    *)
(* transaction is judged once.                                             *)
EvidenceInv ==
    /\ \A e \in evidence :
        e.status = "accepted" =>
            /\ job[e.order] # None
            /\ job[e.order].status = "fulfilled"
            /\ mint[e.order].tx = e.tx
    /\ \A e, f \in evidence : e.tx = f.tx => e = f

IInv ==
    TypeOK /\ WorkerInv /\ RowsInv /\ EvidenceInv /\ StockFollowsOrders
-----------------------------------------------------------------------------
(* What each handler does to the rows of one order, field by field. *)

(* The rows of no order but o change.                                      *)
OnlyRowsOf(o) ==
    \A k \in Orders \ {o} :
        job'[k] = job[k] /\ mint'[k] = mint[k] /\ order'[k] = order[k]

(* The rows of order o after a step keep their types.                      *)
WrittenRows(o) ==
    /\ job' \in [Orders -> Job \union {None}]
    /\ mint' \in [Orders -> MintRow \union {None}]
    /\ job'[o] \in Job
    /\ mint'[o] \in MintRow

(* An order's rows are in their sets once it has a job.                    *)
LEMMA RowsOfJob ==
  ASSUME TypeOK, RowsInv, NEW o \in Orders, job[o] # None
  PROVE  job[o] \in Job /\ mint[o] \in MintRow
  BY DEF TypeOK, RowsInv, RowOf

(* create_fulfillment_job queues a job and a mint for a paid order.        *)
LEMMA CreateEffect ==
  ASSUME TypeOK, NEW o \in Orders, CreateFulfillmentJob(o)
  PROVE  /\ OnlyRowsOf(o) /\ WrittenRows(o)
         /\ order[o] = "paid" /\ order'[o] = "fulfilling" /\ o \in proven
         /\ job'[o].status = "queued" /\ job'[o].attempts = 0
         /\ job'[o].lockedBy = None
         /\ mint'[o].status = "queued" /\ mint'[o].tx = None
         /\ UNCHANGED <<proven, stock, evidence, worker, sent, outcome>>
<1> DEFINE row == [status |-> "queued", attempts |-> 0, lockedBy |-> None]
           new == [status |-> "queued", tx |-> None]
<1>1. row \in Job /\ new \in MintRow
  BY FulfillmentAssumption DEF Job, MintRow
<1>2. /\ row.status = "queued" /\ row.attempts = 0 /\ row.lockedBy = None
      /\ new.status = "queued" /\ new.tx = None
  OBVIOUS
<1>3. /\ job' = [job EXCEPT ![o] = row]
      /\ mint' = [mint EXCEPT ![o] = new]
      /\ order' = [order EXCEPT ![o] = "fulfilling"]
      /\ order[o] = "paid" /\ o \in proven
      /\ UNCHANGED <<proven, stock, evidence, worker, sent, outcome>>
  BY DEF CreateFulfillmentJob, ReadyForFulfillment
<1> HIDE DEF row, new
<1> QED
  BY <1>1, <1>2, <1>3 DEF TypeOK, OnlyRowsOf, WrittenRows

(* claim_fulfillment_job gives a job with an attempt left to a worker and  *)
(* queues its mint again.                                                  *)
LEMMA ClaimEffect ==
  ASSUME TypeOK, RowsInv, NEW w \in Workers, NEW o \in Orders,
         ClaimFulfillmentJob(w, o)
  PROVE  /\ OnlyRowsOf(o) /\ WrittenRows(o) /\ order' = order
         /\ job[o] # None /\ job[o].status \in {"queued", "failed"}
         /\ job'[o].status = "running" /\ job'[o].lockedBy = w
         /\ mint'[o].status = "queued" /\ mint'[o].tx = mint[o].tx
         /\ worker' = [worker EXCEPT ![w] =
                [state |-> "working", job |-> o, tx |-> None]]
         /\ UNCHANGED <<proven, stock, evidence, sent, outcome>>
<1>1. /\ job[o] # None /\ job[o].status \in {"queued", "failed"}
      /\ job[o].attempts < MaxAttempts
  BY DEF ClaimFulfillmentJob, HasJob
<1>2. job[o] \in Job /\ mint[o] \in MintRow
  BY <1>1, RowsOfJob
<1>3. mint[o].status \in {"queued", "failed"}
  BY <1>1 DEF RowsInv, RowOf, Agree, StatusOfMint
<1> DEFINE n == job[o].attempts + 1
           row == [status |-> "running", lockedBy |-> w, attempts |-> n]
           new == MintOfClaim(o)
<1>4. row \in Job /\ row.status = "running" /\ row.lockedBy = w
  <2>1. n \in 0..MaxAttempts
    BY <1>1, <1>2, FulfillmentAssumption DEF Job
  <2> HIDE DEF n
  <2> QED
    BY <2>1 DEF Job
<1>5. new \in MintRow /\ new.status = "queued" /\ new.tx = mint[o].tx
  BY <1>2, <1>3 DEF MintOfClaim, MintRow
<1>6. /\ job' = [job EXCEPT ![o] = row]
      /\ mint' = [mint EXCEPT ![o] = new]
      /\ worker' = [worker EXCEPT ![w] =
                [state |-> "working", job |-> o, tx |-> None]]
      /\ UNCHANGED <<order, proven, stock, evidence, sent, outcome>>
  BY DEF ClaimFulfillmentJob
<1> HIDE DEF row, new
<1> QED
  BY <1>1, <1>4, <1>5, <1>6 DEF TypeOK, OnlyRowsOf, WrittenRows

(* record_mint_submission notes what the worker sent for its job.          *)
LEMMA SubmissionEffect ==
  ASSUME TypeOK, WorkerInv, RowsInv, NEW w \in Workers,
         RecordMintSubmission(w)
  PROVE  LET o == worker[w].job
         IN  /\ o \in Orders /\ OnlyRowsOf(o) /\ WrittenRows(o)
             /\ order' = order
             /\ job[o] # None /\ job[o].status = "running"
             /\ job'[o].status = "awaiting_chain" /\ job'[o].lockedBy = None
             /\ mint'[o].status = "submitted"
             /\ mint'[o].tx \in Txs /\ sent[mint'[o].tx] = o
             /\ worker' = [worker EXCEPT ![w] = Idle]
             /\ UNCHANGED <<proven, stock, evidence, sent, outcome>>
<1> DEFINE o == worker[w].job
           row == [job[o] EXCEPT !.status = "awaiting_chain",
                                 !.lockedBy = None]
           new == [status |-> "submitted", tx |-> worker[w].tx]
<1>1. worker[w] \in WorkerRow /\ worker[w].tx # None
  BY DEF WorkerInv, RecordMintSubmission
<1>2. o \in Orders /\ worker[w].tx \in Txs /\ sent[worker[w].tx] = o
  BY <1>1 DEF WorkerInv, WorkerRow
<1>3. job[o] # None /\ job[o].status = "running"
  BY DEF RecordMintSubmission, OwnedBy, HasJob
<1>4. job[o] \in Job
  BY <1>2, <1>3, RowsOfJob
<1>5. row \in Job /\ row.status = "awaiting_chain" /\ row.lockedBy = None
  BY <1>4 DEF Job
<1>6. new \in MintRow /\ new.status = "submitted" /\ new.tx = worker[w].tx
  BY <1>2 DEF MintRow
<1>7. /\ job' = [job EXCEPT ![o] = row]
      /\ mint' = [mint EXCEPT ![o] = new]
      /\ worker' = [worker EXCEPT ![w] = Idle]
      /\ UNCHANGED <<order, proven, stock, evidence, sent, outcome>>
  BY <1>2, <1>4 DEF RecordMintSubmission, TypeOK
<1> HIDE DEF row, new, o
<1>8. /\ OnlyRowsOf(o) /\ WrittenRows(o)
      /\ job'[o] = row /\ mint'[o] = new
  BY <1>2, <1>5, <1>6, <1>7 DEF TypeOK, OnlyRowsOf, WrittenRows
<1> QED
  BY <1>2, <1>3, <1>5, <1>6, <1>7, <1>8 DEF o

(* record_fulfillment_failure takes the job from its worker and fails its  *)
(* mint, and its order too if it was the last attempt.                     *)
LEMMA FailureEffect ==
  ASSUME TypeOK, RowsInv, NEW w \in Workers, NEW o \in Orders,
         NEW retryable \in BOOLEAN, RecordFulfillmentFailure(w, o, retryable)
  PROVE  /\ OnlyRowsOf(o) /\ WrittenRows(o)
         /\ job[o] # None /\ job[o].status = "running"
         /\ order[o] = "fulfilling"
         /\ job'[o].lockedBy = None
         /\ mint'[o].status = "failed" /\ mint'[o].tx = mint[o].tx
         /\ \/ /\ job'[o].status = "failed" /\ order'[o] = "fulfilling"
               /\ job'[o].attempts < MaxAttempts
            \/ job'[o].status = "dead_letter" /\ order'[o] = "failed"
         /\ order' = [order EXCEPT ![o] = order'[o]]
         /\ UNCHANGED <<proven, stock, evidence, sent, outcome>>
<1> DEFINE retry == retryable /\ MayRetry(o)
           status == IF retry THEN "failed" ELSE "dead_letter"
           row == [job[o] EXCEPT !.status = status, !.lockedBy = None]
           new == MintOfFailure(o, status)
<1>1. job[o] # None /\ job[o].status = "running"
  BY DEF RecordFulfillmentFailure, OwnedBy, HasJob
<1>2. job[o] \in Job /\ mint[o] \in MintRow
  BY <1>1, RowsOfJob
<1>3. mint[o].status = "queued" /\ order[o] = "fulfilling"
  BY <1>1 DEF RowsInv, RowOf, Agree, StatusOfMint, StatusOfOrder
<1>4. status \in {"failed", "dead_letter"}
  OBVIOUS
<1>5. /\ row \in Job /\ row.status = status /\ row.lockedBy = None
      /\ row.attempts = job[o].attempts
  <2> HIDE DEF status
  <2> QED
    BY <1>2, <1>4 DEF Job
<1>6. new \in MintRow /\ new.status = "failed" /\ new.tx = mint[o].tx
  BY <1>2, <1>3 DEF MintOfFailure, MintRow
<1>7. /\ job' = [job EXCEPT ![o] = row]
      /\ mint' = [mint EXCEPT ![o] = new]
      /\ order' = IF retry THEN order ELSE [order EXCEPT ![o] = "failed"]
      /\ UNCHANGED <<proven, stock, evidence, sent, outcome>>
  BY <1>2, <1>3 DEF RecordFulfillmentFailure, TypeOK
<1>8. retry => job[o].attempts < MaxAttempts
  BY DEF MayRetry
<1>9. /\ status = IF retry THEN "failed" ELSE "dead_letter"
  OBVIOUS
<1> HIDE DEF row, new, status, retry
<1>10. /\ OnlyRowsOf(o) /\ WrittenRows(o)
       /\ job'[o] = row /\ mint'[o] = new
       /\ order'[o] = IF retry THEN "fulfilling" ELSE "failed"
       /\ order' = [order EXCEPT ![o] = order'[o]]
  BY <1>3, <1>5, <1>6, <1>7 DEF TypeOK, OnlyRowsOf, WrittenRows
<1> QED
  BY <1>1, <1>3, <1>5, <1>6, <1>7, <1>8, <1>9, <1>10

(* record_mint_evidence, when it accepts, confirms the mint, and takes     *)
(* the job, the order and the stock along.                                 *)
LEMMA ConfirmEffect ==
  ASSUME TypeOK, RowsInv, NEW o \in Orders, NEW x \in Txs,
         NEW exact \in BOOLEAN, Reconciles(o, x, exact), ConfirmMint(o)
  PROVE  /\ OnlyRowsOf(o) /\ WrittenRows(o)
         /\ job[o] # None /\ job[o].status = "awaiting_chain"
         /\ job'[o].status = "fulfilled" /\ job'[o].lockedBy = None
         /\ mint[o].tx = x /\ outcome[x] = "succeeded"
         /\ mint'[o].status = "confirmed" /\ mint'[o].tx = x
         /\ order[o] = "fulfilling"
         /\ order' = [order EXCEPT ![o] = "fulfilled"]
         /\ stock' = FulfilledStock
<1> DEFINE row == [job[o] EXCEPT !.status = "fulfilled", !.lockedBy = None]
           new == [mint[o] EXCEPT !.status = "confirmed"]
<1>1. /\ job[o] # None /\ job[o].status = "awaiting_chain"
      /\ mint[o].tx = x /\ outcome[x] = "succeeded"
  BY DEF Reconciles, HasJob
<1>2. job[o] \in Job /\ mint[o] \in MintRow
  BY <1>1, RowsOfJob
<1>3. row \in Job /\ row.status = "fulfilled" /\ row.lockedBy = None
  BY <1>2 DEF Job
<1>4. new \in MintRow /\ new.status = "confirmed" /\ new.tx = x
  BY <1>1, <1>2 DEF MintRow
<1>5. /\ job' = [job EXCEPT ![o] = row]
      /\ mint' = [mint EXCEPT ![o] = new]
      /\ order' = [order EXCEPT ![o] = "fulfilled"]
      /\ order[o] = "fulfilling" /\ stock' = FulfilledStock
  BY <1>2 DEF ConfirmMint, TypeOK
<1> HIDE DEF row, new
<1> QED
  BY <1>1, <1>3, <1>4, <1>5 DEF TypeOK, OnlyRowsOf, WrittenRows
-----------------------------------------------------------------------------
(* What no step takes back: that chain evidence paid an order, what a      *)
(* transaction mints for and what became of it, and stored evidence.       *)
PastStays ==
    /\ proven \subseteq proven'
    /\ evidence \subseteq evidence'
    /\ \A x \in Txs : /\ sent[x] # None => sent'[x] = sent[x]
                      /\ outcome[x] # "none" => outcome'[x] = outcome[x]

LEMMA FulfillmentPastStays ==
  ASSUME TypeOK, [Next]_vars
  PROVE  PastStays
<1>1. CASE UNCHANGED <<proven, evidence, sent, outcome>>
  BY <1>1 DEF PastStays
<1>2. ASSUME NEW o \in Orders, NEW onChain \in BOOLEAN, OrderPaid(o, onChain)
      PROVE  PastStays
  BY <1>2 DEF OrderPaid, PastStays
<1>3. ASSUME NEW o \in Orders, NEW x \in Txs, NEW exact \in BOOLEAN,
             RecordMintEvidence(o, x, exact)
      PROVE  PastStays
  BY <1>3 DEF RecordMintEvidence, PastStays
<1>4. ASSUME NEW w \in Workers, NEW x \in Txs, SendMint(w, x)
      PROVE  PastStays
  BY <1>4, FulfillmentAssumption DEF SendMint, PastStays, TypeOK
<1>5. ASSUME NEW x \in Txs, NEW result \in {"succeeded", "failed"},
             LedgerApplies(x, result)
      PROVE  PastStays
  BY <1>5 DEF LedgerApplies, PastStays, TypeOK
<1>6. ASSUME \/ UNCHANGED vars
             \/ \E o \in Orders : CreateFulfillmentJob(o)
             \/ \E w \in Workers, o \in Orders, retryable \in BOOLEAN :
                    OperatorFails(w, o, retryable)
             \/ \E w \in Workers :
                \/ \E o \in Orders : ClaimFulfillmentJob(w, o)
                                     \/ ClaimAgain(w, o)
                \/ RecordMintSubmission(w) \/ ReportRefused(w)
                \/ \E retryable \in BOOLEAN : WorkerFails(w, retryable)
                \/ Crash(w) \/ Restart(w)
      PROVE  UNCHANGED <<proven, evidence, sent, outcome>>
  BY <1>6 DEF vars, CreateFulfillmentJob, OperatorFails, ClaimFulfillmentJob,
     ClaimAgain, RecordMintSubmission, ReportRefused, WorkerFails, Crash,
     Restart, RecordFulfillmentFailure
<1> QED
  BY <1>1, <1>2, <1>3, <1>4, <1>5, <1>6 DEF Next, Api, Work

(* The rows of an order that a step does not touch keep what they satisfy. *)
LEMMA RowStays ==
  ASSUME TypeOK, RowsInv, PastStays, NEW o \in Orders,
         job'[o] = job[o], mint'[o] = mint[o], order'[o] = order[o]
  PROVE  RowOf(o)'
<1>1. CASE job[o] = None
  BY <1>1 DEF RowsInv, RowOf
<1>2. CASE job[o] # None
  <2>1. job[o] \in Job /\ mint[o] \in MintRow
    BY <1>2, RowsOfJob
  <2>2. /\ mint'[o] # None /\ o \in proven' /\ Agree(o)'
        /\ job'[o].status \in {"queued", "failed"} =>
                job'[o].attempts < MaxAttempts
    BY <1>2 DEF RowsInv, RowOf, Agree, PastStays
  <2>3. MintedFor(o)
    BY <1>2 DEF RowsInv, RowOf
  <2>4. mint[o].tx # None => mint[o].tx \in Txs
    BY <2>1 DEF MintRow
  <2>5. mint'[o].tx # None => sent'[mint'[o].tx] = o
    BY <2>3, <2>4, FulfillmentAssumption DEF MintedFor, PastStays
  <2>6. ASSUME job[o].status = "fulfilled"
        PROVE  /\ outcome'[mint[o].tx] = "succeeded"
               /\ \E e \in evidence' : Accepted(o, e) /\ e.tx = mint[o].tx
    <3>1. mint[o].tx \in Txs
      BY <1>2, <2>4, <2>6 DEF RowsInv, RowOf, Agree
    <3>2. outcome[mint[o].tx] = "succeeded"
      BY <2>3, <2>6 DEF MintedFor
    <3>3. PICK e \in evidence : Accepted(o, e) /\ e.tx = mint[o].tx
      BY <2>3, <2>6 DEF MintedFor
    <3>4. e \in evidence'
      BY <3>3 DEF PastStays
    <3> QED
      BY <3>1, <3>2, <3>3, <3>4 DEF PastStays
  <2>7. MintedFor(o)'
    BY <2>5, <2>6 DEF MintedFor, Accepted
  <2> QED
    BY <1>2, <2>2, <2>7 DEF RowOf
<1> QED
  BY <1>1, <1>2

(* No step of one order disturbs the rows of another, and each leaves its  *)
(* own in agreement.                                                       *)
LEMMA RowsStep ==
  ASSUME TypeOK, WorkerInv, RowsInv, [Next]_vars
  PROVE  RowsInv'
<1> SUFFICES ASSUME NEW k \in Orders
             PROVE  RowOf(k)'
  BY DEF RowsInv
<1> PastStays
  BY FulfillmentPastStays
<1> USE FulfillmentAssumption
<1>1. CASE UNCHANGED <<job, mint, order>>
  BY <1>1, RowStays
<1>2. ASSUME NEW o \in Orders, OnlyRowsOf(o), RowOf(o)'
      PROVE  RowOf(k)'
  <2>1. CASE k = o
    BY <1>2, <2>1
  <2>2. CASE k # o
    BY <1>2, <2>2, RowStays DEF OnlyRowsOf
  <2> QED
    BY <2>1, <2>2
<1>3. ASSUME NEW o \in Orders, NEW onChain \in BOOLEAN, OrderPaid(o, onChain)
      PROVE  RowOf(k)'
  <2>1. job[o] = None
    <3>1. ASSUME job[o] # None
          PROVE  FALSE
      <4>1. job[o].status \in DOMAIN StatusOfOrder
        BY <3>1, RowsOfJob DEF Job, StatusOfOrder
      <4>2. StatusOfOrder[job[o].status] # "awaiting_payment"
        BY <4>1 DEF StatusOfOrder
      <4> QED
        BY <1>3, <3>1, <4>2 DEF OrderPaid, RowsInv, RowOf, Agree
    <3> QED
      BY <3>1
  <2>2. OnlyRowsOf(o) /\ job'[o] = None /\ order'[o] = "paid"
    BY <1>3, <2>1 DEF OrderPaid, OnlyRowsOf, TypeOK
  <2>3. RowOf(o)'
    BY <2>2 DEF RowOf
  <2> QED
    BY <1>2, <2>2, <2>3
<1>4. ASSUME NEW o \in Orders, CreateFulfillmentJob(o)
      PROVE  RowOf(k)'
  <2>1. /\ OnlyRowsOf(o) /\ WrittenRows(o)
        /\ order'[o] = "fulfilling" /\ o \in proven'
        /\ job'[o].status = "queued" /\ job'[o].attempts = 0
        /\ job'[o].lockedBy = None
        /\ mint'[o].status = "queued" /\ mint'[o].tx = None
    BY <1>4, CreateEffect
  <2>2. job'[o] # None /\ mint'[o] # None /\ 0 < MaxAttempts
    BY <2>1 DEF WrittenRows
  <2>3. Agree(o)' /\ MintedFor(o)'
    BY <2>1 DEF Agree, MintedFor, StatusOfMint, StatusOfOrder
  <2> QED
    BY <1>2, <2>1, <2>2, <2>3 DEF RowOf
<1>5. ASSUME NEW w \in Workers, NEW o \in Orders, ClaimFulfillmentJob(w, o)
      PROVE  RowOf(k)'
  <2>1. /\ OnlyRowsOf(o) /\ WrittenRows(o) /\ order' = order
        /\ job[o] # None /\ job[o].status \in {"queued", "failed"}
        /\ job'[o].status = "running" /\ job'[o].lockedBy = w
        /\ mint'[o].status = "queued" /\ mint'[o].tx = mint[o].tx
    BY <1>5, ClaimEffect
  <2>2. /\ order[o] = "fulfilling" /\ mint[o].tx = None /\ o \in proven
    BY <2>1 DEF RowsInv, RowOf, Agree, StatusOfOrder
  <2>3. job'[o] # None /\ mint'[o] # None /\ w # None
    BY <2>1 DEF WrittenRows
  <2>4. Agree(o)' /\ MintedFor(o)'
    BY <2>1, <2>2, <2>3 DEF Agree, MintedFor, StatusOfMint, StatusOfOrder
  <2>5. o \in proven'
    BY <2>2 DEF PastStays
  <2>6. RowOf(o)'
    BY <2>1, <2>3, <2>4, <2>5 DEF RowOf
  <2> QED
    BY <1>2, <2>1, <2>6
<1>6. ASSUME NEW w \in Workers, NEW o \in Orders, o = worker[w].job,
             RecordMintSubmission(w)
      PROVE  RowOf(k)'
  <2>1. /\ OnlyRowsOf(o) /\ WrittenRows(o)
        /\ order' = order /\ UNCHANGED sent
        /\ job[o] # None /\ job[o].status = "running"
        /\ job'[o].status = "awaiting_chain" /\ job'[o].lockedBy = None
        /\ mint'[o].status = "submitted"
        /\ mint'[o].tx \in Txs /\ sent[mint'[o].tx] = o
    BY <1>6, SubmissionEffect
  <2>2. /\ order[o] = "fulfilling" /\ o \in proven'
    BY <2>1 DEF RowsInv, RowOf, Agree, StatusOfOrder, PastStays
  <2>3. job'[o] # None /\ mint'[o] # None /\ mint'[o].tx # None
    BY <2>1 DEF WrittenRows
  <2>4. Agree(o)' /\ MintedFor(o)'
    BY <2>1, <2>2, <2>3 DEF Agree, MintedFor, StatusOfMint, StatusOfOrder
  <2>5. RowOf(o)'
    BY <2>1, <2>2, <2>3, <2>4 DEF RowOf
  <2> QED
    BY <1>2, <2>1, <2>5
<1>7. ASSUME NEW w \in Workers, NEW o \in Orders, NEW retryable \in BOOLEAN,
             RecordFulfillmentFailure(w, o, retryable)
      PROVE  RowOf(k)'
  <2>1. /\ OnlyRowsOf(o) /\ WrittenRows(o)
        /\ job[o] # None /\ job[o].status = "running"
        /\ job'[o].lockedBy = None
        /\ mint'[o].status = "failed" /\ mint'[o].tx = mint[o].tx
        /\ \/ /\ job'[o].status = "failed" /\ order'[o] = "fulfilling"
              /\ job'[o].attempts < MaxAttempts
           \/ job'[o].status = "dead_letter" /\ order'[o] = "failed"
    BY <1>7, FailureEffect
  <2>2. mint[o].tx = None /\ o \in proven'
    BY <2>1 DEF RowsInv, RowOf, Agree, PastStays
  <2>3. job'[o] # None /\ mint'[o] # None
    BY <2>1 DEF WrittenRows
  <2>4. Agree(o)' /\ MintedFor(o)'
    BY <2>1, <2>2 DEF Agree, MintedFor, StatusOfMint, StatusOfOrder
  <2>5. RowOf(o)'
    BY <2>1, <2>2, <2>3, <2>4 DEF RowOf
  <2> QED
    BY <1>2, <2>1, <2>5
<1>8. ASSUME NEW o \in Orders, NEW x \in Txs, NEW exact \in BOOLEAN,
             RecordMintEvidence(o, x, exact), Reconciles(o, x, exact)
      PROVE  RowOf(k)'
  <2> DEFINE new == [tx |-> x, order |-> o, exact |-> exact,
                     status |-> "accepted"]
  <2>1. /\ ConfirmMint(o) /\ new \in evidence' /\ UNCHANGED <<sent, outcome>>
    BY <1>8 DEF RecordMintEvidence
  <2>2. Accepted(o, new) /\ new.tx = x
    BY DEF Accepted
  <2> HIDE DEF new
  <2>3. /\ OnlyRowsOf(o) /\ WrittenRows(o)
        /\ job[o] # None
        /\ job'[o].status = "fulfilled" /\ job'[o].lockedBy = None
        /\ mint[o].tx = x /\ outcome[x] = "succeeded"
        /\ mint'[o].status = "confirmed" /\ mint'[o].tx = x
        /\ order' = [order EXCEPT ![o] = "fulfilled"]
    BY <1>8, <2>1, ConfirmEffect
  <2>4. /\ job'[o] # None /\ mint'[o] # None /\ x # None
        /\ order'[o] = "fulfilled"
    BY <2>3 DEF WrittenRows, TypeOK
  <2>5. sent[x] = o /\ o \in proven'
    BY <2>3, <2>4 DEF RowsInv, RowOf, MintedFor, PastStays
  <2>6. Agree(o)'
    BY <2>3, <2>4 DEF Agree, StatusOfMint, StatusOfOrder
  <2>7. MintedFor(o)'
    BY <2>1, <2>2, <2>3, <2>5 DEF MintedFor, Accepted
  <2>8. RowOf(o)'
    BY <2>3, <2>4, <2>5, <2>6, <2>7 DEF RowOf
  <2> QED
    BY <1>2, <2>3, <2>8
<1>9. ASSUME NEW o \in Orders, NEW x \in Txs, NEW exact \in BOOLEAN,
             RecordMintEvidence(o, x, exact), ~Reconciles(o, x, exact)
      PROVE  UNCHANGED <<job, mint, order>>
  BY <1>9 DEF RecordMintEvidence
<1>10. ASSUME \/ UNCHANGED vars
              \/ \E w \in Workers :
                 \/ \E o \in Orders : ClaimAgain(w, o)
                 \/ \E x \in Txs : SendMint(w, x)
                 \/ ReportRefused(w) \/ Crash(w) \/ Restart(w)
              \/ \E x \in Txs, result \in {"succeeded", "failed"} :
                    LedgerApplies(x, result)
       PROVE  UNCHANGED <<job, mint, order>>
  BY <1>10 DEF vars, ClaimAgain, SendMint, ReportRefused, Crash, Restart,
     LedgerApplies
<1>11. ASSUME NEW w \in Workers, NEW retryable \in BOOLEAN,
              WorkerFails(w, retryable)
       PROVE  RowOf(k)'
  <2>1. worker[w] \in WorkerRow /\ worker[w].job # None
    BY <1>11 DEF WorkerFails, WorkerInv
  <2>2. worker[w].job \in Orders
    BY <2>1 DEF WorkerRow
  <2> QED
    BY <1>7, <1>11, <2>2 DEF WorkerFails
<1>12. ASSUME NEW w \in Workers, NEW o \in Orders, NEW retryable \in BOOLEAN,
              OperatorFails(w, o, retryable)
       PROVE  RowOf(k)'
  BY <1>7, <1>12 DEF OperatorFails
<1>13. ASSUME NEW w \in Workers, RecordMintSubmission(w)
       PROVE  RowOf(k)'
  <2>1. worker[w].job \in Orders
    BY <1>13, SubmissionEffect
  <2> QED
    BY <1>6, <1>13, <2>1
<1> QED
  BY <1>1, <1>3, <1>4, <1>5, <1>8, <1>9, <1>10, <1>11, <1>12, <1>13
     DEF Next, Api, Work
-----------------------------------------------------------------------------
(* What a worker sent mints for its job, until it drops the job.           *)
LEMMA WorkerStep ==
  ASSUME TypeOK, WorkerInv, RowsInv, [Next]_vars
  PROVE  WorkerInv'
<1> DEFINE WorkerOf(w) ==
        /\ worker[w].state = "working" => worker[w].job # None
        /\ worker[w].tx # None => /\ worker[w].state = "working"
                                  /\ sent[worker[w].tx] = worker[w].job
<1> USE FulfillmentAssumption
<1>1. \A x \in Txs : sent[x] # None => sent'[x] = sent[x]
  BY FulfillmentPastStays DEF PastStays
<1>2. ASSUME worker' = worker
      PROVE  WorkerInv'
  <2>1. ASSUME NEW w \in Workers, worker[w].tx # None
        PROVE  sent'[worker[w].tx] = worker[w].job
    <3>1. worker[w] \in WorkerRow
      BY DEF WorkerInv
    <3>2. worker[w].tx \in Txs /\ worker[w].job \in Orders
      BY <2>1, <3>1 DEF WorkerRow, WorkerInv
    <3> QED
      BY <1>1, <2>1, <3>2 DEF WorkerInv
  <2> QED
    BY <1>2, <2>1 DEF WorkerInv
<1>3. ASSUME NEW w \in Workers, NEW row \in WorkerRow,
             worker' = [worker EXCEPT ![w] = row],
             row.state = "working" => row.job # None,
             row.tx # None => row.state = "working" /\ sent'[row.tx] = row.job
      PROVE  WorkerInv'
  <2>1. worker' \in [Workers -> WorkerRow]
    BY <1>3 DEF WorkerInv
  <2>2. ASSUME NEW v \in Workers
        PROVE  WorkerOf(v)'
    <3>1. CASE v = w
      BY <1>3, <3>1 DEF WorkerInv
    <3>2. CASE v # w
      <4>1. worker'[v] = worker[v] /\ WorkerOf(v) /\ worker[v] \in WorkerRow
        BY <1>3, <3>2 DEF WorkerInv
      <4>2. worker[v].tx # None =>
                worker[v].tx \in Txs /\ worker[v].job \in Orders
        BY <4>1 DEF WorkerRow
      <4> QED
        BY <1>1, <4>1, <4>2
    <3> QED
      BY <3>1, <3>2
  <2> QED
    BY <2>1, <2>2 DEF WorkerInv
<1>4. ASSUME NEW w \in Workers, NEW state \in {"idle", "crashed"},
             worker' = [worker EXCEPT ![w] =
                    [state |-> state, job |-> None, tx |-> None]]
      PROVE  WorkerInv'
  <2> DEFINE row == [state |-> state, job |-> None, tx |-> None]
  <2>1. row \in WorkerRow /\ row.state # "working" /\ row.tx = None
    BY DEF WorkerRow
  <2>2. worker' = [worker EXCEPT ![w] = row]
    BY <1>4
  <2> HIDE DEF row
  <2> QED
    BY <1>3, <2>1, <2>2
<1>5. ASSUME NEW w \in Workers, NEW o \in Orders,
             worker' = [worker EXCEPT ![w] =
                    [state |-> "working", job |-> o, tx |-> None]]
      PROVE  WorkerInv'
  <2> DEFINE row == [state |-> "working", job |-> o, tx |-> None]
  <2>1. row \in WorkerRow /\ row.job # None /\ row.tx = None
    BY DEF WorkerRow
  <2>2. worker' = [worker EXCEPT ![w] = row]
    BY <1>5
  <2> HIDE DEF row
  <2> QED
    BY <1>3, <2>1, <2>2
<1>6. ASSUME NEW w \in Workers, NEW x \in Txs, SendMint(w, x)
      PROVE  WorkerInv'
  <2> DEFINE row == [worker[w] EXCEPT !.tx = x]
  <2>1. worker[w] \in WorkerRow /\ worker[w].state = "working"
    BY <1>6 DEF WorkerInv, SendMint
  <2>2. /\ row \in WorkerRow /\ row.state = "working"
        /\ row.job = worker[w].job /\ row.tx = x
    BY <2>1 DEF WorkerRow
  <2>3. worker' = [worker EXCEPT ![w] = row] /\ sent'[x] = worker[w].job
    BY <1>6, <2>1 DEF SendMint, TypeOK, WorkerInv
  <2>4. worker[w].job # None
    BY <2>1 DEF WorkerInv
  <2> HIDE DEF row
  <2> QED
    BY <1>3, <2>2, <2>3, <2>4
<1>7. ASSUME NEW w \in Workers, NEW o \in Orders,
             ClaimFulfillmentJob(w, o) \/ ClaimAgain(w, o)
      PROVE  WorkerInv'
  BY <1>5, <1>7 DEF ClaimFulfillmentJob, ClaimAgain
<1>8. ASSUME NEW w \in Workers,
             \/ RecordMintSubmission(w) \/ ReportRefused(w)
             \/ \E retryable \in BOOLEAN : WorkerFails(w, retryable)
             \/ Crash(w) \/ Restart(w)
      PROVE  WorkerInv'
  BY <1>4, <1>8 DEF RecordMintSubmission, ReportRefused, WorkerFails, Crash,
     Restart, Idle
<1>9. ASSUME \/ UNCHANGED vars
             \/ Api
             \/ \E x \in Txs, result \in {"succeeded", "failed"} :
                    LedgerApplies(x, result)
      PROVE  worker' = worker
  BY <1>9 DEF vars, Api, OrderPaid, CreateFulfillmentJob, RecordMintEvidence,
     OperatorFails, LedgerApplies
<1> QED
  BY <1>2, <1>6, <1>7, <1>8, <1>9 DEF Next, Work

(* The evidence a step stores, if it stores any.                           *)
LEMMA EvidenceSteps ==
  ASSUME [Next]_vars
  PROVE  \/ evidence' = evidence
         \/ \E o \in Orders, x \in Txs, exact \in BOOLEAN :
                RecordMintEvidence(o, x, exact)
<1>1. ASSUME \/ UNCHANGED vars
             \/ \E o \in Orders, onChain \in BOOLEAN : OrderPaid(o, onChain)
             \/ \E o \in Orders : CreateFulfillmentJob(o)
             \/ \E w \in Workers, o \in Orders, retryable \in BOOLEAN :
                    OperatorFails(w, o, retryable)
             \/ \E w \in Workers : Work(w) \/ Crash(w) \/ Restart(w)
             \/ \E x \in Txs, result \in {"succeeded", "failed"} :
                    LedgerApplies(x, result)
      PROVE  evidence' = evidence
  BY <1>1 DEF vars, OrderPaid, CreateFulfillmentJob, OperatorFails, Work,
     ClaimFulfillmentJob, ClaimAgain, SendMint, RecordMintSubmission,
     ReportRefused, WorkerFails, Crash, Restart, RecordFulfillmentFailure,
     LedgerApplies
<1> QED
  BY <1>1 DEF Next, Api

(* A fulfilled job and its mint are never touched again.                   *)
LEMMA FulfilledJobStays ==
  ASSUME TypeOK, WorkerInv, RowsInv, [Next]_vars, NEW k \in Orders,
         job[k] # None, job[k].status = "fulfilled"
  PROVE  job'[k] = job[k] /\ mint'[k] = mint[k]
<1>1. ASSUME NEW o \in Orders, OnlyRowsOf(o),
             \/ job[o] = None
             \/ job[o].status # "fulfilled"
      PROVE  job'[k] = job[k] /\ mint'[k] = mint[k]
  BY <1>1 DEF OnlyRowsOf
<1>2. ASSUME NEW o \in Orders, CreateFulfillmentJob(o)
      PROVE  job'[k] = job[k] /\ mint'[k] = mint[k]
  <2>1. order[o] = "paid" /\ order[k] = "fulfilled"
    BY <1>2, CreateEffect DEF RowsInv, RowOf, Agree, StatusOfOrder
  <2> QED
    BY <1>2, <2>1, CreateEffect DEF OnlyRowsOf
<1>3. ASSUME NEW w \in Workers, NEW o \in Orders, ClaimFulfillmentJob(w, o)
      PROVE  job'[k] = job[k] /\ mint'[k] = mint[k]
  BY <1>1, <1>3, ClaimEffect
<1>4. ASSUME NEW w \in Workers, RecordMintSubmission(w)
      PROVE  job'[k] = job[k] /\ mint'[k] = mint[k]
  BY <1>1, <1>4, SubmissionEffect
<1>5. ASSUME NEW w \in Workers, NEW o \in Orders, NEW retryable \in BOOLEAN,
             RecordFulfillmentFailure(w, o, retryable)
      PROVE  job'[k] = job[k] /\ mint'[k] = mint[k]
  BY <1>1, <1>5, FailureEffect
<1>6. ASSUME NEW w \in Workers, NEW retryable \in BOOLEAN,
             WorkerFails(w, retryable)
      PROVE  job'[k] = job[k] /\ mint'[k] = mint[k]
  <2>1. worker[w] \in WorkerRow /\ worker[w].job # None
    BY <1>6 DEF WorkerFails, WorkerInv
  <2>2. worker[w].job \in Orders
    BY <2>1 DEF WorkerRow
  <2> QED
    BY <1>5, <1>6, <2>2 DEF WorkerFails
<1>7. ASSUME NEW o \in Orders, NEW x \in Txs, NEW exact \in BOOLEAN,
             RecordMintEvidence(o, x, exact)
      PROVE  job'[k] = job[k] /\ mint'[k] = mint[k]
  <2>1. CASE Reconciles(o, x, exact)
    <3>1. ConfirmMint(o)
      BY <1>7, <2>1 DEF RecordMintEvidence
    <3> QED
      BY <1>1, <2>1, <3>1, ConfirmEffect
  <2>2. CASE ~Reconciles(o, x, exact)
    BY <1>7, <2>2 DEF RecordMintEvidence
  <2> QED
    BY <2>1, <2>2
<1>8. ASSUME \/ UNCHANGED vars
             \/ \E o \in Orders, onChain \in BOOLEAN : OrderPaid(o, onChain)
             \/ \E w \in Workers :
                \/ \E o \in Orders : ClaimAgain(w, o)
                \/ \E x \in Txs : SendMint(w, x)
                \/ ReportRefused(w) \/ Crash(w) \/ Restart(w)
             \/ \E x \in Txs, result \in {"succeeded", "failed"} :
                    LedgerApplies(x, result)
      PROVE  job'[k] = job[k] /\ mint'[k] = mint[k]
  BY <1>8 DEF vars, OrderPaid, ClaimAgain, SendMint, ReportRefused, Crash,
     Restart, LedgerApplies
<1> QED
  BY <1>2, <1>3, <1>4, <1>5, <1>6, <1>7, <1>8 DEF Next, Api, Work,
     OperatorFails

(* Evidence is accepted only of the mint that its order waits for, once.   *)
LEMMA EvidenceStep ==
  ASSUME TypeOK, WorkerInv, RowsInv, EvidenceInv, [Next]_vars
  PROVE  EvidenceInv'
<1> DEFINE Judged(e) == /\ job[e.order] # None
                        /\ job[e.order].status = "fulfilled"
                        /\ mint[e.order].tx = e.tx
<1>1. ASSUME NEW e \in evidence, e.status = "accepted"
      PROVE  Judged(e)'
  <2>1. Judged(e) /\ e.order \in Orders
    BY <1>1 DEF EvidenceInv, TypeOK, Evidence
  <2> QED
    BY <2>1, FulfilledJobStays
<1>2. CASE evidence' = evidence
  BY <1>1, <1>2 DEF EvidenceInv
<1>3. ASSUME NEW o \in Orders, NEW x \in Txs, NEW exact \in BOOLEAN,
             RecordMintEvidence(o, x, exact)
      PROVE  EvidenceInv'
  <2> DEFINE result == IF Reconciles(o, x, exact) THEN "accepted"
                                                  ELSE "rejected"
             new == [tx |-> x, order |-> o, exact |-> exact,
                     status |-> result]
  <2>1. /\ \A e \in evidence : e.tx # x
        /\ evidence' = evidence \union {new}
        /\ Reconciles(o, x, exact) => ConfirmMint(o)
    BY <1>3 DEF RecordMintEvidence
  <2>2. new.tx = x /\ new.order = o /\ new.status = result
    OBVIOUS
  <2>3. result = "accepted" => Reconciles(o, x, exact)
    OBVIOUS
  <2> HIDE DEF new, result
  <2>4. ASSUME new.status = "accepted"
        PROVE  /\ job'[o] # None /\ job'[o].status = "fulfilled"
               /\ mint'[o].tx = x
    <3>1. Reconciles(o, x, exact) /\ ConfirmMint(o)
      BY <2>1, <2>2, <2>3, <2>4
    <3> QED
      BY <3>1, ConfirmEffect, FulfillmentAssumption DEF WrittenRows
  <2>5. \A e \in evidence' : e.status = "accepted" => Judged(e)'
    BY <1>1, <2>1, <2>2, <2>4
  <2>6. \A e, f \in evidence' : e.tx = f.tx => e = f
    BY <2>1, <2>2 DEF EvidenceInv
  <2> QED
    BY <2>5, <2>6 DEF EvidenceInv
<1> QED
  BY <1>2, <1>3, EvidenceSteps

(* Of all steps only an accepted mint fulfils an order or moves stock.     *)
LEMMA FulfilmentSteps ==
  ASSUME TypeOK, WorkerInv, RowsInv, [Next]_vars
  PROVE  \/ /\ stock' = stock
            /\ \A k \in Orders :
                    order'[k] = "fulfilled" <=> order[k] = "fulfilled"
         \/ \E o \in Orders : /\ stock' = FulfilledStock
                              /\ order[o] # "fulfilled"
                              /\ order' = [order EXCEPT ![o] = "fulfilled"]
<1> DEFINE Unfulfilled ==
        /\ stock' = stock
        /\ \A k \in Orders :
                order'[k] = "fulfilled" <=> order[k] = "fulfilled"
<1>1. ASSUME NEW o \in Orders, NEW onChain \in BOOLEAN, OrderPaid(o, onChain)
      PROVE  Unfulfilled
  BY <1>1 DEF OrderPaid, TypeOK
<1>2. ASSUME NEW o \in Orders, CreateFulfillmentJob(o)
      PROVE  Unfulfilled
  BY <1>2, CreateEffect DEF OnlyRowsOf
<1>3. ASSUME NEW w \in Workers, NEW o \in Orders, NEW retryable \in BOOLEAN,
             RecordFulfillmentFailure(w, o, retryable)
      PROVE  Unfulfilled
  <2>1. OnlyRowsOf(o) /\ order[o] = "fulfilling" /\ stock' = stock
    BY <1>3, FailureEffect
  <2>2. order'[o] \in {"fulfilling", "failed"}
    BY <1>3, FailureEffect
  <2> QED
    BY <2>1, <2>2 DEF OnlyRowsOf
<1>4. ASSUME NEW w \in Workers, NEW retryable \in BOOLEAN,
             WorkerFails(w, retryable)
      PROVE  Unfulfilled
  <2>1. worker[w] \in WorkerRow /\ worker[w].job # None
    BY <1>4 DEF WorkerFails, WorkerInv
  <2>2. worker[w].job \in Orders
    BY <2>1 DEF WorkerRow
  <2> QED
    BY <1>3, <1>4, <2>2 DEF WorkerFails
<1>5. ASSUME NEW o \in Orders, NEW x \in Txs, NEW exact \in BOOLEAN,
             RecordMintEvidence(o, x, exact)
      PROVE  \/ Unfulfilled
             \/ /\ stock' = FulfilledStock
                /\ order[o] # "fulfilled"
                /\ order' = [order EXCEPT ![o] = "fulfilled"]
  BY <1>5 DEF RecordMintEvidence, ConfirmMint
<1>6. ASSUME \/ UNCHANGED vars
             \/ \E w \in Workers :
                \/ \E o \in Orders : ClaimFulfillmentJob(w, o)
                                     \/ ClaimAgain(w, o)
                \/ \E x \in Txs : SendMint(w, x)
                \/ RecordMintSubmission(w) \/ ReportRefused(w)
                \/ Crash(w) \/ Restart(w)
             \/ \E x \in Txs, result \in {"succeeded", "failed"} :
                    LedgerApplies(x, result)
      PROVE  Unfulfilled
  BY <1>6 DEF vars, ClaimFulfillmentJob, ClaimAgain, SendMint,
     RecordMintSubmission, ReportRefused, Crash, Restart, LedgerApplies
<1> QED
  BY <1>1, <1>2, <1>3, <1>4, <1>5, <1>6 DEF Next, Api, Work, OperatorFails

(* Stock moves with the order that an accepted mint fulfils.               *)
LEMMA StockStep ==
  ASSUME TypeOK, WorkerInv, RowsInv, StockFollowsOrders, [Next]_vars
  PROVE  StockFollowsOrders'
<1> DEFINE F == {k \in Orders : order[k] = "fulfilled"}
           G == {k \in Orders : order'[k] = "fulfilled"}
           all == Cardinality(Orders)
<1>1. stock = [reserved |-> all - Cardinality(F), fulfilled |-> Cardinality(F)]
  BY DEF StockFollowsOrders
<1>2. /\ IsFiniteSet(F)
      /\ Cardinality(F) \in Nat /\ all \in Nat
  <2>1. IsFiniteSet(F)
    BY FS_Subset, FulfillmentAssumption
  <2> QED
    BY <2>1, FS_CardinalityType, FulfillmentAssumption
<1>3. stock' = [reserved |-> all - Cardinality(G),
                fulfilled |-> Cardinality(G)]
  <2>1. CASE /\ stock' = stock
             /\ \A k \in Orders :
                    order'[k] = "fulfilled" <=> order[k] = "fulfilled"
    <3>1. G = F
      BY <2>1
    <3> QED
      BY <1>1, <2>1, <3>1
  <2>2. ASSUME NEW o \in Orders, stock' = FulfilledStock,
               order[o] # "fulfilled",
               order' = [order EXCEPT ![o] = "fulfilled"]
        PROVE  stock' = [reserved |-> all - Cardinality(G),
                         fulfilled |-> Cardinality(G)]
    <3>1. G = F \union {o} /\ o \notin F
      BY <2>2 DEF TypeOK
    <3>2. Cardinality(G) = Cardinality(F) + 1
      BY <1>2, <3>1, FS_AddElement
    <3> HIDE DEF F, G, all
    <3>3. stock' = [reserved |-> (all - Cardinality(F)) - 1,
                    fulfilled |-> Cardinality(F) + 1]
      BY <1>1, <2>2 DEF FulfilledStock
    <3>4. (all - Cardinality(F)) - 1 = all - Cardinality(G)
      BY <1>2, <3>2
    <3> QED
      BY <3>2, <3>3, <3>4
  <2> QED
    BY <2>1, <2>2, FulfilmentSteps
<1> QED
  BY <1>3 DEF StockFollowsOrders

(* Stock that follows the orders is within its bounds.                     *)
LEMMA StockInBounds ==
  ASSUME NEW F \in SUBSET Orders
  PROVE  [reserved |-> Cardinality(Orders) - Cardinality(F),
          fulfilled |-> Cardinality(F)]
            \in [reserved : 0..Cardinality(Orders),
                 fulfilled : 0..Cardinality(Orders)]
<1>1. /\ Cardinality(F) \in Nat /\ Cardinality(Orders) \in Nat
      /\ Cardinality(F) <= Cardinality(Orders)
  BY FS_Subset, FS_CardinalityType, FulfillmentAssumption
<1> QED
  BY <1>1

(* No handler leaves the types of the rows it writes.                      *)
LEMMA TypeStep ==
  ASSUME TypeOK, WorkerInv, RowsInv, StockFollowsOrders, [Next]_vars
  PROVE  TypeOK'
<1> DEFINE Status == {"awaiting_payment", "paid", "fulfilling", "fulfilled",
                      "failed"}
           RowTypes == /\ order \in [Orders -> Status]
                       /\ proven \subseteq Orders
                       /\ job \in [Orders -> Job \union {None}]
                       /\ mint \in [Orders -> MintRow \union {None}]
           LedgerTypes == /\ sent \in [Txs -> Orders \union {None}]
                          /\ outcome \in [Txs -> {"none", "succeeded",
                                                  "failed"}]
<1>1. RowTypes /\ LedgerTypes
  BY DEF TypeOK
<1>2. ASSUME NEW o \in Orders, NEW onChain \in BOOLEAN, OrderPaid(o, onChain)
      PROVE  RowTypes' /\ LedgerTypes'
  BY <1>1, <1>2 DEF OrderPaid
<1>3. ASSUME NEW o \in Orders, CreateFulfillmentJob(o)
      PROVE  RowTypes' /\ LedgerTypes'
  <2>1. order' = [order EXCEPT ![o] = "fulfilling"]
    BY <1>3 DEF CreateFulfillmentJob
  <2> QED
    BY <1>1, <1>3, <2>1, CreateEffect DEF WrittenRows
<1>4. ASSUME NEW w \in Workers, NEW o \in Orders, ClaimFulfillmentJob(w, o)
      PROVE  RowTypes' /\ LedgerTypes'
  BY <1>1, <1>4, ClaimEffect DEF WrittenRows
<1>5. ASSUME NEW w \in Workers, RecordMintSubmission(w)
      PROVE  RowTypes' /\ LedgerTypes'
  BY <1>1, <1>5, SubmissionEffect DEF WrittenRows
<1>6. ASSUME NEW w \in Workers, NEW o \in Orders, NEW retryable \in BOOLEAN,
             RecordFulfillmentFailure(w, o, retryable)
      PROVE  RowTypes' /\ LedgerTypes'
  <2>1. order' = [order EXCEPT ![o] = order'[o]] /\ order'[o] \in Status
    BY <1>6, FailureEffect
  <2> QED
    BY <1>1, <1>6, <2>1, FailureEffect DEF WrittenRows
<1>7. ASSUME NEW w \in Workers, NEW retryable \in BOOLEAN,
             WorkerFails(w, retryable)
      PROVE  RowTypes' /\ LedgerTypes'
  <2>1. worker[w] \in WorkerRow /\ worker[w].job # None
    BY <1>7 DEF WorkerFails, WorkerInv
  <2>2. worker[w].job \in Orders
    BY <2>1 DEF WorkerRow
  <2> QED
    BY <1>6, <1>7, <2>2 DEF WorkerFails
<1>8. ASSUME NEW o \in Orders, NEW x \in Txs, NEW exact \in BOOLEAN,
             RecordMintEvidence(o, x, exact)
      PROVE  RowTypes' /\ LedgerTypes'
  <2>1. UNCHANGED <<proven, sent, outcome>>
    BY <1>8 DEF RecordMintEvidence
  <2>2. CASE Reconciles(o, x, exact)
    <3>1. ConfirmMint(o)
      BY <1>8, <2>2 DEF RecordMintEvidence
    <3> QED
      BY <1>1, <2>1, <2>2, <3>1, ConfirmEffect DEF WrittenRows
  <2>3. CASE ~Reconciles(o, x, exact)
    BY <1>1, <1>8, <2>1, <2>3 DEF RecordMintEvidence
  <2> QED
    BY <2>2, <2>3
<1>9. ASSUME NEW w \in Workers, NEW x \in Txs, SendMint(w, x)
      PROVE  RowTypes' /\ LedgerTypes'
  <2>1. worker[w] \in WorkerRow /\ worker[w].job # None
    BY <1>9 DEF SendMint, WorkerInv
  <2>2. worker[w].job \in Orders
    BY <2>1 DEF WorkerRow
  <2> QED
    BY <1>1, <1>9, <2>2 DEF SendMint
<1>10. ASSUME NEW x \in Txs, NEW result \in {"succeeded", "failed"},
              LedgerApplies(x, result)
       PROVE  RowTypes' /\ LedgerTypes'
  BY <1>1, <1>10 DEF LedgerApplies
<1>11. ASSUME \/ UNCHANGED vars
              \/ \E w \in Workers :
                 \/ \E o \in Orders : ClaimAgain(w, o)
                 \/ ReportRefused(w) \/ Crash(w) \/ Restart(w)
       PROVE  RowTypes' /\ LedgerTypes'
  BY <1>1, <1>11 DEF vars, ClaimAgain, ReportRefused, Crash, Restart
<1>12. RowTypes' /\ LedgerTypes'
  BY <1>2, <1>3, <1>4, <1>5, <1>6, <1>7, <1>8, <1>9, <1>10, <1>11
     DEF Next, Api, Work, OperatorFails
<1>13. evidence' \subseteq Evidence
  <2>1. ASSUME NEW o \in Orders, NEW x \in Txs, NEW exact \in BOOLEAN,
               NEW status \in {"accepted", "rejected"}
        PROVE  [tx |-> x, order |-> o, exact |-> exact, status |-> status]
                    \in Evidence
    BY ZenonT(30) DEF Evidence
  <2>2. ASSUME NEW o \in Orders, NEW x \in Txs, NEW exact \in BOOLEAN,
               RecordMintEvidence(o, x, exact)
        PROVE  evidence' \subseteq Evidence
    <3>1. PICK status \in {"accepted", "rejected"} :
            evidence' = evidence \union
                {[tx |-> x, order |-> o, exact |-> exact, status |-> status]}
      BY <2>2 DEF RecordMintEvidence
    <3> DEFINE e == [tx |-> x, order |-> o, exact |-> exact,
                     status |-> status]
    <3>2. e \in Evidence
      BY <2>1
    <3>3. evidence \subseteq Evidence /\ evidence' = evidence \union {e}
      BY <3>1 DEF TypeOK
    <3> HIDE DEF e
    <3> QED
      BY <3>2, <3>3
  <2> QED
    BY <2>2, EvidenceSteps DEF TypeOK
<1>14. DOMAIN worker' = Workers
  BY WorkerStep DEF WorkerInv
<1>15. stock' \in [reserved : 0..Cardinality(Orders),
                   fulfilled : 0..Cardinality(Orders)]
  <2>1. StockFollowsOrders'
    BY StockStep
  <2> DEFINE G == {k \in Orders : order'[k] = "fulfilled"}
  <2>2. stock' = [reserved |-> Cardinality(Orders) - Cardinality(G),
                  fulfilled |-> Cardinality(G)]
    BY <2>1 DEF StockFollowsOrders
  <2>3. G \in SUBSET Orders
    OBVIOUS
  <2> HIDE DEF G
  <2> QED
    BY <2>2, <2>3, StockInBounds
<1> QED
  BY <1>12, <1>13, <1>14, <1>15 DEF TypeOK
-----------------------------------------------------------------------------
LEMMA FulfillmentInit == Init => IInv
<1> SUFFICES ASSUME Init
             PROVE  IInv
  OBVIOUS
<1> USE FulfillmentAssumption
<1> DEFINE F == {o \in Orders : order[o] = "fulfilled"}
<1>1. F = {}
  BY DEF Init
<1>2. StockFollowsOrders
  <2>1. Cardinality(F) = 0 /\ Cardinality(Orders) \in Nat
    BY <1>1, FS_EmptySet, FS_CardinalityType
  <2>2. stock = [reserved |-> Cardinality(Orders), fulfilled |-> 0]
    BY DEF Init
  <2>3. stock = [reserved |-> Cardinality(Orders) - Cardinality(F),
                 fulfilled |-> Cardinality(F)]
    <3> HIDE DEF F
    <3> QED
      BY <2>1, <2>2
  <2> QED
    BY <2>3 DEF StockFollowsOrders
<1>3. stock \in [reserved : 0..Cardinality(Orders),
                 fulfilled : 0..Cardinality(Orders)]
  BY <1>2, StockInBounds DEF StockFollowsOrders
<1>4. TypeOK
  BY <1>3 DEF Init, TypeOK
<1>5. WorkerInv
  <2>1. Idle \in WorkerRow /\ Idle.state = "idle" /\ Idle.tx = None
    BY DEF Idle, WorkerRow
  <2> QED
    BY <2>1 DEF Init, WorkerInv
<1>6. RowsInv /\ EvidenceInv
  BY DEF Init, RowsInv, RowOf, EvidenceInv
<1> QED
  BY <1>2, <1>4, <1>5, <1>6 DEF IInv

LEMMA FulfillmentStep == IInv /\ [Next]_vars => IInv'
  BY RowsStep, WorkerStep, EvidenceStep, StockStep, TypeStep DEF IInv

LEMMA FulfillmentInvariant == Spec => []IInv
  BY FulfillmentInit, FulfillmentStep, PTL DEF Spec

(* The rows of a job, its mint and its order never disagree, whatever the  *)
(* workers and the operator report and in which order:                     *)
(* claim_fulfillment_job, record_mint_submission,                          *)
(* record_fulfillment_failure, record_mint_evidence.                       *)
THEOREM FulfillmentRowsAgree == Spec => []RowsAgree
<1>1. ASSUME IInv, NEW o \in Orders, job[o] # None
      PROVE  /\ mint[o].status = StatusOfMint[job[o].status]
             /\ order[o] = StatusOfOrder[job[o].status]
             /\ job[o].status = "running" <=> job[o].lockedBy # None
             /\ HasJob(o, {"awaiting_chain", "fulfilled"}) <=>
                    mint[o].tx # None
  BY <1>1 DEF IInv, RowsInv, RowOf, Agree, HasJob
<1>2. IInv => RowsAgree
  BY <1>1 DEF IInv, RowsAgree
<1> QED
  BY FulfillmentInvariant, <1>2, PTL

(* A job that can be claimed has an attempt left, so claim never buries a  *)
(* job and strands its order: claim_fulfillment_job.                       *)
THEOREM FulfillmentClaimable == Spec => []ClaimableHasAttemptsLeft
<1>1. IInv => ClaimableHasAttemptsLeft
  BY DEF IInv, RowsInv, RowOf, ClaimableHasAttemptsLeft, HasJob
<1> QED
  BY FulfillmentInvariant, <1>1, PTL

(* An order is fulfilled by one mint, made for it and successful, and only *)
(* after chain evidence paid it, however many workers minted:              *)
(* record_mint_evidence.                                                   *)
THEOREM FulfillmentByItsMint == Spec => []FulfilledByItsMint
<1>1. ASSUME IInv, NEW o \in Orders, order[o] = "fulfilled"
      PROVE  /\ o \in proven
             /\ \E e \in evidence :
                /\ e.order = o /\ e.status = "accepted" /\ e.tx = mint[o].tx
                /\ sent[e.tx] = o
                /\ outcome[e.tx] = "succeeded"
                /\ \A f \in evidence :
                    f.order = o /\ f.status = "accepted" => f = e
  <2>1. job[o] # None /\ Agree(o) /\ MintedFor(o) /\ o \in proven
    BY <1>1 DEF IInv, RowsInv, RowOf
  <2>2. job[o].status = "fulfilled"
    <3>1. job[o] \in Job
      BY <1>1, <2>1, RowsOfJob DEF IInv
    <3> QED
      BY <1>1, <2>1, <3>1 DEF Agree, StatusOfOrder, Job
  <2>3. /\ mint[o].tx # None /\ sent[mint[o].tx] = o
        /\ outcome[mint[o].tx] = "succeeded"
    BY <2>1, <2>2 DEF Agree, MintedFor
  <2>4. PICK e \in evidence : Accepted(o, e) /\ e.tx = mint[o].tx
    BY <2>1, <2>2 DEF MintedFor
  <2>5. ASSUME NEW f \in evidence, f.order = o, f.status = "accepted"
        PROVE  f = e
    BY <1>1, <2>4, <2>5 DEF IInv, EvidenceInv
  <2> QED
    BY <2>1, <2>3, <2>4, <2>5 DEF Accepted
<1>2. IInv => FulfilledByItsMint
  BY <1>1 DEF FulfilledByItsMint
<1> QED
  BY FulfillmentInvariant, <1>2, PTL

(* What is fulfilled is what fulfilled orders took from what was reserved, *)
(* for any number of orders: confirm_mint.                                 *)
THEOREM FulfillmentStock == Spec => []StockFollowsOrders
<1>1. IInv => StockFollowsOrders
  BY DEF IInv
<1> QED
  BY FulfillmentInvariant, <1>1, PTL
-----------------------------------------------------------------------------
(* The ledger applies only what was sent.                                  *)
AppliedWasSent == \A x \in Txs : outcome[x] # "none" => sent[x] # None

(* record_mint_submission and the network keep it so.                      *)
LEMMA AppliedWasSentStep ==
  IInv /\ AppliedWasSent /\ [Next]_vars => AppliedWasSent'
<1> SUFFICES ASSUME IInv, AppliedWasSent, [Next]_vars
             PROVE  AppliedWasSent'
  OBVIOUS
<1>1. PastStays
  BY FulfillmentPastStays DEF IInv
<1>2. ASSUME NEW x \in Txs, NEW result \in {"succeeded", "failed"},
             LedgerApplies(x, result)
      PROVE  AppliedWasSent'
  BY <1>2 DEF LedgerApplies, AppliedWasSent, IInv, TypeOK
<1>3. CASE UNCHANGED outcome
  BY <1>1, <1>3 DEF PastStays, AppliedWasSent
<1>4. ASSUME ~ \E x \in Txs, result \in {"succeeded", "failed"} :
                    LedgerApplies(x, result)
      PROVE  UNCHANGED outcome
  BY <1>4 DEF Next, Api, Work, vars, OrderPaid, CreateFulfillmentJob,
     RecordMintEvidence, OperatorFails, ClaimFulfillmentJob, ClaimAgain,
     SendMint, RecordMintSubmission, ReportRefused, WorkerFails, Crash,
     Restart, RecordFulfillmentFailure
<1> QED
  BY <1>2, <1>3, <1>4

(* An order is fulfilled as long as its job is.                            *)
LEMMA FulfilledJob ==
  ASSUME TypeOK, RowsInv, NEW k \in Orders
  PROVE  order[k] = "fulfilled" <=>
            job[k] # None /\ job[k].status = "fulfilled"
<1>1. CASE job[k] = None
  BY <1>1 DEF RowsInv, RowOf
<1>2. CASE job[k] # None
  <2>1. job[k] \in Job /\ order[k] = StatusOfOrder[job[k].status]
    BY <1>2, RowsOfJob DEF RowsInv, RowOf, Agree
  <2> QED
    BY <1>2, <2>1 DEF Job, StatusOfOrder
<1> QED
  BY <1>1, <1>2

(* A step that adds no job, fulfils no order and keeps what the ledger     *)
(* made of each transaction is none of LedgerConfirmation.                 *)
LEMMA MintsStay ==
  ASSUME \A k \in Orders :
            /\ job'[k] = None <=> job[k] = None
            /\ order'[k] = "fulfilled" <=> order[k] = "fulfilled"
            /\ order[k] = "fulfilled" => mint'[k].tx = mint[k].tx,
         \A x \in Txs :
            /\ outcome'[x] = outcome[x]
            /\ outcome[x] = "succeeded" => sent'[x] = sent[x]
  PROVE  UNCHANGED Confirmation!vars
<1>1. UNCHANGED MintsWanted
  BY DEF MintsWanted
<1>2. UNCHANGED MintsApplied
  BY DEF MintsApplied
<1>3. UNCHANGED MintsConfirmed
  BY DEF MintsConfirmed
<1> QED
  BY <1>1, <1>2, <1>3 DEF Confirmation!vars

(* The mints of orders implement module LedgerConfirmation                 *)
(* (create_fulfillment_job, record_mint_evidence).                         *)
LEMMA MintsConfirmStep ==
  IInv /\ IInv' /\ AppliedWasSent /\ [Next]_vars
    => [Confirmation!Next]_(Confirmation!vars)
<1> SUFFICES ASSUME IInv, IInv', AppliedWasSent, [Next]_vars
             PROVE  [Confirmation!Next]_(Confirmation!vars)
  OBVIOUS
<1>1. TypeOK /\ WorkerInv /\ RowsInv /\ RowsInv' /\ PastStays
  BY FulfillmentPastStays DEF IInv
<1>2. None \notin Job
  BY FulfillmentAssumption
<1>3. ASSUME NEW o \in Orders, NEW x \in Txs, NEW exact \in BOOLEAN,
             RecordMintEvidence(o, x, exact), Reconciles(o, x, exact)
      PROVE  Confirmation!Next
  <2>1. /\ OnlyRowsOf(o) /\ WrittenRows(o)
        /\ job[o] # None
        /\ mint[o].tx = x /\ outcome[x] = "succeeded"
        /\ mint'[o].tx = x
        /\ order[o] = "fulfilling" /\ order'[o] = "fulfilled"
        /\ UNCHANGED <<sent, outcome>>
    <3>1. ConfirmMint(o) /\ UNCHANGED <<sent, outcome>>
      BY <1>3 DEF RecordMintEvidence
    <3> QED
      BY <1>1, <1>3, <3>1, ConfirmEffect DEF TypeOK
  <2>2. sent[x] = o
    BY <1>1, <2>1, FulfillmentAssumption DEF RowsInv, RowOf, MintedFor
  <2>3. UNCHANGED <<MintsWanted, MintsApplied>>
    <3>1. \A k \in Orders : job'[k] = None <=> job[k] = None
      BY <1>2, <2>1 DEF OnlyRowsOf, WrittenRows
    <3> QED
      BY <2>1, <3>1 DEF MintsWanted, MintsApplied
  <2>4. /\ o \in DOMAIN MintsWanted \ DOMAIN MintsConfirmed
        /\ x \in DOMAIN MintsApplied
        /\ MintsApplied[x] \in MintsWanted[o]
    BY <2>1, <2>2 DEF MintsWanted, MintsApplied, MintsConfirmed
  <2>5. \A k \in DOMAIN MintsConfirmed : MintsConfirmed[k] # x
    <3>1. ASSUME NEW k \in Orders, order[k] = "fulfilled", mint[k].tx = x
          PROVE  FALSE
      <4>1. sent[x] = k
        BY <1>1, <3>1, FulfilledJob, FulfillmentAssumption
           DEF RowsInv, RowOf, MintedFor
      <4> QED
        BY <2>1, <2>2, <3>1, <4>1
    <3> QED
      BY <3>1 DEF MintsConfirmed
  <2>6. /\ Confirmation!Grows(MintsConfirmed, MintsConfirmed')
        /\ DOMAIN MintsConfirmed' = DOMAIN MintsConfirmed \union {o}
        /\ MintsConfirmed'[o] = x
    BY <2>1 DEF MintsConfirmed, OnlyRowsOf, Confirmation!Grows
  <2>7. Confirmation!Confirm(o, x)
    BY <2>3, <2>4, <2>5, <2>6 DEF Confirmation!Confirm
  <2> QED
    BY <2>4, <2>7 DEF Confirmation!Next
<1>4. ASSUME NEW o \in Orders, NEW x \in Txs, NEW exact \in BOOLEAN,
             RecordMintEvidence(o, x, exact), ~Reconciles(o, x, exact)
      PROVE  UNCHANGED Confirmation!vars
  <2>1. UNCHANGED <<job, mint, order, sent, outcome>>
    BY <1>4 DEF RecordMintEvidence
  <2> QED
    BY <2>1, MintsStay
<1>5. ASSUME NEW x \in Txs, NEW result \in {"succeeded", "failed"},
             LedgerApplies(x, result)
      PROVE  Confirmation!Next
  <2>1. Confirmation!Grows(MintsApplied, MintsApplied')
    <3>1. /\ UNCHANGED sent
          /\ \A y \in Txs : outcome[y] = "succeeded" =>
                                outcome'[y] = "succeeded"
      BY <1>1, <1>5 DEF LedgerApplies, PastStays
    <3> QED
      BY <3>1 DEF MintsApplied, Confirmation!Grows
  <2>2. UNCHANGED <<MintsWanted, MintsConfirmed>>
    BY <1>5 DEF LedgerApplies, MintsWanted, MintsConfirmed
  <2> QED
    BY <2>1, <2>2 DEF Confirmation!Next, Confirmation!Apply
<1>6. ASSUME NEW w \in Workers, NEW x \in Txs, SendMint(w, x)
      PROVE  UNCHANGED Confirmation!vars
  <2>1. UNCHANGED <<job, mint, order, outcome>>
    BY <1>6 DEF SendMint
  <2>2. \A y \in Txs : outcome[y] = "succeeded" => sent'[y] = sent[y]
    BY <1>1 DEF AppliedWasSent, PastStays
  <2> QED
    BY <2>1, <2>2, MintsStay
<1>7. ASSUME NEW o \in Orders, CreateFulfillmentJob(o)
      PROVE  Confirmation!Next
  <2>1. /\ OnlyRowsOf(o) /\ WrittenRows(o)
        /\ order[o] = "paid" /\ order'[o] = "fulfilling"
        /\ UNCHANGED <<sent, outcome>>
    BY <1>1, <1>7, CreateEffect
  <2>2. Confirmation!Grows(MintsWanted, MintsWanted')
    BY <1>2, <2>1 DEF MintsWanted, OnlyRowsOf, WrittenRows,
       Confirmation!Grows
  <2>3. UNCHANGED MintsApplied
    BY <2>1 DEF MintsApplied
  <2>4. UNCHANGED MintsConfirmed
    BY <2>1 DEF MintsConfirmed, OnlyRowsOf
  <2> QED
    BY <2>2, <2>3, <2>4 DEF Confirmation!Next, Confirmation!Ask
<1>8. ASSUME NEW o \in Orders, OnlyRowsOf(o), WrittenRows(o), job[o] # None,
             order[o] # "fulfilled", order'[o] # "fulfilled",
             UNCHANGED <<sent, outcome>>
      PROVE  UNCHANGED Confirmation!vars
  <2>1. \A k \in Orders :
            /\ job'[k] = None <=> job[k] = None
            /\ order'[k] = "fulfilled" <=> order[k] = "fulfilled"
            /\ order[k] = "fulfilled" => mint'[k].tx = mint[k].tx
    BY <1>2, <1>8 DEF OnlyRowsOf, WrittenRows
  <2> QED
    BY <1>8, <2>1, MintsStay
<1>9. ASSUME NEW w \in Workers, NEW o \in Orders, ClaimFulfillmentJob(w, o)
      PROVE  UNCHANGED Confirmation!vars
  <2>1. /\ OnlyRowsOf(o) /\ WrittenRows(o) /\ order' = order
        /\ job[o] # None /\ job[o].status \in {"queued", "failed"}
        /\ UNCHANGED <<sent, outcome>>
    BY <1>1, <1>9, ClaimEffect
  <2>2. order[o] # "fulfilled"
    BY <1>1, <2>1, FulfilledJob
  <2> QED
    BY <1>8, <2>1, <2>2
<1>10. ASSUME NEW w \in Workers, RecordMintSubmission(w)
       PROVE  UNCHANGED Confirmation!vars
  <2> DEFINE o == worker[w].job
  <2>1. /\ o \in Orders
        /\ OnlyRowsOf(o) /\ WrittenRows(o) /\ order' = order
        /\ job[o] # None /\ job[o].status = "running"
        /\ UNCHANGED <<sent, outcome>>
    BY <1>1, <1>10, SubmissionEffect
  <2> HIDE DEF o
  <2>2. order[o] # "fulfilled"
    BY <1>1, <2>1, FulfilledJob
  <2> QED
    BY <1>8, <2>1, <2>2
<1>11. ASSUME NEW w \in Workers, NEW o \in Orders, NEW retryable \in BOOLEAN,
              RecordFulfillmentFailure(w, o, retryable)
       PROVE  UNCHANGED Confirmation!vars
  <2>1. /\ OnlyRowsOf(o) /\ WrittenRows(o) /\ job[o] # None
        /\ order[o] = "fulfilling" /\ order'[o] \in {"fulfilling", "failed"}
        /\ UNCHANGED <<sent, outcome>>
    BY <1>1, <1>11, FailureEffect
  <2> QED
    BY <1>8, <2>1
<1>12. ASSUME NEW w \in Workers, NEW retryable \in BOOLEAN,
              WorkerFails(w, retryable)
       PROVE  UNCHANGED Confirmation!vars
  <2>1. worker[w] \in WorkerRow /\ worker[w].job # None
    BY <1>1, <1>12 DEF WorkerFails, WorkerInv
  <2>2. worker[w].job \in Orders
    BY <2>1 DEF WorkerRow
  <2> QED
    BY <1>11, <1>12, <2>2 DEF WorkerFails
<1>13. ASSUME \/ UNCHANGED vars
              \/ \E o \in Orders, onChain \in BOOLEAN : OrderPaid(o, onChain)
              \/ \E w \in Workers :
                 \/ \E o \in Orders : ClaimAgain(w, o)
                 \/ ReportRefused(w) \/ Crash(w) \/ Restart(w)
       PROVE  UNCHANGED Confirmation!vars
  <2>1. /\ UNCHANGED <<job, mint, sent, outcome>>
        /\ \A k \in Orders :
                order'[k] = "fulfilled" <=> order[k] = "fulfilled"
    BY <1>1, <1>13 DEF vars, OrderPaid, ClaimAgain, ReportRefused, Crash,
       Restart, TypeOK
  <2> QED
    BY <2>1, MintsStay
<1> QED
  BY <1>3, <1>4, <1>5, <1>6, <1>7, <1>9, <1>10, <1>11, <1>12, <1>13
     DEF Next, Api, Work, OperatorFails

(* An order is fulfilled by one mint, made for it: see ConfirmsMints.      *)
THEOREM FulfillmentConfirmsMints == Spec => ConfirmsMints
<1>1. Init => Confirmation!Init /\ AppliedWasSent
  BY DEF Init, Confirmation!Init, MintsApplied, MintsConfirmed,
     AppliedWasSent
<1> QED
  BY <1>1, AppliedWasSentStep, MintsConfirmStep, FulfillmentInvariant, PTL
     DEF Spec, ConfirmsMints, Confirmation!Spec
=============================================================================
