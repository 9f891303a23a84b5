------------------------------- MODULE Payment -------------------------------
(***************************************************************************)
(* Checkout: orders, payment attempts, provider events, Stellar payment    *)
(* intents and the reconciliation of indexed chain evidence                *)
(* (services/api/src/orders.rs, stellar_intents.rs,                        *)
(* stellar_reconciliation.rs).                                             *)
(*                                                                         *)
(* Every handler runs in one database transaction that locks the rows it   *)
(* decides on, and an error return rolls the whole of it back, so one      *)
(* handler that commits is one action.  A request that is answered with an *)
(* error, or by replaying what is stored, changes nothing and is a         *)
(* stuttering step.                                                        *)
(*                                                                         *)
(* A definition marked FAULT is not part of the model.  It is what the     *)
(* definition after it would be with a plausible mistake in the code, and  *)
(* shows that a property would notice the mistake.                         *)
(*                                                                         *)
(* The elements of Orders and Intents stand for idempotency keys: the keys *)
(* are UNIQUE in their tables, so a key names at most one row and a        *)
(* request that repeats a key never creates a second one.  Attempts have   *)
(* no key: each request that gets through creates a new one.  The hash of  *)
(* the transaction an intent describes is named by the intent itself.      *)
(***************************************************************************)
EXTENDS Naturals

CONSTANTS
    Orders,         \* idempotency keys of create_order
    Attempts,       \* rows of payment_attempts
    Events,         \* provider event ids
    Intents,        \* idempotency keys of create_transaction_intent
    SupplyLimit,    \* product_inventory.supply_limit
    MaxQuantity,    \* bound: the largest quantity a request asks for
    Ledgers,        \* bound: the ledger sequences there are
    PagingTokens,   \* paging tokens, each as its rank among texts
    NoOrder, NoAttempt, NoEvent, NoEvidence

ASSUME PaymentAssumption ==
    /\ SupplyLimit \in Nat
    /\ MaxQuantity \in Nat
    /\ Ledgers \subseteq Nat \ {0}
    /\ PagingTokens \subseteq Nat
    /\ NoOrder \notin Orders
    /\ NoAttempt \notin Attempts

VARIABLES
    order,          \* orders.status; "none" before the row exists
    quantity,       \* order_items.quantity
    inventory,      \* product_inventory of the product on sale
    attempt,        \* payment_attempts.status
    attemptOrder,   \* payment_attempts.order_id
    event,          \* payment_provider_events, by provider event id
    intent,         \* transaction_intents.status
    intentAttempt,  \* transaction_intents.payment_attempt_id
    txn,            \* stellar_transactions.status of the intent
    lapsed,         \* the intents whose expires_at has passed
    ledger,         \* the Stellar ledger: what became of each transaction
    place,          \* the ledger and the paging token it was applied at
    evidence,       \* stellar_chain_evidence and its result, by hash
    cursor          \* stellar_chain_cursors: ledger_sequence, cursor_value

orderVars == <<order, quantity, inventory>>
attemptVars == <<attempt, attemptOrder>>
intentVars == <<intent, intentAttempt, txn>>
chainVars == <<lapsed, ledger, place>>
evidenceVars == <<evidence, cursor>>
vars == <<orderVars, attemptVars, event, intentVars, chainVars, evidenceVars>>

OrderStatus == {"none", "awaiting_payment", "paid", "fulfilling",
                "fulfilled", "failed", "expired"}
Settled == {"paid", "fulfilling", "fulfilled", "failed"}
AttemptStatus == {"none", "created", "awaiting_confirmation", "confirmed",
                  "failed"}
ActiveAttempt == {"created", "awaiting_confirmation"}
IntentStatus == {"none", "awaiting_signature", "signed", "submitted",
                 "confirmed", "expired"}
ActiveIntent == {"awaiting_signature", "signed", "submitted"}
TxnStatus == {"none", "signed", "submitted", "confirmed"}

Outcomes == {"confirmed", "failed"}
(* A report either carries the amount, asset, accounts, environment and    *)
(* memo of the payment it is about, or differs from it in one of them.     *)
Bodies == {"exact", "altered"}

EventRecord == [attempt : Attempts, outcome : Outcomes, body : Bodies,
                result : {"processed", "rejected"}]
EvidenceRecord == [intent : Intents, body : Bodies, success : BOOLEAN,
                   result : {"accepted", "rejected"}]

(* Where an operation is in the chain.  Several transactions may be in one *)
(* ledger; their paging tokens are TEXT, so a token is its rank in the     *)
(* order of texts, which need not be the order of the operations.  Ledger  *)
(* 0 stands for no place: a transaction not applied, no row of the cursor. *)
Place == [ledger : Nat, token : Nat]
Nowhere == [ledger |-> 0, token |-> 0]

ASSUME RecordAssumption ==
    /\ NoEvent \notin EventRecord
    /\ NoEvidence \notin EvidenceRecord

Init ==
    /\ order = [o \in Orders |-> "none"]
    /\ quantity = [o \in Orders |-> 0]
    /\ inventory = [reserved |-> 0, fulfilled |-> 0]
    /\ attempt = [a \in Attempts |-> "none"]
    /\ attemptOrder = [a \in Attempts |-> NoOrder]
    /\ event = [e \in Events |-> NoEvent]
    /\ intent = [i \in Intents |-> "none"]
    /\ intentAttempt = [i \in Intents |-> NoAttempt]
    /\ txn = [i \in Intents |-> "none"]
    /\ lapsed = {}
    /\ ledger = [i \in Intents |-> "absent"]
    /\ place = [i \in Intents |-> Nowhere]
    /\ evidence = [i \in Intents |-> NoEvidence]
    /\ cursor = Nowhere
-----------------------------------------------------------------------------
(* orders.rs *)

Reserve(q) ==
    /\ inventory.reserved + inventory.fulfilled + q <= SupplyLimit
    /\ inventory' = [inventory EXCEPT !.reserved = @ + q]

CreateOrder(o, q) ==
    /\ order[o] = "none"
    /\ q > 0
    /\ Reserve(q)
    /\ order' = [order EXCEPT ![o] = "awaiting_payment"]
    /\ quantity' = [quantity EXCEPT ![o] = q]
    /\ UNCHANGED <<attemptVars, event, intentVars, chainVars, evidenceVars>>

(* FAULT: the index is missing. *)
NoActiveAttemptIndex(o) == FALSE

(* The partial unique index payment_attempts_one_active_per_order. *)
HasActiveAttempt(o) ==
    \E a \in Attempts : attemptOrder[a] = o /\ attempt[a] \in ActiveAttempt

(* FAULT: the status of the order is not checked. *)
AttemptOnAnyOrder(a, o) ==
    /\ attempt[a] = "none"
    /\ order[o] # "none"
    /\ ~HasActiveAttempt(o)
    /\ attempt' = [attempt EXCEPT ![a] = "awaiting_confirmation"]
    /\ attemptOrder' = [attemptOrder EXCEPT ![a] = o]
    /\ UNCHANGED <<orderVars, event, intentVars, chainVars, evidenceVars>>

CreatePaymentAttempt(a, o) ==
    /\ attempt[a] = "none"
    /\ order[o] = "awaiting_payment"
    /\ ~HasActiveAttempt(o)
    /\ attempt' = [attempt EXCEPT ![a] = "awaiting_confirmation"]
    /\ attemptOrder' = [attemptOrder EXCEPT ![a] = o]
    /\ UNCHANGED <<orderVars, event, intentVars, chainVars, evidenceVars>>

(* UPDATE orders SET status = 'paid' WHERE status = 'awaiting_payment'. *)
MarkPaid(o) ==
    order' = [order EXCEPT ![o] = IF @ = "awaiting_payment" THEN "paid" ELSE @]

(* A provider event is stored once per provider event id; a repeated id is *)
(* answered from the stored row, or refused when its content differs.      *)
RecordPaymentEvent(a, e, outcome, body) ==
    /\ event[e] = NoEvent
    /\ attempt[a] \in ActiveAttempt
    /\ event' = [event EXCEPT ![e] =
            [attempt |-> a, outcome |-> outcome, body |-> body,
             result |-> IF body = "exact" THEN "processed" ELSE "rejected"]]
    /\ \/ /\ body # "exact"
          /\ UNCHANGED <<order, attempt>>
       \/ /\ body = "exact"
          /\ outcome = "confirmed"
          /\ attempt' = [attempt EXCEPT ![a] = "confirmed"]
          /\ MarkPaid(attemptOrder[a])
       \/ /\ body = "exact"
          /\ outcome = "failed"
          /\ attempt' = [attempt EXCEPT ![a] = "failed"]
          /\ UNCHANGED order
    /\ UNCHANGED <<quantity, inventory, attemptOrder, intentVars, chainVars,
                   evidenceVars>>
-----------------------------------------------------------------------------
(* stellar_intents.rs *)

(* The partial unique index transaction_intents_one_active_per_attempt. *)
HasActiveIntent(a) ==
    \E i \in Intents : intentAttempt[i] = a /\ intent[i] \in ActiveIntent

OrderOf(i) == attemptOrder[intentAttempt[i]]

CreateTransactionIntent(i, a) ==
    /\ intent[i] = "none"
    /\ attempt[a] \in ActiveAttempt
    /\ order[attemptOrder[a]] = "awaiting_payment"
    /\ ~HasActiveIntent(a)
    /\ intent' = [intent EXCEPT ![i] = "awaiting_signature"]
    /\ intentAttempt' = [intentAttempt EXCEPT ![i] = a]
    /\ UNCHANGED <<orderVars, attemptVars, event, txn, chainVars,
                   evidenceVars>>

(* Expiry is noticed here and nowhere else: the handler commits the        *)
(* 'expired' status and then answers with an error.                        *)
AcceptSignedEnvelope(i) ==
    /\ txn[i] = "none"
    /\ intent[i] = "awaiting_signature"
    /\ \/ /\ i \in lapsed
          /\ intent' = [intent EXCEPT ![i] = "expired"]
          /\ UNCHANGED txn
       \/ /\ i \notin lapsed
          /\ intent' = [intent EXCEPT ![i] = "signed"]
          /\ txn' = [txn EXCEPT ![i] = "signed"]
    /\ UNCHANGED <<orderVars, attemptVars, event, intentAttempt, chainVars,
                   evidenceVars>>
-----------------------------------------------------------------------------
(* stellar_reconciliation.rs *)

RecordSubmissionReceipt(i) ==
    /\ txn[i] = "signed"
    /\ intent[i] = "signed"
    /\ txn' = [txn EXCEPT ![i] = "submitted"]
    /\ intent' = [intent EXCEPT ![i] = "submitted"]
    /\ UNCHANGED <<orderVars, attemptVars, event, intentAttempt, chainVars,
                   evidenceVars>>

Accepted(h) == evidence[h] # NoEvidence /\ evidence[h].result = "accepted"
AlreadyReconciled(i) == \E h \in Intents : Accepted(h) /\ evidence[h].intent = i

(* FAULT: a transaction that failed on the ledger is good enough. *)
ReconcilesAnyOutcome(i, h, body) ==
    /\ intent[i] = "submitted"
    /\ txn[i] = "submitted"
    /\ h = i
    /\ body = "exact"

(* Evidence about transaction h, reported under intent i. *)
Reconciles(i, h, body) ==
    /\ intent[i] = "submitted"
    /\ txn[i] = "submitted"
    /\ h = i
    /\ ledger[h] = "success"
    /\ body = "exact"

(* FAULT: the number of updated rows is not looked at. *)
ConfirmPaymentStateBlindly(i) ==
    /\ txn' = [txn EXCEPT ![i] = "confirmed"]
    /\ intent' = [intent EXCEPT ![i] = "confirmed"]
    /\ attempt' = [attempt EXCEPT ![intentAttempt[i]] = "confirmed"]
    /\ order' = [order EXCEPT ![OrderOf(i)] = "paid"]

(* Each of the four updates must find its row in the expected state, or    *)
(* the transaction is rolled back.                                         *)
ConfirmPaymentState(i) ==
    /\ txn[i] = "submitted"
    /\ intent[i] = "submitted"
    /\ attempt[intentAttempt[i]] \in ActiveAttempt
    /\ order[OrderOf(i)] = "awaiting_payment"
    /\ txn' = [txn EXCEPT ![i] = "confirmed"]
    /\ intent' = [intent EXCEPT ![i] = "confirmed"]
    /\ attempt' = [attempt EXCEPT ![intentAttempt[i]] = "confirmed"]
    /\ order' = [order EXCEPT ![OrderOf(i)] = "paid"]

(* As the WHERE of the upsert compares: by ledger, then by text. *)
Before(p, q) ==
    \/ p.ledger < q.ledger
    \/ p.ledger = q.ledger /\ p.token < q.token

(* FAULT: within a ledger the cursor stays where it is. *)
AdvanceCursorByLedger(p) ==
    cursor' = IF cursor.ledger < p.ledger THEN p ELSE cursor

AdvanceCursor(p) == cursor' = IF Before(cursor, p) THEN p ELSE cursor

StoreEvidence(i, h, body, result) ==
    evidence' = [evidence EXCEPT ![h] =
        [intent |-> i, body |-> body, success |-> ledger[h] = "success",
         result |-> result]]

(* An envelope holds one operation, so the key of an evidence row, hash    *)
(* and operation index, is the hash.  The indexer reports what is in the   *)
(* ledger, but may name another intent or misread a field.                 *)
RecordChainEvidence(i, h, body) ==
    /\ txn[i] # "none"
    /\ ledger[h] # "absent"
    /\ evidence[h] = NoEvidence
    /\ ~AlreadyReconciled(i)
    /\ \/ /\ ~Reconciles(i, h, body)
          /\ StoreEvidence(i, h, body, "rejected")
          /\ UNCHANGED <<order, attempt, txn, intent, cursor>>
       \/ /\ Reconciles(i, h, body)
          /\ StoreEvidence(i, h, body, "accepted")
          /\ ConfirmPaymentState(i)
          /\ AdvanceCursor(place[h])
    /\ UNCHANGED <<quantity, inventory, attemptOrder, event, intentAttempt,
                   chainVars>>
-----------------------------------------------------------------------------
(* Outside the program: the clock and the Stellar network.  The wallet     *)
(* holds the envelope from the moment the intent exists and may submit it  *)
(* whether or not the application hears of it; the time bounds of the      *)
(* envelope are the intent's expiry, and a hash is applied at most once.   *)

IntentLapses(i) ==
    /\ intent[i] # "none"
    /\ i \notin lapsed
    /\ lapsed' = lapsed \union {i}
    /\ UNCHANGED <<orderVars, attemptVars, event, intentVars, ledger, place,
                   evidenceVars>>

(* In the ledger of the transactions before it or in a later one. *)
LedgerApplies(i, outcome, p) ==
    /\ intent[i] # "none"
    /\ i \notin lapsed
    /\ ledger[i] = "absent"
    /\ \A j \in Intents : place[j].ledger <= p.ledger /\ place[j] # p
    /\ ledger' = [ledger EXCEPT ![i] = outcome]
    /\ place' = [place EXCEPT ![i] = p]
    /\ UNCHANGED <<orderVars, attemptVars, event, intentVars, lapsed,
                   evidenceVars>>
-----------------------------------------------------------------------------
Pays ==
    \/ \E a \in Attempts, e \in Events, outcome \in Outcomes, body \in Bodies :
            RecordPaymentEvent(a, e, outcome, body)
    \/ \E i, h \in Intents, body \in Bodies : RecordChainEvidence(i, h, body)

Signs ==
    \/ \E a \in Attempts, o \in Orders : CreatePaymentAttempt(a, o)
    \/ \E i \in Intents, a \in Attempts : CreateTransactionIntent(i, a)
    \/ \E i \in Intents :
            \/ AcceptSignedEnvelope(i)
            \/ RecordSubmissionReceipt(i)

Network ==
    \E i \in Intents :
        \/ IntentLapses(i)
        \/ \E outcome \in {"success", "failed"},
              p \in [ledger : Ledgers, token : PagingTokens] :
                LedgerApplies(i, outcome, p)

Next ==
    \/ \E o \in Orders, q \in 1..MaxQuantity : CreateOrder(o, q)
    \/ Signs
    \/ Pays
    \/ Network

Spec == Init /\ [][Next]_vars
-----------------------------------------------------------------------------
TypeOK ==
    /\ order \in [Orders -> OrderStatus]
    /\ quantity \in [Orders -> 0..MaxQuantity]
    /\ inventory \in [reserved : Nat, fulfilled : Nat]
    /\ attempt \in [Attempts -> AttemptStatus]
    /\ attemptOrder \in [Attempts -> Orders \union {NoOrder}]
    /\ event \in [Events -> EventRecord \union {NoEvent}]
    /\ intent \in [Intents -> IntentStatus]
    /\ intentAttempt \in [Intents -> Attempts \union {NoAttempt}]
    /\ txn \in [Intents -> TxnStatus]
    /\ lapsed \subseteq Intents
    /\ ledger \in [Intents -> {"absent", "success", "failed"}]
    /\ place \in [Intents -> Place]
    /\ evidence \in [Intents -> EvidenceRecord \union {NoEvidence}]
    /\ cursor \in Place

PayersOf(o) == {a \in Attempts : attemptOrder[a] = o /\ attempt[a] = "confirmed"}

(* Checkout keeps the promise of OrderLifecycle: record_payment_event and  *)
(* record_chain_evidence, in any order and over any attempts and intents,  *)
(* pay an order once, out of one attempt.                                  *)
Lifecycle == INSTANCE OrderLifecycle WITH
    status <- order,
    Payers <- Attempts,
    payers <- [o \in Orders |-> PayersOf(o)]

PaysLifecycle == Lifecycle!Spec

(* A settled order has one confirmed attempt and no other order has any.   *)
PaidByOneAttempt == Lifecycle!PaidByOne

(* While an attempt is still open its order waits for payment, so neither  *)
(* handler can pay an order behind the back of an attempt in progress, and *)
(* UPDATE orders ... WHERE status = 'awaiting_payment' never misses.       *)
ActiveAttemptIsAwaited ==
    \A a \in Attempts :
        attempt[a] \in ActiveAttempt => order[attemptOrder[a]] = "awaiting_payment"

(* The two proofs of payment an attempt can have. *)
ProvenByEvent(a) ==
    \E e \in Events :
        /\ event[e] # NoEvent
        /\ event[e].attempt = a
        /\ event[e].result = "processed"
        /\ event[e].outcome = "confirmed"

ProvenByChain(a) ==
    \E i \in Intents :
        /\ intentAttempt[i] = a
        /\ AlreadyReconciled(i)
        /\ intent[i] = "confirmed"
        /\ ledger[i] = "success"

(* An attempt is confirmed by exactly one proof: a processed provider      *)
(* event, or accepted evidence of a transaction that did succeed, never by *)
(* both and never by neither (record_payment_event, confirm_payment_state). *)
ConfirmedByOneProof ==
    \A a \in Attempts :
        /\ attempt[a] = "confirmed" <=> ProvenByEvent(a) \/ ProvenByChain(a)
        /\ ~(ProvenByEvent(a) /\ ProvenByChain(a))

(* The intent and the row of stellar_transactions that repeats its status  *)
(* are kept in step by accept_signed_envelope, record_submission_receipt   *)
(* and confirm_payment_state, and an intent is confirmed only with the     *)
(* accepted evidence of its own transaction in the table.                  *)
ConfirmedIntentHasEvidence ==
    \A i \in Intents :
        /\ IF txn[i] = "none" THEN intent[i] \in {"none", "awaiting_signature", "expired"}
                              ELSE intent[i] = txn[i]
        /\ intent[i] = "confirmed" <=> Accepted(i)
        /\ Accepted(i) => /\ evidence[i].intent = i
                          /\ ledger[i] = "success"
                          /\ attempt[intentAttempt[i]] = "confirmed"

(* Evidence is accepted once per order, whatever attempts and intents the  *)
(* order went through (stellar_reconciliation_one_accepted_per_intent, the *)
(* attempt and order guards of confirm_payment_state).                     *)
AcceptedOncePerOrder ==
    \A h, k \in Intents :
        Accepted(h) /\ Accepted(k) /\ OrderOf(h) = OrderOf(k) => h = k

(* The cursor stands at one of the accepted transactions, and at none that *)
(* is before another, in whatever order the evidence of different orders   *)
(* came in and also when several are in one ledger.  Last is what WHERE in  *)
(* of advance_cursor says: within a ledger, the token greatest as a text,  *)
(* which is the last operation only if the tokens are of one length.        *)
CursorAtLastAccepted ==
    /\ \A h \in Intents : Accepted(h) => ~Before(cursor, place[h])
    /\ cursor # Nowhere => \E h \in Intents : Accepted(h) /\ place[h] = cursor

(* services/api/migrations/202607140005_stellar_chain_reconciliation.sql,  *)
(* lines 2-3: "Application payment state may advance only through accepted *)
(* rows created from indexed chain evidence."                              *)
OnlyChainPays ==
    \A o \in Orders : order[o] \in Settled =>
        \E h \in Intents : Accepted(h) /\ OrderOf(h) = o

(* docs/architecture/worker-stellar-processing-boundary.md line 108: "A    *)
(* retry must not create a second charge, mint, ticket, payout, or vote."  *)
(* Here: of two transactions that were both received and both went through *)
(* on the ledger, no two are for the same order.                           *)
Charged(i) == txn[i] \in {"submitted", "confirmed"} /\ ledger[i] = "success"

NoSecondCharge ==
    \A i, j \in Intents :
        Charged(i) /\ Charged(j) /\ OrderOf(i) = OrderOf(j) => i = j

(* What module LedgerConfirmation says of orders that the chain pays.      *)
ChainPaid(h, o) == Accepted(h) /\ OrderOf(h) = o
PaymentsWanted == [o \in {k \in Orders : order[k] # "none"} |-> {o}]
PaymentsApplied ==
    [i \in {j \in Intents : ledger[j] = "success"} |-> OrderOf(i)]
PaymentsConfirmed ==
    [o \in {k \in Orders : \E h \in Intents : ChainPaid(h, k)} |->
        CHOOSE h \in Intents : ChainPaid(h, o)]

Confirmation == INSTANCE LedgerConfirmation WITH
    wanted <- PaymentsWanted,
    applied <- PaymentsApplied,
    confirmedBy <- PaymentsConfirmed

(* An order that chain evidence paid is on the ledger: it was paid so once *)
(* and for good, by a transaction that pays it and no other order, however *)
(* many attempts and intents it went through (record_chain_evidence).      *)
ConfirmsPayments == Confirmation!Spec
=============================================================================
