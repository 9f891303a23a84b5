--------------------------- MODULE CheckoutProofs ---------------------------
(***************************************************************************)
(* Proofs about the checkout (module Payment) and the sale of tickets on   *)
(* top of it (module TicketSales), for any orders, attempts, events,       *)
(* intents and buyers.                                                     *)
(*                                                                         *)
(* The checkout alone.  Its inductive invariant IInv has two parts:        *)
(* OrderInv is about orders and attempts and says why the attempt an order *)
(* waits for is the only one that can pay it; ChainInv adds intents,       *)
(* transactions, evidence and the cursor, and needs OrderInv to know that  *)
(* an attempt which is still active has not been paid another way.  Orders *)
(* implement OrderLifecycle and, as far as the chain pays them,            *)
(* LedgerConfirmation.                                                     *)
(*                                                                         *)
(* The sale of tickets.  The checkout's own invariant does not hold here:  *)
(* release lets an order expire while an attempt on it is open, and the    *)
(* attempt may still be confirmed.  AttemptInv is what remains of it, and  *)
(* EvidenceInv says why evidence, unlike an event, cannot confirm an       *)
(* expired order.  SaleInv is the inductive invariant; with it, the two    *)
(* statements about sums, StockConserved and PerUserLimitKept, are         *)
(* inductive as they stand.                                                *)
(***************************************************************************)
EXTENDS TicketSales, SumTheorems

(***************************************************************************)
(* The checkout                                                            *)
(***************************************************************************)
AttemptHasOrder ==
    \A a \in Attempts :
        IF attempt[a] = "none" THEN attemptOrder[a] = NoOrder
                               ELSE attemptOrder[a] \in Orders

AttemptOfOrder(a) == attempt[a] # "none" => order[attemptOrder[a]] # "none"

OneActiveAttempt ==
    \A a, b \in Attempts :
        /\ attempt[a] \in ActiveAttempt
        /\ attempt[b] \in ActiveAttempt
        /\ attemptOrder[a] = attemptOrder[b]
        => a = b

ConfirmedIsSettled ==
    \A a \in Attempts :
        attempt[a] = "confirmed" => order[attemptOrder[a]] \in Settled

OneConfirmedAttempt ==
    \A a, b \in Attempts :
        /\ attempt[a] = "confirmed"
        /\ attempt[b] = "confirmed"
        /\ attemptOrder[a] = attemptOrder[b]
        => a = b

SettledIsConfirmed ==
    \A o \in Orders : order[o] \in Settled =>
        \E a \in Attempts : attemptOrder[a] = o /\ attempt[a] = "confirmed"

OrderInv ==
    /\ AttemptHasOrder
    /\ \A a \in Attempts : AttemptOfOrder(a)
    /\ OneActiveAttempt
    /\ ActiveAttemptIsAwaited
    /\ ConfirmedIsSettled
    /\ OneConfirmedAttempt
    /\ SettledIsConfirmed

IntentHasAttempt ==
    \A i \in Intents :
        IF intent[i] = "none" THEN intentAttempt[i] = NoAttempt
        ELSE /\ intentAttempt[i] \in Attempts
             /\ attempt[intentAttempt[i]] # "none"

ChainInv ==
    /\ IntentHasAttempt
    /\ ConfirmedIntentHasEvidence
    /\ AcceptedOncePerOrder
    /\ CursorAtLastAccepted
    /\ ConfirmedByOneProof

IInv == TypeOK /\ OrderInv /\ ChainInv
-----------------------------------------------------------------------------
(* The empty tables a deployment starts with have the right types.         *)
LEMMA TypeInit == Init => TypeOK
  BY PaymentAssumption DEF Init, TypeOK, OrderStatus, AttemptStatus, IntentStatus,
     TxnStatus, Place, Nowhere

(* Storing evidence writes one row, of the right type, and leaves the      *)
(* evidence of every other transaction alone (record_chain_evidence).      *)
LEMMA StoredEvidence ==
  ASSUME TypeOK, NEW i \in Intents, NEW h \in Intents, NEW body \in Bodies,
         NEW result \in {"accepted", "rejected"}, StoreEvidence(i, h, body, result)
  PROVE  /\ evidence' \in [Intents -> EvidenceRecord \union {NoEvidence}]
         /\ evidence'[h] # NoEvidence
         /\ evidence'[h].intent = i
         /\ evidence'[h].result = result
         /\ \A k \in Intents \ {h} : evidence'[k] = evidence[k]
<1> DEFINE row == [intent |-> i, body |-> body, success |-> ledger[h] = "success",
                   result |-> result]
<1>1. (ledger[h] = "success") \in BOOLEAN
  OBVIOUS
<1>2. row \in EvidenceRecord
  BY <1>1, Zenon DEF EvidenceRecord
<1>3. row.intent = i /\ row.result = result
  BY Zenon
<1>4. evidence' = [evidence EXCEPT ![h] = row]
  BY DEF StoreEvidence
<1> HIDE DEF row
<1> QED
  BY <1>2, <1>3, <1>4, RecordAssumption DEF TypeOK

(* No handler, and no step of the network, leaves the types.               *)
LEMMA TypeStep == TypeOK /\ [Next]_vars => TypeOK'
<1> SUFFICES ASSUME TypeOK, [Next]_vars
             PROVE  TypeOK'
  OBVIOUS
<1> USE DEF TypeOK, orderVars, attemptVars, intentVars, chainVars, evidenceVars
<1>1. CASE UNCHANGED vars
  BY <1>1 DEF vars
<1>2. ASSUME NEW o \in Orders, NEW q \in 1..MaxQuantity, CreateOrder(o, q)
      PROVE  TypeOK'
  BY <1>2, PaymentAssumption DEF CreateOrder, Reserve, OrderStatus
<1>3. ASSUME NEW a \in Attempts, NEW o \in Orders, CreatePaymentAttempt(a, o)
      PROVE  TypeOK'
  BY <1>3 DEF CreatePaymentAttempt, AttemptStatus
<1>4. ASSUME NEW i \in Intents, NEW a \in Attempts, CreateTransactionIntent(i, a)
      PROVE  TypeOK'
  BY <1>4 DEF CreateTransactionIntent, IntentStatus
<1>5. ASSUME NEW i \in Intents, AcceptSignedEnvelope(i)
      PROVE  TypeOK'
  BY <1>5 DEF AcceptSignedEnvelope, IntentStatus, TxnStatus
<1>6. ASSUME NEW i \in Intents, RecordSubmissionReceipt(i)
      PROVE  TypeOK'
  BY <1>6 DEF RecordSubmissionReceipt, IntentStatus, TxnStatus
<1>7. ASSUME NEW a \in Attempts, NEW e \in Events, NEW outcome \in Outcomes,
             NEW body \in Bodies, RecordPaymentEvent(a, e, outcome, body)
      PROVE  TypeOK'
  <2>1. event' \in [Events -> EventRecord \union {NoEvent}]
    BY <1>7 DEF RecordPaymentEvent, EventRecord
  <2>2. order' \in [Orders -> OrderStatus]
    BY <1>7 DEF RecordPaymentEvent, MarkPaid, OrderStatus
  <2>3. attempt' \in [Attempts -> AttemptStatus]
    BY <1>7 DEF RecordPaymentEvent, AttemptStatus
  <2> QED
    BY <1>7, <2>1, <2>2, <2>3 DEF RecordPaymentEvent
<1>8. ASSUME NEW i \in Intents, NEW h \in Intents, NEW body \in Bodies,
             RecordChainEvidence(i, h, body)
      PROVE  TypeOK'
  <2>1. evidence' \in [Intents -> EvidenceRecord \union {NoEvidence}]
    BY <1>8, StoredEvidence DEF RecordChainEvidence
  <2>2. /\ order' \in [Orders -> OrderStatus]
        /\ attempt' \in [Attempts -> AttemptStatus]
        /\ intent' \in [Intents -> IntentStatus]
        /\ txn' \in [Intents -> TxnStatus]
    BY <1>8 DEF RecordChainEvidence, ConfirmPaymentState, OrderStatus,
       AttemptStatus, IntentStatus, TxnStatus
  <2>3. cursor' \in Place
    BY <1>8 DEF RecordChainEvidence, AdvanceCursor
  <2> QED
    BY <1>8, <2>1, <2>2, <2>3 DEF RecordChainEvidence
<1>9. ASSUME NEW i \in Intents, IntentLapses(i)
      PROVE  TypeOK'
  BY <1>9 DEF IntentLapses
<1>10. ASSUME NEW i \in Intents, NEW outcome \in {"success", "failed"},
              NEW p \in [ledger : Ledgers, token : PagingTokens],
              LedgerApplies(i, outcome, p)
       PROVE  TypeOK'
  <2>1. p \in Place
    BY PaymentAssumption DEF Place
  <2> QED
    BY <1>10, <2>1 DEF LedgerApplies
<1> QED
  BY <1>1, <1>2, <1>3, <1>4, <1>5, <1>6, <1>7, <1>8, <1>9, <1>10
  DEF Next, Pays, Signs, Network

(* Every handler leaves every table within the values its columns may hold. *)
THEOREM PaymentTypes == Spec => []TypeOK
  BY TypeInit, TypeStep, PTL DEF Spec
-----------------------------------------------------------------------------
(* What the handlers do to orders and attempts, and nothing else does: an  *)
(* attempt fails, or it pays the order that waits for it.                  *)
Fails(a) ==
    /\ attempt[a] \in ActiveAttempt
    /\ attempt' = [attempt EXCEPT ![a] = "failed"]
    /\ UNCHANGED <<order, attemptOrder>>

PaysFor(a) ==
    /\ attempt[a] \in ActiveAttempt
    /\ order[attemptOrder[a]] = "awaiting_payment"
    /\ attempt' = [attempt EXCEPT ![a] = "confirmed"]
    /\ order' = [order EXCEPT ![attemptOrder[a]] = "paid"]
    /\ UNCHANGED attemptOrder

OrderStep ==
    \/ UNCHANGED <<order, attempt, attemptOrder>>
    \/ \E o \in Orders :
        /\ order[o] = "none"
        /\ order' = [order EXCEPT ![o] = "awaiting_payment"]
        /\ UNCHANGED <<attempt, attemptOrder>>
    \/ \E a \in Attempts, o \in Orders :
        /\ attempt[a] = "none"
        /\ order[o] = "awaiting_payment"
        /\ ~HasActiveAttempt(o)
        /\ attempt' = [attempt EXCEPT ![a] = "awaiting_confirmation"]
        /\ attemptOrder' = [attemptOrder EXCEPT ![a] = o]
        /\ UNCHANGED order
    \/ \E a \in Attempts : Fails(a) \/ PaysFor(a)

(* record_payment_event fails the attempt, pays for its order with it, or  *)
(* touches neither.                                                        *)
LEMMA EventPays ==
  ASSUME TypeOK, OrderInv,
         NEW a \in Attempts, NEW e \in Events, NEW outcome \in Outcomes,
         NEW body \in Bodies, RecordPaymentEvent(a, e, outcome, body)
  PROVE  IF body # "exact" THEN UNCHANGED <<order, attempt, attemptOrder>>
         ELSE IF outcome = "confirmed" THEN PaysFor(a) ELSE Fails(a)
<1>1. /\ attempt[a] \in ActiveAttempt
      /\ attemptOrder[a] \in Orders
      /\ order[attemptOrder[a]] = "awaiting_payment"
  BY DEF RecordPaymentEvent, OrderInv, AttemptHasOrder, ActiveAttemptIsAwaited,
     ActiveAttempt
<1> QED
  BY <1>1 DEF RecordPaymentEvent, MarkPaid, PaysFor, Fails, Outcomes, TypeOK

(* confirm_payment_state pays for the order of an active attempt.          *)
LEMMA EvidencePays ==
  ASSUME TypeOK, NEW i \in Intents, ConfirmPaymentState(i), UNCHANGED attemptOrder
  PROVE  PaysFor(intentAttempt[i])
  BY DEF ConfirmPaymentState, PaysFor, OrderOf

(* Seen from the orders and attempts, a step of the system is one of five: *)
(* nothing, a new order, a new attempt, an attempt that fails, and one     *)
(* that pays.                                                              *)
LEMMA NextIsOrderStep ==
  ASSUME TypeOK, OrderInv, IntentHasAttempt, [Next]_vars
  PROVE  OrderStep
<1> USE DEF orderVars, attemptVars
<1>1. CASE UNCHANGED vars
  BY <1>1 DEF vars, OrderStep
<1>2. CASE \E o \in Orders, q \in 1..MaxQuantity : CreateOrder(o, q)
  BY <1>2 DEF CreateOrder, OrderStep
<1>3. CASE Signs
  BY <1>3 DEF Signs, CreatePaymentAttempt, CreateTransactionIntent,
     AcceptSignedEnvelope, RecordSubmissionReceipt, OrderStep
<1>4. CASE Network
  BY <1>4 DEF Network, IntentLapses, LedgerApplies, OrderStep
<1>5. ASSUME NEW a \in Attempts, NEW e \in Events, NEW outcome \in Outcomes,
             NEW body \in Bodies, RecordPaymentEvent(a, e, outcome, body)
      PROVE  OrderStep
  BY <1>5, EventPays DEF OrderStep
<1>6. ASSUME NEW i \in Intents, NEW h \in Intents, NEW body \in Bodies,
             RecordChainEvidence(i, h, body)
      PROVE  OrderStep
  <2>1. CASE UNCHANGED <<order, attempt>>
    BY <1>6, <2>1 DEF RecordChainEvidence, OrderStep
  <2>2. CASE ConfirmPaymentState(i)
    <3>1. intentAttempt[i] \in Attempts
      BY <2>2 DEF ConfirmPaymentState, IntentHasAttempt
    <3> QED
      BY <1>6, <2>2, <3>1, EvidencePays DEF RecordChainEvidence, OrderStep
  <2> QED
    BY <1>6, <2>1, <2>2 DEF RecordChainEvidence
<1> QED
  BY <1>1, <1>2, <1>3, <1>4, <1>5, <1>6 DEF Next, Pays

(* There are no orders and no attempts to start with.                      *)
LEMMA OrderInit == Init => OrderInv
  BY DEF Init, OrderInv, AttemptHasOrder, AttemptOfOrder, OneActiveAttempt,
     ActiveAttemptIsAwaited, ConfirmedIsSettled, OneConfirmedAttempt,
     SettledIsConfirmed, ActiveAttempt, Settled

(* Each of the five keeps the invariant of orders and attempts.            *)
LEMMA OrderStepKeepsInv ==
  ASSUME TypeOK, OrderInv, OrderStep
  PROVE  OrderInv'
<1> USE PaymentAssumption
<1> USE DEF TypeOK, OrderInv, AttemptHasOrder, AttemptOfOrder, OneActiveAttempt,
            ActiveAttemptIsAwaited, ConfirmedIsSettled, OneConfirmedAttempt,
            SettledIsConfirmed, ActiveAttempt, Settled
<1>1. CASE UNCHANGED <<order, attempt, attemptOrder>>
  BY <1>1
<1>2. ASSUME NEW o \in Orders,
             order[o] = "none",
             order' = [order EXCEPT ![o] = "awaiting_payment"],
             UNCHANGED <<attempt, attemptOrder>>
      PROVE  OrderInv'
  BY <1>2
<1>3. ASSUME NEW a \in Attempts, NEW o \in Orders,
             attempt[a] = "none",
             order[o] = "awaiting_payment",
             ~HasActiveAttempt(o),
             attempt' = [attempt EXCEPT ![a] = "awaiting_confirmation"],
             attemptOrder' = [attemptOrder EXCEPT ![a] = o],
             UNCHANGED order
      PROVE  OrderInv'
  BY <1>3 DEF HasActiveAttempt
<1>4. ASSUME NEW a \in Attempts, Fails(a)
      PROVE  OrderInv'
  BY <1>4 DEF Fails
<1>5. ASSUME NEW a \in Attempts, PaysFor(a)
      PROVE  OrderInv'
  <2> DEFINE o == attemptOrder[a]
  <2>1. /\ o \in Orders
        /\ attempt' = [attempt EXCEPT ![a] = "confirmed"]
        /\ order' = [order EXCEPT ![o] = "paid"]
        /\ attemptOrder' = attemptOrder
    BY <1>5 DEF PaysFor
  <2>2. \A b \in Attempts \ {a} :
            attemptOrder[b] = o => attempt[b] \notin ActiveAttempt \union {"confirmed"}
    BY <1>5 DEF PaysFor
  <2>3. AttemptHasOrder' /\ (\A b \in Attempts : AttemptOfOrder(b)')
    BY <2>1
  <2>4. OneActiveAttempt' /\ ActiveAttemptIsAwaited'
    BY <2>1, <2>2
  <2>5. ConfirmedIsSettled' /\ OneConfirmedAttempt'
    BY <2>1, <2>2
  <2>6. SettledIsConfirmed'
    BY <2>1
  <2> QED
    BY <2>3, <2>4, <2>5, <2>6
<1> QED
  BY <1>1, <1>2, <1>3, <1>4, <1>5 DEF OrderStep
-----------------------------------------------------------------------------
(* There are no intents and no evidence to start with.                     *)
LEMMA ChainInit == Init => ChainInv
  BY RecordAssumption DEF Init, ChainInv, IntentHasAttempt,
     ConfirmedIntentHasEvidence, Accepted, AcceptedOncePerOrder,
     CursorAtLastAccepted, ConfirmedByOneProof, ProvenByEvent, ProvenByChain

(* In a state with ChainInv the proof by chain is about the intent's own   *)
(* evidence.                                                               *)
LEMMA ChainProof ==
  ASSUME ConfirmedIntentHasEvidence, NEW a
  PROVE  ProvenByChain(a) <=> \E i \in Intents : intentAttempt[i] = a /\ Accepted(i)
  BY DEF ConfirmedIntentHasEvidence, ProvenByChain, AlreadyReconciled

(* Handlers that touch no evidence, no event and no attempt that is        *)
(* confirmed or has an accepted intent.                                    *)
LEMMA QuietStep ==
  ASSUME TypeOK, OrderInv, ChainInv,
         UNCHANGED <<evidence, cursor, event>>,
         ConfirmedIntentHasEvidence',
         \A a \in Attempts : attempt'[a] = "confirmed" <=> attempt[a] = "confirmed",
         \A a \in Attempts : attempt[a] = "confirmed" => attemptOrder'[a] = attemptOrder[a],
         \A i \in Intents : Accepted(i) => /\ intentAttempt'[i] = intentAttempt[i]
                                           /\ place'[i] = place[i]
  PROVE  AcceptedOncePerOrder' /\ CursorAtLastAccepted' /\ ConfirmedByOneProof'
<1> USE DEF ChainInv
<1>1. \A i \in Intents : Accepted(i)' <=> Accepted(i)
  BY DEF Accepted
<1>2. \A i \in Intents : Accepted(i) => /\ intentAttempt[i] \in Attempts
                                        /\ attempt[intentAttempt[i]] = "confirmed"
  BY DEF ConfirmedIntentHasEvidence, IntentHasAttempt
<1>3. \A i \in Intents : Accepted(i) => OrderOf(i)' = OrderOf(i)
  BY <1>2 DEF OrderOf
<1>4. AcceptedOncePerOrder'
  BY <1>1, <1>3 DEF AcceptedOncePerOrder
<1>5. CursorAtLastAccepted'
  BY <1>1 DEF CursorAtLastAccepted
<1>6. \A a \in Attempts : ProvenByEvent(a)' <=> ProvenByEvent(a)
  BY DEF ProvenByEvent
<1>7. \A a \in Attempts : ProvenByChain(a)' <=> ProvenByChain(a)
  <2>1. \A a \in Attempts :
           ProvenByChain(a)' <=> \E i \in Intents : intentAttempt'[i] = a /\ Accepted(i)'
    BY DEF ConfirmedIntentHasEvidence, ProvenByChain, AlreadyReconciled, Accepted
  <2>2. \A a \in Attempts :
           ProvenByChain(a) <=> \E i \in Intents : intentAttempt[i] = a /\ Accepted(i)
    BY ChainProof
  <2> QED
    BY <2>1, <2>2, <1>1
<1>8. ConfirmedByOneProof'
  BY <1>6, <1>7 DEF ConfirmedByOneProof
<1> QED
  BY <1>4, <1>5, <1>8

(* The handlers and network steps that accept no evidence and confirm no   *)
(* attempt keep the invariant of the chain side.                           *)
LEMMA IntentStep ==
  ASSUME TypeOK, OrderInv, ChainInv, [Next]_vars
  PROVE  IntentHasAttempt' /\ ConfirmedIntentHasEvidence'
<1> USE DEF TypeOK, ChainInv, orderVars, attemptVars, intentVars, chainVars,
            evidenceVars, IntentHasAttempt
<1>1. CASE UNCHANGED vars
  BY <1>1 DEF vars, ConfirmedIntentHasEvidence, Accepted
<1>2. ASSUME NEW o \in Orders, NEW q \in 1..MaxQuantity, CreateOrder(o, q)
      PROVE  IntentHasAttempt' /\ ConfirmedIntentHasEvidence'
  BY <1>2 DEF CreateOrder, ConfirmedIntentHasEvidence, Accepted
<1>3. ASSUME NEW a \in Attempts, NEW o \in Orders, CreatePaymentAttempt(a, o)
      PROVE  IntentHasAttempt' /\ ConfirmedIntentHasEvidence'
  BY <1>3 DEF CreatePaymentAttempt, ConfirmedIntentHasEvidence, Accepted
<1>4. ASSUME NEW i \in Intents, NEW a \in Attempts, CreateTransactionIntent(i, a)
      PROVE  IntentHasAttempt' /\ ConfirmedIntentHasEvidence'
  BY <1>4 DEF CreateTransactionIntent, ConfirmedIntentHasEvidence, Accepted,
     ActiveAttempt
<1>5. ASSUME NEW i \in Intents, AcceptSignedEnvelope(i)
      PROVE  IntentHasAttempt' /\ ConfirmedIntentHasEvidence'
  BY <1>5 DEF AcceptSignedEnvelope, ConfirmedIntentHasEvidence, Accepted
<1>6. ASSUME NEW i \in Intents, RecordSubmissionReceipt(i)
      PROVE  IntentHasAttempt' /\ ConfirmedIntentHasEvidence'
  BY <1>6 DEF RecordSubmissionReceipt, ConfirmedIntentHasEvidence, Accepted
<1>7. ASSUME NEW a \in Attempts, NEW e \in Events, NEW outcome \in Outcomes,
             NEW body \in Bodies, RecordPaymentEvent(a, e, outcome, body)
      PROVE  IntentHasAttempt' /\ ConfirmedIntentHasEvidence'
  BY <1>7 DEF RecordPaymentEvent, ConfirmedIntentHasEvidence, Accepted,
     ActiveAttempt
<1>8. ASSUME NEW i \in Intents, NEW h \in Intents, NEW body \in Bodies,
             RecordChainEvidence(i, h, body)
      PROVE  IntentHasAttempt' /\ ConfirmedIntentHasEvidence'
  <2>1. IntentHasAttempt'
    BY <1>8 DEF RecordChainEvidence, ConfirmPaymentState
  <2>2. CASE ~Reconciles(i, h, body)
    <3>1. \A k \in Intents : Accepted(k)' <=> Accepted(k)
      BY <1>8, <2>2 DEF RecordChainEvidence, StoreEvidence, Accepted
    <3>2. \A k \in Intents : Accepted(k) => evidence'[k] = evidence[k]
      BY <1>8, <2>2 DEF RecordChainEvidence, StoreEvidence, Accepted
    <3> QED
      BY <1>8, <2>2, <3>1, <3>2 DEF RecordChainEvidence, ConfirmedIntentHasEvidence
  <2>3. CASE Reconciles(i, h, body)
    <3>1. /\ h = i
          /\ ledger[i] = "success"
          /\ StoreEvidence(i, i, body, "accepted")
          /\ ConfirmPaymentState(i)
          /\ UNCHANGED <<intentAttempt, ledger>>
      BY <1>8, <2>3 DEF RecordChainEvidence, Reconciles
    <3>2. Accepted(i)' /\ evidence'[i].intent = i
      BY <3>1, StoredEvidence DEF Accepted
    <3>3. \A k \in Intents \ {i} : evidence'[k] = evidence[k]
      BY <3>1, StoredEvidence
    <3>4. /\ attempt'[intentAttempt[i]] = "confirmed"
          /\ \A a \in Attempts : attempt[a] = "confirmed" => attempt'[a] = "confirmed"
      BY <3>1 DEF ConfirmPaymentState
    <3> QED
      BY <3>1, <3>2, <3>3, <3>4 DEF ConfirmPaymentState,
         ConfirmedIntentHasEvidence, Accepted
  <2> QED
    BY <2>1, <2>2, <2>3
<1>9. ASSUME NEW i \in Intents, IntentLapses(i)
      PROVE  IntentHasAttempt' /\ ConfirmedIntentHasEvidence'
  BY <1>9 DEF IntentLapses, ConfirmedIntentHasEvidence, Accepted
<1>10. ASSUME NEW i \in Intents, NEW outcome \in {"success", "failed"},
              NEW p \in [ledger : Ledgers, token : PagingTokens],
              LedgerApplies(i, outcome, p)
       PROVE  IntentHasAttempt' /\ ConfirmedIntentHasEvidence'
  BY <1>10 DEF LedgerApplies, ConfirmedIntentHasEvidence, Accepted
<1> QED
  BY <1>1, <1>2, <1>3, <1>4, <1>5, <1>6, <1>7, <1>8, <1>9, <1>10
  DEF Next, Pays, Signs, Network

(* An attempt that is not confirmed yet has no proof of either kind, so    *)
(* the handler that confirms it gives it its only one.                     *)
LEMMA ConfirmedNeedsProof ==
  ASSUME ChainInv, NEW a \in Attempts, attempt[a] # "confirmed"
  PROVE  ~ProvenByEvent(a) /\ \A i \in Intents : intentAttempt[i] = a => ~Accepted(i)
  BY ChainProof DEF ChainInv, ConfirmedByOneProof

(* record_payment_event keeps the invariant of the chain side.             *)
LEMMA EventStep ==
  ASSUME TypeOK, OrderInv, ChainInv, ConfirmedIntentHasEvidence',
         NEW a \in Attempts, NEW e \in Events, NEW outcome \in Outcomes,
         NEW body \in Bodies, RecordPaymentEvent(a, e, outcome, body)
  PROVE  AcceptedOncePerOrder' /\ CursorAtLastAccepted' /\ ConfirmedByOneProof'
<1> USE DEF TypeOK, intentVars, chainVars, evidenceVars
<1>1. /\ attempt[a] \in ActiveAttempt
      /\ UNCHANGED <<attemptOrder, intentAttempt, intent, ledger, place,
                     evidence, cursor>>
  BY DEF RecordPaymentEvent
<1>2. AcceptedOncePerOrder' /\ CursorAtLastAccepted'
  BY <1>1 DEF ChainInv, AcceptedOncePerOrder, CursorAtLastAccepted, Accepted, OrderOf
<1>3. \A b \in Attempts : ProvenByChain(b)' <=> ProvenByChain(b)
  BY <1>1 DEF ProvenByChain, AlreadyReconciled, Accepted
<1>4. ~ProvenByEvent(a) /\ ~ProvenByChain(a)
  BY <1>1 DEF ActiveAttempt, ChainInv, ConfirmedByOneProof
<1>5. /\ event[e] = NoEvent
      /\ event'[e] = [attempt |-> a, outcome |-> outcome, body |-> body,
                      result |-> IF body = "exact" THEN "processed" ELSE "rejected"]
      /\ \A d \in Events \ {e} : event'[d] = event[d]
  BY DEF RecordPaymentEvent
<1>6. event'[e] # NoEvent
  BY <1>5, RecordAssumption DEF EventRecord
<1>7. \A b \in Attempts \ {a} : /\ ProvenByEvent(b)' <=> ProvenByEvent(b)
                                /\ attempt'[b] = attempt[b]
  BY <1>5 DEF ProvenByEvent, RecordPaymentEvent
<1>8. /\ ProvenByEvent(a)' <=> body = "exact" /\ outcome = "confirmed"
      /\ attempt'[a] = "confirmed" <=> body = "exact" /\ outcome = "confirmed"
  <2>1. ProvenByEvent(a)' <=> body = "exact" /\ outcome = "confirmed"
    BY <1>4, <1>5, <1>6 DEF ProvenByEvent
  <2>2. attempt'[a] = "confirmed" <=> body = "exact" /\ outcome = "confirmed"
    BY <1>1 DEF RecordPaymentEvent, ActiveAttempt, Outcomes
  <2> QED
    BY <2>1, <2>2
<1>9. ConfirmedByOneProof'
  BY <1>3, <1>4, <1>7, <1>8 DEF ChainInv, ConfirmedByOneProof
<1> QED
  BY <1>2, <1>9

(* record_chain_evidence keeps it.                                         *)
LEMMA EvidenceStep ==
  ASSUME TypeOK, OrderInv, ChainInv, ConfirmedIntentHasEvidence',
         NEW i \in Intents, NEW h \in Intents, NEW body \in Bodies,
         RecordChainEvidence(i, h, body)
  PROVE  AcceptedOncePerOrder' /\ CursorAtLastAccepted' /\ ConfirmedByOneProof'
<1> USE DEF TypeOK, intentVars, chainVars, evidenceVars
<1>1. CASE ~Reconciles(i, h, body)
  <2>1. /\ StoreEvidence(i, h, body, "rejected")
        /\ evidence[h] = NoEvidence
        /\ UNCHANGED <<attempt, attemptOrder, event, intentAttempt, cursor,
                       place>>
    BY <1>1 DEF RecordChainEvidence
  <2>2. \A k \in Intents : Accepted(k)' <=> Accepted(k)
    BY <2>1, StoredEvidence DEF Accepted
  <2>3. AcceptedOncePerOrder' /\ CursorAtLastAccepted'
    BY <2>1, <2>2 DEF ChainInv, AcceptedOncePerOrder, CursorAtLastAccepted, OrderOf
  <2>4. \A a \in Attempts : /\ ProvenByEvent(a)' <=> ProvenByEvent(a)
                            /\ ProvenByChain(a)' <=> ProvenByChain(a)
                            /\ attempt'[a] = "confirmed" <=> attempt[a] = "confirmed"
    <3>1. \A a \in Attempts : ProvenByChain(a)' <=>
                \E k \in Intents : intentAttempt'[k] = a /\ Accepted(k)'
      BY DEF ConfirmedIntentHasEvidence, ProvenByChain, AlreadyReconciled, Accepted
    <3> QED
      BY <2>1, <2>2, <3>1, ChainProof DEF ChainInv, ProvenByEvent
  <2>5. ConfirmedByOneProof'
    BY <2>4, Zenon DEF ChainInv, ConfirmedByOneProof
  <2> QED
    BY <2>3, <2>5
<1>2. CASE Reconciles(i, h, body)
  <2> DEFINE a == intentAttempt[i]
  <2>1. /\ h = i
        /\ StoreEvidence(i, i, body, "accepted")
        /\ ConfirmPaymentState(i)
        /\ AdvanceCursor(place[i])
        /\ UNCHANGED <<attemptOrder, event, intentAttempt, place>>
    BY <1>2 DEF RecordChainEvidence, Reconciles
  <2>2. /\ a \in Attempts
        /\ attempt[a] \in ActiveAttempt
        /\ attempt' = [attempt EXCEPT ![a] = "confirmed"]
        /\ order[attemptOrder[a]] = "awaiting_payment"
    BY <2>1 DEF ConfirmPaymentState, ChainInv, IntentHasAttempt, OrderOf
  <2>3. \A k \in Intents : Accepted(k)' <=> Accepted(k) \/ k = i
    BY <2>1, StoredEvidence DEF Accepted
  <2>4. \A k \in Intents : Accepted(k) => /\ OrderOf(k) # OrderOf(i)
                                          /\ k # i
    <3>1. \A k \in Intents : Accepted(k) => /\ intentAttempt[k] \in Attempts
                                            /\ attempt[intentAttempt[k]] = "confirmed"
      BY DEF ChainInv, ConfirmedIntentHasEvidence, IntentHasAttempt
    <3> QED
      BY <3>1, <2>2 DEF OrderInv, ConfirmedIsSettled, OrderOf, Settled
  <2>5. AcceptedOncePerOrder'
    BY <2>1, <2>3, <2>4 DEF ChainInv, AcceptedOncePerOrder, OrderOf
  <2>6. CursorAtLastAccepted'
    <3>1. cursor \in Place /\ \A k \in Intents : place[k] \in Place
      OBVIOUS
    <3>2. /\ \A k \in Intents : Accepted(k) => ~Before(cursor, place[k])
          /\ place' = place
      BY <2>1 DEF ChainInv, CursorAtLastAccepted
    <3>3. CASE Before(cursor, place[i])
      <4>1. cursor' = place[i]
        BY <2>1, <3>3 DEF AdvanceCursor
      <4>2. \A p, q, r \in Place :
              /\ ~Before(q, p) /\ Before(q, r) => ~Before(r, p)
              /\ ~Before(r, r)
        BY DEF Before, Place
      <4>3. ASSUME NEW k \in Intents, Accepted(k)'
            PROVE  ~Before(place[i], place[k])
        <5> HIDE DEF TypeOK
        <5>1. k = i \/ ~Before(cursor, place[k])
          BY <2>3, <3>2, <4>3
        <5> QED
          BY <3>1, <3>3, <4>2, <5>1
      <4> QED
        BY <2>3, <3>2, <4>1, <4>3 DEF CursorAtLastAccepted, Before
    <3>4. CASE ~Before(cursor, place[i])
      <4>1. cursor' = cursor
        BY <2>1, <3>4 DEF AdvanceCursor
      <4> QED
        BY <2>3, <3>2, <3>4, <4>1
        DEF ChainInv, CursorAtLastAccepted, Before
    <3> QED
      BY <3>3, <3>4
  <2>7. \A b \in Attempts : /\ ProvenByEvent(b)' <=> ProvenByEvent(b)
                            /\ ProvenByChain(b)' <=> ProvenByChain(b) \/ b = a
    <3>1. \A b \in Attempts : ProvenByChain(b)' <=>
                \E k \in Intents : intentAttempt'[k] = b /\ Accepted(k)'
      BY DEF ConfirmedIntentHasEvidence, ProvenByChain, AlreadyReconciled, Accepted
    <3> QED
      BY <2>1, <2>3, <3>1, ChainProof DEF ChainInv, ProvenByEvent
  <2>8. ~ProvenByEvent(a)
    BY <2>2, ConfirmedNeedsProof DEF ActiveAttempt
  <2>9. \A b \in Attempts :
            attempt'[b] = "confirmed" <=> attempt[b] = "confirmed" \/ b = a
    BY <2>2
  <2>10. ConfirmedByOneProof'
    BY <2>7, <2>8, <2>9, Zenon DEF ChainInv, ConfirmedByOneProof
  <2> QED
    BY <2>5, <2>6, <2>10
<1> QED
  BY <1>1, <1>2

(* Every step keeps it.                                                    *)
LEMMA ChainStep ==
  ASSUME TypeOK, OrderInv, ChainInv, [Next]_vars
  PROVE  ChainInv'
<1> USE DEF ChainInv
<1>1. IntentHasAttempt' /\ ConfirmedIntentHasEvidence'
  BY IntentStep
<1>2. CASE Pays
  BY <1>1, <1>2, EventStep, EvidenceStep DEF Pays
<1>3. CASE ~Pays
  <2> USE <1>3 DEF TypeOK, orderVars, attemptVars, intentVars, chainVars, evidenceVars
  <2>1. UNCHANGED <<evidence, cursor, event>>
    BY DEF vars, Next, Signs, Network, CreateOrder, CreatePaymentAttempt,
       CreateTransactionIntent, AcceptSignedEnvelope, RecordSubmissionReceipt,
       IntentLapses, LedgerApplies
  <2>2. /\ \A a \in Attempts : attempt'[a] = "confirmed" <=> attempt[a] = "confirmed"
        /\ \A a \in Attempts :
              attempt[a] = "confirmed" => attemptOrder'[a] = attemptOrder[a]
    BY DEF vars, Next, Signs, Network, CreateOrder, CreatePaymentAttempt,
       CreateTransactionIntent, AcceptSignedEnvelope, RecordSubmissionReceipt,
       IntentLapses, LedgerApplies
  <2>3. \A i \in Intents :
            Accepted(i) => intent[i] = "confirmed" /\ ledger[i] = "success"
    BY DEF ConfirmedIntentHasEvidence
  <2>4. \A i \in Intents :
            /\ intent[i] = "confirmed" => intentAttempt'[i] = intentAttempt[i]
            /\ ledger[i] = "success" => place'[i] = place[i]
    BY DEF vars, Next, Signs, Network, CreateOrder, CreatePaymentAttempt,
       CreateTransactionIntent, AcceptSignedEnvelope, RecordSubmissionReceipt,
       IntentLapses, LedgerApplies
  <2> QED
    BY <1>1, <2>1, <2>2, <2>3, <2>4, QuietStep
<1> QED
  BY <1>2, <1>3
-----------------------------------------------------------------------------
(* The strengthened invariant of the checkout holds in every reachable     *)
(* state: orders and attempts, intents and evidence agree at the end of    *)
(* every handler.                                                          *)
THEOREM PaymentInvariant == Spec => []IInv
<1>1. Init => IInv
  BY TypeInit, OrderInit, ChainInit DEF IInv
<1>2. IInv /\ [Next]_vars => IInv'
  <2> SUFFICES ASSUME IInv, [Next]_vars
               PROVE  IInv'
    OBVIOUS
  <2>1. TypeOK /\ OrderInv /\ ChainInv
    BY DEF IInv
  <2>2. TypeOK'
    BY <2>1, TypeStep
  <2>3. OrderInv'
    BY <2>1, NextIsOrderStep, OrderStepKeepsInv DEF ChainInv
  <2>4. ChainInv'
    BY <2>1, ChainStep
  <2> QED
    BY <2>2, <2>3, <2>4 DEF IInv
<1> QED
  BY <1>1, <1>2, PTL DEF Spec

(* accept_signed_envelope, record_submission_receipt and                   *)
(* confirm_payment_state keep an intent and its transaction in step, and   *)
(* confirm it only with accepted evidence of a transaction that went       *)
(* through.                                                                *)
THEOREM PaymentIntentHasEvidence == Spec => []ConfirmedIntentHasEvidence
<1>1. IInv => ConfirmedIntentHasEvidence
  BY DEF IInv, ChainInv
<1> QED
  BY <1>1, PaymentInvariant, PTL

(* A confirmed attempt always has exactly one proof behind it, a processed *)
(* provider event or accepted evidence of a transaction that succeeded, in *)
(* every interleaving of record_payment_event and record_chain_evidence.   *)
THEOREM PaymentHasOneProof == Spec => []ConfirmedByOneProof
<1>1. IInv => ConfirmedByOneProof
  BY DEF IInv, ChainInv
<1> QED
  BY <1>1, PaymentInvariant, PTL

(* confirm_payment_state accepts evidence once per order, under any number *)
(* of attempts and intents, and only for a transaction that went through.  *)
THEOREM PaymentAcceptsOnce ==
  Spec => [](AcceptedOncePerOrder /\ ConfirmedIntentHasEvidence)
<1>1. IInv => AcceptedOncePerOrder /\ ConfirmedIntentHasEvidence
  BY DEF IInv, ChainInv
<1> QED
  BY <1>1, PaymentInvariant, PTL

(* advance_cursor keeps the cursor at the last accepted transaction in the *)
(* order its WHERE compares, ledger by ledger and text by text, whatever   *)
(* order evidence is reported in and however many are in one ledger.       *)
THEOREM PaymentCursor == Spec => []CursorAtLastAccepted
<1>1. IInv => CursorAtLastAccepted
  BY DEF IInv, ChainInv
<1> QED
  BY <1>1, PaymentInvariant, PTL

(* No attempt stays open on an order that no longer waits for payment.     *)
THEOREM PaymentActiveIsAwaited == Spec => []ActiveAttemptIsAwaited
<1>1. IInv => ActiveAttemptIsAwaited
  BY DEF IInv, OrderInv
<1> QED
  BY <1>1, PaymentInvariant, PTL

(* A settled order has been paid by exactly one attempt.                   *)
THEOREM PaymentPaidByOne == Spec => []PaidByOneAttempt
<1>1. IInv => PaidByOneAttempt
  BY DEF IInv, OrderInv, AttemptHasOrder, ConfirmedIsSettled,
     OneConfirmedAttempt, SettledIsConfirmed, PaidByOneAttempt, PayersOf,
     Lifecycle!PaidByOne, Lifecycle!Settled, Settled
<1> QED
  BY <1>1, PaymentInvariant, PTL

(* The checkout handlers implement the lifecycle of an order: a step of    *)
(* theirs that touches an order or a confirmed attempt is a step of it.    *)
THEOREM PaymentImplementsLifecycle == Spec => PaysLifecycle
<1>1. Init => Lifecycle!Init
  BY DEF Init, Lifecycle!Init, PayersOf
<1>2. IInv /\ [Next]_vars => [Lifecycle!Next]_(Lifecycle!vars)
  <2> SUFFICES ASSUME IInv, [Next]_vars
               PROVE  [Lifecycle!Next]_(Lifecycle!vars)
    OBVIOUS
  <2> USE DEF Lifecycle!vars
  <2>1. TypeOK /\ OrderInv /\ OrderStep
    BY NextIsOrderStep DEF IInv, ChainInv
  <2>2. CASE UNCHANGED <<order, attempt, attemptOrder>>
    BY <2>2 DEF PayersOf
  <2>3. ASSUME NEW o \in Orders,
               order[o] = "none",
               order' = [order EXCEPT ![o] = "awaiting_payment"],
               UNCHANGED <<attempt, attemptOrder>>
        PROVE  Lifecycle!Next
    <3>1. Lifecycle!Expired({}) = order
      BY <2>1 DEF TypeOK, Lifecycle!Expired
    <3>2. Lifecycle!Place(o, {})
      BY <2>3, <3>1 DEF Lifecycle!Place, PayersOf
    <3>3. \E overdue \in SUBSET Orders, p \in Orders :
              Lifecycle!Place(p, overdue)
      BY <3>2
    <3> QED
      BY <3>3, Zenon DEF Lifecycle!Next
  <2>4. ASSUME NEW a \in Attempts, NEW o \in Orders,
               attempt[a] = "none",
               attempt' = [attempt EXCEPT ![a] = "awaiting_confirmation"],
               attemptOrder' = [attemptOrder EXCEPT ![a] = o],
               UNCHANGED order
        PROVE  UNCHANGED Lifecycle!vars
    <3>1. \A p \in Orders : PayersOf(p)' = PayersOf(p)
      BY <2>1, <2>4 DEF TypeOK, PayersOf
    <3> QED
      BY <2>4, <3>1
  <2>5. ASSUME NEW a \in Attempts, Fails(a)
        PROVE  UNCHANGED Lifecycle!vars
    <3>1. \A p \in Orders : PayersOf(p)' = PayersOf(p)
      BY <2>1, <2>5 DEF TypeOK, PayersOf, Fails, ActiveAttempt
    <3> QED
      BY <2>5, <3>1 DEF Fails
  <2>6. ASSUME NEW a \in Attempts, PaysFor(a)
        PROVE  Lifecycle!Next
    <3> DEFINE o == attemptOrder[a]
    <3>1. /\ o \in Orders
          /\ order[o] = "awaiting_payment"
          /\ order' = [order EXCEPT ![o] = "paid"]
          /\ attempt[a] # "confirmed"
          /\ attempt' = [attempt EXCEPT ![a] = "confirmed"]
          /\ UNCHANGED attemptOrder
      BY <2>1, <2>6 DEF PaysFor, OrderInv, AttemptHasOrder, ActiveAttempt
    <3>2. PayersOf(o) = {}
      BY <2>1, <3>1 DEF OrderInv, ConfirmedIsSettled, Settled, PayersOf
    <3>3. \A p \in Orders :
              PayersOf(p)' = IF p = o THEN {a} ELSE PayersOf(p)
      BY <2>1, <3>1, <3>2 DEF TypeOK, PayersOf
    <3>4. \A p \in Orders : a \notin PayersOf(p)
      BY <3>1 DEF PayersOf
    <3>5. Lifecycle!Pay(o, a)
      BY <2>1, <3>1, <3>3, <3>4 DEF Lifecycle!Pay, Lifecycle!Move, TypeOK
    <3>6. \E p \in Orders, b \in Attempts : Lifecycle!Pay(p, b)
      BY <3>1, <3>5
    <3> QED
      BY <3>6, Zenon DEF Lifecycle!Next
  <2> QED
    BY <2>1, <2>2, <2>3, <2>4, <2>5, <2>6 DEF OrderStep
<1> QED
  BY <1>1, <1>2, PaymentInvariant, PTL DEF Spec, PaysLifecycle, Lifecycle!Spec
-----------------------------------------------------------------------------
(* Whatever implements the lifecycle keeps its promise: an order is        *)
(* settled exactly when one payer has paid it, and no payer pays two       *)
(* orders (record_payment_event, confirm_payment_state).  The proof uses   *)
(* OrderLifecycle alone: who the payers are is left open.                  *)
THEOREM LifecyclePaidByOne ==
    Lifecycle!Spec => [](Lifecycle!TypeOK /\ Lifecycle!PaidByOne)
<1> DEFINE paidBy == [o \in Orders |-> PayersOf(o)]
<1>1. Lifecycle!Init => Lifecycle!TypeOK /\ Lifecycle!PaidByOne
  BY DEF Lifecycle!Init, Lifecycle!TypeOK, Lifecycle!PaidByOne,
     Lifecycle!Status, Lifecycle!Settled
<1>2. /\ Lifecycle!TypeOK /\ Lifecycle!PaidByOne
      /\ [Lifecycle!Next]_Lifecycle!vars
      => (Lifecycle!TypeOK /\ Lifecycle!PaidByOne)'
  <2> SUFFICES ASSUME Lifecycle!TypeOK, Lifecycle!PaidByOne,
                      [Lifecycle!Next]_Lifecycle!vars
               PROVE  (Lifecycle!TypeOK /\ Lifecycle!PaidByOne)'
    OBVIOUS
  <2> USE DEF Lifecycle!TypeOK, Lifecycle!PaidByOne, Lifecycle!Status,
              Lifecycle!Settled
  <2>1. CASE UNCHANGED Lifecycle!vars
    BY <2>1 DEF Lifecycle!vars
  <2>2. ASSUME NEW o \in Orders, NEW from \in Lifecycle!Status,
               NEW to \in Lifecycle!Status, Lifecycle!Move(o, from, to), UNCHANGED paidBy,
               from \in Lifecycle!Settled <=> to \in Lifecycle!Settled
        PROVE  (Lifecycle!TypeOK /\ Lifecycle!PaidByOne)'
    BY <2>2 DEF Lifecycle!Move
  <2>3. ASSUME NEW o \in Orders, NEW a \in Attempts, Lifecycle!Pay(o, a)
        PROVE  (Lifecycle!TypeOK /\ Lifecycle!PaidByOne)'
    <3>1. Lifecycle!TypeOK'
      BY <2>3 DEF Lifecycle!Pay, Lifecycle!Move
    <3>2. paidBy[o] = {} /\ paidBy'[o] = {a} /\ order'[o] \in Lifecycle!Settled
      BY <2>3 DEF Lifecycle!Pay, Lifecycle!Move
    <3>3. \A other \in Orders \ {o} : /\ paidBy'[other] = paidBy[other]
                                      /\ order'[other] = order[other]
                                      /\ a \notin paidBy'[other]
      BY <2>3 DEF Lifecycle!Pay, Lifecycle!Move
    <3> QED
      BY <3>1, <3>2, <3>3
  <2>4. ASSUME NEW o \in Orders, Lifecycle!Begin(o) \/ Lifecycle!Finish(o)
        PROVE  (Lifecycle!TypeOK /\ Lifecycle!PaidByOne)'
    BY <2>2, <2>4 DEF Lifecycle!Begin, Lifecycle!Finish
  <2>5. ASSUME NEW overdue \in SUBSET Orders, Lifecycle!Expire(overdue)
        PROVE  (Lifecycle!TypeOK /\ Lifecycle!PaidByOne)'
    BY <2>5 DEF Lifecycle!Expire, Lifecycle!Expired
  <2>6. ASSUME NEW overdue \in SUBSET Orders, NEW o \in Orders,
               Lifecycle!Place(o, overdue)
        PROVE  (Lifecycle!TypeOK /\ Lifecycle!PaidByOne)'
    BY <2>6 DEF Lifecycle!Place, Lifecycle!Expired
  <2> QED
    BY <2>1, <2>3, <2>4, <2>5, <2>6 DEF Lifecycle!Next
<1> QED
  BY <1>1, <1>2, PTL DEF Lifecycle!Spec
-----------------------------------------------------------------------------
(* Only a transaction of an intent is ever on the ledger: the wallet has   *)
(* nothing to submit before create_transaction_intent.                     *)
LedgerHasIntent == \A i \in Intents : ledger[i] # "absent" => intent[i] # "none"

(* Nothing removes an intent.                                              *)
LEMMA LedgerHasIntentStep ==
  ASSUME TypeOK, LedgerHasIntent, [Next]_vars
  PROVE  LedgerHasIntent'
<1> USE DEF TypeOK, LedgerHasIntent, intentVars, chainVars, evidenceVars
<1>1. CASE UNCHANGED vars
  BY <1>1 DEF vars
<1>2. CASE \E o \in Orders, q \in 1..MaxQuantity : CreateOrder(o, q)
  BY <1>2 DEF CreateOrder
<1>3. CASE Signs
  BY <1>3 DEF Signs, CreatePaymentAttempt, CreateTransactionIntent,
     AcceptSignedEnvelope, RecordSubmissionReceipt
<1>4. CASE Pays
  BY <1>4 DEF Pays, RecordPaymentEvent, RecordChainEvidence, ConfirmPaymentState
<1>5. CASE Network
  BY <1>5 DEF Network, IntentLapses, LedgerApplies
<1> QED
  BY <1>1, <1>2, <1>3, <1>4, <1>5 DEF Next

(* An order, the order of an attempt and the attempt of an intent are      *)
(* written once, so the order an intent pays for never changes.            *)
LEMMA OrderOfStays ==
  ASSUME TypeOK, OrderInv, IntentHasAttempt, [Next]_vars
  PROVE  /\ \A o \in Orders : order[o] # "none" => order'[o] # "none"
         /\ \A i \in Intents : intent[i] # "none" => OrderOf(i)' = OrderOf(i)
<1> USE DEF TypeOK
<1>1. OrderStep
  BY NextIsOrderStep
<1>2. /\ \A o \in Orders : order[o] # "none" => order'[o] # "none"
      /\ \A a \in Attempts : attempt[a] # "none" => attemptOrder'[a] = attemptOrder[a]
  <2>1. CASE UNCHANGED <<order, attempt, attemptOrder>>
    BY <2>1
  <2>2. CASE \E o \in Orders :
                /\ order[o] = "none"
                /\ order' = [order EXCEPT ![o] = "awaiting_payment"]
                /\ UNCHANGED <<attempt, attemptOrder>>
    BY <2>2
  <2>3. CASE \E a \in Attempts, o \in Orders :
                /\ attempt[a] = "none"
                /\ attemptOrder' = [attemptOrder EXCEPT ![a] = o]
                /\ UNCHANGED order
    BY <2>3
  <2>4. CASE \E a \in Attempts : Fails(a) \/ PaysFor(a)
    BY <2>4 DEF Fails, PaysFor
  <2> QED
    BY <1>1, <2>1, <2>2, <2>3, <2>4 DEF OrderStep
<1>3. \A i \in Intents : intent[i] # "none" => intentAttempt'[i] = intentAttempt[i]
  <2> USE DEF intentVars
  <2>1. CASE UNCHANGED vars
    BY <2>1 DEF vars
  <2>2. CASE \E o \in Orders, q \in 1..MaxQuantity : CreateOrder(o, q)
    BY <2>2 DEF CreateOrder
  <2>3. CASE Signs
    BY <2>3 DEF Signs, CreatePaymentAttempt, CreateTransactionIntent,
       AcceptSignedEnvelope, RecordSubmissionReceipt
  <2>4. CASE Pays
    BY <2>4 DEF Pays, RecordPaymentEvent, RecordChainEvidence
  <2>5. CASE Network
    BY <2>5 DEF Network, IntentLapses, LedgerApplies
  <2> QED
    BY <2>1, <2>2, <2>3, <2>4, <2>5 DEF Next
<1> QED
  BY <1>2, <1>3 DEF OrderOf, IntentHasAttempt

(* An intent whose evidence was accepted has confirmed an attempt, so its  *)
(* order is settled.                                                       *)
LEMMA AcceptedSettles ==
  ASSUME IInv, NEW h \in Intents, Accepted(h)
  PROVE  /\ intent[h] = "confirmed"
         /\ OrderOf(h) \in Orders
         /\ order[OrderOf(h)] \in Settled
<1>1. intent[h] = "confirmed" /\ attempt[intentAttempt[h]] = "confirmed"
  BY DEF IInv, ChainInv, ConfirmedIntentHasEvidence
<1>2. intentAttempt[h] \in Attempts
  BY <1>1 DEF IInv, ChainInv, IntentHasAttempt
<1> QED
  BY <1>1, <1>2 DEF IInv, OrderInv, AttemptHasOrder, ConfirmedIsSettled, OrderOf

(* A step that adds nothing to the ledger leaves what is on it alone.      *)
LEMMA LedgerStays ==
  ASSUME IInv, LedgerHasIntent, [Next]_vars, UNCHANGED ledger
  PROVE  UNCHANGED PaymentsApplied
<1>1. \A i \in Intents : ledger[i] = "success" => OrderOf(i)' = OrderOf(i)
  BY OrderOfStays DEF IInv, ChainInv, LedgerHasIntent
<1> QED
  BY <1>1 DEF PaymentsApplied

(* A step that accepts no evidence confirms no order.                      *)
LEMMA AcceptedStays ==
  ASSUME IInv, [Next]_vars, \A h \in Intents : Accepted(h)' <=> Accepted(h)
  PROVE  UNCHANGED PaymentsConfirmed
<1>1. \A h \in Intents : Accepted(h) => OrderOf(h)' = OrderOf(h)
  BY AcceptedSettles, OrderOfStays DEF IInv, ChainInv
<1>2. \A o \in Orders, h \in Intents : ChainPaid(h, o)' <=> ChainPaid(h, o)
  BY <1>1 DEF ChainPaid
<1> QED
  BY <1>2 DEF PaymentsConfirmed

(* A step that creates no order asks for nothing.                          *)
LEMMA OrdersStay ==
  ASSUME \A o \in Orders : order'[o] # "none" <=> order[o] # "none"
  PROVE  UNCHANGED PaymentsWanted
  BY DEF PaymentsWanted

(* record_chain_evidence, when it accepts: the order waited for payment,   *)
(* so nothing on the ledger had paid it, and now this transaction has.     *)
LEMMA AcceptanceConfirms ==
  ASSUME IInv, IInv', LedgerHasIntent, [Next]_vars,
         NEW i \in Intents, NEW h \in Intents, NEW body \in Bodies,
         RecordChainEvidence(i, h, body), Reconciles(i, h, body)
  PROVE  Confirmation!Next
<1>1. /\ h = i
      /\ ledger[i] = "success"
      /\ intent[i] = "submitted"
      /\ order[OrderOf(i)] = "awaiting_payment"
      /\ StoreEvidence(i, i, body, "accepted")
      /\ ConfirmPaymentState(i)
      /\ UNCHANGED <<attemptOrder, intentAttempt, ledger>>
  BY DEF RecordChainEvidence, Reconciles, ConfirmPaymentState, chainVars
<1>2. PICK o \in Orders : o = OrderOf(i)
  BY <1>1 DEF IInv, ChainInv, OrderInv, IntentHasAttempt, AttemptHasOrder, OrderOf
<1>3. /\ ~Accepted(i) /\ Accepted(i)'
      /\ \A k \in Intents \ {i} : Accepted(k)' <=> Accepted(k)
  BY <1>1, AcceptedSettles, StoredEvidence DEF IInv, Accepted
<1>4. \A k \in Intents : OrderOf(k)' = OrderOf(k)
  BY <1>1 DEF OrderOf
<1>5. \A k \in Intents : ~ChainPaid(k, o)
  BY <1>1, <1>2, AcceptedSettles DEF ChainPaid, Settled
<1>6. \A k \in Intents : ChainPaid(k, o)' <=> k = i
  BY <1>2, <1>3, <1>4, <1>5 DEF ChainPaid
<1>7. \A p \in Orders \ {o}, k \in Intents : ChainPaid(k, p)' <=> ChainPaid(k, p)
  BY <1>2, <1>3, <1>4 DEF ChainPaid
<1>8. UNCHANGED PaymentsWanted
  <2>1. order' = [order EXCEPT ![o] = "paid"]
    BY <1>1, <1>2 DEF ConfirmPaymentState
  <2>2. \A p \in Orders : order'[p] # "none" <=> order[p] # "none"
    BY <1>1, <1>2, <2>1 DEF IInv, TypeOK
  <2> QED
    BY <2>2, OrdersStay
<1>9. UNCHANGED PaymentsApplied
  BY <1>1, LedgerStays
<1>10. Confirmation!Confirm(o, i)
  <2>1. PaymentsApplied[i] \in PaymentsWanted[o]
    <3>1. PaymentsApplied[i] = o
      BY <1>1, <1>2 DEF PaymentsApplied
    <3>2. PaymentsWanted[o] = {o}
      BY <1>1, <1>2 DEF PaymentsWanted
    <3> QED
      BY <3>1, <3>2
  <2>2. \A p \in DOMAIN PaymentsConfirmed : PaymentsConfirmed[p] # i
    <3> SUFFICES ASSUME NEW p \in DOMAIN PaymentsConfirmed
                 PROVE  PaymentsConfirmed[p] # i
      OBVIOUS
    <3>1. p \in Orders /\ \E k \in Intents : ChainPaid(k, p)
      BY DEF PaymentsConfirmed
    <3>2. PaymentsConfirmed[p] = CHOOSE k \in Intents : ChainPaid(k, p)
      BY DEF PaymentsConfirmed
    <3>3. ChainPaid(PaymentsConfirmed[p], p)
      BY <3>1, <3>2
    <3> QED
      BY <1>3, <3>3 DEF ChainPaid
  <2>3. DOMAIN PaymentsConfirmed' = DOMAIN PaymentsConfirmed \union {o}
    BY <1>2, <1>6, <1>7 DEF PaymentsConfirmed
  <2>4. PaymentsConfirmed'[o] = i
    <3>1. PaymentsConfirmed'[o] = CHOOSE k \in Intents : ChainPaid(k, o)'
      BY <1>2, <1>6 DEF PaymentsConfirmed
    <3> QED
      BY <1>6, <3>1
  <2>5. \A p \in DOMAIN PaymentsConfirmed :
            PaymentsConfirmed'[p] = PaymentsConfirmed[p]
    <3> SUFFICES ASSUME NEW p \in DOMAIN PaymentsConfirmed
                 PROVE  PaymentsConfirmed'[p] = PaymentsConfirmed[p]
      OBVIOUS
    <3>1. /\ p \in Orders \ {o}
          /\ \E k \in Intents : ChainPaid(k, p)
      BY <1>5 DEF PaymentsConfirmed
    <3>2. PaymentsConfirmed[p] = CHOOSE k \in Intents : ChainPaid(k, p)
      BY <3>1 DEF PaymentsConfirmed
    <3>3. \E k \in Intents : ChainPaid(k, p)'
      BY <1>7, <3>1
    <3>4. PaymentsConfirmed'[p] = CHOOSE k \in Intents : ChainPaid(k, p)'
      BY <3>1, <3>3 DEF PaymentsConfirmed
    <3>5. (CHOOSE k \in Intents : ChainPaid(k, p)')
              = CHOOSE k \in Intents : ChainPaid(k, p)
      BY <1>7, <3>1
    <3> QED
      BY <3>2, <3>4, <3>5
  <2> QED
    BY <1>8, <1>9, <2>1, <2>2, <2>3, <2>4, <2>5
    DEF Confirmation!Confirm, Confirmation!Grows
<1>11. o \in DOMAIN PaymentsWanted \ DOMAIN PaymentsConfirmed
  BY <1>1, <1>2, <1>5 DEF PaymentsWanted, PaymentsConfirmed
<1>12. i \in DOMAIN PaymentsApplied
  BY <1>1 DEF PaymentsApplied
<1> QED
  BY <1>10, <1>11, <1>12 DEF Confirmation!Next

(* The steps of the checkout: create_order asks, a wallet pays, and        *)
(* record_chain_evidence confirms.                                         *)
LEMMA PaymentsConfirmStep ==
  ASSUME IInv, IInv', LedgerHasIntent, [Next]_vars
  PROVE  [Confirmation!Next]_(Confirmation!vars)
<1> USE DEF orderVars, attemptVars, intentVars, chainVars, evidenceVars
<1>1. ASSUME UNCHANGED <<ledger, evidence>>,
             \A o \in Orders : order'[o] # "none" <=> order[o] # "none"
      PROVE  UNCHANGED Confirmation!vars
  <2>1. \A h \in Intents : Accepted(h)' <=> Accepted(h)
    BY <1>1 DEF Accepted
  <2> QED
    BY <1>1, <2>1, AcceptedStays, LedgerStays, OrdersStay DEF Confirmation!vars
<1>2. CASE UNCHANGED vars
  BY <1>1, <1>2 DEF vars
<1>3. ASSUME NEW o \in Orders, NEW q \in 1..MaxQuantity, CreateOrder(o, q)
      PROVE  Confirmation!Next
  <2>1. UNCHANGED <<ledger, evidence>>
    BY <1>3 DEF CreateOrder
  <2>2. Confirmation!Grows(PaymentsWanted, PaymentsWanted')
    BY OrderOfStays DEF IInv, ChainInv, Confirmation!Grows, PaymentsWanted
  <2>3. UNCHANGED PaymentsApplied
    BY <2>1, LedgerStays
  <2>4. UNCHANGED PaymentsConfirmed
    BY <2>1, AcceptedStays DEF Accepted
  <2> QED
    BY <2>2, <2>3, <2>4 DEF Confirmation!Next, Confirmation!Ask
<1>4. CASE Signs
  <2>1. UNCHANGED <<order, ledger, evidence>>
    BY <1>4 DEF Signs, CreatePaymentAttempt, CreateTransactionIntent,
       AcceptSignedEnvelope, RecordSubmissionReceipt
  <2> QED
    BY <1>1, <2>1
<1>5. ASSUME NEW a \in Attempts, NEW e \in Events, NEW outcome \in Outcomes,
             NEW body \in Bodies, RecordPaymentEvent(a, e, outcome, body)
      PROVE  UNCHANGED Confirmation!vars
  <2>1. UNCHANGED <<ledger, evidence>>
    BY <1>5 DEF RecordPaymentEvent
  <2>2. \A o \in Orders : order'[o] # "none" <=> order[o] # "none"
    BY <1>5 DEF RecordPaymentEvent, MarkPaid, IInv, TypeOK
  <2> QED
    BY <1>1, <2>1, <2>2
<1>6. ASSUME NEW i \in Intents, NEW h \in Intents, NEW body \in Bodies,
             RecordChainEvidence(i, h, body), ~Reconciles(i, h, body)
      PROVE  UNCHANGED Confirmation!vars
  <2>1. /\ UNCHANGED <<order, ledger>>
        /\ StoreEvidence(i, h, body, "rejected")
        /\ evidence[h] = NoEvidence
    BY <1>6 DEF RecordChainEvidence
  <2>2. \A k \in Intents : Accepted(k)' <=> Accepted(k)
    BY <2>1, StoredEvidence DEF IInv, Accepted
  <2> QED
    BY <2>1, <2>2, AcceptedStays, LedgerStays, OrdersStay DEF Confirmation!vars
<1>7. ASSUME NEW i \in Intents, NEW outcome \in {"success", "failed"},
             NEW p \in [ledger : Ledgers, token : PagingTokens],
             LedgerApplies(i, outcome, p)
      PROVE  Confirmation!Next
  <2>1. /\ UNCHANGED <<order, evidence, attemptOrder, intentAttempt>>
        /\ ledger[i] = "absent"
        /\ \A k \in Intents \ {i} : ledger'[k] = ledger[k]
    BY <1>7 DEF LedgerApplies, IInv, TypeOK
  <2>2. UNCHANGED PaymentsWanted
    BY <2>1, OrdersStay
  <2>3. UNCHANGED PaymentsConfirmed
    BY <2>1, AcceptedStays DEF Accepted
  <2>4. Confirmation!Grows(PaymentsApplied, PaymentsApplied')
    BY <2>1 DEF Confirmation!Grows, PaymentsApplied, OrderOf
  <2> QED
    BY <2>2, <2>3, <2>4 DEF Confirmation!Next, Confirmation!Apply
<1>8. ASSUME NEW i \in Intents, IntentLapses(i)
      PROVE  UNCHANGED Confirmation!vars
  BY <1>1, <1>8 DEF IntentLapses
<1> QED
  BY <1>2, <1>3, <1>4, <1>5, <1>6, <1>7, <1>8, AcceptanceConfirms
  DEF Next, Pays, Network

(* An order that the chain paid was paid so once, by a transaction that is *)
(* on the ledger and pays no other order (record_chain_evidence).          *)
THEOREM PaymentConfirmsPayments == Spec => ConfirmsPayments
<1>1. Init => Confirmation!Init
  <2> SUFFICES ASSUME Init
               PROVE  Confirmation!Init
    OBVIOUS
  <2>1. DOMAIN PaymentsApplied = {}
    BY DEF Init, PaymentsApplied
  <2>2. DOMAIN PaymentsConfirmed = {}
    BY DEF Init, PaymentsConfirmed, ChainPaid, Accepted
  <2> QED
    BY <2>1, <2>2 DEF Confirmation!Init
<1>2. Init => LedgerHasIntent
  BY DEF Init, LedgerHasIntent
<1>3. IInv /\ LedgerHasIntent /\ [Next]_vars => LedgerHasIntent'
  BY LedgerHasIntentStep DEF IInv
<1>4. IInv /\ IInv' /\ LedgerHasIntent /\ [Next]_vars
        => [Confirmation!Next]_(Confirmation!vars)
  BY PaymentsConfirmStep
<1> QED
  BY <1>1, <1>2, <1>3, <1>4, PaymentInvariant, PTL
  DEF Spec, ConfirmsPayments, Confirmation!Spec
-----------------------------------------------------------------------------
(***************************************************************************)
(* The sale of tickets                                                     *)
(***************************************************************************)
SaleTypes ==
    /\ order \in [Orders -> OrderStatus]
    /\ quantity \in [Orders -> 0..MaxQuantity]
    /\ attempt \in [Attempts -> AttemptStatus]
    /\ attemptOrder \in [Attempts -> Orders \union {NoOrder}]
    /\ intent \in [Intents -> IntentStatus]
    /\ intentAttempt \in [Intents -> Attempts \union {NoAttempt}]
    /\ evidence \in [Intents -> EvidenceRecord \union {NoEvidence}]
    /\ reservation \in [Orders -> ReservationStatus]
    /\ issued \in [Orders -> Nat]
    /\ reporting \in [Orders -> [Count -> Nat]]

(* An attempt that is open or was confirmed.                               *)
Live(a) == attempt[a] \in ActiveAttempt \union {"confirmed"}

AttemptInv ==
    /\ \A a \in Attempts :
        /\ attempt[a] # "none" => attemptOrder[a] \in Orders
        /\ attempt[a] \in ActiveAttempt =>
                order[attemptOrder[a]] \in {"awaiting_payment", "expired"}
        /\ attempt[a] = "confirmed" =>
                order[attemptOrder[a]] \in Settled \union {"expired"}
    /\ \A a, b \in Attempts :
        Live(a) /\ Live(b) /\ attemptOrder[a] = attemptOrder[b] => a = b
    /\ \A o \in Orders : order[o] \in Settled =>
        \E a \in Attempts : attemptOrder[a] = o /\ attempt[a] = "confirmed"

(* Accepted evidence is about an intent that it confirmed, of an attempt   *)
(* that paid its order.                                                    *)
EvidenceOf(h) ==
    LET i == evidence[h].intent
    IN  /\ i \in Intents
        /\ intent[i] = "confirmed"
        /\ OrderOf(i) \in Orders
        /\ order[OrderOf(i)] \in Settled

EvidenceInv ==
    /\ \A i \in Intents : intent[i] # "none" =>
        /\ intentAttempt[i] \in Attempts
        /\ attempt[intentAttempt[i]] # "none"
    /\ \A h \in Intents : Accepted(h) => EvidenceOf(h)

(* An order, its reservation, its tickets and the reports under way.  The  *)
(* report that has counted no other ticket is the only one there is: all   *)
(* others have committed.                                                  *)
RowOf(o) ==
    /\ order[o] = "none" => reservation[o] = "none"
    /\ order[o] # "none" => quantity[o] > 0
    /\ reservation[o] = "reserved" => order[o] \in {"awaiting_payment", "paid"}
    /\ reservation[o] = "expired" => order[o] \in {"expired", "paid"}
    /\ order[o] = "expired" => reservation[o] = "expired"
    /\ reservation[o] = "converted"
            <=> order[o] \in {"fulfilling", "fulfilled"}
    /\ reservation[o] = "converted" => PaidOnChain(o)
    /\ issued[o] > 0 => reservation[o] = "converted"
    /\ Reports(o) > 0 => reservation[o] = "converted"
    /\ issued[o] + Reports(o) <= quantity[o]
    /\ reporting[o]["none"] > 0 => issued[o] + 1 = quantity[o]
    /\ order[o] = "fulfilled" =>
            reservation[o] = "converted" /\ issued[o] = quantity[o]

RowsInv == \A o \in Orders : RowOf(o)

SaleInv == SaleTypes /\ AttemptInv /\ EvidenceInv /\ RowsInv
-----------------------------------------------------------------------------
(* Storing evidence writes one row and leaves the others alone             *)
(* (record_chain_evidence).                                                *)
LEMMA EvidenceIsStored ==
  ASSUME SaleTypes, NEW i \in Intents, NEW h \in Intents, NEW body \in Bodies,
         NEW result \in {"accepted", "rejected"},
         StoreEvidence(i, h, body, result)
  PROVE  /\ evidence' \in [Intents -> EvidenceRecord \union {NoEvidence}]
         /\ evidence'[h].intent = i
         /\ evidence'[h].result = result
         /\ \A k \in Intents \ {h} : evidence'[k] = evidence[k]
<1> DEFINE row == [intent |-> i, body |-> body,
                   success |-> ledger[h] = "success", result |-> result]
<1>1. (ledger[h] = "success") \in BOOLEAN
  OBVIOUS
<1>2. row \in EvidenceRecord
  BY <1>1, Zenon DEF EvidenceRecord
<1>3. row.intent = i /\ row.result = result
  BY Zenon
<1>4. evidence' = [evidence EXCEPT ![h] = row]
  BY DEF StoreEvidence
<1> HIDE DEF row
<1> QED
  BY <1>2, <1>3, <1>4 DEF SaleTypes

(* The checkout, seen from orders and attempts.                            *)
Places(o, q) ==
    /\ order[o] = "none"
    /\ order' = [order EXCEPT ![o] = "awaiting_payment"]
    /\ quantity' = [quantity EXCEPT ![o] = q]
    /\ UNCHANGED attemptVars

Opens(a, o) ==
    /\ attempt[a] = "none"
    /\ order[o] = "awaiting_payment"
    /\ ~HasActiveAttempt(o)
    /\ attempt' = [attempt EXCEPT ![a] = "awaiting_confirmation"]
    /\ attemptOrder' = [attemptOrder EXCEPT ![a] = o]
    /\ UNCHANGED <<order, quantity>>

AttemptFails(a) ==
    /\ attempt[a] \in ActiveAttempt
    /\ attempt' = [attempt EXCEPT ![a] = "failed"]
    /\ UNCHANGED <<order, quantity, attemptOrder>>

AttemptPays(a) ==
    /\ attempt[a] \in ActiveAttempt
    /\ attempt' = [attempt EXCEPT ![a] = "confirmed"]
    /\ MarkPaid(attemptOrder[a])
    /\ UNCHANGED <<quantity, attemptOrder>>

CheckoutStep ==
    \/ UNCHANGED <<order, quantity, attempt, attemptOrder>>
    \/ \E o \in Orders, q \in 1..MaxQuantity : Places(o, q)
    \/ \E a \in Attempts, o \in Orders : Opens(a, o)
    \/ \E a \in Attempts : AttemptFails(a) \/ AttemptPays(a)

(* confirm_payment_state pays for the order of an open attempt.            *)
LEMMA ChainPays ==
  ASSUME SaleTypes, AttemptInv, EvidenceInv, NEW i \in Intents,
         ConfirmPaymentState(i), UNCHANGED <<quantity, attemptOrder>>
  PROVE  /\ intentAttempt[i] \in Attempts
         /\ OrderOf(i) \in Orders
         /\ order'[OrderOf(i)] = "paid"
         /\ AttemptPays(intentAttempt[i])
<1>1. /\ intent[i] = "submitted"
      /\ attempt[intentAttempt[i]] \in ActiveAttempt
      /\ order[OrderOf(i)] = "awaiting_payment"
      /\ attempt' = [attempt EXCEPT ![intentAttempt[i]] = "confirmed"]
      /\ order' = [order EXCEPT ![OrderOf(i)] = "paid"]
  BY DEF ConfirmPaymentState
<1>2. intentAttempt[i] \in Attempts
  BY <1>1 DEF EvidenceInv
<1>3. OrderOf(i) = attemptOrder[intentAttempt[i]] /\ OrderOf(i) \in Orders
  BY <1>1, <1>2 DEF AttemptInv, OrderOf, ActiveAttempt
<1>4. order'[OrderOf(i)] = "paid"
  BY <1>1, <1>3 DEF SaleTypes
<1>5. MarkPaid(attemptOrder[intentAttempt[i]])
  BY <1>1, <1>3 DEF MarkPaid
<1> QED
  BY <1>1, <1>2, <1>3, <1>4, <1>5 DEF AttemptPays

(* A step of the checkout is one of its five.                              *)
LEMMA CheckoutSteps ==
  ASSUME SaleTypes, AttemptInv, EvidenceInv, Next
  PROVE  CheckoutStep
<1> USE DEF orderVars, attemptVars
<1>1. CASE \E o \in Orders, q \in 1..MaxQuantity : CreateOrder(o, q)
  BY <1>1 DEF CreateOrder, CheckoutStep, Places
<1>2. CASE Signs
  BY <1>2 DEF Signs, CreatePaymentAttempt, CreateTransactionIntent,
     AcceptSignedEnvelope, RecordSubmissionReceipt, CheckoutStep, Opens
<1>3. CASE Network
  BY <1>3 DEF Network, IntentLapses, LedgerApplies, CheckoutStep
<1>4. ASSUME NEW a \in Attempts, NEW e \in Events, NEW outcome \in Outcomes,
             NEW body \in Bodies, RecordPaymentEvent(a, e, outcome, body)
      PROVE  CheckoutStep
  BY <1>4 DEF RecordPaymentEvent, CheckoutStep, AttemptFails, AttemptPays
<1>5. ASSUME NEW i \in Intents, NEW h \in Intents, NEW body \in Bodies,
             RecordChainEvidence(i, h, body)
      PROVE  CheckoutStep
  <2>1. UNCHANGED <<quantity, attemptOrder>>
    BY <1>5 DEF RecordChainEvidence
  <2>2. CASE UNCHANGED <<order, attempt>>
    BY <2>1, <2>2 DEF CheckoutStep
  <2>3. CASE ConfirmPaymentState(i)
    BY <2>1, <2>3, ChainPays DEF CheckoutStep
  <2> QED
    BY <1>5, <2>2, <2>3 DEF RecordChainEvidence
<1> QED
  BY <1>1, <1>2, <1>3, <1>4, <1>5 DEF Next, Pays

(* Orders move on, one by one or several at a time: they are placed, they  *)
(* expire while they wait, or they stay paid for.                          *)
OrdersMove ==
    \A k \in Orders :
        \/ order'[k] = order[k]
        \/ order[k] = "none" /\ order'[k] = "awaiting_payment"
        \/ order[k] = "awaiting_payment" /\ order'[k] = "expired"
        \/ order[k] \in Settled /\ order'[k] \in Settled

(* Orders that move this way leave their attempts as they should be.       *)
LEMMA MovesKeepAttempts ==
  ASSUME SaleTypes, AttemptInv, OrdersMove, UNCHANGED attemptVars
  PROVE  AttemptInv'
<1> USE DEF attemptVars, Settled, ActiveAttempt
<1>1. ASSUME NEW a \in Attempts
      PROVE  /\ attempt[a] # "none" => attemptOrder[a] \in Orders
             /\ attempt[a] \in ActiveAttempt =>
                    order'[attemptOrder[a]] \in {"awaiting_payment", "expired"}
             /\ attempt[a] = "confirmed" =>
                    order'[attemptOrder[a]] \in Settled \union {"expired"}
  BY DEF AttemptInv, OrdersMove
<1>2. \A o \in Orders : order'[o] \in Settled => order[o] \in Settled
  BY DEF OrdersMove
<1> QED
  BY <1>1, <1>2 DEF AttemptInv, Live

(* The checkout keeps them so too.                                         *)
LEMMA CheckoutKeepsAttempts ==
  ASSUME SaleTypes, AttemptInv, CheckoutStep
  PROVE  AttemptInv'
<1> USE DEF attemptVars
<1>1. CASE UNCHANGED <<order, quantity, attempt, attemptOrder>>
  BY <1>1 DEF AttemptInv, Live
<1>2. ASSUME NEW o \in Orders, NEW q \in 1..MaxQuantity, Places(o, q)
      PROVE  AttemptInv'
  <2>1. OrdersMove
    BY <1>2 DEF Places, OrdersMove, SaleTypes
  <2> QED
    BY <1>2, <2>1, MovesKeepAttempts DEF Places
<1>3. ASSUME NEW a \in Attempts, NEW o \in Orders, Opens(a, o)
      PROVE  AttemptInv'
  <2>1. /\ attempt[a] = "none" /\ order[o] = "awaiting_payment"
        /\ attempt' = [attempt EXCEPT ![a] = "awaiting_confirmation"]
        /\ attemptOrder' = [attemptOrder EXCEPT ![a] = o]
        /\ order' = order
    BY <1>3 DEF Opens
  <2>2. \A b \in Attempts \ {a} : /\ attempt'[b] = attempt[b]
                                  /\ attemptOrder'[b] = attemptOrder[b]
    BY <2>1 DEF SaleTypes
  <2>3. attempt'[a] = "awaiting_confirmation" /\ attemptOrder'[a] = o
    BY <2>1 DEF SaleTypes
  <2>4. \A b \in Attempts : attemptOrder[b] = o => ~Live(b)
    BY <1>3, <2>1 DEF Opens, HasActiveAttempt, Live, AttemptInv, Settled
  <2>5. \A p \in Orders : order[p] \in Settled =>
            \E b \in Attempts \ {a} :
                attemptOrder[b] = p /\ attempt[b] = "confirmed"
    BY <2>1 DEF AttemptInv
  <2>6. \A b, c \in Attempts :
            /\ Live(b)' /\ Live(c)' /\ attemptOrder'[b] = attemptOrder'[c]
            => b = c
    BY <2>2, <2>3, <2>4 DEF AttemptInv, Live
  <2> QED
    BY <2>1, <2>2, <2>3, <2>5, <2>6 DEF AttemptInv, ActiveAttempt
<1>4. ASSUME NEW a \in Attempts, AttemptFails(a)
      PROVE  AttemptInv'
  <2>1. /\ attempt' = [attempt EXCEPT ![a] = "failed"]
        /\ attempt[a] \in ActiveAttempt
        /\ order' = order /\ attemptOrder' = attemptOrder
    BY <1>4 DEF AttemptFails
  <2> QED
    BY <2>1 DEF AttemptInv, Live, SaleTypes, ActiveAttempt
<1>5. ASSUME NEW a \in Attempts, AttemptPays(a)
      PROVE  AttemptInv'
  <2> DEFINE o == attemptOrder[a]
  <2>1. /\ attempt[a] \in ActiveAttempt
        /\ attempt' = [attempt EXCEPT ![a] = "confirmed"]
        /\ order' = [order EXCEPT ![o] =
                IF @ = "awaiting_payment" THEN "paid" ELSE @]
        /\ attemptOrder' = attemptOrder
    BY <1>5 DEF AttemptPays, MarkPaid
  <2>2. o \in Orders /\ order[o] \in {"awaiting_payment", "expired"}
    BY <2>1 DEF AttemptInv, ActiveAttempt
  <2>3. /\ order'[o] \in {"paid", "expired"}
        /\ \A p \in Orders \ {o} : order'[p] = order[p]
    BY <2>1, <2>2 DEF SaleTypes
  <2>4. /\ attempt'[a] = "confirmed"
        /\ \A b \in Attempts \ {a} : attempt'[b] = attempt[b]
    BY <2>1 DEF SaleTypes
  <2>5. \A b \in Attempts : b # a /\ attemptOrder[b] = o => ~Live(b)
    BY <2>1 DEF AttemptInv, Live
  <2>6. \A b, c \in Attempts :
            /\ Live(b)' /\ Live(c)' /\ attemptOrder'[b] = attemptOrder'[c]
            => b = c
    <3>1. \A b \in Attempts : Live(b)' => Live(b)
      BY <2>1, <2>4 DEF Live
    <3> QED
      BY <2>1, <3>1 DEF AttemptInv
  <2>7. ASSUME NEW b \in Attempts
        PROVE  /\ attempt'[b] # "none" => attemptOrder'[b] \in Orders
               /\ attempt'[b] \in ActiveAttempt =>
                    order'[attemptOrder'[b]]
                        \in {"awaiting_payment", "expired"}
               /\ attempt'[b] = "confirmed" =>
                    order'[attemptOrder'[b]] \in Settled \union {"expired"}
    <3>1. CASE b = a
      BY <2>1, <2>2, <2>3, <2>4, <3>1 DEF ActiveAttempt, Settled
    <3>2. CASE b # a
      BY <2>1, <2>3, <2>4, <2>5, <3>2 DEF AttemptInv, Live, ActiveAttempt
    <3> QED
      BY <3>1, <3>2
  <2>8. ASSUME NEW p \in Orders, order'[p] \in Settled
        PROVE  \E b \in Attempts :
                    attemptOrder'[b] = p /\ attempt'[b] = "confirmed"
    <3>1. CASE p = o
      BY <2>1, <2>4, <3>1
    <3>2. CASE p # o
      <4>1. PICK b \in Attempts :
                attemptOrder[b] = p /\ attempt[b] = "confirmed"
        BY <2>3, <2>8, <3>2 DEF AttemptInv
      <4> QED
        BY <2>1, <2>4, <4>1
    <3> QED
      BY <3>1, <3>2
  <2> QED
    BY <2>6, <2>7, <2>8 DEF AttemptInv
<1> QED
  BY <1>1, <1>2, <1>3, <1>4, <1>5 DEF CheckoutStep
-----------------------------------------------------------------------------
(* What no handler takes back: an intent keeps its attempt and, once       *)
(* confirmed, its status, an attempt keeps its order, a settled order      *)
(* stays settled and evidence is never rewritten.                          *)
Keeps ==
    /\ \A i \in Intents : intent[i] # "none" =>
        /\ intent'[i] # "none"
        /\ intentAttempt'[i] = intentAttempt[i]
        /\ intent[i] = "confirmed" => intent'[i] = "confirmed"
    /\ \A a \in Attempts : attempt[a] # "none" =>
        /\ attempt'[a] # "none"
        /\ attemptOrder'[a] = attemptOrder[a]
    /\ \A o \in Orders : order[o] \in Settled => order'[o] \in Settled
    /\ \A h \in Intents :
            evidence[h] # NoEvidence => evidence'[h] = evidence[h]

(* Intents start out on an attempt, and evidence is accepted with all that *)
(* it entails.                                                             *)
NewIntents ==
    \A i \in Intents : intent[i] = "none" /\ intent'[i] # "none" =>
        /\ intentAttempt'[i] \in Attempts
        /\ attempt'[intentAttempt'[i]] # "none"

NewEvidence == \A h \in Intents : Accepted(h)' => Accepted(h) \/ EvidenceOf(h)'

(* What was paid on the chain remains paid on the chain.                   *)
LEMMA PastStays ==
  ASSUME EvidenceInv, Keeps, NEW h \in Intents, Accepted(h)
  PROVE  /\ Accepted(h)'
         /\ EvidenceOf(h)'
         /\ evidence'[h].intent = evidence[h].intent
         /\ OrderOf(evidence[h].intent)' = OrderOf(evidence[h].intent)
<1> DEFINE i == evidence[h].intent
           a == intentAttempt[i]
<1>1. evidence'[h] = evidence[h] /\ Accepted(h)'
  BY DEF Keeps, Accepted
<1>2. /\ i \in Intents
      /\ intent[i] = "confirmed"
      /\ attemptOrder[a] \in Orders
      /\ order[attemptOrder[a]] \in Settled
  BY DEF EvidenceInv, EvidenceOf, OrderOf
<1>3. a \in Attempts /\ attempt[a] # "none"
  BY <1>2 DEF EvidenceInv
<1>4. intentAttempt'[i] = a /\ intent'[i] = "confirmed"
  BY <1>2 DEF Keeps
<1>5. attemptOrder'[a] = attemptOrder[a]
  BY <1>3 DEF Keeps
<1>6. order'[attemptOrder[a]] \in Settled
  BY <1>2 DEF Keeps
<1>7. evidence'[h].intent = evidence[h].intent
  BY <1>1
<1>8. attemptOrder'[intentAttempt'[i]] = attemptOrder[a]
  BY <1>4, <1>5
<1>9. OrderOf(evidence[h].intent)' = OrderOf(evidence[h].intent)
  BY <1>7, <1>8 DEF OrderOf
<1>10. EvidenceOf(h)'
  BY <1>2, <1>4, <1>6, <1>7, <1>8 DEF EvidenceOf, OrderOf
<1> QED
  BY <1>1, <1>7, <1>9, <1>10

LEMMA PaidOnChainStays ==
  ASSUME EvidenceInv, Keeps, NEW o \in Orders, PaidOnChain(o)
  PROVE  PaidOnChain(o)'
<1>1. PICK h \in Intents : Accepted(h) /\ OrderOf(evidence[h].intent) = o
  BY DEF PaidOnChain
<1>2. Accepted(h)' /\ attemptOrder'[intentAttempt'[evidence'[h].intent]] = o
  BY <1>1, PastStays DEF OrderOf
<1> QED
  BY <1>2 DEF PaidOnChain, OrderOf

LEMMA ChainStays ==
  ASSUME EvidenceInv, Keeps, NewIntents, NewEvidence
  PROVE  EvidenceInv'
<1>1. ASSUME NEW i \in Intents, intent'[i] # "none"
      PROVE  /\ intentAttempt'[i] \in Attempts
             /\ attempt'[intentAttempt'[i]] # "none"
  BY <1>1 DEF EvidenceInv, Keeps, NewIntents
<1>2. ASSUME NEW h \in Intents, Accepted(h)'
      PROVE  EvidenceOf(h)'
  BY <1>2, PastStays DEF NewEvidence
<1> QED
  BY <1>1, <1>2 DEF EvidenceInv
(* The checkout takes none of it back.                                     *)
LEMMA CheckoutKeeps ==
  ASSUME SaleTypes, AttemptInv, EvidenceInv, Next
  PROVE  Keeps /\ NewIntents /\ NewEvidence
<1> USE DEF SaleTypes, orderVars, attemptVars, intentVars, chainVars,
            evidenceVars
<1>1. ASSUME UNCHANGED <<intent, intentAttempt, evidence>>
      PROVE  Keeps /\ NewIntents /\ NewEvidence
  <2>1. NewIntents /\ NewEvidence
    BY <1>1 DEF NewIntents, NewEvidence, Accepted
  <2>2. CheckoutStep
    BY CheckoutSteps
  <2>3. \A a \in Attempts : attempt[a] # "none" =>
            attempt'[a] # "none" /\ attemptOrder'[a] = attemptOrder[a]
    BY <2>2 DEF CheckoutStep, Places, Opens, AttemptFails, AttemptPays
  <2>4. \A o \in Orders : order[o] \in Settled => order'[o] \in Settled
    BY <2>2 DEF CheckoutStep, Places, Opens, AttemptFails, AttemptPays, MarkPaid, Settled
  <2> QED
    BY <1>1, <2>1, <2>3, <2>4 DEF Keeps
<1>2. ASSUME NEW i \in Intents, NEW a \in Attempts,
             CreateTransactionIntent(i, a)
      PROVE  Keeps /\ NewIntents /\ NewEvidence
  <2>1. /\ intent[i] = "none"
        /\ attempt[a] \in ActiveAttempt
        /\ intent' = [intent EXCEPT ![i] = "awaiting_signature"]
        /\ intentAttempt' = [intentAttempt EXCEPT ![i] = a]
        /\ UNCHANGED <<order, attempt, attemptOrder, evidence>>
    BY <1>2 DEF CreateTransactionIntent
  <2> QED
    BY <2>1 DEF Keeps, NewIntents, NewEvidence, Accepted, ActiveAttempt
<1>3. ASSUME NEW i \in Intents,
             AcceptSignedEnvelope(i) \/ RecordSubmissionReceipt(i)
      PROVE  Keeps /\ NewIntents /\ NewEvidence
  <2>1. /\ intent[i] \in {"awaiting_signature", "signed"}
        /\ \E s \in {"signed", "submitted", "expired"} :
                intent' = [intent EXCEPT ![i] = s]
        /\ UNCHANGED <<order, attempt, attemptOrder, intentAttempt, evidence>>
    BY <1>3 DEF AcceptSignedEnvelope, RecordSubmissionReceipt
  <2> QED
    BY <2>1 DEF Keeps, NewIntents, NewEvidence, Accepted
<1>4. ASSUME NEW i \in Intents, NEW h \in Intents, NEW body \in Bodies,
             RecordChainEvidence(i, h, body)
      PROVE  Keeps /\ NewIntents /\ NewEvidence
  <2>1. /\ evidence[h] = NoEvidence
        /\ UNCHANGED <<attemptOrder, intentAttempt>>
    BY <1>4 DEF RecordChainEvidence
  <2>2. CASE /\ StoreEvidence(i, h, body, "rejected")
             /\ UNCHANGED <<order, attempt, intent>>
    <3>1. /\ evidence'[h].result = "rejected"
          /\ \A k \in Intents \ {h} : evidence'[k] = evidence[k]
      BY <2>2, EvidenceIsStored
    <3> QED
      BY <2>1, <2>2, <3>1 DEF Keeps, NewIntents, NewEvidence, Accepted
  <2>3. CASE /\ StoreEvidence(i, h, body, "accepted")
             /\ ConfirmPaymentState(i)
    <3>1. /\ evidence'[h].intent = i
          /\ \A k \in Intents \ {h} : evidence'[k] = evidence[k]
      BY <2>3, EvidenceIsStored
    <3>2. /\ intentAttempt[i] \in Attempts
          /\ OrderOf(i) \in Orders
          /\ order'[OrderOf(i)] = "paid"
          /\ AttemptPays(intentAttempt[i])
      BY <1>4, <2>3, ChainPays DEF RecordChainEvidence
    <3>3. /\ intent[i] = "submitted"
          /\ intent' = [intent EXCEPT ![i] = "confirmed"]
      BY <2>3 DEF ConfirmPaymentState
    <3>4. EvidenceOf(h)'
      BY <2>1, <3>1, <3>2, <3>3 DEF EvidenceOf, OrderOf, Settled
    <3>5. \A a \in Attempts : attempt[a] # "none" => attempt'[a] # "none"
      BY <3>2 DEF AttemptPays
    <3>6. \A o \in Orders : order[o] \in Settled => order'[o] \in Settled
      BY <3>2 DEF AttemptPays, MarkPaid, Settled
    <3>7. \A k \in Intents : Accepted(k)' => Accepted(k) \/ k = h
      BY <3>1 DEF Accepted
    <3>8. NewEvidence
      BY <3>4, <3>7 DEF NewEvidence
    <3> QED
      BY <2>1, <3>1, <3>3, <3>5, <3>6, <3>8 DEF Keeps, NewIntents
  <2> QED
    BY <1>4, <2>2, <2>3 DEF RecordChainEvidence
<1>5. CASE \E o \in Orders, q \in 1..MaxQuantity : CreateOrder(o, q)
  BY <1>1, <1>5 DEF CreateOrder
<1>6. CASE Network
  BY <1>1, <1>6 DEF Network, IntentLapses, LedgerApplies
<1>7. CASE \E a \in Attempts, o \in Orders : CreatePaymentAttempt(a, o)
  BY <1>1, <1>7 DEF CreatePaymentAttempt
<1>8. CASE \E a \in Attempts, e \in Events, outcome \in Outcomes,
              body \in Bodies :
                RecordPaymentEvent(a, e, outcome, body)
  BY <1>1, <1>8 DEF RecordPaymentEvent
<1> QED
  BY <1>2, <1>3, <1>4, <1>5, <1>6, <1>7, <1>8 DEF Next, Signs, Pays

(* Neither does a handler of ticketing.rs or ticket_operations.rs.         *)
LEMMA MovesKeep ==
  ASSUME OrdersMove, UNCHANGED <<attemptVars, intentVars, evidenceVars>>
  PROVE  Keeps /\ NewIntents /\ NewEvidence
<1> USE DEF attemptVars, intentVars, evidenceVars
<1>1. \A o \in Orders : order[o] \in Settled => order'[o] \in Settled
  BY DEF OrdersMove, Settled
<1> QED
  BY <1>1 DEF Keeps, NewIntents, NewEvidence, Accepted
-----------------------------------------------------------------------------
(* What the steps of a sale do to orders, reservations and tickets.        *)
ReleaseStep ==
    /\ order' = ReleasedOrders
    /\ reservation' = ReleasedReservations
    /\ UNCHANGED <<quantity, attemptVars, intentVars, evidenceVars, issued,
                   reporting>>

ReserveStep(o, q) ==
    /\ order[o] = "none"
    /\ order' = [ReleasedOrders EXCEPT ![o] = "awaiting_payment"]
    /\ reservation' = [ReleasedReservations EXCEPT ![o] = "reserved"]
    /\ quantity' = [quantity EXCEPT ![o] = q]
    /\ UNCHANGED <<attemptVars, intentVars, evidenceVars, issued, reporting>>

PrepareStep(o) ==
    /\ ReadyForIssuance(o)
    /\ order' = [order EXCEPT ![o] = "fulfilling"]
    /\ reservation' = [reservation EXCEPT ![o] = "converted"]
    /\ UNCHANGED <<quantity, attemptVars, intentVars, evidenceVars, issued,
                   reporting>>

IssueStep(o, c) ==
    /\ ReportEnds(o, c)
    /\ order' = [order EXCEPT ![o] =
            IF c = "none" /\ @ = "fulfilling" THEN "fulfilled" ELSE @]
    /\ issued' = [issued EXCEPT ![o] = @ + 1]
    /\ UNCHANGED <<quantity, attemptVars, intentVars, evidenceVars,
                   reservation>>

ReportStep(o) ==
    /\ CountRemaining(o) \/ \E c \in Count : ReportEnds(o, c)
    /\ UNCHANGED <<order, quantity, attemptVars, intentVars, evidenceVars,
                   reservation, issued>>

SaleStep ==
    \/ UNCHANGED <<order, quantity, attemptVars, intentVars, evidenceVars,
                   reservation, issued, reporting>>
    \/ Next /\ UNCHANGED ticketVars
    \/ ReleaseStep
    \/ \E o \in Orders, q \in 1..MaxQuantity : ReserveStep(o, q)
    \/ \E o \in Orders : PrepareStep(o) \/ ReportStep(o)
    \/ \E o \in Orders, c \in Count : IssueStep(o, c)

(* A step of the system is one of them.                                    *)
LEMMA SaleSteps ==
  ASSUME [TicketNext]_allVars
  PROVE  SaleStep
<1> USE DEF orderVars, attemptVars, intentVars, chainVars, evidenceVars,
            ticketVars
<1>1. CASE UNCHANGED allVars
  BY <1>1 DEF allVars, vars, SaleStep
<1>2. CASE Next /\ UNCHANGED ticketVars
  BY <1>2 DEF SaleStep
<1>3. CASE SaleMoves
  BY <1>3 DEF SaleMoves, vars, SaleStep
<1>4. ASSUME NEW o \in Orders, NEW b \in Buyers, NEW q \in 1..MaxQuantity,
             CreateReservation(o, b, q)
      PROVE  SaleStep
  BY <1>4 DEF CreateReservation, ReserveStep, SaleStep
<1>5. ASSUME NEW o \in Orders, RepeatReservation(o)
      PROVE  SaleStep
  BY <1>5 DEF RepeatReservation, ReleaseStep, SaleStep
<1>6. ASSUME NEW o \in Orders, ReservationFallsDue(o)
      PROVE  SaleStep
  BY <1>6 DEF ReservationFallsDue, vars, SaleStep
<1>7. ASSUME NEW o \in Orders, PrepareIssuance(o)
      PROVE  SaleStep
  BY <1>7 DEF PrepareIssuance, PrepareStep, SaleStep
<1>8. ASSUME NEW o \in Orders, NEW c \in Count, AcceptOwnershipEvidence(o, c)
      PROVE  SaleStep
  BY <1>8 DEF AcceptOwnershipEvidence, IssueStep, SaleStep
<1>9. ASSUME NEW o \in Orders,
             CountRemaining(o) \/ \E c \in Count : RollBackReport(o, c)
      PROVE  SaleStep
  <2>1. ReportStep(o)
    BY <1>9 DEF CountRemaining, RollBackReport, ReportStep, vars
  <2> QED
    BY <2>1 DEF SaleStep
<1> QED
  BY <1>1, <1>2, <1>3, <1>4, <1>5, <1>6, <1>7, <1>8, <1>9 DEF TicketNext

(* An order that is released expires if it still waits, one that is        *)
(* reserved is new, and what is issued was paid for.                       *)
LEMMA SalesMove ==
  ASSUME SaleTypes, RowsInv,
         \/ ReleaseStep
         \/ \E o \in Orders, q \in 1..MaxQuantity : ReserveStep(o, q)
         \/ \E o \in Orders : PrepareStep(o) \/ ReportStep(o)
         \/ \E o \in Orders, c \in Count : IssueStep(o, c)
  PROVE  OrdersMove /\ UNCHANGED <<attemptVars, intentVars, evidenceVars>>
<1> USE DEF attemptVars, intentVars, evidenceVars
<1>1. CASE ReleaseStep
  BY <1>1 DEF ReleaseStep, ReleasedOrders, OrdersMove
<1>2. ASSUME NEW o \in Orders, NEW q \in 1..MaxQuantity, ReserveStep(o, q)
      PROVE  OrdersMove
  BY <1>2 DEF ReserveStep, ReleasedOrders, OrdersMove
<1>3. ASSUME NEW o \in Orders, PrepareStep(o)
      PROVE  OrdersMove
  BY <1>3 DEF PrepareStep, ReadyForIssuance, OrdersMove, SaleTypes, Settled
<1>4. ASSUME NEW o \in Orders, NEW c \in Count, IssueStep(o, c)
      PROVE  OrdersMove
  BY <1>4 DEF IssueStep, OrdersMove, SaleTypes, Settled
<1>5. ASSUME NEW o \in Orders, ReportStep(o)
      PROVE  OrdersMove
  BY <1>5 DEF ReportStep, OrdersMove
<1> QED
  BY <1>1, <1>2, <1>3, <1>4, <1>5
  DEF ReleaseStep, ReserveStep, PrepareStep, IssueStep, ReportStep

(* Every step keeps what is known of attempts and of the chain.            *)
LEMMA AttemptsStep ==
  ASSUME SaleInv, SaleStep
  PROVE  /\ AttemptInv'
         /\ Keeps /\ NewIntents /\ NewEvidence
<1> USE DEF SaleInv, attemptVars, intentVars, evidenceVars
<1>1. CASE UNCHANGED <<order, quantity, attemptVars, intentVars, evidenceVars,
                       reservation, issued, reporting>>
  <2>1. OrdersMove
    BY <1>1 DEF OrdersMove
  <2> QED
    BY <1>1, <2>1, MovesKeepAttempts, MovesKeep
<1>2. CASE Next
  BY <1>2, CheckoutSteps, CheckoutKeepsAttempts, CheckoutKeeps
<1>3. CASE \/ ReleaseStep
           \/ \E o \in Orders, q \in 1..MaxQuantity : ReserveStep(o, q)
           \/ \E o \in Orders : PrepareStep(o) \/ ReportStep(o)
           \/ \E o \in Orders, c \in Count : IssueStep(o, c)
  BY <1>3, SalesMove, MovesKeepAttempts, MovesKeep
<1> QED
  BY <1>1, <1>2, <1>3 DEF SaleStep

(* Every step keeps the types.                                             *)
LEMMA CheckoutTypes ==
  ASSUME SaleTypes, AttemptInv, EvidenceInv, Next, UNCHANGED ticketVars
  PROVE  SaleTypes'
<1> USE DEF SaleTypes, orderVars, attemptVars, intentVars, chainVars,
            evidenceVars
<1>1. CheckoutStep
  BY CheckoutSteps
<1>2. /\ order' \in [Orders -> OrderStatus]
      /\ quantity' \in [Orders -> 0..MaxQuantity]
  BY <1>1, PaymentAssumption DEF CheckoutStep, Places, Opens, AttemptFails, AttemptPays,
     MarkPaid, OrderStatus
<1>3. /\ attempt' \in [Attempts -> AttemptStatus]
      /\ attemptOrder' \in [Attempts -> Orders \union {NoOrder}]
  BY <1>1 DEF CheckoutStep, Places, Opens, AttemptFails, AttemptPays, AttemptStatus
<1>4. /\ intent' \in [Intents -> IntentStatus]
      /\ intentAttempt' \in [Intents -> Attempts \union {NoAttempt}]
  BY DEF Next, Signs, Pays, Network, CreateOrder, CreatePaymentAttempt,
     CreateTransactionIntent, AcceptSignedEnvelope, RecordSubmissionReceipt,
     RecordPaymentEvent, RecordChainEvidence, ConfirmPaymentState,
     IntentLapses, LedgerApplies, IntentStatus
<1>5. evidence' \in [Intents -> EvidenceRecord \union {NoEvidence}]
  <2>1. ASSUME NEW i \in Intents, NEW h \in Intents, NEW body \in Bodies,
               RecordChainEvidence(i, h, body)
        PROVE  evidence' \in [Intents -> EvidenceRecord \union {NoEvidence}]
    BY <2>1, EvidenceIsStored DEF RecordChainEvidence
  <2>2. UNCHANGED evidence \/ \E i, h \in Intents, body \in Bodies :
            RecordChainEvidence(i, h, body)
    BY DEF Next, Signs, Pays, Network, CreateOrder, CreatePaymentAttempt,
       CreateTransactionIntent, AcceptSignedEnvelope, RecordSubmissionReceipt,
       RecordPaymentEvent, IntentLapses, LedgerApplies
  <2> QED
    BY <2>1, <2>2
<1> QED
  BY <1>2, <1>3, <1>4, <1>5 DEF ticketVars

(* A report begins or ends, and the others of its order go on.             *)
LEMMA ReportsAreNumbers ==
  ASSUME reporting \in [Orders -> [Count -> Nat]], NEW o \in Orders,
         CountRemaining(o) \/ \E c \in Count : ReportEnds(o, c)
  PROVE  reporting' \in [Orders -> [Count -> Nat]]
<1>1. PICK c \in Count, n \in Nat :
            reporting' = [reporting EXCEPT ![o] = [reporting[o] EXCEPT ![c] = n]]
  BY DEF CountRemaining, ReportEnds, Count
<1>2. [reporting[o] EXCEPT ![c] = n] \in [Count -> Nat]
  OBVIOUS
<1> QED
  BY <1>1, <1>2

LEMMA SaleTypesStep ==
  ASSUME SaleInv, SaleStep
  PROVE  SaleTypes'
<1> USE DEF SaleInv, SaleTypes, attemptVars, intentVars, evidenceVars
<1>1. CASE UNCHANGED <<order, quantity, attemptVars, intentVars, evidenceVars,
                       reservation, issued, reporting>>
  BY <1>1
<1>2. CASE Next /\ UNCHANGED ticketVars
  BY <1>2, CheckoutTypes
<1>3. CASE ReleaseStep
  BY <1>3 DEF ReleaseStep, ReleasedOrders, ReleasedReservations, OrderStatus,
     ReservationStatus
<1>4. ASSUME NEW o \in Orders, NEW q \in 1..MaxQuantity, ReserveStep(o, q)
      PROVE  SaleTypes'
  BY <1>4, PaymentAssumption DEF ReserveStep, ReleasedOrders,
     ReleasedReservations, OrderStatus, ReservationStatus
<1>5. ASSUME NEW o \in Orders, PrepareStep(o)
      PROVE  SaleTypes'
  BY <1>5 DEF PrepareStep, OrderStatus, ReservationStatus
<1>6. ASSUME NEW o \in Orders, NEW c \in Count, IssueStep(o, c)
      PROVE  SaleTypes'
  <2>1. reporting' \in [Orders -> [Count -> Nat]]
    BY <1>6, ReportsAreNumbers DEF IssueStep
  <2>2. order' \in [Orders -> OrderStatus]
    BY <1>6 DEF IssueStep, OrderStatus
  <2>3. issued' \in [Orders -> Nat]
    BY <1>6 DEF IssueStep
  <2> QED
    BY <1>6, <2>1, <2>2, <2>3 DEF IssueStep
<1>7. ASSUME NEW o \in Orders, ReportStep(o)
      PROVE  SaleTypes'
  <2>1. reporting' \in [Orders -> [Count -> Nat]]
    BY <1>7, ReportsAreNumbers DEF ReportStep
  <2> QED
    BY <1>7, <2>1 DEF ReportStep
<1> QED
  BY <1>1, <1>2, <1>3, <1>4, <1>5, <1>6, <1>7 DEF SaleStep
-----------------------------------------------------------------------------
(* What becomes of the tickets of an order when a report of their          *)
(* ownership counts the others, is rolled back, or commits.                *)
ReportMoves(o) ==
    /\ quantity'[o] = quantity[o]
    /\ reservation'[o] = reservation[o]
    /\ \/ /\ reservation[o] = "converted"
          /\ issued[o] + Reports(o) < quantity[o]
          /\ order'[o] = order[o]
          /\ issued'[o] = issued[o]
          /\ \E c \in Count :
                /\ reporting'[o] = [reporting[o] EXCEPT ![c] = @ + 1]
                /\ c = "none" => issued[o] + 1 = quantity[o]
       \/ \E c \in Count :
            /\ reporting[o][c] > 0
            /\ reporting'[o] = [reporting[o] EXCEPT ![c] = @ - 1]
            /\ \/ order'[o] = order[o] /\ issued'[o] = issued[o]
               \/ /\ issued'[o] = issued[o] + 1
                  /\ order'[o] = IF c = "none" /\ order[o] = "fulfilling"
                                 THEN "fulfilled" ELSE order[o]

(* What can become of an order, its reservation and its tickets.           *)
RowMoves(o) ==
    \/ /\ order'[o] = order[o]
       /\ quantity'[o] = quantity[o]
       /\ reservation'[o] = reservation[o]
       /\ issued'[o] = issued[o]
       /\ reporting'[o] = reporting[o]
    \/ /\ order[o] = "none"
       /\ order'[o] = "awaiting_payment"
       /\ quantity'[o] \in 1..MaxQuantity
       /\ reservation'[o] \in {"none", "reserved"}
       /\ issued'[o] = issued[o]
       /\ reporting'[o] = reporting[o]
    \/ /\ order[o] = "awaiting_payment"
       /\ order'[o] = "paid"
       /\ quantity'[o] = quantity[o]
       /\ reservation'[o] = reservation[o]
       /\ issued'[o] = issued[o]
       /\ reporting'[o] = reporting[o]
    \/ /\ reservation[o] = "reserved"
       /\ reservation'[o] = "expired"
       /\ order'[o] = IF order[o] = "awaiting_payment" THEN "expired"
                                                       ELSE order[o]
       /\ quantity'[o] = quantity[o]
       /\ issued'[o] = issued[o]
       /\ reporting'[o] = reporting[o]
    \/ /\ ReadyForIssuance(o)
       /\ order'[o] = "fulfilling"
       /\ reservation'[o] = "converted"
       /\ quantity'[o] = quantity[o]
       /\ issued'[o] = issued[o]
       /\ reporting'[o] = reporting[o]
    \/ ReportMoves(o)

(* They stay in step.                                                      *)
LEMMA ReportsStayInStep ==
  ASSUME SaleTypes, NEW o \in Orders, RowOf(o), ReportMoves(o),
         PaidOnChain(o) => PaidOnChain(o)'
  PROVE  RowOf(o)'
<1> DEFINE some == reporting[o]["some"]
           none == reporting[o]["none"]
<1>1. /\ issued[o] \in Nat
      /\ quantity[o] \in Nat
      /\ some \in Nat /\ none \in Nat
      /\ reporting[o] = [c \in Count |-> reporting[o][c]]
      /\ Reports(o) = some + none
  BY PaymentAssumption DEF SaleTypes, Reports, Count
<1>2. /\ quantity'[o] = quantity[o]
      /\ reservation'[o] = reservation[o]
  BY DEF ReportMoves
<1>3. Reports(o)' = reporting'[o]["some"] + reporting'[o]["none"]
  BY DEF Reports
<1>4. CASE /\ reservation[o] = "converted"
           /\ issued[o] + Reports(o) < quantity[o]
           /\ order'[o] = order[o]
           /\ issued'[o] = issued[o]
           /\ \E c \in Count :
                /\ reporting'[o] = [reporting[o] EXCEPT ![c] = @ + 1]
                /\ c = "none" => issued[o] + 1 = quantity[o]
  <2>1. Reports(o)' = Reports(o) + 1
    BY <1>1, <1>3, <1>4 DEF Count
  <2>2. reporting'[o]["none"] > 0 => issued[o] + 1 = quantity[o]
    BY <1>1, <1>4 DEF Count, RowOf
  <2> QED
    BY <1>1, <1>2, <1>4, <2>1, <2>2 DEF RowOf
<1>5. ASSUME NEW c \in Count,
             reporting[o][c] > 0,
             reporting'[o] = [reporting[o] EXCEPT ![c] = @ - 1],
             \/ order'[o] = order[o] /\ issued'[o] = issued[o]
             \/ /\ issued'[o] = issued[o] + 1
                /\ order'[o] = IF c = "none" /\ order[o] = "fulfilling"
                               THEN "fulfilled" ELSE order[o]
      PROVE  RowOf(o)'
  <2>1. Reports(o)' = Reports(o) - 1 /\ Reports(o) > 0
    BY <1>1, <1>3, <1>5 DEF Count
  <2>2. reservation[o] = "converted" /\ issued[o] < quantity[o]
    BY <1>1, <2>1 DEF RowOf
  <2>3. order[o] \in {"fulfilling", "fulfilled"}
    BY <2>2 DEF RowOf
  <2>4. c = "none" => issued[o] + 1 = quantity[o]
    BY <1>5 DEF RowOf
  <2>5. reporting'[o]["none"] > 0 =>
            issued[o] + 1 = quantity[o] /\ issued'[o] = issued[o]
    BY <1>1, <1>5 DEF Count, RowOf
  <2>6. order[o] = "fulfilling"
    BY <1>1, <2>2, <2>3 DEF RowOf
  <2>7. order'[o] = "fulfilled" => c = "none" /\ issued'[o] = issued[o] + 1
    BY <1>5, <2>6
  <2> QED
    BY <1>1, <1>2, <1>5, <2>1, <2>2, <2>4, <2>5, <2>6, <2>7 DEF RowOf
<1> QED
  BY <1>4, <1>5 DEF ReportMoves

LEMMA RowStays ==
  ASSUME SaleTypes, NEW o \in Orders, RowOf(o), RowMoves(o),
         PaidOnChain(o) => PaidOnChain(o)'
  PROVE  RowOf(o)'
<1>1. /\ issued[o] \in Nat
      /\ quantity[o] \in Nat
      /\ reporting[o]["some"] \in Nat /\ reporting[o]["none"] \in Nat
      /\ order[o] \in OrderStatus
      /\ reservation[o] \in ReservationStatus
  BY PaymentAssumption DEF SaleTypes, Count
<1>2. CASE ReportMoves(o)
  BY <1>2, ReportsStayInStep
<1>3. CASE ~ReportMoves(o)
  <2>1. Reports(o)' = Reports(o) /\ issued'[o] = issued[o]
    BY <1>3 DEF RowMoves, Reports
  <2>2. Reports(o) \in Nat
    BY <1>1 DEF Reports
  <2>3. reporting'[o]["none"] = reporting[o]["none"]
    BY <1>3 DEF RowMoves
  <2>4. CASE /\ order'[o] = order[o]
             /\ quantity'[o] = quantity[o]
             /\ reservation'[o] = reservation[o]
    BY <2>1, <2>3, <2>4 DEF RowOf
  <2>5. CASE /\ order[o] = "none"
             /\ order'[o] = "awaiting_payment"
             /\ quantity'[o] \in 1..MaxQuantity
             /\ reservation'[o] \in {"none", "reserved"}
    <3>1. reservation[o] = "none" /\ quantity'[o] \in Nat /\ quantity'[o] > 0
      BY <2>5, PaymentAssumption DEF RowOf
    <3>2. issued[o] = 0 /\ Reports(o) = 0
      BY <1>1, <2>2, <3>1 DEF RowOf
    <3>3. ~(reporting[o]["none"] > 0)
      BY <1>1, <3>2 DEF Reports
    <3> QED
      BY <2>1, <2>3, <2>5, <3>1, <3>2, <3>3 DEF RowOf
  <2>6. CASE /\ order[o] = "awaiting_payment"
             /\ order'[o] = "paid"
             /\ quantity'[o] = quantity[o]
             /\ reservation'[o] = reservation[o]
    BY <2>1, <2>3, <2>6 DEF RowOf
  <2>7. CASE /\ reservation[o] = "reserved"
             /\ reservation'[o] = "expired"
             /\ order'[o] = IF order[o] = "awaiting_payment" THEN "expired"
                                                             ELSE order[o]
             /\ quantity'[o] = quantity[o]
    BY <2>1, <2>3, <2>7 DEF RowOf
  <2>8. CASE /\ ReadyForIssuance(o)
             /\ order'[o] = "fulfilling"
             /\ reservation'[o] = "converted"
             /\ quantity'[o] = quantity[o]
    BY <2>1, <2>3, <2>8 DEF RowOf, ReadyForIssuance
  <2> QED
    BY <1>3, <2>4, <2>5, <2>6, <2>7, <2>8 DEF RowMoves
<1> QED
  BY <1>2, <1>3

(* Every step moves every order along one of these lines.                  *)
LEMMA RowsMove ==
  ASSUME SaleInv, SaleStep, NEW k \in Orders
  PROVE  RowMoves(k)
<1> USE DEF SaleInv, SaleTypes, attemptVars
<1>1. CASE UNCHANGED <<order, quantity, attemptVars, intentVars, evidenceVars,
                       reservation, issued, reporting>>
  BY <1>1 DEF RowMoves
<1>2. CASE Next /\ UNCHANGED ticketVars
  <2>1. UNCHANGED <<reservation, issued, reporting>>
    BY <1>2 DEF ticketVars
  <2>2. CheckoutStep
    BY <1>2, CheckoutSteps
  <2>3. CASE UNCHANGED <<order, quantity, attempt, attemptOrder>>
    BY <2>1, <2>3 DEF RowMoves
  <2>4. ASSUME NEW o \in Orders, NEW q \in 1..MaxQuantity, Places(o, q)
        PROVE  RowMoves(k)
    BY <2>1, <2>4 DEF Places, RowMoves, RowsInv, RowOf
  <2>5. ASSUME NEW a \in Attempts,
               AttemptFails(a) \/ \E o \in Orders : Opens(a, o)
        PROVE  RowMoves(k)
    BY <2>1, <2>5 DEF AttemptFails, Opens, RowMoves
  <2>6. ASSUME NEW a \in Attempts, AttemptPays(a)
        PROVE  RowMoves(k)
    BY <2>1, <2>6 DEF AttemptPays, MarkPaid, RowMoves
  <2> QED
    BY <2>2, <2>3, <2>4, <2>5, <2>6 DEF CheckoutStep
<1>3. CASE ReleaseStep
  BY <1>3 DEF ReleaseStep, ReleasedOrders, ReleasedReservations, Overdue,
     RowMoves, RowsInv, RowOf
<1>4. ASSUME NEW o \in Orders, NEW q \in 1..MaxQuantity, ReserveStep(o, q)
      PROVE  RowMoves(k)
  <2>1. CASE k = o
    BY <1>4, <2>1 DEF ReserveStep, ReleasedOrders, ReleasedReservations,
       RowMoves
  <2>2. CASE k # o
    BY <1>4, <2>2 DEF ReserveStep, ReleasedOrders, ReleasedReservations,
       Overdue, RowMoves, RowsInv, RowOf
  <2> QED
    BY <2>1, <2>2
<1>5. ASSUME NEW o \in Orders, PrepareStep(o)
      PROVE  RowMoves(k)
  BY <1>5 DEF PrepareStep, RowMoves
<1>6. ASSUME NEW o \in Orders, NEW c \in Count, IssueStep(o, c)
      PROVE  RowMoves(k)
  <2>1. CASE k = o
    <3>1. /\ reporting[o][c] > 0
          /\ reporting'[o] = [reporting[o] EXCEPT ![c] = @ - 1]
          /\ issued'[o] = issued[o] + 1
          /\ order'[o] = IF c = "none" /\ order[o] = "fulfilling"
                         THEN "fulfilled" ELSE order[o]
          /\ UNCHANGED <<quantity, reservation>>
      BY <1>6 DEF IssueStep, ReportEnds
    <3> QED
      BY <2>1, <3>1 DEF RowMoves, ReportMoves
  <2>2. CASE k # o
    BY <1>6, <2>2 DEF IssueStep, ReportEnds, RowMoves
  <2> QED
    BY <2>1, <2>2
<1>7. ASSUME NEW o \in Orders, ReportStep(o)
      PROVE  RowMoves(k)
  <2>1. UNCHANGED <<order, quantity, reservation, issued>>
    BY <1>7 DEF ReportStep
  <2>2. CASE k # o
    BY <1>7, <2>1, <2>2 DEF ReportStep, CountRemaining, ReportEnds, RowMoves
  <2>3. CASE k = o /\ CountRemaining(o)
    <3>1. PICK c \in Count :
              /\ reporting'[o] = [reporting[o] EXCEPT ![c] = @ + 1]
              /\ c = "none" => issued[o] + 1 = quantity[o]
      BY <2>3 DEF CountRemaining, Count
    <3> QED
      BY <2>1, <2>3, <3>1 DEF CountRemaining, RowMoves, ReportMoves
  <2>4. ASSUME k = o, NEW c \in Count, ReportEnds(o, c)
        PROVE  RowMoves(k)
    <3>1. /\ reporting[o][c] > 0
          /\ reporting'[o] = [reporting[o] EXCEPT ![c] = @ - 1]
      BY <2>4 DEF ReportEnds
    <3> QED
      BY <2>1, <2>4, <3>1 DEF RowMoves, ReportMoves
  <2> QED
    BY <1>7, <2>2, <2>3, <2>4 DEF ReportStep
<1> QED
  BY <1>1, <1>2, <1>3, <1>4, <1>5, <1>6, <1>7 DEF SaleStep

LEMMA SaleInit == TicketInit => SaleInv
<1> SUFFICES ASSUME TicketInit
             PROVE  SaleInv
  OBVIOUS
<1> USE DEF TicketInit, Init
<1>1. SaleTypes
  BY PaymentAssumption DEF SaleTypes, OrderStatus, AttemptStatus,
     IntentStatus, ReservationStatus, Count
<1>2. AttemptInv
  BY DEF AttemptInv, Live, ActiveAttempt, Settled
<1>3. EvidenceInv
  BY DEF EvidenceInv, Accepted
<1>4. RowsInv
  <2> SUFFICES ASSUME NEW o \in Orders
               PROVE  RowOf(o)
    BY DEF RowsInv
  <2>1. /\ order[o] = "none" /\ reservation[o] = "none"
        /\ quantity[o] = 0 /\ issued[o] = 0
        /\ reporting[o] = [some |-> 0, none |-> 0]
    OBVIOUS
  <2>2. reporting[o]["some"] = 0 /\ reporting[o]["none"] = 0
    BY <2>1
  <2> QED
    BY <2>1, <2>2 DEF RowOf, Reports
<1> QED
  BY <1>1, <1>2, <1>3, <1>4 DEF SaleInv

LEMMA SaleInvStep == SaleInv /\ [TicketNext]_allVars => SaleInv'
<1> SUFFICES ASSUME SaleInv, [TicketNext]_allVars
             PROVE  SaleInv'
  OBVIOUS
<1>1. SaleStep
  BY SaleSteps
<1>2. SaleTypes'
  BY <1>1, SaleTypesStep
<1>3. AttemptInv' /\ Keeps /\ NewIntents /\ NewEvidence
  BY <1>1, AttemptsStep
<1>4. EvidenceInv'
  BY <1>3, ChainStays DEF SaleInv
<1>5. ASSUME NEW k \in Orders
      PROVE  RowOf(k)'
  <2>1. PaidOnChain(k) => PaidOnChain(k)'
    BY <1>3, PaidOnChainStays DEF SaleInv
  <2> QED
    BY <1>1, <2>1, RowsMove, RowStays DEF SaleInv, RowsInv
<1> QED
  BY <1>2, <1>3, <1>4, <1>5 DEF SaleInv, RowsInv

(* Orders, attempts, evidence, reservations and tickets agree after every  *)
(* handler of the sale and of the checkout below it.                       *)
THEOREM TicketSalesInvariant == TicketSpec => []SaleInv
  BY SaleInit, SaleInvStep, PTL DEF TicketSpec

(* prepare_issuance converts only what record_chain_evidence has seen      *)
(* paid, tickets are issued for converted reservations only, and the order *)
(* is fulfilled only when all of them are, whatever reports were under way *)
(* together.                                                               *)
THEOREM TicketsIssuedAsPaid == TicketSpec => []IssuedIsPaidOnChain
<1>1. SaleInv => IssuedIsPaidOnChain
  BY DEF SaleInv, RowsInv, RowOf, IssuedIsPaidOnChain, Converted
<1> QED
  BY <1>1, TicketSalesInvariant, PTL

(* release_expired_for_product, whatever pays meanwhile, lets an order     *)
(* expire only with its reservation, and never one that was paid on the    *)
(* chain.                                                                  *)
THEOREM TicketsFollowOrders == TicketSpec => []ReservationFollowsOrder
<1>1. ASSUME SaleInv
      PROVE  ReservationFollowsOrder
  <2>1. \A o \in Orders : PaidOnChain(o) => order[o] \in Settled
    BY <1>1 DEF SaleInv, EvidenceInv, PaidOnChain, EvidenceOf
  <2> QED
    BY <1>1, <2>1 DEF SaleInv, RowsInv, RowOf, ReservationFollowsOrder, Settled
<1> QED
  BY <1>1, TicketSalesInvariant, PTL
-----------------------------------------------------------------------------
(* Stock and limits are sums over orders, of which there are finitely      *)
(* many.  Seats are added to such a sum, ...                               *)
LEMMA SeatsAdded ==
  ASSUME NEW f, NEW g, NEW S \in SUBSET Orders, NEW o \in Orders, o \notin S,
         \A k \in Orders : f[k] \in Nat /\ g[k] \in Nat,
         \A k \in S : g[k] = f[k]
  PROVE  /\ SumFunctionOnSet(g, S \union {o}) = SumFunctionOnSet(f, S) + g[o]
         /\ SumFunctionOnSet(f, S) \in Nat
<1>1. IsFiniteSet(S)
  BY TicketAssumption, FS_Subset
<1>2. SumFunctionOnSet(g, S \union {o}) = SumFunctionOnSet(g, S) + g[o]
  BY <1>1, SumAdd
<1>3. SumFunctionOnSet(g, S) = SumFunctionOnSet(f, S)
  BY <1>1, SumAgree
<1>4. SumFunctionOnSet(f, S) \in Nat
  BY <1>1, SumType
<1> QED
  BY <1>2, <1>3, <1>4

(* ... and taken from it.                                                  *)
LEMMA SeatsTaken ==
  ASSUME NEW f, NEW S \in SUBSET Orders, NEW U \in SUBSET S,
         \A k \in Orders : f[k] \in Nat
  PROVE  /\ SumFunctionOnSet(f, S \ U)
                = SumFunctionOnSet(f, S) - SumFunctionOnSet(f, U)
         /\ SumFunctionOnSet(f, U) <= SumFunctionOnSet(f, S)
         /\ SumFunctionOnSet(f, U) \in Nat
         /\ SumFunctionOnSet(f, S) \in Nat
<1>1. IsFiniteSet(S) /\ IsFiniteSet(U) /\ IsFiniteSet(S \ U)
  BY TicketAssumption, FS_Subset
<1>2. SumFunctionOnSet(f, S)
        = SumFunctionOnSet(f, U) + SumFunctionOnSet(f, S \ U)
  BY <1>1, SumOfParts
<1>3. /\ SumFunctionOnSet(f, U) \in Nat
      /\ SumFunctionOnSet(f, S \ U) \in Nat
      /\ SumFunctionOnSet(f, S) \in Nat
  BY <1>1, SumType
<1> QED
  BY <1>2, <1>3

LEMMA SeatsAgree ==
  ASSUME NEW f, NEW g, NEW S \in SUBSET Orders, \A k \in S : g[k] = f[k]
  PROVE  SumFunctionOnSet(g, S) = SumFunctionOnSet(f, S)
  BY TicketAssumption, FS_Subset, SumAgree

LEMMA QuantitiesAreNumbers ==
  ASSUME TypeOK
  PROVE  \A k \in Orders : quantity[k] \in Nat
  BY PaymentAssumption DEF TypeOK

(* What is overdue was held, so what release leaves is what is not overdue *)
(* (release_expired_for_product never stops at zero).                      *)
LEMMA ReleasedIsExact ==
  ASSUME StockConserved
  PROVE  /\ ReleasedStock = QuantityOf(Holding \ Overdue)
         /\ ReleasedStock \in Nat
         /\ ReleasedStock <= inventory.reserved
<1>1. /\ Overdue \in SUBSET Holding
      /\ Holding \in SUBSET Orders
  BY DEF Overdue, Holding, StockConserved, TicketTypeOK
<1>2. \A k \in Orders : quantity[k] \in Nat
  BY QuantitiesAreNumbers DEF StockConserved, TicketTypeOK
<1>3. /\ QuantityOf(Holding \ Overdue) =
            QuantityOf(Holding) - QuantityOf(Overdue)
      /\ QuantityOf(Overdue) <= QuantityOf(Holding)
      /\ QuantityOf(Overdue) \in Nat
      /\ QuantityOf(Holding) \in Nat
  BY <1>1, <1>2, SeatsTaken DEF QuantityOf
<1>4. inventory.reserved = QuantityOf(Holding)
  BY DEF StockConserved
<1> QED
  BY <1>3, <1>4 DEF ReleasedStock
-----------------------------------------------------------------------------
(* Every table of the sale starts out, and stays, within its types.        *)
LEMMA TicketTypeInit == TicketInit => TicketTypeOK
  BY TypeInit, PaymentAssumption DEF TicketInit, TicketTypeOK, ReservationStatus,
     Count

LEMMA ReleasedIsNumber ==
  ASSUME TicketTypeOK
  PROVE  ReleasedStock \in Nat
<1>1. Overdue \in SUBSET Orders
  BY DEF Overdue, TicketTypeOK
<1>2. \A k \in Orders : quantity[k] \in Nat
  BY QuantitiesAreNumbers DEF TicketTypeOK
<1>3. QuantityOf(Overdue) \in Nat
  BY <1>1, <1>2, SeatsTaken DEF QuantityOf
<1>4. inventory.reserved \in Nat
  BY DEF TicketTypeOK, TypeOK
<1> QED
  BY <1>3, <1>4 DEF ReleasedStock

LEMMA TicketTypeStep ==
  ASSUME SaleInv, TicketTypeOK, [TicketNext]_allVars
  PROVE  TicketTypeOK'
<1> USE DEF TicketTypeOK, ticketVars, orderVars, attemptVars, intentVars,
            chainVars, evidenceVars
<1>1. CASE UNCHANGED allVars
  BY <1>1, TypeStep DEF allVars
<1>2. CASE Next /\ UNCHANGED ticketVars
  BY <1>2, TypeStep
<1>3. CASE SaleMoves
  BY <1>3, TypeStep DEF SaleMoves
<1>4. ASSUME NEW o \in Orders, NEW b \in Buyers, NEW q \in 1..MaxQuantity,
             CreateReservation(o, b, q)
      PROVE  TicketTypeOK'
  <2>1. inventory' \in [reserved : Nat, fulfilled : Nat]
    <3>1. ReleasedStock + q \in Nat
      BY ReleasedIsNumber
    <3> QED
      BY <1>4, <3>1 DEF CreateReservation, TypeOK
  <2>2. order' \in [Orders -> OrderStatus]
    BY <1>4 DEF CreateReservation, ReleasedOrders, TypeOK, OrderStatus
  <2>3. quantity' \in [Orders -> 0..MaxQuantity]
    BY <1>4, PaymentAssumption DEF CreateReservation, TypeOK
  <2>4. reservation' \in [Orders -> ReservationStatus]
    BY <1>4 DEF CreateReservation, ReleasedReservations, ReservationStatus
  <2> QED
    BY <1>4, <2>1, <2>2, <2>3, <2>4 DEF CreateReservation, TypeOK
<1>5. ASSUME NEW o \in Orders, RepeatReservation(o)
      PROVE  TicketTypeOK'
  <2>1. inventory' \in [reserved : Nat, fulfilled : Nat]
    BY <1>5, ReleasedIsNumber DEF RepeatReservation, TypeOK
  <2>2. order' \in [Orders -> OrderStatus]
    BY <1>5 DEF RepeatReservation, ReleasedOrders, TypeOK, OrderStatus
  <2>3. reservation' \in [Orders -> ReservationStatus]
    BY <1>5 DEF RepeatReservation, ReleasedReservations, ReservationStatus
  <2> QED
    BY <1>5, <2>1, <2>2, <2>3 DEF RepeatReservation, TypeOK
<1>6. ASSUME NEW o \in Orders, ReservationFallsDue(o)
      PROVE  TicketTypeOK'
  BY <1>6, TypeStep DEF ReservationFallsDue
<1>7. ASSUME NEW o \in Orders, PrepareIssuance(o)
      PROVE  TicketTypeOK'
  <2>1. inventory' \in [reserved : Nat, fulfilled : Nat]
    BY <1>7, PaymentAssumption DEF PrepareIssuance, TypeOK
  <2>2. order' \in [Orders -> OrderStatus]
    BY <1>7 DEF PrepareIssuance, TypeOK, OrderStatus
  <2>3. reservation' \in [Orders -> ReservationStatus]
    BY <1>7 DEF PrepareIssuance, ReservationStatus
  <2> QED
    BY <1>7, <2>1, <2>2, <2>3 DEF PrepareIssuance, TypeOK
<1>8. ASSUME NEW o \in Orders, NEW c \in Count, AcceptOwnershipEvidence(o, c)
      PROVE  TicketTypeOK'
  <2>1. order' \in [Orders -> OrderStatus]
    BY <1>8 DEF AcceptOwnershipEvidence, TypeOK, OrderStatus
  <2>2. issued[o] < quantity[o]
    <3>1. RowOf(o) /\ issued[o] \in Nat /\ quantity[o] \in Nat
      BY PaymentAssumption DEF SaleInv, SaleTypes, RowsInv
    <3>2. Reports(o) > 0 /\ Reports(o) \in Nat
      BY <1>8 DEF AcceptOwnershipEvidence, ReportEnds, Reports, Count
    <3> QED
      BY <3>1, <3>2 DEF RowOf
  <2>3. issued' \in [Orders -> 0..MaxQuantity]
    BY <1>8, <2>2, PaymentAssumption DEF AcceptOwnershipEvidence, TypeOK
  <2>4. reporting' \in [Orders -> [Count -> Nat]]
    BY <1>8, ReportsAreNumbers DEF AcceptOwnershipEvidence
  <2> QED
    BY <1>8, <2>1, <2>3, <2>4 DEF AcceptOwnershipEvidence, TypeOK
<1>9. ASSUME NEW o \in Orders,
             CountRemaining(o) \/ \E c \in Count : RollBackReport(o, c)
      PROVE  TicketTypeOK'
  <2>1. reporting' \in [Orders -> [Count -> Nat]]
    BY <1>9, ReportsAreNumbers DEF RollBackReport
  <2>2. UNCHANGED <<vars, sale, reservation, buyer, due, issued>>
    BY <1>9 DEF CountRemaining, RollBackReport
  <2> QED
    BY <2>1, <2>2, TypeStep
<1> QED
  BY <1>1, <1>2, <1>3, <1>4, <1>5, <1>6, <1>7, <1>8, <1>9 DEF TicketNext

(* Reservation, release, issuance and the checkout below them keep every   *)
(* column within its values: reserved_quantity in particular is never      *)
(* driven below zero.                                                      *)
THEOREM TicketTypes == TicketSpec => []TicketTypeOK
<1>1. SaleInv /\ TicketTypeOK /\ [TicketNext]_allVars => TicketTypeOK'
  BY TicketTypeStep
<1> QED
  BY <1>1, TicketTypeInit, TicketSalesInvariant, PTL DEF TicketSpec
-----------------------------------------------------------------------------
(* The two sums the stock is made of.                                      *)
LEMMA StockIsCounted ==
  ASSUME TicketTypeOK
  PROVE  /\ Holding \in SUBSET Orders
         /\ Converted \in SUBSET Orders
         /\ QuantityOf(Holding) \in Nat
         /\ QuantityOf(Converted) \in Nat
<1>1. Holding \in SUBSET Orders /\ Converted \in SUBSET Orders
  BY DEF Holding, Converted
<1>2. \A k \in Orders : quantity[k] \in Nat
  BY QuantitiesAreNumbers DEF TicketTypeOK
<1> QED
  BY <1>1, <1>2, SeatsTaken DEF QuantityOf

(* A step that writes neither the stock nor a quantity nor moves an order  *)
(* in or out of either sum.                                                *)
LEMMA StockStays ==
  ASSUME StockConserved, TicketTypeOK', UNCHANGED <<quantity, inventory>>,
         \A k \in Orders : /\ reservation'[k] = reservation[k]
                           /\ order'[k] = "none" <=> order[k] = "none"
  PROVE  StockConserved'
<1>1. Holding' = Holding /\ Converted' = Converted
  BY DEF Holding, Converted
<1> QED
  BY <1>1 DEF StockConserved, QuantityOf

(* Of the checkout only create_order touches the stock.                    *)
LEMMA CheckoutLeavesStock ==
  ASSUME TypeOK, Next
  PROVE  \/ \E o \in Orders, q \in 1..MaxQuantity : CreateOrder(o, q)
         \/ /\ UNCHANGED <<quantity, inventory>>
            /\ \A k \in Orders : order'[k] = "none" <=> order[k] = "none"
<1> USE DEF TypeOK, orderVars
<1>1. CASE Signs
  BY <1>1 DEF Signs, CreatePaymentAttempt, CreateTransactionIntent,
     AcceptSignedEnvelope, RecordSubmissionReceipt
<1>2. CASE Network
  BY <1>2 DEF Network, IntentLapses, LedgerApplies
<1>3. ASSUME NEW a \in Attempts, NEW e \in Events, NEW outcome \in Outcomes,
             NEW body \in Bodies, RecordPaymentEvent(a, e, outcome, body)
      PROVE  /\ UNCHANGED <<quantity, inventory>>
             /\ \A k \in Orders : order'[k] = "none" <=> order[k] = "none"
  BY <1>3 DEF RecordPaymentEvent, MarkPaid
<1>4. ASSUME NEW i \in Intents, NEW h \in Intents, NEW body \in Bodies,
             RecordChainEvidence(i, h, body)
      PROVE  /\ UNCHANGED <<quantity, inventory>>
             /\ \A k \in Orders : order'[k] = "none" <=> order[k] = "none"
  BY <1>4 DEF RecordChainEvidence, ConfirmPaymentState
<1> QED
  BY <1>1, <1>2, <1>3, <1>4 DEF Next, Pays

(* create_order sets aside the seats it sells.                             *)
LEMMA OrderTakesStock ==
  ASSUME SaleInv, StockConserved, TicketTypeOK', NEW o \in Orders,
         NEW q \in 1..MaxQuantity, CreateOrder(o, q), UNCHANGED ticketVars
  PROVE  StockConserved'
<1>1. order[o] = "none" /\ reservation[o] = "none"
  BY DEF CreateOrder, SaleInv, RowsInv, RowOf
<1>2. /\ Holding' = Holding \union {o} /\ o \notin Holding
      /\ Converted' = Converted /\ o \notin Converted
  BY <1>1 DEF CreateOrder, Holding, Converted, ticketVars, StockConserved,
     TicketTypeOK, TypeOK
<1>3. quantity'[o] = q /\ \A k \in Orders \ {o} : quantity'[k] = quantity[k]
  BY DEF CreateOrder, StockConserved, TicketTypeOK, TypeOK
<1>4. \A k \in Orders : quantity[k] \in Nat /\ quantity'[k] \in Nat
  BY PaymentAssumption DEF StockConserved, TicketTypeOK, TypeOK
<1>5. Holding \in SUBSET Orders /\ Converted \in SUBSET Orders
  BY StockIsCounted DEF StockConserved
<1>6. QuantityOf(Holding)' = QuantityOf(Holding) + q
  BY <1>2, <1>3, <1>4, <1>5, SeatsAdded DEF QuantityOf
<1>7. QuantityOf(Converted)' = QuantityOf(Converted)
  BY <1>2, <1>3, <1>5, SeatsAgree DEF QuantityOf
<1>8. /\ inventory'.reserved = inventory.reserved + q
      /\ inventory'.fulfilled = inventory.fulfilled
      /\ inventory.reserved + inventory.fulfilled + q <= SupplyLimit
  BY DEF CreateOrder, Reserve
<1> QED
  BY <1>6, <1>7, <1>8, PaymentAssumption
  DEF StockConserved, TicketTypeOK, TypeOK

(* Release takes the overdue orders out of the first sum.                  *)
LEMMA ReleasedHolding ==
  ASSUME TicketTypeOK
  PROVE  \A k \in Orders :
            /\ ReleasedReservations[k] = "converted"
                    <=> reservation[k] = "converted"
            /\ k \in Holding \ Overdue
                    <=> \/ ReleasedReservations[k] = "reserved"
                        \/ /\ ReleasedReservations[k] = "none"
                           /\ ReleasedOrders[k] # "none"
  BY DEF ReleasedReservations, ReleasedOrders, Holding, Overdue

LEMMA ReservationTakesStock ==
  ASSUME SaleInv, StockConserved, TicketTypeOK', NEW o \in Orders,
         NEW b \in Buyers, NEW q \in 1..MaxQuantity, CreateReservation(o, b, q)
  PROVE  StockConserved'
<1> USE DEF StockConserved
<1> DEFINE rest == Holding \ Overdue
<1>1. order[o] = "none" /\ reservation[o] = "none"
  BY DEF CreateReservation, SaleInv, RowsInv, RowOf
<1>2. /\ order' = [ReleasedOrders EXCEPT ![o] = "awaiting_payment"]
      /\ reservation' = [ReleasedReservations EXCEPT ![o] = "reserved"]
      /\ quantity' = [quantity EXCEPT ![o] = q]
      /\ inventory' = [inventory EXCEPT !.reserved = ReleasedStock + q]
      /\ ReleasedStock + inventory.fulfilled + q <= SupplyLimit
  BY DEF CreateReservation
<1>3. /\ reservation'[o] = "reserved"
      /\ \A k \in Orders \ {o} : /\ order'[k] = ReleasedOrders[k]
                                 /\ reservation'[k] = ReleasedReservations[k]
  BY <1>2 DEF ReleasedOrders, ReleasedReservations
<1>4. o \notin Holding /\ o \notin Converted
  BY <1>1 DEF Holding, Converted
<1>5. Holding' = rest \union {o}
  BY <1>3, <1>4, ReleasedHolding DEF Holding
<1>6. Converted' = Converted
  BY <1>3, <1>4, ReleasedHolding DEF Converted
<1>7. quantity'[o] = q /\ \A k \in Orders \ {o} : quantity'[k] = quantity[k]
  BY <1>2 DEF TicketTypeOK, TypeOK
<1>8. \A k \in Orders : quantity[k] \in Nat /\ quantity'[k] \in Nat
  BY PaymentAssumption DEF TicketTypeOK, TypeOK
<1>9. Holding \in SUBSET Orders /\ Converted \in SUBSET Orders
  BY StockIsCounted
<1>10. QuantityOf(Holding)' = ReleasedStock + q /\ ReleasedStock \in Nat
  <2> DEFINE next == rest \union {o}
  <2>1. /\ rest \in SUBSET Orders /\ o \notin rest
        /\ \A k \in rest : quantity'[k] = quantity[k]
    BY <1>4, <1>7, <1>9
  <2> HIDE DEF rest
  <2>2. SumFunctionOnSet(quantity', next) = SumFunctionOnSet(quantity, rest) + q
    BY <1>7, <1>8, <2>1, SeatsAdded
  <2>3. QuantityOf(Holding)' = QuantityOf(rest) + q
    BY <1>5, <2>2 DEF QuantityOf
  <2> USE DEF rest
  <2> QED
    BY <2>3, ReleasedIsExact
<1>11. QuantityOf(Converted)' = QuantityOf(Converted)
  BY <1>4, <1>6, <1>7, <1>9, SeatsAgree DEF QuantityOf
<1>12. /\ inventory'.reserved = ReleasedStock + q
       /\ inventory'.fulfilled = inventory.fulfilled
       /\ inventory.fulfilled \in Nat
  BY <1>2 DEF TicketTypeOK, TypeOK
<1> QED
  BY <1>2, <1>10, <1>11, <1>12, PaymentAssumption

LEMMA RepeatReleasesStock ==
  ASSUME StockConserved, TicketTypeOK', NEW o \in Orders, RepeatReservation(o)
  PROVE  StockConserved'
<1> USE DEF StockConserved
<1>1. /\ order' = ReleasedOrders
      /\ reservation' = ReleasedReservations
      /\ quantity' = quantity
      /\ inventory' = [inventory EXCEPT !.reserved = ReleasedStock]
  BY DEF RepeatReservation
<1>2. Holding' = Holding \ Overdue
  <2>1. \A k \in Orders :
            /\ order'[k] = ReleasedOrders[k]
            /\ reservation'[k] = ReleasedReservations[k]
    BY <1>1
  <2>2. Holding' = {k \in Orders :
                        \/ ReleasedReservations[k] = "reserved"
                        \/ /\ ReleasedReservations[k] = "none"
                           /\ ReleasedOrders[k] # "none"}
    BY <2>1 DEF Holding
  <2>3. Holding \in SUBSET Orders
    BY StockIsCounted
  <2> QED
    BY <2>2, <2>3, ReleasedHolding
<1>3. Converted' = Converted
  BY <1>1, ReleasedHolding DEF Converted
<1>4. /\ QuantityOf(Holding)' = ReleasedStock
      /\ ReleasedStock \in Nat
      /\ ReleasedStock <= inventory.reserved
      /\ QuantityOf(Converted)' = QuantityOf(Converted)
  BY <1>1, <1>2, <1>3, ReleasedIsExact DEF QuantityOf
<1>5. /\ inventory'.reserved = ReleasedStock
      /\ inventory'.fulfilled = inventory.fulfilled
      /\ inventory.fulfilled \in Nat
      /\ inventory.reserved \in Nat
  BY <1>1 DEF TicketTypeOK, TypeOK
<1> QED
  BY <1>4, <1>5, PaymentAssumption

(* prepare_issuance carries the seats of an order over to the second sum.  *)
LEMMA IssuanceMovesStock ==
  ASSUME SaleInv, StockConserved, TicketTypeOK', NEW o \in Orders,
         PrepareIssuance(o)
  PROVE  StockConserved'
<1> USE DEF StockConserved
<1> DEFINE rest == Holding \ {o}
<1>1. /\ order[o] = "paid" /\ reservation[o] = "reserved"
      /\ order' = [order EXCEPT ![o] = "fulfilling"]
      /\ reservation' = [reservation EXCEPT ![o] = "converted"]
      /\ quantity' = quantity
      /\ inventory' = [reserved |-> inventory.reserved - quantity[o],
                       fulfilled |-> inventory.fulfilled + quantity[o]]
  BY DEF PrepareIssuance, ReadyForIssuance
<1>2. /\ o \in Holding /\ o \notin Converted
      /\ Holding = rest \union {o}
  BY <1>1 DEF Holding, Converted
<1>3. Holding' = rest /\ Converted' = Converted \union {o}
  BY <1>1 DEF Holding, Converted, TicketTypeOK, TypeOK
<1>4. \A k \in Orders : quantity[k] \in Nat
  BY QuantitiesAreNumbers DEF TicketTypeOK
<1>5. Holding \in SUBSET Orders /\ Converted \in SUBSET Orders
  BY StockIsCounted
<1>6. QuantityOf(Holding) = QuantityOf(rest) + quantity[o]
  BY <1>2, <1>4, <1>5, SeatsAdded DEF QuantityOf
<1>7. QuantityOf(Converted \union {o}) = QuantityOf(Converted) + quantity[o]
  BY <1>2, <1>4, <1>5, SeatsAdded DEF QuantityOf
<1>8. /\ QuantityOf(rest) \in Nat
      /\ QuantityOf(Converted) \in Nat
  BY <1>4, <1>5, SeatsTaken DEF QuantityOf
<1>9. /\ QuantityOf(Holding)' = QuantityOf(rest)
      /\ QuantityOf(Converted)' = QuantityOf(Converted \union {o})
  BY <1>1, <1>3 DEF QuantityOf
<1> QED
  BY <1>1, <1>4, <1>6, <1>7, <1>8, <1>9, PaymentAssumption

LEMMA StockStep ==
  ASSUME SaleInv, StockConserved, TicketTypeOK', [TicketNext]_allVars
  PROVE  StockConserved'
<1> USE DEF orderVars, ticketVars
<1>1. CASE UNCHANGED allVars
  BY <1>1, StockStays DEF allVars, vars
<1>2. CASE Next /\ UNCHANGED ticketVars
  <2>1. TypeOK
    BY DEF StockConserved, TicketTypeOK
  <2> QED
    BY <1>2, <2>1, CheckoutLeavesStock, OrderTakesStock, StockStays
<1>3. CASE SaleMoves
  BY <1>3, StockStays DEF SaleMoves, vars
<1>4. CASE \E o \in Orders, b \in Buyers, q \in 1..MaxQuantity :
                CreateReservation(o, b, q)
  BY <1>4, ReservationTakesStock
<1>5. CASE \E o \in Orders : RepeatReservation(o)
  BY <1>5, RepeatReleasesStock
<1>6. CASE \E o \in Orders : ReservationFallsDue(o)
  BY <1>6, StockStays DEF ReservationFallsDue, vars
<1>7. CASE \E o \in Orders : PrepareIssuance(o)
  BY <1>7, IssuanceMovesStock
<1>8. ASSUME NEW o \in Orders, NEW c \in Count, AcceptOwnershipEvidence(o, c)
      PROVE  StockConserved'
  <2>1. UNCHANGED <<quantity, inventory, reservation>>
    BY <1>8 DEF AcceptOwnershipEvidence
  <2>2. \A k \in Orders : order'[k] = "none" <=> order[k] = "none"
    BY <1>8 DEF AcceptOwnershipEvidence, StockConserved, TicketTypeOK, TypeOK
  <2> QED
    BY <2>1, <2>2, StockStays
<1>9. CASE \E o \in Orders :
              CountRemaining(o) \/ \E c \in Count : RollBackReport(o, c)
  BY <1>9, StockStays DEF CountRemaining, RollBackReport, vars
<1> QED
  BY <1>1, <1>2, <1>3, <1>4, <1>5, <1>6, <1>7, <1>8, <1>9 DEF TicketNext

(* create_order, create_reservation, release_expired_for_product and       *)
(* prepare_issuance, in any order and over any number of orders, keep the  *)
(* counters of product_inventory equal to the seats they stand for, and    *)
(* those within the supply.                                                *)
THEOREM TicketStockConserved == TicketSpec => []StockConserved
<1>1. TicketInit => StockConserved
  <2> SUFFICES ASSUME TicketInit
               PROVE  StockConserved
    OBVIOUS
  <2>1. Holding = {} /\ Converted = {}
    BY DEF TicketInit, Init, Holding, Converted
  <2>2. QuantityOf(Holding) = 0 /\ QuantityOf(Converted) = 0
    BY <2>1, SumEmpty DEF QuantityOf
  <2> QED
    BY <2>2, TicketTypeInit, PaymentAssumption
    DEF StockConserved, TicketInit, Init
<1>2. SaleInv /\ StockConserved /\ [TicketNext]_allVars => StockConserved'
  BY StockStep, TicketTypeStep DEF StockConserved
<1> QED
  BY <1>1, <1>2, TicketSalesInvariant, PTL DEF TicketSpec
-----------------------------------------------------------------------------
(* A buyer holds the seats of the orders that are reserved or converted.   *)
Holds(b, o) == buyer[o] = b /\ reservation[o] \in {"reserved", "converted"}

(* Buyers gain nothing from a step that writes no quantity of theirs and   *)
(* makes none of them hold one more order.                                 *)
LEMMA HeldStays ==
  ASSUME TicketTypeOK, NEW b \in Buyers, HeldBy(b, reservation) <= PerUserLimit,
         \A o \in Orders : Holds(b, o)' => /\ Holds(b, o)
                                           /\ quantity'[o] = quantity[o]
  PROVE  HeldBy(b, reservation)' <= PerUserLimit
<1> DEFINE held == {o \in Orders : Holds(b, o)}
           next == {o \in Orders : Holds(b, o)'}
<1>1. next \in SUBSET held /\ held \in SUBSET Orders
  OBVIOUS
<1>2. \A k \in Orders : quantity[k] \in Nat
  BY QuantitiesAreNumbers DEF TicketTypeOK
<1>3. /\ SumFunctionOnSet(quantity, next) <= SumFunctionOnSet(quantity, held)
      /\ SumFunctionOnSet(quantity, next) \in Nat
      /\ SumFunctionOnSet(quantity, held) \in Nat
  BY <1>1, <1>2, SeatsTaken
<1>4. SumFunctionOnSet(quantity', next) = SumFunctionOnSet(quantity, next)
  BY <1>1, SeatsAgree
<1>5. /\ HeldBy(b, reservation) = SumFunctionOnSet(quantity, held)
      /\ HeldBy(b, reservation)' = SumFunctionOnSet(quantity', next)
  BY DEF HeldBy, Holds, QuantityOf
<1> QED
  BY <1>3, <1>4, <1>5, TicketAssumption

(* create_reservation counts, with what is asked for, what is left when    *)
(* the overdue are released.                                               *)
LEMMA ReservationWithinLimit ==
  ASSUME SaleInv, TicketTypeOK, TicketTypeOK', PerUserLimitKept,
         NEW o \in Orders, NEW b \in Buyers, NEW q \in 1..MaxQuantity,
         CreateReservation(o, b, q)
  PROVE  PerUserLimitKept'
<1>1. order[o] = "none" /\ reservation[o] = "none"
  BY DEF CreateReservation, SaleInv, RowsInv, RowOf
<1>2. /\ reservation' = [ReleasedReservations EXCEPT ![o] = "reserved"]
      /\ quantity' = [quantity EXCEPT ![o] = q]
      /\ buyer' = [buyer EXCEPT ![o] = b]
      /\ HeldBy(b, ReleasedReservations) + q <= PerUserLimit
  BY DEF CreateReservation, WithinLimit
<1>3. /\ buyer'[o] = b /\ reservation'[o] = "reserved" /\ quantity'[o] = q
      /\ \A k \in Orders \ {o} : /\ buyer'[k] = buyer[k]
                                 /\ reservation'[k] = ReleasedReservations[k]
                                 /\ quantity'[k] = quantity[k]
  BY <1>2 DEF ReleasedReservations, TicketTypeOK, TypeOK
<1>4. ASSUME NEW other \in Buyers \ {b}
      PROVE  HeldBy(other, reservation)' <= PerUserLimit
  <2>1. \A k \in Orders : Holds(other, k)' =>
                /\ Holds(other, k)
                /\ quantity'[k] = quantity[k]
    BY <1>3 DEF Holds, ReleasedReservations
  <2> QED
    BY <2>1, HeldStays DEF PerUserLimitKept
<1>5. HeldBy(b, reservation)' <= PerUserLimit
  <2> DEFINE left == {k \in Orders :
                        /\ buyer[k] = b
                        /\ ReleasedReservations[k] \in {"reserved", "converted"}}
             next == {k \in Orders : Holds(b, k)'}
  <2>1. left \in SUBSET Orders /\ o \notin left
    BY <1>1 DEF ReleasedReservations, Overdue
  <2>2. next = left \union {o}
    BY <1>3, <2>1 DEF Holds
  <2>3. \A k \in Orders : quantity[k] \in Nat /\ quantity'[k] \in Nat
    BY PaymentAssumption DEF TicketTypeOK, TypeOK
  <2>4. SumFunctionOnSet(quantity', next) = SumFunctionOnSet(quantity, left) + q
    BY <1>3, <2>1, <2>2, <2>3, SeatsAdded
  <2>5. /\ HeldBy(b, ReleasedReservations) = SumFunctionOnSet(quantity, left)
        /\ HeldBy(b, reservation)' = SumFunctionOnSet(quantity', next)
    BY DEF HeldBy, Holds, QuantityOf
  <2> QED
    BY <1>2, <2>4, <2>5
<1> QED
  BY <1>4, <1>5 DEF PerUserLimitKept

LEMMA LimitStep ==
  ASSUME SaleInv, TicketTypeOK, TicketTypeOK', PerUserLimitKept,
         [TicketNext]_allVars
  PROVE  PerUserLimitKept'
<1> USE DEF orderVars, ticketVars
<1>1. ASSUME \A b \in Buyers, o \in Orders : Holds(b, o)' =>
                  /\ Holds(b, o)
                  /\ quantity'[o] = quantity[o]
      PROVE  PerUserLimitKept'
  BY <1>1, HeldStays DEF PerUserLimitKept
<1>2. CASE UNCHANGED <<quantity, reservation, buyer>>
  BY <1>1, <1>2 DEF Holds
<1>3. CASE Next /\ UNCHANGED ticketVars
  <2>1. TypeOK
    BY DEF TicketTypeOK
  <2>2. ASSUME NEW o \in Orders, NEW q \in 1..MaxQuantity, CreateOrder(o, q)
        PROVE  PerUserLimitKept'
    <3>1. reservation[o] = "none"
      BY <2>2 DEF CreateOrder, SaleInv, RowsInv, RowOf
    <3>2. \A k \in Orders \ {o} : quantity'[k] = quantity[k]
      BY <2>2 DEF CreateOrder
    <3> QED
      BY <1>1, <1>3, <3>1, <3>2 DEF Holds
  <2> QED
    BY <1>2, <1>3, <2>1, <2>2, CheckoutLeavesStock
<1>4. CASE \E o \in Orders, b \in Buyers, q \in 1..MaxQuantity :
                CreateReservation(o, b, q)
  BY <1>4, ReservationWithinLimit
<1>5. ASSUME NEW o \in Orders, RepeatReservation(o)
      PROVE  PerUserLimitKept'
  <2>1. /\ UNCHANGED <<quantity, buyer>>
        /\ reservation' = ReleasedReservations
    BY <1>5 DEF RepeatReservation
  <2> QED
    BY <1>1, <2>1 DEF Holds, ReleasedReservations
<1>6. ASSUME NEW o \in Orders, PrepareIssuance(o)
      PROVE  PerUserLimitKept'
  <2>1. /\ UNCHANGED <<quantity, buyer>>
        /\ reservation[o] = "reserved"
        /\ reservation' = [reservation EXCEPT ![o] = "converted"]
    BY <1>6 DEF PrepareIssuance, ReadyForIssuance
  <2> QED
    BY <1>1, <2>1 DEF Holds
<1> QED
  BY <1>2, <1>3, <1>4, <1>5, <1>6
  DEF TicketNext, allVars, vars, SaleMoves, ReservationFallsDue,
      CountRemaining, AcceptOwnershipEvidence, RollBackReport

(* Whatever create_reservation and release_expired_for_product do in turn, *)
(* no buyer holds more seats than per_user_limit.                          *)
THEOREM TicketLimitKept == TicketSpec => []PerUserLimitKept
<1>1. TicketInit => PerUserLimitKept
  <2> SUFFICES ASSUME TicketInit, NEW b \in Buyers
               PROVE  HeldBy(b, reservation) <= PerUserLimit
    BY DEF PerUserLimitKept
  <2>1. {o \in Orders : /\ buyer[o] = b
                        /\ reservation[o] \in {"reserved", "converted"}} = {}
    BY DEF TicketInit
  <2> QED
    BY <2>1, SumEmpty, TicketAssumption DEF HeldBy, QuantityOf
<1>2. /\ SaleInv /\ TicketTypeOK /\ TicketTypeOK' /\ PerUserLimitKept
      /\ [TicketNext]_allVars
      => PerUserLimitKept'
  BY LimitStep
<1> QED
  BY <1>1, <1>2, TicketSalesInvariant, TicketTypes, PTL DEF TicketSpec
-----------------------------------------------------------------------------
(* The attempts that count as payers of an order in the lifecycle.         *)
Paying(o) == IF order[o] \in Settled THEN PayersOf(o) ELSE {}

(* Selling and issuing tickets touches none of them.                       *)
LEMMA MovesKeepPayers ==
  ASSUME SaleTypes, OrdersMove, UNCHANGED attemptVars
  PROVE  \A o \in Orders : Paying(o)' = Paying(o)
<1>1. \A o \in Orders : order'[o] \in Settled <=> order[o] \in Settled
  BY DEF OrdersMove, Settled
<1>2. \A o \in Orders : PayersOf(o)' = PayersOf(o)
  BY DEF attemptVars, PayersOf
<1> QED
  BY <1>1, <1>2 DEF Paying

(* A payment settles an order that waits, out of this one attempt, and     *)
(* leaves an expired order as it is.                                       *)
LEMMA PaysOrStutters ==
  ASSUME SaleTypes, AttemptInv, NEW a \in Attempts, AttemptPays(a),
         NEW o \in Orders, attemptOrder[a] = o
  PROVE  \/ UNCHANGED TicketLifecycle!vars
         \/ TicketLifecycle!Pay(o, a)
<1>1. /\ attempt[a] \in ActiveAttempt
      /\ attempt' = [attempt EXCEPT ![a] = "confirmed"]
      /\ order' = [order EXCEPT ![o] =
              IF @ = "awaiting_payment" THEN "paid" ELSE @]
      /\ attemptOrder' = attemptOrder
  BY DEF AttemptPays, MarkPaid
<1>2. order[o] \in {"awaiting_payment", "expired"}
  BY <1>1 DEF AttemptInv, ActiveAttempt
<1>3. \A p \in Orders \ {o} : PayersOf(p)' = PayersOf(p)
  BY <1>1 DEF PayersOf, SaleTypes
<1>4. PayersOf(o)' = {a}
  <2>1. \A b \in Attempts : attemptOrder[b] = o /\ b # a => ~Live(b)
    BY <1>1 DEF AttemptInv, Live
  <2>2. \A b \in Attempts : b # a => attempt'[b] = attempt[b]
    BY <1>1 DEF SaleTypes
  <2>3. attempt'[a] = "confirmed"
    BY <1>1 DEF SaleTypes
  <2> QED
    BY <1>1, <2>1, <2>2, <2>3 DEF PayersOf, Live
<1>5. \A p \in Orders \ {o} : order'[p] = order[p]
  BY <1>1 DEF SaleTypes
<1>6. \A p \in Orders \ {o} : Paying(p)' = Paying(p)
  BY <1>3, <1>5 DEF Paying
<1>7. CASE order[o] = "expired"
  <2>1. order' = order
    BY <1>1, <1>2, <1>7 DEF SaleTypes
  <2>2. Paying(o)' = Paying(o)
    BY <1>2, <1>7, <2>1 DEF Paying, Settled
  <2>3. \A p \in Orders : Paying(p)' = Paying(p)
    BY <1>6, <2>2
  <2>4. [p \in Orders |-> Paying(p)]' = [p \in Orders |-> Paying(p)]
    BY <2>3
  <2> QED
    BY <2>1, <2>4 DEF TicketLifecycle!vars, Paying
<1>8. CASE order[o] = "awaiting_payment"
  <2>1. order' = [order EXCEPT ![o] = "paid"]
    BY <1>1, <1>8
  <2>2. Paying(o) = {} /\ Paying(o)' = {a}
    BY <1>2, <1>4, <1>8, <2>1 DEF Paying, Settled, SaleTypes
  <2>3. [p \in Orders |-> Paying(p)]' =
            [[p \in Orders |-> Paying(p)] EXCEPT ![o] = {a}]
    BY <1>2, <1>6, <2>2
  <2>4. \A p \in Orders : a \notin Paying(p)
    BY <1>1 DEF Paying, PayersOf, ActiveAttempt
  <2>5. TicketLifecycle!Move(o, "awaiting_payment", "paid")
    BY <1>8, <2>1 DEF TicketLifecycle!Move
  <2> QED
    BY <2>3, <2>4, <2>5 DEF TicketLifecycle!Pay, Paying
<1> QED
  BY <1>2, <1>7, <1>8

(* The orders that are overdue and still wait expire together.             *)
LEMMA ReleaseExpires ==
  ASSUME SaleTypes
  PROVE  \E overdue \in SUBSET Orders :
            /\ \A o \in overdue : order[o] = "awaiting_payment"
            /\ ReleasedOrders = TicketLifecycle!Expired(overdue)
<1> DEFINE overdue == {o \in Orders : /\ o \in Overdue
                                      /\ order[o] = "awaiting_payment"}
<1>1. ReleasedOrders = TicketLifecycle!Expired(overdue)
  BY DEF ReleasedOrders, TicketLifecycle!Expired
<1> QED
  BY <1>1

(* The sale of tickets implements the lifecycle of an order: it places and *)
(* expires, pays, begins and finishes orders as the lifecycle does, though *)
(* an attempt on an expired order may be confirmed.                        *)
THEOREM TicketSalesImplementLifecycle == TicketSpec => SellsLifecycle
<1>1. TicketInit => TicketLifecycle!Init
  BY DEF TicketInit, Init, TicketLifecycle!Init, Settled
<1>2. SaleInv /\ [TicketNext]_allVars
        => [TicketLifecycle!Next]_(TicketLifecycle!vars)
  <2> SUFFICES ASSUME SaleInv, [TicketNext]_allVars
               PROVE  [TicketLifecycle!Next]_(TicketLifecycle!vars)
    OBVIOUS
  <2>1. SaleTypes /\ AttemptInv /\ EvidenceInv /\ RowsInv /\ SaleStep
    BY SaleSteps DEF SaleInv
  <2>2. ASSUME \A o \in Orders : Paying(o)' = Paying(o), UNCHANGED order
        PROVE  UNCHANGED TicketLifecycle!vars
    BY <2>2 DEF TicketLifecycle!vars, Paying
  <2>3. ASSUME OrdersMove, UNCHANGED attemptVars
        PROVE  UNCHANGED [o \in Orders |-> Paying(o)]
    BY <2>1, <2>3, MovesKeepPayers
  <2>4. CASE UNCHANGED <<order, attemptVars>>
    <3>1. \A o \in Orders : Paying(o)' = Paying(o)
      BY <2>4 DEF attemptVars, Paying, PayersOf
    <3> QED
      BY <2>2, <2>4, <3>1
  <2>5. ASSUME Next
        PROVE  [TicketLifecycle!Next]_(TicketLifecycle!vars)
    <3>1. CheckoutStep
      BY <2>1, <2>5, CheckoutSteps
    <3>2. CASE UNCHANGED <<order, quantity, attempt, attemptOrder>>
      <4>1. \A o \in Orders : Paying(o)' = Paying(o)
        BY <3>2 DEF Paying, PayersOf
      <4> QED
        BY <2>2, <3>2, <4>1
    <3>3. ASSUME NEW o \in Orders, NEW q \in 1..MaxQuantity, Places(o, q)
          PROVE  TicketLifecycle!Next
      <4>1. OrdersMove /\ UNCHANGED attemptVars
        BY <2>1, <3>3 DEF Places, OrdersMove, SaleTypes
      <4>2. TicketLifecycle!Expired({}) = order
        BY <2>1 DEF SaleTypes, TicketLifecycle!Expired
      <4>3. TicketLifecycle!Place(o, {})
        BY <2>3, <3>3, <4>1, <4>2 DEF Places, TicketLifecycle!Place, Paying
      <4>4. \E overdue \in SUBSET Orders, p \in Orders :
                TicketLifecycle!Place(p, overdue)
        BY <4>3
      <4> QED
        BY <4>4, Zenon DEF TicketLifecycle!Next
    <3>4. ASSUME NEW a \in Attempts,
                 AttemptFails(a) \/ \E o \in Orders : Opens(a, o)
          PROVE  UNCHANGED TicketLifecycle!vars
      <4>1. /\ attempt[a] # "confirmed" /\ attempt'[a] # "confirmed"
            /\ \A b \in Attempts \ {a} : /\ attempt'[b] = attempt[b]
                                         /\ attemptOrder'[b] = attemptOrder[b]
            /\ UNCHANGED order
        BY <2>1, <3>4 DEF AttemptFails, Opens, ActiveAttempt, SaleTypes
      <4>2. \A o \in Orders : Paying(o)' = Paying(o)
        BY <4>1 DEF Paying, PayersOf
      <4> QED
        BY <2>2, <4>1, <4>2
    <3>5. ASSUME NEW a \in Attempts, AttemptPays(a)
          PROVE  [TicketLifecycle!Next]_(TicketLifecycle!vars)
      <4>1. attemptOrder[a] \in Orders
        BY <2>1, <3>5 DEF AttemptPays, AttemptInv, ActiveAttempt
      <4>2. CASE TicketLifecycle!Pay(attemptOrder[a], a)
        <5>1. \E o \in Orders, b \in Attempts : TicketLifecycle!Pay(o, b)
          BY <4>1, <4>2
        <5> QED
          BY <5>1, Zenon DEF TicketLifecycle!Next
      <4>3. \A o \in Orders : attemptOrder[a] = o =>
                \/ UNCHANGED TicketLifecycle!vars
                \/ TicketLifecycle!Pay(o, a)
        BY <2>1, <3>5, PaysOrStutters
      <4> QED
        BY <4>1, <4>2, <4>3
    <3> QED
      BY <3>1, <3>2, <3>3, <3>4, <3>5 DEF CheckoutStep
  <2>6. CASE ReleaseStep
    <3>1. OrdersMove /\ UNCHANGED attemptVars
      BY <2>1, <2>6, SalesMove
    <3>2. PICK overdue \in SUBSET Orders :
              /\ \A o \in overdue : order[o] = "awaiting_payment"
              /\ ReleasedOrders = TicketLifecycle!Expired(overdue)
      BY <2>1, ReleaseExpires
    <3>3. TicketLifecycle!Expire(overdue)
      BY <2>3, <2>6, <3>1, <3>2
      DEF ReleaseStep, TicketLifecycle!Expire, Paying
    <3>4. \E late \in SUBSET Orders : TicketLifecycle!Expire(late)
      BY <3>3
    <3> QED
      BY <3>4, Zenon DEF TicketLifecycle!Next
  <2>7. ASSUME NEW o \in Orders, NEW q \in 1..MaxQuantity, ReserveStep(o, q)
        PROVE  TicketLifecycle!Next
    <3>1. OrdersMove /\ UNCHANGED attemptVars
      BY <2>1, <2>7, SalesMove
    <3>2. PICK overdue \in SUBSET Orders :
              /\ \A p \in overdue : order[p] = "awaiting_payment"
              /\ ReleasedOrders = TicketLifecycle!Expired(overdue)
      BY <2>1, ReleaseExpires
    <3>3. TicketLifecycle!Place(o, overdue)
      BY <2>3, <2>7, <3>1, <3>2
      DEF ReserveStep, TicketLifecycle!Place, Paying
    <3>4. \E late \in SUBSET Orders, p \in Orders :
              TicketLifecycle!Place(p, late)
      BY <3>3
    <3> QED
      BY <3>4, Zenon DEF TicketLifecycle!Next
  <2>8. ASSUME NEW o \in Orders, PrepareStep(o)
        PROVE  TicketLifecycle!Next
    <3>1. OrdersMove /\ UNCHANGED attemptVars
      BY <2>1, <2>8, SalesMove
    <3>2. TicketLifecycle!Begin(o)
      BY <2>3, <2>8, <3>1 DEF PrepareStep, ReadyForIssuance,
         TicketLifecycle!Begin, TicketLifecycle!Move, Paying
    <3>3. \E p \in Orders : TicketLifecycle!Begin(p)
      BY <3>2
    <3> QED
      BY <3>3, Zenon DEF TicketLifecycle!Next
  <2>9. ASSUME NEW o \in Orders, NEW c \in Count, IssueStep(o, c)
        PROVE  [TicketLifecycle!Next]_(TicketLifecycle!vars)
    <3>1. OrdersMove /\ UNCHANGED attemptVars
      BY <2>1, <2>9, SalesMove
    <3>2. CASE /\ order[o] = "fulfilling"
               /\ order' = [order EXCEPT ![o] = "fulfilled"]
      <4>1. TicketLifecycle!Finish(o)
        BY <2>3, <3>1, <3>2 DEF TicketLifecycle!Finish,
           TicketLifecycle!Move, Paying
      <4>2. \E p \in Orders : TicketLifecycle!Finish(p)
        BY <4>1
      <4> QED
        BY <4>2, Zenon DEF TicketLifecycle!Next
    <3>3. CASE order' = order
      BY <2>1, <2>2, <3>1, <3>3, MovesKeepPayers
    <3> QED
      BY <2>1, <2>9, <3>2, <3>3 DEF IssueStep, SaleTypes
  <2> QED
    BY <2>1, <2>2, <2>4, <2>5, <2>6, <2>7, <2>8, <2>9 DEF SaleStep, ReportStep
<1> QED
  BY <1>1, <1>2, TicketSalesInvariant, PTL
  DEF TicketSpec, SellsLifecycle, TicketLifecycle!Spec
=============================================================================
