---------------------------- MODULE PayoutsProofs ---------------------------
(***************************************************************************)
(* Theorems about module Payouts, for any orders, prices, rules, divisions *)
(* and transactions.                                                       *)
(*                                                                         *)
(* A batch is a summary of three transfers that several handlers write.    *)
(* BatchOf says what each of its statuses means for them, also for         *)
(* 'partial', of which the checked property says nothing.  PaidOf says of  *)
(* a confirmed transfer which payment it was confirmed by, and that this   *)
(* payment is used up.  With this, transfers implement module              *)
(* LedgerConfirmation.                                                     *)
(***************************************************************************)
EXTENDS Payouts, TLAPS, FiniteSetTheorems

(* The summary of a batch of one order. *)
BatchOf(o) ==
    LET all(status) == \A role \in Roles : transfer[o][role].status = status
    IN  /\ rule[batch[o].rule] # None
        /\ \A role \in Roles :
            /\ transfer[o][role].amount =
                    Split(Price[o], rule[batch[o].rule].bps)[role]
            /\ transfer[o][role].amount > 0
        /\ batch[o].confirmed = Cardinality(Confirmed(o))
        /\ batch[o].status = "prepared" => all("pending")
        /\ batch[o].status = "submitted" => all("submitted")
        /\ batch[o].status = "failed" => all("failed")
        /\ batch[o].status = "confirmed" => all("confirmed")
        /\ batch[o].status = "partial" =>
            /\ Confirmed(o) # {}
            /\ Confirmed(o) # Roles
            /\ \A role \in Roles : transfer[o][role].status # "pending"

(* The payment that confirmed a transfer, if it is confirmed. *)
PaidOf(o, role) ==
    LET p == transfer[o][role].operation
    IN  transfer[o][role].status = "confirmed" =>
            /\ p \in Operations
            /\ evidence[p] = "accepted"
            /\ outcome[p[1]] = "success"
            /\ batch[o].tx = p[1]
            /\ sent[p[1]] # None
            /\ PaysTransfer(o, role, p)

Done(o, role) == batch[o] # None /\ transfer[o][role].status = "confirmed"

Unshared ==
    \A o, k \in Orders, role, other \in Roles :
        Done(o, role) /\ Done(k, other) =>
            (transfer[o][role].operation = transfer[k][other].operation =>
                o = k /\ role = other)

RulesAreValid == \A q \in Rules : rule[q] # None => ValidBps(rule[q].bps)

SentInv ==
    \A x \in Txs : /\ sent[x] # None => batch[sent[x]] # None
                   /\ outcome[x] # "none" => sent[x] # None

RowsInv ==
    \A o \in Orders : batch[o] # None =>
        BatchOf(o) /\ \A role \in Roles : PaidOf(o, role)

IInv == TypeOK /\ RulesAreValid /\ SentInv /\ RowsInv /\ Unshared
-----------------------------------------------------------------------------
(* The rounded quotient is not above the quotient.                         *)
LEMMA RoundedDown ==
  ASSUME NEW x \in Nat
  PROVE  /\ x \div BpsDenominator \in Nat
         /\ (x \div BpsDenominator) * BpsDenominator <= x
  BY DEF BpsDenominator

(* Basis points are natural numbers.                                       *)
LEMMA InBasisPoints ==
  ASSUME NEW bps \in [Roles -> 0..BpsDenominator], NEW role \in Roles
  PROVE  bps[role] \in Nat
<1>1. bps[role] \in 0..BpsDenominator
  OBVIOUS
<1>2. 0..BpsDenominator \subseteq Nat
  BY DEF BpsDenominator
<1> QED
  BY <1>1, <1>2

(* Parts of a whole take parts of the total.                               *)
LEMMA PartsOfTotal ==
  ASSUME NEW t \in Nat, NEW a \in Nat, NEW b \in Nat, NEW c \in Nat,
         a + b + c = BpsDenominator
  PROVE  t * a + t * b <= t * BpsDenominator
<1>1. t * a \in Nat /\ t * b \in Nat /\ t * c \in Nat
  OBVIOUS
<1>2. t * (a + b + c) = t * a + t * b + t * c
  OBVIOUS
<1> QED
  BY <1>1, <1>2 DEF BpsDenominator

(* calculate_split divides any amount by any valid basis points without    *)
(* loss: the shares are natural numbers that add up to the amount, and the *)
(* rounded ones do not exceed their basis points.                          *)
THEOREM SplitIsExact ==
  ASSUME NEW total \in Nat, NEW bps \in [Roles -> 0..BpsDenominator],
         ValidBps(bps)
  PROVE  LET share == Split(total, bps)
         IN  /\ share \in [Roles -> Nat]
             /\ share["candidate"] + share["organizer"]
                    + share["platform"] = total
             /\ \A role \in Roles \ {"platform"} :
                    share[role] * BpsDenominator <= total * bps[role]
<1> DEFINE c == RoundedShare(total, bps, "candidate")
           o == RoundedShare(total, bps, "organizer")
           share == Split(total, bps)
<1>1. \A role \in Roles : bps[role] \in Nat
  BY InBasisPoints
<1>2. \A role \in Roles : total * bps[role] \in Nat
  BY <1>1
<1>3. \A role \in Roles :
        /\ RoundedShare(total, bps, role) \in Nat
        /\ RoundedShare(total, bps, role) * BpsDenominator
                <= total * bps[role]
  BY <1>2, RoundedDown DEF RoundedShare
<1>4. total * bps["candidate"] + total * bps["organizer"]
        <= total * BpsDenominator
  BY <1>1, PartsOfTotal DEF ValidBps, Roles
<1>5. c \in Nat /\ o \in Nat /\ c + o <= total
  <2>1. /\ c \in Nat /\ c * BpsDenominator <= total * bps["candidate"]
        /\ o \in Nat /\ o * BpsDenominator <= total * bps["organizer"]
    BY <1>3 DEF Roles
  <2>2. /\ total * bps["candidate"] \in Nat
        /\ total * bps["organizer"] \in Nat
    BY <1>2 DEF Roles
  <2> HIDE DEF c, o
  <2> QED
    BY <2>1, <2>2, <1>4 DEF BpsDenominator
<1>6. /\ share["candidate"] = c
      /\ share["organizer"] = o
      /\ share["platform"] = total - c - o
      /\ share = [role \in Roles |-> share[role]]
  BY DEF Split, Roles
<1>7. /\ share \in [Roles -> Nat]
      /\ share["candidate"] + share["organizer"] + share["platform"] = total
  <2> HIDE DEF c, o, share
  <2> QED
    BY <1>5, <1>6 DEF Roles
<1>8. \A role \in Roles \ {"platform"} :
        share[role] * BpsDenominator <= total * bps[role]
  BY <1>3 DEF Split, Roles
<1> QED
  BY <1>7, <1>8
-----------------------------------------------------------------------------
(* What each handler does to the rows of one order, field by field. *)

(* The three roles as a finite set.                                        *)
LEMMA ThreeRoles == IsFiniteSet(Roles) /\ Cardinality(Roles) = 3
<1>1. IsFiniteSet({}) /\ Cardinality({}) = 0
  BY FS_EmptySet
<1>2. /\ IsFiniteSet({} \union {"candidate"})
      /\ Cardinality({} \union {"candidate"}) = 1
  BY <1>1, FS_AddElement
<1>3. /\ IsFiniteSet({} \union {"candidate"} \union {"organizer"})
      /\ Cardinality({} \union {"candidate"} \union {"organizer"}) = 2
  BY <1>2, FS_AddElement
<1>4. /\ IsFiniteSet({} \union {"candidate"} \union {"organizer"}
                        \union {"platform"})
      /\ Cardinality({} \union {"candidate"} \union {"organizer"}
                        \union {"platform"}) = 3
  BY <1>3, FS_AddElement
<1>5. Roles = {} \union {"candidate"} \union {"organizer"} \union {"platform"}
  BY DEF Roles
<1> QED
  BY <1>4, <1>5

(* How many transfers are confirmed.                                       *)
LEMMA CountConfirmed ==
  ASSUME NEW S \in SUBSET Roles
  PROVE  /\ IsFiniteSet(S) /\ Cardinality(S) \in 0..3
         /\ Cardinality(S) = 0 <=> S = {}
         /\ Cardinality(S) = 3 <=> S = Roles
         /\ \A role \in Roles \ S :
                Cardinality(S \union {role}) = Cardinality(S) + 1
<1>1. /\ IsFiniteSet(S) /\ Cardinality(S) <= 3
      /\ Cardinality(S) = 3 <=> S = Roles
  BY ThreeRoles, FS_Subset
<1>2. Cardinality(S) \in Nat
  BY <1>1, FS_CardinalityType
<1>3. Cardinality(S) \in 0..3
  BY <1>1, <1>2
<1>4. Cardinality(S) = 0 <=> S = {}
  BY <1>1, FS_EmptySet
<1>5. ASSUME NEW role \in Roles \ S
      PROVE  Cardinality(S \union {role}) = Cardinality(S) + 1
  BY <1>1, <1>5, FS_AddElement
<1> QED
  BY <1>1, <1>3, <1>4, <1>5

(* MoveTransfers changes statuses, and nothing else of a transfer.         *)
LEMMA MovedTransfers ==
  ASSUME NEW o, transfer[o] \in [Roles -> Transfer], NEW from,
         NEW to \in {"submitted", "failed"}
  PROVE  LET moved == MoveTransfers(o, from, to)
         IN  /\ moved \in [Roles -> Transfer]
             /\ \A role \in Roles :
                /\ moved[role].amount = transfer[o][role].amount
                /\ moved[role].operation = transfer[o][role].operation
                /\ moved[role].status =
                        IF transfer[o][role].status = from
                        THEN to ELSE transfer[o][role].status
<1>1. ASSUME NEW t \in Transfer
      PROVE  /\ [t EXCEPT !.status = to] \in Transfer
             /\ [t EXCEPT !.status = to].amount = t.amount
             /\ [t EXCEPT !.status = to].operation = t.operation
             /\ [t EXCEPT !.status = to].status = to
  BY DEF Transfer
<1>2. \A role \in Roles : transfer[o][role] \in Transfer
  OBVIOUS
<1> QED
  BY <1>1, <1>2 DEF MoveTransfers

(* create_payout_batch writes a prepared batch and three pending transfers *)
(* of positive amounts.                                                    *)
LEMMA CreateBatchEffect ==
  ASSUME TypeOK, NEW o \in Orders, NEW q \in Rules, CreatePayoutBatch(o, q)
  PROVE  LET row == [rule |-> q, tx |-> None, confirmed |-> 0,
                     status |-> "prepared"]
         IN  /\ batch[o] = None /\ rule[q] # None
             /\ batch' = [batch EXCEPT ![o] = row] /\ row \in Batch
             /\ transfer' = [transfer EXCEPT ![o] = transfer'[o]]
             /\ transfer'[o] \in [Roles -> Transfer]
             /\ \A role \in Roles :
                /\ transfer'[o][role].status = "pending"
                /\ transfer'[o][role].amount =
                        Split(Price[o], rule[q].bps)[role]
                /\ transfer'[o][role].amount > 0
<1>1. rule[q] # None /\ rule[q] \in Rule
  BY DEF CreatePayoutBatch, TypeOK
<1>2. Price[o] \in Nat /\ \A role \in Roles : rule[q].bps[role] \in Nat
  <2>1. rule[q].bps \in Divisions
    BY <1>1 DEF Rule
  <2>2. rule[q].bps \in [Roles -> 0..BpsDenominator]
    BY <2>1, PayoutsAssumption
  <2> QED
    BY <2>2, InBasisPoints, PayoutsAssumption
<1>3. \A role \in Roles : RoundedShare(Price[o], rule[q].bps, role) \in Nat
  BY <1>2, RoundedDown DEF RoundedShare
<1>4. \A role \in Roles : Split(Price[o], rule[q].bps)[role] \in Int
  BY <1>2, <1>3 DEF Split, Roles
<1>5. \A role \in Roles : Split(Price[o], rule[q].bps)[role] > 0
  BY DEF CreatePayoutBatch
<1>6. \A role \in Roles : Split(Price[o], rule[q].bps)[role] \in Nat
  BY <1>4, <1>5
<1> DEFINE new == [role \in Roles |->
                    [amount |-> Split(Price[o], rule[q].bps)[role],
                     operation |-> None, status |-> "pending"]]
<1>7. new \in [Roles -> Transfer]
  BY <1>6 DEF Transfer
<1>8. transfer' = [transfer EXCEPT ![o] = new]
  BY DEF CreatePayoutBatch
<1>9. transfer'[o] = new
  BY <1>8 DEF TypeOK
<1>10. /\ batch[o] = None
       /\ batch' = [batch EXCEPT ![o] =
                [rule |-> q, tx |-> None, confirmed |-> 0,
                 status |-> "prepared"]]
  BY DEF CreatePayoutBatch
<1>11. [rule |-> q, tx |-> None, confirmed |-> 0,
        status |-> "prepared"] \in Batch
  BY DEF Batch
<1>12. \A role \in Roles :
        /\ new[role].status = "pending"
        /\ new[role].amount = Split(Price[o], rule[q].bps)[role]
  OBVIOUS
<1> HIDE DEF new
<1> QED
  BY <1>1, <1>5, <1>7, <1>8, <1>9, <1>10, <1>11, <1>12

(* record_payout_submission moves a prepared batch and its transfers on.   *)
LEMMA SubmissionEffect ==
  ASSUME TypeOK, NEW o \in Orders, NEW x \in Txs, RecordPayoutSubmission(o, x)
  PROVE  /\ batch[o] \in Batch /\ batch[o].status = "prepared"
         /\ batch' = [batch EXCEPT ![o] = batch'[o]] /\ batch'[o] \in Batch
         /\ batch'[o].rule = batch[o].rule
         /\ batch'[o].confirmed = batch[o].confirmed
         /\ batch'[o].status = "submitted"
         /\ transfer[o] \in [Roles -> Transfer]
         /\ transfer' = [transfer EXCEPT ![o] =
                            MoveTransfers(o, "pending", "submitted")]
<1>1. batch[o] \in Batch /\ transfer[o] \in [Roles -> Transfer]
  BY DEF TypeOK, RecordPayoutSubmission
<1> DEFINE row == [batch[o] EXCEPT !.status = "submitted", !.tx = x]
<1>2. /\ row \in Batch /\ row.rule = batch[o].rule
      /\ row.confirmed = batch[o].confirmed /\ row.status = "submitted"
  BY <1>1 DEF Batch
<1>3. batch' = [batch EXCEPT ![o] = row] /\ batch'[o] = row
  BY <1>1 DEF RecordPayoutSubmission, TypeOK
<1> HIDE DEF row
<1> QED
  BY <1>1, <1>2, <1>3 DEF RecordPayoutSubmission

(* record_payout_failure fails what is not confirmed yet.                  *)
LEMMA FailureEffect ==
  ASSUME TypeOK, NEW o \in Orders, RecordPayoutFailure(o)
  PROVE  /\ batch[o] \in Batch /\ batch[o].status \in {"submitted", "partial"}
         /\ batch' = [batch EXCEPT ![o] = batch'[o]] /\ batch'[o] \in Batch
         /\ batch'[o].rule = batch[o].rule /\ batch'[o].tx = batch[o].tx
         /\ batch'[o].confirmed = batch[o].confirmed
         /\ batch'[o].status = StatusAfterFailure(o)
         /\ transfer[o] \in [Roles -> Transfer]
         /\ transfer' = [transfer EXCEPT ![o] =
                            MoveTransfers(o, "submitted", "failed")]
<1>1. batch[o] \in Batch /\ transfer[o] \in [Roles -> Transfer]
  BY DEF TypeOK, RecordPayoutFailure
<1> DEFINE row == [batch[o] EXCEPT !.status = StatusAfterFailure(o)]
<1>2. /\ row \in Batch /\ row.rule = batch[o].rule /\ row.tx = batch[o].tx
      /\ row.confirmed = batch[o].confirmed
      /\ row.status = StatusAfterFailure(o)
  BY <1>1 DEF Batch, StatusAfterFailure
<1>3. batch' = [batch EXCEPT ![o] = row] /\ batch'[o] = row
  BY <1>1 DEF RecordPayoutFailure, TypeOK
<1> HIDE DEF row
<1> QED
  BY <1>1, <1>2, <1>3 DEF RecordPayoutFailure

(* record_transfer_evidence, when it accepts, confirms one submitted       *)
(* transfer and counts it.                                                 *)
LEMMA AcceptEffect ==
  ASSUME TypeOK, NEW o \in Orders, NEW role \in Roles, NEW p \in Operations,
         NEW exact \in BOOLEAN, RecordTransferEvidence(o, role, p, exact),
         Reconciles(o, role, p, exact)
  PROVE  LET count == Cardinality(Confirmed(o)) + 1
         IN  /\ batch[o] \in Batch
             /\ batch[o].status \in {"submitted", "partial"}
             /\ batch[o].tx = p[1]
             /\ evidence[p] = None /\ outcome[p[1]] = "success"
             /\ PaysTransfer(o, role, p)
             /\ batch' = [batch EXCEPT ![o] = batch'[o]]
             /\ batch'[o] \in Batch
             /\ batch'[o].rule = batch[o].rule /\ batch'[o].tx = p[1]
             /\ batch'[o].confirmed = count
             /\ batch'[o].status = IF count = 3 THEN "confirmed"
                                                ELSE "partial"
             /\ transfer[o] \in [Roles -> Transfer]
             /\ transfer[o][role].status = "submitted"
             /\ transfer' = [transfer EXCEPT ![o] = transfer'[o]]
             /\ transfer'[o] = [transfer[o] EXCEPT ![role] =
                                    transfer'[o][role]]
             /\ transfer'[o][role] \in Transfer
             /\ transfer'[o][role].amount = transfer[o][role].amount
             /\ transfer'[o][role].operation = p
             /\ transfer'[o][role].status = "confirmed"
             /\ evidence' = [evidence EXCEPT ![p] = "accepted"]
             /\ UNCHANGED <<fulfilled, rule, sent, outcome>>
<1> DEFINE count == Cardinality(Confirmed(o)) + 1
           row == RefreshedBatch(o)
           t == [transfer[o][role] EXCEPT !.status = "confirmed",
                                          !.operation = p]
           new == [transfer[o] EXCEPT ![role] = t]
<1>1. batch[o] \in Batch /\ transfer[o] \in [Roles -> Transfer]
  BY DEF TypeOK, RecordTransferEvidence
<1>2. /\ batch[o].status \in {"submitted", "partial"}
      /\ batch[o].tx = p[1] /\ outcome[p[1]] = "success"
      /\ transfer[o][role].status = "submitted"
      /\ PaysTransfer(o, role, p)
  BY DEF Reconciles
<1>3. Confirmed(o) \in SUBSET Roles /\ role \notin Confirmed(o)
  BY <1>2 DEF Confirmed
<1>4. Cardinality(Confirmed(o)) \in 0..3 /\ Confirmed(o) # Roles
  BY <1>3, CountConfirmed
<1>5. count \in 0..3
  <2>1. Cardinality(Confirmed(o)) # 3
    BY <1>3, <1>4, CountConfirmed
  <2> QED
    BY <1>4, <2>1
<1>6. /\ row \in Batch /\ row.rule = batch[o].rule /\ row.tx = batch[o].tx
      /\ row.confirmed = count
      /\ row.status = IF count = 3 THEN "confirmed" ELSE "partial"
  <2> HIDE DEF count
  <2>1. row = [batch[o] EXCEPT !.confirmed = count,
                    !.status = IF count = 3 THEN "confirmed" ELSE "partial"]
    BY DEF RefreshedBatch, count
  <2> HIDE DEF row
  <2> QED
    BY <1>1, <1>5, <2>1 DEF Batch
<1>7. transfer[o][role] \in Transfer
  BY <1>1
<1>8. /\ t \in Transfer /\ t.amount = transfer[o][role].amount
      /\ t.operation = p /\ t.status = "confirmed"
  BY <1>7 DEF Transfer
<1>9. transfer' = [transfer EXCEPT ![o] = new]
  BY <1>1 DEF RecordTransferEvidence, TypeOK
<1>10. transfer'[o] = new /\ new[role] = t
  BY <1>1, <1>9 DEF TypeOK
<1>11. batch' = [batch EXCEPT ![o] = row] /\ batch'[o] = row
  BY DEF RecordTransferEvidence, TypeOK
<1>12. /\ evidence[p] = None
       /\ evidence' = [evidence EXCEPT ![p] = "accepted"]
       /\ UNCHANGED <<fulfilled, rule, sent, outcome>>
  BY DEF RecordTransferEvidence, UnusedOperation
<1> HIDE DEF count, row, t
<1> QED
  BY <1>1, <1>2, <1>6, <1>8, <1>9, <1>10, <1>11, <1>12 DEF count
-----------------------------------------------------------------------------
(* Every step leaves batches and transfers alone or is one of these.       *)
LEMMA PayoutSteps ==
  ASSUME [Next]_vars
  PROVE  \/ UNCHANGED <<batch, transfer>>
         \/ \E o \in Orders, q \in Rules : CreatePayoutBatch(o, q)
         \/ \E o \in Orders, x \in Txs : RecordPayoutSubmission(o, x)
         \/ \E o \in Orders : RecordPayoutFailure(o)
         \/ \E o \in Orders, role \in Roles, p \in Operations,
               exact \in BOOLEAN :
                /\ RecordTransferEvidence(o, role, p, exact)
                /\ Reconciles(o, role, p, exact)
<1>1. CASE UNCHANGED vars
  BY <1>1 DEF vars
<1>2. ASSUME \/ \E o \in Orders \ fulfilled : OrderFulfilled(o)
             \/ \E q \in Rules, bps \in Divisions,
                   status \in {"draft", "active", "archived"} :
                        CreatePayoutRule(q, bps, status)
             \/ \E o \in Orders, x \in Txs : SendPayout(o, x)
             \/ \E x \in Txs, result \in {"success", "failed"} :
                        LedgerApplies(x, result)
      PROVE  UNCHANGED <<batch, transfer>>
  BY <1>2 DEF OrderFulfilled, CreatePayoutRule, SendPayout, LedgerApplies,
     rows
<1>3. ASSUME NEW o \in Orders, NEW role \in Roles, NEW p \in Operations,
             NEW exact \in BOOLEAN, RecordTransferEvidence(o, role, p, exact),
             ~Reconciles(o, role, p, exact)
      PROVE  UNCHANGED <<batch, transfer>>
  BY <1>3 DEF RecordTransferEvidence
<1> QED
  BY <1>1, <1>2, <1>3 DEF Next

(* Every step leaves rules, transactions and evidence alone or writes one  *)
(* row of one of them.                                                     *)
LEMMA PayoutWrites ==
  ASSUME [Next]_vars
  PROVE  \/ UNCHANGED <<rule, sent, outcome, evidence>>
         \/ \E q \in Rules, bps \in Divisions,
               status \in {"draft", "active", "archived"} :
                /\ CreatePayoutRule(q, bps, status)
                /\ UNCHANGED <<sent, outcome, evidence>>
         \/ \E o \in Orders, x \in Txs :
                SendPayout(o, x) /\ UNCHANGED <<rule, outcome, evidence>>
         \/ \E x \in Txs, result \in {"success", "failed"} :
                /\ LedgerApplies(x, result)
                /\ UNCHANGED <<rule, sent, evidence>>
         \/ \E o \in Orders, role \in Roles, p \in Operations,
               exact \in BOOLEAN :
                /\ RecordTransferEvidence(o, role, p, exact)
                /\ UNCHANGED <<rule, sent, outcome>>
<1> DEFINE quiet == UNCHANGED <<rule, sent, outcome, evidence>>
<1>1. CASE UNCHANGED vars
  BY <1>1 DEF vars
<1>2. ASSUME NEW o \in Orders, OrderFulfilled(o)
      PROVE  quiet
  BY <1>2 DEF OrderFulfilled, rows
<1>3. ASSUME NEW o \in Orders, NEW q \in Rules, CreatePayoutBatch(o, q)
      PROVE  quiet
  BY <1>3 DEF CreatePayoutBatch
<1>4. ASSUME NEW o \in Orders, NEW x \in Txs, RecordPayoutSubmission(o, x)
      PROVE  quiet
  BY <1>4 DEF RecordPayoutSubmission
<1>5. ASSUME NEW o \in Orders, RecordPayoutFailure(o)
      PROVE  quiet
  BY <1>5 DEF RecordPayoutFailure
<1>6. ASSUME NEW q \in Rules, NEW bps \in Divisions,
             NEW status \in {"draft", "active", "archived"},
             CreatePayoutRule(q, bps, status)
      PROVE  UNCHANGED <<sent, outcome, evidence>>
  BY <1>6 DEF CreatePayoutRule
<1>7. ASSUME NEW o \in Orders, NEW x \in Txs, SendPayout(o, x)
      PROVE  UNCHANGED <<rule, outcome, evidence>>
  BY <1>7 DEF SendPayout, rows
<1>8. ASSUME NEW x \in Txs, NEW result \in {"success", "failed"},
             LedgerApplies(x, result)
      PROVE  UNCHANGED <<rule, sent, evidence>>
  BY <1>8 DEF LedgerApplies, rows
<1>9. ASSUME NEW o \in Orders, NEW role \in Roles, NEW p \in Operations,
             NEW exact \in BOOLEAN, RecordTransferEvidence(o, role, p, exact)
      PROVE  UNCHANGED <<rule, sent, outcome>>
  BY <1>9 DEF RecordTransferEvidence
<1> HIDE DEF quiet
<1>10. CASE Next
  BY <1>2, <1>3, <1>4, <1>5, <1>6, <1>7, <1>8, <1>9, <1>10, Zenon
     DEF Next, quiet
<1> QED
  BY <1>1, <1>10 DEF quiet

(* What no handler takes back: a rule, a batch with its rule and amounts,  *)
(* what was sent and what became of it, and the verdict on a payment.      *)
RowsStay ==
    /\ \A q \in Rules : rule[q] # None => rule'[q] = rule[q]
    /\ \A o \in Orders : batch[o] # None =>
        /\ batch'[o] # None
        /\ batch'[o].rule = batch[o].rule
        /\ \A role \in Roles :
                transfer'[o][role].amount = transfer[o][role].amount
    /\ \A x \in Txs : /\ sent[x] # None => sent'[x] = sent[x]
                      /\ outcome[x] # "none" => outcome'[x] = outcome[x]
    /\ \A p \in Operations : evidence[p] # None => evidence'[p] = evidence[p]

LEMMA PayoutRowsStay ==
  ASSUME TypeOK, [Next]_vars
  PROVE  RowsStay
<1>1. \A q \in Rules : rule[q] # None => rule'[q] = rule[q]
  <2>1. ASSUME NEW q \in Rules, NEW bps \in Divisions,
               NEW status \in {"draft", "active", "archived"},
               CreatePayoutRule(q, bps, status)
        PROVE  /\ rule[q] = None
               /\ \A r \in Rules : r # q => rule'[r] = rule[r]
    BY <2>1 DEF CreatePayoutRule, TypeOK
  <2> QED
    BY <2>1, PayoutWrites
<1>2. \A x \in Txs : /\ sent[x] # None => sent'[x] = sent[x]
                     /\ outcome[x] # "none" => outcome'[x] = outcome[x]
  <2>1. ASSUME NEW o \in Orders, NEW x \in Txs, SendPayout(o, x)
        PROVE  \A y \in Txs : sent[y] # None => sent'[y] = sent[y]
    BY <2>1 DEF SendPayout, TypeOK
  <2>2. ASSUME NEW x \in Txs, NEW result \in {"success", "failed"},
               LedgerApplies(x, result)
        PROVE  \A y \in Txs : outcome[y] # "none" => outcome'[y] = outcome[y]
    BY <2>2 DEF LedgerApplies, TypeOK
  <2> QED
    BY <2>1, <2>2, PayoutWrites
<1>3. \A p \in Operations : evidence[p] # None => evidence'[p] = evidence[p]
  <2>1. ASSUME NEW o \in Orders, NEW role \in Roles, NEW p \in Operations,
               NEW exact \in BOOLEAN, RecordTransferEvidence(o, role, p, exact)
        PROVE  /\ evidence[p] = None
               /\ \A r \in Operations : r # p => evidence'[r] = evidence[r]
    BY <2>1 DEF RecordTransferEvidence, UnusedOperation, TypeOK
  <2> QED
    BY <2>1, PayoutWrites
<1> DEFINE BatchStays(o) ==
        /\ batch'[o] # None
        /\ batch'[o].rule = batch[o].rule
        /\ \A role \in Roles :
                transfer'[o][role].amount = transfer[o][role].amount
<1>4. ASSUME NEW o \in Orders, batch[o] # None
      PROVE  BatchStays(o)
  <2>1. CASE UNCHANGED <<batch, transfer>>
    BY <1>4, <2>1
  <2>2. ASSUME NEW k \in Orders, NEW q \in Rules, CreatePayoutBatch(k, q)
        PROVE  batch'[o] = batch[o] /\ transfer'[o] = transfer[o]
    BY <1>4, <2>2, CreateBatchEffect DEF TypeOK
  <2>3. ASSUME NEW k \in Orders, NEW x \in Txs, RecordPayoutSubmission(k, x)
        PROVE  BatchStays(o)
    <3>1. CASE k = o
      BY <2>3, <3>1, SubmissionEffect, MovedTransfers, PayoutsAssumption
         DEF TypeOK
    <3>2. CASE k # o
      BY <1>4, <2>3, <3>2, SubmissionEffect DEF TypeOK
    <3> QED
      BY <3>1, <3>2
  <2>4. ASSUME NEW k \in Orders, RecordPayoutFailure(k)
        PROVE  BatchStays(o)
    <3>1. CASE k = o
      BY <2>4, <3>1, FailureEffect, MovedTransfers, PayoutsAssumption
         DEF TypeOK
    <3>2. CASE k # o
      BY <1>4, <2>4, <3>2, FailureEffect DEF TypeOK
    <3> QED
      BY <3>1, <3>2
  <2>5. ASSUME NEW k \in Orders, NEW role \in Roles, NEW p \in Operations,
               NEW exact \in BOOLEAN,
               RecordTransferEvidence(k, role, p, exact),
               Reconciles(k, role, p, exact)
        PROVE  BatchStays(o)
    <3>1. /\ batch' = [batch EXCEPT ![k] = batch'[k]] /\ batch'[k] \in Batch
          /\ batch'[k].rule = batch[k].rule
          /\ transfer[k] \in [Roles -> Transfer]
          /\ transfer' = [transfer EXCEPT ![k] = transfer'[k]]
          /\ transfer'[k] = [transfer[k] EXCEPT ![role] = transfer'[k][role]]
          /\ transfer'[k][role].amount = transfer[k][role].amount
      BY <2>5, AcceptEffect
    <3>2. CASE k = o
      <4>1. ASSUME NEW other \in Roles
            PROVE  transfer'[o][other].amount = transfer[o][other].amount
        BY <3>1, <3>2
      <4> QED
        BY <3>1, <3>2, <4>1, PayoutsAssumption
    <3>3. CASE k # o
      <4>1. batch'[o] = batch[o] /\ transfer'[o] = transfer[o]
        BY <3>1, <3>3 DEF TypeOK
      <4> QED
        BY <1>4, <4>1
    <3> QED
      BY <3>2, <3>3
  <2> QED
    BY <1>4, <2>1, <2>2, <2>3, <2>4, <2>5, PayoutSteps
<1> QED
  BY <1>1, <1>2, <1>3, <1>4 DEF RowsStay
-----------------------------------------------------------------------------
(* One batch and its three transfers written together keep their types.    *)
LEMMA WrittenTogether ==
  ASSUME TypeOK, NEW o \in Orders, NEW row \in Batch,
         NEW transfers \in [Roles -> Transfer],
         batch' = [batch EXCEPT ![o] = row],
         transfer' = [transfer EXCEPT ![o] = transfers]
  PROVE  /\ batch' \in [Orders -> Batch \union {None}]
         /\ transfer' \in [Orders -> [Roles -> Transfer] \union {None}]
         /\ \A k \in Orders : batch'[k] = None <=> transfer'[k] = None
<1>1. row # None /\ transfers # None
  BY PayoutsAssumption
<1> QED
  BY <1>1 DEF TypeOK

(* No handler leaves the types, and what is sent pays a batch.             *)
LEMMA PayoutTypeStep ==
  ASSUME TypeOK, [Next]_vars
  PROVE  TypeOK'
<1>1. CASE UNCHANGED vars
  BY <1>1 DEF vars, TypeOK
<1>2. ASSUME NEW o \in Orders, OrderFulfilled(o)
      PROVE  TypeOK'
  BY <1>2 DEF OrderFulfilled, rows, TypeOK
<1>3. ASSUME NEW q \in Rules, NEW bps \in Divisions,
             NEW status \in {"draft", "active", "archived"},
             CreatePayoutRule(q, bps, status)
      PROVE  TypeOK'
  BY <1>3 DEF CreatePayoutRule, Rule, TypeOK
<1>4. ASSUME NEW o \in Orders, NEW q \in Rules, CreatePayoutBatch(o, q)
      PROVE  TypeOK'
  <2>1. UNCHANGED <<fulfilled, rule, evidence, sent, outcome>>
    BY <1>4 DEF CreatePayoutBatch
  <2> DEFINE row == [rule |-> q, tx |-> None, confirmed |-> 0,
                     status |-> "prepared"]
  <2>2. /\ batch' = [batch EXCEPT ![o] = row] /\ row \in Batch
        /\ transfer' = [transfer EXCEPT ![o] = transfer'[o]]
        /\ transfer'[o] \in [Roles -> Transfer]
    BY <1>4, CreateBatchEffect
  <2> HIDE DEF row
  <2> QED
    BY <2>1, <2>2, WrittenTogether DEF TypeOK
<1>5. ASSUME NEW o \in Orders, NEW x \in Txs, SendPayout(o, x)
      PROVE  TypeOK'
  BY <1>5 DEF SendPayout, rows, TypeOK
<1>6. ASSUME NEW x \in Txs, NEW result \in {"success", "failed"},
             LedgerApplies(x, result)
      PROVE  TypeOK'
  BY <1>6 DEF LedgerApplies, rows, TypeOK
<1>7. ASSUME NEW o \in Orders, NEW x \in Txs, RecordPayoutSubmission(o, x)
      PROVE  TypeOK'
  <2>1. UNCHANGED <<fulfilled, rule, evidence, sent, outcome>>
    BY <1>7 DEF RecordPayoutSubmission
  <2>2. MoveTransfers(o, "pending", "submitted") \in [Roles -> Transfer]
    BY <1>7, SubmissionEffect, MovedTransfers
  <2> QED
    BY <1>7, <2>1, <2>2, SubmissionEffect, WrittenTogether DEF TypeOK
<1>8. ASSUME NEW o \in Orders, RecordPayoutFailure(o)
      PROVE  TypeOK'
  <2>1. UNCHANGED <<fulfilled, rule, evidence, sent, outcome>>
    BY <1>8 DEF RecordPayoutFailure
  <2>2. MoveTransfers(o, "submitted", "failed") \in [Roles -> Transfer]
    BY <1>8, FailureEffect, MovedTransfers
  <2> QED
    BY <1>8, <2>1, <2>2, FailureEffect, WrittenTogether DEF TypeOK
<1>9. ASSUME NEW o \in Orders, NEW role \in Roles, NEW p \in Operations,
             NEW exact \in BOOLEAN, RecordTransferEvidence(o, role, p, exact)
      PROVE  TypeOK'
  <2>1. CASE Reconciles(o, role, p, exact)
    <3>1. /\ batch' = [batch EXCEPT ![o] = batch'[o]] /\ batch'[o] \in Batch
          /\ transfer[o] \in [Roles -> Transfer]
          /\ transfer' = [transfer EXCEPT ![o] = transfer'[o]]
          /\ transfer'[o] = [transfer[o] EXCEPT ![role] = transfer'[o][role]]
          /\ transfer'[o][role] \in Transfer
          /\ evidence' = [evidence EXCEPT ![p] = "accepted"]
          /\ UNCHANGED <<fulfilled, rule, sent, outcome>>
      BY <1>9, <2>1, AcceptEffect
    <3>2. transfer'[o] \in [Roles -> Transfer]
      BY <3>1
    <3>3. evidence' \in [Operations -> Verdict \union {None}]
      BY <3>1 DEF TypeOK, Verdict
    <3> QED
      BY <3>1, <3>2, <3>3, WrittenTogether DEF TypeOK
  <2>2. CASE ~Reconciles(o, role, p, exact)
    BY <1>9, <2>2 DEF RecordTransferEvidence, TypeOK, Verdict
  <2> QED
    BY <2>1, <2>2
<1> QED
  BY <1>1, <1>2, <1>3, <1>4, <1>5, <1>6, <1>7, <1>8, <1>9 DEF Next

(* create_payout_rule refuses basis points that do not add up.             *)
LEMMA PayoutRulesStep ==
  ASSUME TypeOK, RulesAreValid, [Next]_vars
  PROVE  RulesAreValid'
<1>1. CASE UNCHANGED rule
  BY <1>1 DEF RulesAreValid
<1>2. ASSUME NEW q \in Rules, NEW bps \in Divisions,
             NEW status \in {"draft", "active", "archived"},
             CreatePayoutRule(q, bps, status)
      PROVE  RulesAreValid'
  <2>1. rule' = [rule EXCEPT ![q] = [status |-> status, bps |-> bps]]
    BY <1>2 DEF CreatePayoutRule
  <2>2. rule'[q].bps = bps /\ ValidBps(bps)
    BY <1>2, <2>1 DEF CreatePayoutRule, TypeOK
  <2>3. \A r \in Rules \ {q} : rule'[r] = rule[r]
    BY <2>1 DEF TypeOK
  <2> QED
    BY <2>2, <2>3 DEF RulesAreValid
<1> QED
  BY <1>1, <1>2, PayoutWrites

(* Only a batch is sent, only what is sent has an outcome.                 *)
LEMMA PayoutSentStep ==
  ASSUME TypeOK, SentInv, [Next]_vars
  PROVE  SentInv'
<1>1. \A x \in Txs : sent[x] \in Orders \union {None}
  BY DEF TypeOK
<1>2. \A x \in Txs : sent[x] # None =>
            sent'[x] = sent[x] /\ batch'[sent[x]] # None
  BY <1>1, PayoutRowsStay DEF RowsStay, SentInv
<1>3. CASE UNCHANGED <<sent, outcome>>
  BY <1>2, <1>3 DEF SentInv
<1>4. ASSUME NEW o \in Orders, NEW x \in Txs, SendPayout(o, x)
      PROVE  SentInv'
  BY <1>2, <1>4, PayoutsAssumption DEF SendPayout, SentInv, rows, TypeOK
<1>5. ASSUME NEW x \in Txs, NEW result \in {"success", "failed"},
             LedgerApplies(x, result)
      PROVE  SentInv'
  BY <1>2, <1>5 DEF LedgerApplies, SentInv, rows, TypeOK
<1> QED
  BY <1>3, <1>4, <1>5, PayoutWrites
-----------------------------------------------------------------------------
(* A payment that confirmed a transfer remains what it is.                 *)
LEMMA PaymentsStay ==
  ASSUME TypeOK, SentInv, RowsStay, NEW k \in Orders, NEW role \in Roles,
         batch[k] # None, PaidOf(k, role),
         batch'[k].tx = batch[k].tx \/ transfer[k][role].status # "confirmed",
         transfer'[k][role].amount = transfer[k][role].amount,
         transfer'[k][role].operation = transfer[k][role].operation,
         transfer'[k][role].status = "confirmed" =>
                transfer[k][role].status = "confirmed"
  PROVE  PaidOf(k, role)'
<1> SUFFICES ASSUME transfer[k][role].status = "confirmed"
             PROVE  PaidOf(k, role)'
  BY DEF PaidOf
<1> DEFINE p == transfer[k][role].operation
<1>1. /\ p \in Operations /\ evidence[p] = "accepted"
      /\ outcome[p[1]] = "success" /\ batch[k].tx = p[1]
      /\ sent[p[1]] # None /\ PaysTransfer(k, role, p)
  BY DEF PaidOf
<1>2. p[1] \in Txs /\ sent[p[1]] \in Orders /\ batch[sent[p[1]]] # None
  BY <1>1 DEF Operations, TypeOK, SentInv
<1>3. /\ evidence'[p] = "accepted" /\ outcome'[p[1]] = "success"
      /\ sent'[p[1]] = sent[p[1]]
      /\ transfer'[sent[p[1]]][role].amount = transfer[sent[p[1]]][role].amount
  BY <1>1, <1>2, PayoutsAssumption DEF RowsStay, Verdict
<1>4. PaysTransfer(k, role, p)'
  BY <1>1, <1>3 DEF PaysTransfer
<1> QED
  BY <1>1, <1>2, <1>3, <1>4 DEF PaidOf

(* The rows of an order that a step does not touch still tell the truth.   *)
LEMMA UntouchedRows ==
  ASSUME TypeOK, SentInv, [Next]_vars, NEW k \in Orders, batch[k] # None,
         BatchOf(k), \A role \in Roles : PaidOf(k, role),
         batch'[k] = batch[k], transfer'[k] = transfer[k]
  PROVE  BatchOf(k)' /\ \A role \in Roles : PaidOf(k, role)'
<1>1. RowsStay
  BY PayoutRowsStay
<1>2. Confirmed(k)' = Confirmed(k)
  BY DEF Confirmed
<1>3. rule[batch[k].rule] # None /\ batch[k].rule \in Rules
  BY DEF BatchOf, TypeOK, Batch
<1>4. rule'[batch[k].rule] = rule[batch[k].rule]
  BY <1>1, <1>3 DEF RowsStay
<1>5. BatchOf(k)'
  BY <1>2, <1>3, <1>4 DEF BatchOf
<1>6. ASSUME NEW role \in Roles
      PROVE  PaidOf(k, role)'
  BY <1>1, <1>6, PaymentsStay
<1> QED
  BY <1>5, <1>6

(* create_payout_batch makes a batch that tells the truth.                 *)
LEMMA CreatedBatch ==
  ASSUME TypeOK, [Next]_vars, NEW o \in Orders, NEW q \in Rules,
         CreatePayoutBatch(o, q)
  PROVE  /\ batch'[o] # None /\ BatchOf(o)'
         /\ \A role \in Roles : PaidOf(o, role)'
<1>1. /\ batch'[o] # None /\ batch'[o].rule = q /\ batch'[o].confirmed = 0
      /\ batch'[o].status = "prepared"
  <2> DEFINE row == [rule |-> q, tx |-> None, confirmed |-> 0,
                     status |-> "prepared"]
  <2>1. /\ row.rule = q /\ row.confirmed = 0 /\ row.status = "prepared"
        /\ batch' = [batch EXCEPT ![o] = row] /\ row \in Batch
    BY CreateBatchEffect
  <2> HIDE DEF row
  <2> QED
    BY <2>1, PayoutsAssumption DEF TypeOK
<1>2. rule[q] # None /\ rule'[q] = rule[q]
  BY CreateBatchEffect DEF CreatePayoutBatch
<1>3. \A role \in Roles :
        /\ transfer'[o][role].status = "pending"
        /\ transfer'[o][role].amount = Split(Price[o], rule[q].bps)[role]
        /\ transfer'[o][role].amount > 0
  BY CreateBatchEffect
<1>4. Confirmed(o)' = {}
  BY <1>3 DEF Confirmed
<1>5. Cardinality(Confirmed(o)') = 0
  BY <1>4, CountConfirmed
<1> QED
  BY <1>1, <1>2, <1>3, <1>5 DEF BatchOf, PaidOf

(* record_payout_submission keeps the batch truthful.                      *)
LEMMA SubmittedBatch ==
  ASSUME TypeOK, [Next]_vars, NEW o \in Orders, NEW x \in Txs,
         RecordPayoutSubmission(o, x), BatchOf(o)
  PROVE  BatchOf(o)' /\ \A role \in Roles : PaidOf(o, role)'
<1>1. /\ batch[o].rule \in Rules /\ batch'[o].rule = batch[o].rule
      /\ batch'[o].confirmed = batch[o].confirmed
      /\ batch'[o].status = "submitted" /\ batch[o].status = "prepared"
  BY SubmissionEffect DEF Batch
<1>2. rule'[batch[o].rule] = rule[batch[o].rule]
  BY DEF RecordPayoutSubmission
<1>3. \A role \in Roles : transfer[o][role].status = "pending"
  BY <1>1 DEF BatchOf
<1>4. transfer'[o] = MoveTransfers(o, "pending", "submitted")
  BY SubmissionEffect DEF TypeOK
<1>5. \A role \in Roles :
        /\ transfer'[o][role].status = "submitted"
        /\ transfer'[o][role].amount = transfer[o][role].amount
  BY <1>3, <1>4, SubmissionEffect, MovedTransfers
<1>6. Confirmed(o) = {} /\ Confirmed(o)' = {}
  BY <1>3, <1>5 DEF Confirmed
<1> QED
  BY <1>1, <1>2, <1>5, <1>6 DEF BatchOf, PaidOf

(* record_payout_failure fails the batch if nothing was confirmed.         *)
LEMMA FailedBatch ==
  ASSUME TypeOK, SentInv, [Next]_vars, NEW o \in Orders,
         RecordPayoutFailure(o), BatchOf(o),
         \A role \in Roles : PaidOf(o, role)
  PROVE  BatchOf(o)' /\ \A role \in Roles : PaidOf(o, role)'
<1>1. /\ batch[o].rule \in Rules /\ batch'[o].rule = batch[o].rule
      /\ batch'[o].confirmed = batch[o].confirmed
      /\ batch'[o].tx = batch[o].tx /\ batch[o] # None
      /\ batch'[o].status = StatusAfterFailure(o)
      /\ batch[o].status \in {"submitted", "partial"}
  BY FailureEffect, PayoutsAssumption DEF Batch
<1>2. rule'[batch[o].rule] = rule[batch[o].rule]
  BY DEF RecordPayoutFailure
<1>3. transfer'[o] = MoveTransfers(o, "submitted", "failed")
  BY FailureEffect DEF TypeOK
<1>4. \A role \in Roles :
        /\ transfer'[o][role].amount = transfer[o][role].amount
        /\ transfer'[o][role].operation = transfer[o][role].operation
        /\ transfer'[o][role].status =
                IF transfer[o][role].status = "submitted"
                THEN "failed" ELSE transfer[o][role].status
  BY <1>3, FailureEffect, MovedTransfers
<1>5. Confirmed(o)' = Confirmed(o) /\ Confirmed(o) \in SUBSET Roles
  BY <1>4 DEF Confirmed
<1>6. batch[o].confirmed = Cardinality(Confirmed(o))
  BY DEF BatchOf
<1>7. \A role \in Roles : PaidOf(o, role)'
  BY <1>1, <1>4, PaymentsStay, PayoutRowsStay
<1>8. CASE batch[o].status = "submitted"
  <2>1. \A role \in Roles : transfer[o][role].status = "submitted"
    BY <1>8 DEF BatchOf
  <2>2. Confirmed(o) = {}
    BY <2>1 DEF Confirmed
  <2>3. batch'[o].status = "failed"
    BY <1>1, <1>5, <1>6, <2>2, CountConfirmed DEF StatusAfterFailure
  <2>4. \A role \in Roles : transfer'[o][role].status = "failed"
    BY <1>4, <2>1
  <2> QED
    BY <1>1, <1>2, <1>4, <1>5, <1>6, <1>7, <2>3, <2>4 DEF BatchOf
<1>9. CASE batch[o].status = "partial"
  <2>1. /\ Confirmed(o) # {} /\ Confirmed(o) # Roles
        /\ \A role \in Roles : transfer[o][role].status # "pending"
    BY <1>9 DEF BatchOf
  <2>2. batch'[o].status = "partial"
    BY <1>1, <1>5, <1>6, <2>1, CountConfirmed DEF StatusAfterFailure
  <2>3. \A role \in Roles : transfer'[o][role].status # "pending"
    BY <1>4, <2>1
  <2> QED
    BY <1>1, <1>2, <1>4, <1>5, <1>6, <1>7, <2>1, <2>2, <2>3 DEF BatchOf
<1> QED
  BY <1>1, <1>8, <1>9

(* record_transfer_evidence counts what it confirms.                       *)
LEMMA AcceptedBatch ==
  ASSUME TypeOK, SentInv, [Next]_vars, NEW o \in Orders, NEW role \in Roles,
         NEW p \in Operations, NEW exact \in BOOLEAN,
         RecordTransferEvidence(o, role, p, exact),
         Reconciles(o, role, p, exact), BatchOf(o),
         \A other \in Roles : PaidOf(o, other)
  PROVE  BatchOf(o)' /\ \A other \in Roles : PaidOf(o, other)'
<1> DEFINE count == Cardinality(Confirmed(o)) + 1
<1>0. /\ batch[o] \in Batch /\ batch[o].status \in {"submitted", "partial"}
      /\ batch[o].tx = p[1] /\ outcome[p[1]] = "success"
      /\ PaysTransfer(o, role, p)
      /\ batch'[o].rule = batch[o].rule /\ batch'[o].tx = p[1]
      /\ batch'[o].confirmed = count
      /\ batch'[o].status = IF count = 3 THEN "confirmed" ELSE "partial"
      /\ transfer[o] \in [Roles -> Transfer]
      /\ transfer[o][role].status = "submitted"
      /\ transfer'[o] = [transfer[o] EXCEPT ![role] = transfer'[o][role]]
      /\ transfer'[o][role].amount = transfer[o][role].amount
      /\ transfer'[o][role].operation = p
      /\ transfer'[o][role].status = "confirmed"
      /\ evidence' = [evidence EXCEPT ![p] = "accepted"]
      /\ UNCHANGED <<rule, sent, outcome>>
  BY AcceptEffect
<1> HIDE DEF count
<1>1. /\ batch[o] # None /\ batch[o].rule \in Rules
      /\ batch'[o].rule = batch[o].rule
      /\ batch[o].tx = p[1] /\ batch'[o].tx = p[1]
      /\ batch'[o].confirmed = count
      /\ batch'[o].status = IF count = 3 THEN "confirmed" ELSE "partial"
      /\ batch[o].status \in {"submitted", "partial"}
      /\ rule' = rule
  BY <1>0, PayoutsAssumption DEF Batch
<1>2. /\ transfer[o][role].status = "submitted"
      /\ transfer'[o][role].amount = transfer[o][role].amount
      /\ transfer'[o][role].operation = p
      /\ transfer'[o][role].status = "confirmed"
      /\ \A other \in Roles \ {role} :
            transfer'[o][other] = transfer[o][other]
  BY <1>0
<1>3. /\ Confirmed(o)' = Confirmed(o) \union {role}
      /\ Confirmed(o) \in SUBSET Roles /\ role \in Roles \ Confirmed(o)
  BY <1>2 DEF Confirmed
<1>4. /\ Cardinality(Confirmed(o)') = count
      /\ count = 3 <=> Confirmed(o)' = Roles
  <2>1. Cardinality(Confirmed(o) \union {role}) = count
    BY <1>3, CountConfirmed DEF count
  <2>2. Confirmed(o)' \in SUBSET Roles
    BY <1>3
  <2> QED
    BY <1>3, <2>1, <2>2, CountConfirmed
<1>5. \A other \in Roles : transfer[o][other].status # "pending"
  BY <1>1 DEF BatchOf
<1>6. BatchOf(o)'
  <2>1. /\ \A other \in Roles :
            /\ transfer'[o][other].amount = transfer[o][other].amount
            /\ transfer'[o][other].status # "pending"
        /\ Confirmed(o)' # {}
    BY <1>2, <1>3, <1>5
  <2>2. count = 3 =>
            \A other \in Roles : transfer'[o][other].status = "confirmed"
    BY <1>4 DEF Confirmed
  <2> QED
    BY <1>1, <1>4, <2>1, <2>2 DEF BatchOf
<1>7. PaidOf(o, role)'
  <2>1. /\ evidence'[p] = "accepted" /\ outcome'[p[1]] = "success"
        /\ outcome[p[1]] = "success" /\ UNCHANGED sent
        /\ PaysTransfer(o, role, p)
    BY <1>0 DEF TypeOK
  <2>2. p[1] \in Txs
    BY DEF Operations
  <2>3. sent[p[1]] # None /\ sent[p[1]] \in Orders /\ batch[sent[p[1]]] # None
    BY <2>1, <2>2 DEF SentInv, TypeOK
  <2>4. transfer'[sent[p[1]]][role].amount = transfer[sent[p[1]]][role].amount
    BY <2>3, PayoutRowsStay DEF RowsStay
  <2>5. PaysTransfer(o, role, p)'
    BY <1>2, <2>1, <2>4 DEF PaysTransfer
  <2> QED
    BY <1>1, <1>2, <2>1, <2>3, <2>5 DEF PaidOf
<1>8. ASSUME NEW other \in Roles, other # role
      PROVE  PaidOf(o, other)'
  BY <1>1, <1>2, <1>8, PaymentsStay, PayoutRowsStay
<1> QED
  BY <1>6, <1>7, <1>8
-----------------------------------------------------------------------------
(* Every batch goes on to tell the truth about its transfers, and every    *)
(* confirmed transfer about its payment.                                   *)
LEMMA PayoutRowsStep ==
  ASSUME TypeOK, SentInv, RowsInv, [Next]_vars
  PROVE  RowsInv'
<1> DEFINE Good(k) == BatchOf(k) /\ \A role \in Roles : PaidOf(k, role)
<1>1. ASSUME NEW o \in Orders, batch'[o] # None => Good(o)',
             \A k \in Orders \ {o} : /\ batch'[k] = batch[k]
                                     /\ transfer'[k] = transfer[k]
      PROVE  RowsInv'
  <2>1. ASSUME NEW k \in Orders \ {o}, batch'[k] # None
        PROVE  Good(k)'
    BY <1>1, <2>1, UntouchedRows DEF RowsInv
  <2> QED
    BY <1>1, <2>1 DEF RowsInv
<1>2. CASE UNCHANGED <<batch, transfer>>
  <2>1. ASSUME NEW k \in Orders, batch'[k] # None
        PROVE  Good(k)'
    BY <1>2, <2>1, UntouchedRows DEF RowsInv
  <2> QED
    BY <2>1 DEF RowsInv
<1>3. ASSUME NEW o \in Orders, NEW q \in Rules, CreatePayoutBatch(o, q)
      PROVE  RowsInv'
  <2>1. Good(o)'
    BY <1>3, CreatedBatch
  <2>2. /\ batch' = [batch EXCEPT ![o] =
                [rule |-> q, tx |-> None, confirmed |-> 0,
                 status |-> "prepared"]]
        /\ transfer' = [transfer EXCEPT ![o] = transfer'[o]]
    BY <1>3, CreateBatchEffect
  <2>3. \A k \in Orders \ {o} : /\ batch'[k] = batch[k]
                                /\ transfer'[k] = transfer[k]
    BY <2>2 DEF TypeOK
  <2> QED
    BY <1>1, <2>1, <2>3
<1>4. ASSUME NEW o \in Orders, NEW x \in Txs, RecordPayoutSubmission(o, x)
      PROVE  RowsInv'
  <2>1. Good(o)'
    BY <1>4, SubmittedBatch DEF RowsInv, RecordPayoutSubmission
  <2>2. \A k \in Orders \ {o} : /\ batch'[k] = batch[k]
                                /\ transfer'[k] = transfer[k]
    BY <1>4, SubmissionEffect DEF TypeOK
  <2> QED
    BY <1>1, <2>1, <2>2
<1>5. ASSUME NEW o \in Orders, RecordPayoutFailure(o)
      PROVE  RowsInv'
  <2>1. Good(o)'
    BY <1>5, FailedBatch DEF RowsInv, RecordPayoutFailure
  <2>2. \A k \in Orders \ {o} : /\ batch'[k] = batch[k]
                                /\ transfer'[k] = transfer[k]
    BY <1>5, FailureEffect DEF TypeOK
  <2> QED
    BY <1>1, <2>1, <2>2
<1>6. ASSUME NEW o \in Orders, NEW role \in Roles, NEW p \in Operations,
             NEW exact \in BOOLEAN, RecordTransferEvidence(o, role, p, exact),
             Reconciles(o, role, p, exact)
      PROVE  RowsInv'
  <2>1. Good(o)'
    BY <1>6, AcceptedBatch DEF RowsInv, RecordTransferEvidence
  <2>2. \A k \in Orders \ {o} : /\ batch'[k] = batch[k]
                                /\ transfer'[k] = transfer[k]
    BY <1>6 DEF RecordTransferEvidence, TypeOK
  <2> QED
    BY <1>1, <2>1, <2>2
<1> QED
  BY <1>2, <1>3, <1>4, <1>5, <1>6, PayoutSteps

(* A payment is used up by the transfer it confirms: it had no evidence    *)
(* before, and that of every other confirmed transfer was accepted.        *)
LEMMA PayoutUnsharedStep ==
  ASSUME TypeOK, RowsInv, Unshared, [Next]_vars
  PROVE  Unshared'
<1>1. ASSUME \A o \in Orders, role \in Roles : Done(o, role)' =>
                /\ Done(o, role)
                /\ transfer'[o][role].operation = transfer[o][role].operation
      PROVE  Unshared'
  <2> SUFFICES ASSUME NEW o \in Orders, NEW k \in Orders,
                      NEW role \in Roles, NEW other \in Roles,
                      Done(o, role)', Done(k, other)',
                      transfer'[o][role].operation =
                            transfer'[k][other].operation
               PROVE  o = k /\ role = other
    BY DEF Unshared
  <2>1. /\ Done(o, role) /\ Done(k, other)
        /\ transfer[o][role].operation = transfer[k][other].operation
    BY <1>1
  <2> QED
    BY <2>1 DEF Unshared
<1>2. CASE UNCHANGED <<batch, transfer>>
  BY <1>1, <1>2 DEF Done
<1>3. ASSUME NEW o \in Orders, NEW q \in Rules, CreatePayoutBatch(o, q)
      PROVE  Unshared'
  <2>1. /\ batch' = [batch EXCEPT ![o] =
                [rule |-> q, tx |-> None, confirmed |-> 0,
                 status |-> "prepared"]]
        /\ transfer' = [transfer EXCEPT ![o] = transfer'[o]]
        /\ \A role \in Roles : transfer'[o][role].status = "pending"
    BY <1>3, CreateBatchEffect
  <2>2. \A k \in Orders \ {o} : /\ batch'[k] = batch[k]
                                /\ transfer'[k] = transfer[k]
    BY <2>1 DEF TypeOK
  <2> QED
    BY <1>1, <2>1, <2>2 DEF Done
<1>4. ASSUME NEW o \in Orders, NEW from, NEW to \in {"submitted", "failed"},
             batch[o] # None,
             transfer' = [transfer EXCEPT ![o] = MoveTransfers(o, from, to)],
             \A k \in Orders \ {o} : batch'[k] = batch[k]
      PROVE  Unshared'
  <2>1. transfer[o] \in [Roles -> Transfer]
    BY <1>4 DEF TypeOK
  <2>2. /\ transfer'[o] = MoveTransfers(o, from, to)
        /\ \A k \in Orders \ {o} : transfer'[k] = transfer[k]
    BY <1>4 DEF TypeOK
  <2>3. \A role \in Roles :
            /\ transfer'[o][role].operation = transfer[o][role].operation
            /\ transfer'[o][role].status = "confirmed" =>
                    transfer[o][role].status = "confirmed"
    BY <2>1, <2>2, MovedTransfers
  <2> QED
    BY <1>1, <1>4, <2>2, <2>3 DEF Done
<1>5. ASSUME NEW o \in Orders, NEW x \in Txs, RecordPayoutSubmission(o, x)
      PROVE  Unshared'
  <2>1. \A k \in Orders \ {o} : batch'[k] = batch[k]
    BY <1>5 DEF RecordPayoutSubmission, TypeOK
  <2> QED
    BY <1>4, <1>5, <2>1 DEF RecordPayoutSubmission
<1>6. ASSUME NEW o \in Orders, RecordPayoutFailure(o)
      PROVE  Unshared'
  <2>1. \A k \in Orders \ {o} : batch'[k] = batch[k]
    BY <1>6 DEF RecordPayoutFailure, TypeOK
  <2> QED
    BY <1>4, <1>6, <2>1 DEF RecordPayoutFailure
<1>7. ASSUME NEW o \in Orders, NEW role \in Roles, NEW p \in Operations,
             NEW exact \in BOOLEAN, RecordTransferEvidence(o, role, p, exact),
             Reconciles(o, role, p, exact)
      PROVE  Unshared'
  <2>1. /\ evidence[p] = None /\ batch[o] # None
        /\ \A k \in Orders \ {o} : /\ batch'[k] = batch[k]
                                   /\ transfer'[k] = transfer[k]
    BY <1>7 DEF RecordTransferEvidence, UnusedOperation, TypeOK
  <2>2. /\ transfer[o] \in [Roles -> Transfer]
        /\ transfer'[o] = [transfer[o] EXCEPT ![role] = transfer'[o][role]]
        /\ transfer'[o][role].operation = p
    BY <1>7, AcceptEffect
  <2>3. \A k \in Orders, other \in Roles :
            Done(k, other) => transfer[k][other].operation # p
    BY <2>1, PayoutsAssumption DEF Done, RowsInv, PaidOf, Verdict
  <2>4. \A k \in Orders, other \in Roles : k # o \/ other # role =>
            transfer'[k][other] = transfer[k][other]
    BY <2>1, <2>2
  <2>5. \A k \in Orders, other \in Roles :
            (k # o \/ other # role) /\ Done(k, other)' => Done(k, other)
    BY <2>1, <2>4 DEF Done
  <2>6. ASSUME NEW k \in Orders, NEW l \in Orders, NEW r \in Roles,
               NEW s \in Roles, Done(k, r)', Done(l, s)',
               transfer'[k][r].operation = transfer'[l][s].operation
        PROVE  k = l /\ r = s
    <3>1. CASE (k # o \/ r # role) /\ (l # o \/ s # role)
      <4>1. Done(k, r) /\ Done(l, s)
        BY <2>5, <2>6, <3>1
      <4>2. transfer[k][r].operation = transfer[l][s].operation
        BY <2>4, <2>6, <3>1
      <4> QED
        BY <4>1, <4>2 DEF Unshared
    <3>2. CASE k = o /\ r = role
      BY <2>2, <2>3, <2>4, <2>5, <2>6, <3>2
    <3>3. CASE l = o /\ s = role
      BY <2>2, <2>3, <2>4, <2>5, <2>6, <3>3
    <3> QED
      BY <3>1, <3>2, <3>3
  <2> SUFFICES ASSUME NEW k \in Orders, NEW l \in Orders,
                      NEW r \in Roles, NEW s \in Roles,
                      Done(k, r)', Done(l, s)',
                      transfer'[k][r].operation = transfer'[l][s].operation
               PROVE  k = l /\ r = s
    BY DEF Unshared
  <2> QED
    BY <2>6
<1> QED
  BY <1>2, <1>3, <1>5, <1>6, <1>7, PayoutSteps
-----------------------------------------------------------------------------
(* In every state of a behaviour the rows have their types, every batch    *)
(* tells the truth about its transfers, and every confirmed transfer about *)
(* the payment that confirmed it and nothing else (payouts.rs).            *)
THEOREM PayoutsInvariant == Spec => []IInv
<1>1. Init => IInv
  <2> SUFFICES ASSUME Init
               PROVE  IInv
    OBVIOUS
  <2>1. TypeOK
    BY PayoutsAssumption DEF Init, TypeOK
  <2>2. SentInv /\ RulesAreValid
    BY DEF Init, SentInv, RulesAreValid
  <2>3. RowsInv /\ Unshared
    BY DEF Init, RowsInv, Unshared, Done
  <2> QED
    BY <2>1, <2>2, <2>3 DEF IInv
<1>2. IInv /\ [Next]_vars => IInv'
  BY PayoutTypeStep, PayoutRulesStep, PayoutSentStep, PayoutRowsStep,
     PayoutUnsharedStep DEF IInv
<1> QED
  BY <1>1, <1>2, PTL DEF Spec

(* The shares of every batch add up to what was paid, whatever the price   *)
(* and the basis points of its rule (calculate_split).                     *)
THEOREM PayoutSharesAreExact == Spec => []SharesAreExact
<1>1. IInv => SharesAreExact
  <2> SUFFICES ASSUME IInv, NEW o \in Orders, batch[o] # None
               PROVE  LET bps == rule[batch[o].rule].bps
                          amount == [role \in Roles |->
                                        transfer[o][role].amount]
                      IN  /\ amount["candidate"] + amount["organizer"]
                                + amount["platform"] = Price[o]
                          /\ \A role \in Roles : amount[role] > 0
                          /\ \A role \in Roles \ {"platform"} :
                                amount[role] * BpsDenominator
                                    <= Price[o] * bps[role]
    BY DEF SharesAreExact
  <2> DEFINE bps == rule[batch[o].rule].bps
  <2>1. /\ rule[batch[o].rule] # None
        /\ \A role \in Roles :
            /\ transfer[o][role].amount = Split(Price[o], bps)[role]
            /\ transfer[o][role].amount > 0
    BY DEF IInv, RowsInv, BatchOf
  <2>2. batch[o].rule \in Rules
    BY DEF IInv, TypeOK, Batch
  <2>3. rule[batch[o].rule] \in Rule
    BY <2>1, <2>2 DEF IInv, TypeOK
  <2>4. bps \in [Roles -> 0..BpsDenominator] /\ Price[o] \in Nat
    BY <2>3, PayoutsAssumption DEF Rule
  <2>5. ValidBps(bps)
    BY <2>1, <2>2 DEF IInv, RulesAreValid
  <2> QED
    BY <2>1, <2>4, <2>5, SplitIsExact DEF Roles
<1> QED
  BY <1>1, PayoutsInvariant, PTL

(* The batch row tells the truth about its three transfers, for any orders *)
(* and transactions (record_payout_submission, record_payout_failure,      *)
(* refresh_batch_status).                                                  *)
THEOREM PayoutBatchFollowsTransfers == Spec => []BatchFollowsTransfers
<1>1. IInv => BatchFollowsTransfers
  <2> SUFFICES ASSUME IInv, NEW o \in Orders, batch[o] # None
               PROVE  LET all(status) ==
                            \A role \in Roles :
                                transfer[o][role].status = status
                      IN  /\ batch[o].confirmed = Cardinality(Confirmed(o))
                          /\ (batch[o].status = "prepared") = all("pending")
                          /\ (batch[o].status = "submitted") = all("submitted")
                          /\ (batch[o].status = "failed") = all("failed")
                          /\ (batch[o].status = "confirmed") = all("confirmed")
    BY DEF BatchFollowsTransfers, IInv
  <2>1. BatchOf(o)
    BY DEF IInv, RowsInv
  <2>2. batch[o].status \in
            {"prepared", "submitted", "partial", "confirmed", "failed"}
    BY DEF IInv, TypeOK, Batch
  <2>3. Roles # {}
    BY DEF Roles
  <2> QED
    BY <2>1, <2>2, <2>3 DEF BatchOf, Confirmed
<1> QED
  BY <1>1, PayoutsInvariant, PTL

(* A transfer is confirmed only by a successful payment of its own, of its *)
(* amount and in the transaction of its batch (record_transfer_evidence).  *)
THEOREM PayoutConfirmedByOwnPayment == Spec => []ConfirmedByOwnPayment
<1>1. IInv => ConfirmedByOwnPayment
  <2> SUFFICES ASSUME IInv
               PROVE  ConfirmedByOwnPayment
    OBVIOUS
  <2>1. \A o \in Orders, role \in Roles :
            batch[o] # None /\ transfer[o][role].status = "confirmed" =>
                LET p == transfer[o][role].operation
                IN  /\ p # None
                    /\ outcome[p[1]] = "success"
                    /\ p[1] = batch[o].tx
                    /\ PaysTransfer(o, role, p)
    BY PayoutsAssumption DEF IInv, RowsInv, PaidOf
  <2> QED
    BY <2>1 DEF ConfirmedByOwnPayment, IInv, Unshared, Done
<1> QED
  BY <1>1, PayoutsInvariant, PTL
-----------------------------------------------------------------------------
(* Batches, amounts and confirmations that remain, and outcomes that       *)
(* remain, leave nothing for module LedgerConfirmation to do.              *)
LEMMA TransfersStay ==
  ASSUME \A o \in Orders : batch'[o] = None <=> batch[o] = None,
         \A t \in Transfers :
            LET old == transfer[t[1]][t[2]]
                new == transfer'[t[1]][t[2]]
            IN  /\ new.amount = old.amount
                /\ new.operation = old.operation
                /\ new.status = "confirmed" <=> old.status = "confirmed"
  PROVE  UNCHANGED <<TransfersWanted, TransfersConfirmed>>
<1>1. Transfers' = Transfers
  BY DEF Transfers
<1>2. UNCHANGED TransfersWanted
  BY <1>1 DEF TransfersWanted
<1>3. UNCHANGED TransfersConfirmed
  <2>1. {t \in Transfers : transfer'[t[1]][t[2]].status = "confirmed"} =
            {t \in Transfers : transfer[t[1]][t[2]].status = "confirmed"}
    OBVIOUS
  <2> QED
    BY <1>1, <2>1 DEF TransfersConfirmed
<1> QED
  BY <1>2, <1>3

(* What a payment did does not change.                                     *)
LEMMA PaymentsApplied ==
  ASSUME TypeOK, SentInv, RowsStay
  PROVE  /\ Confirmation!Grows(TransfersApplied, TransfersApplied')
         /\ UNCHANGED outcome => UNCHANGED TransfersApplied
<1>1. ASSUME NEW p \in Operations, outcome[p[1]] = "success"
      PROVE  /\ outcome'[p[1]] = "success"
             /\ transfer'[sent'[p[1]]][p[2]].amount =
                    transfer[sent[p[1]]][p[2]].amount
  <2>1. p[1] \in Txs /\ p[2] \in Roles
    BY DEF Operations
  <2>2. sent[p[1]] \in Orders /\ batch[sent[p[1]]] # None
    BY <1>1, <2>1 DEF SentInv, TypeOK
  <2>3. outcome'[p[1]] = outcome[p[1]] /\ sent'[p[1]] = sent[p[1]]
    BY <1>1, <2>1, <2>2 DEF RowsStay, SentInv
  <2>4. transfer'[sent[p[1]]][p[2]].amount = transfer[sent[p[1]]][p[2]].amount
    BY <2>1, <2>2 DEF RowsStay
  <2> QED
    BY <1>1, <2>3, <2>4
<1>2. Confirmation!Grows(TransfersApplied, TransfersApplied')
  BY <1>1 DEF TransfersApplied, Confirmation!Grows
<1>3. ASSUME UNCHANGED outcome
      PROVE  UNCHANGED TransfersApplied
  BY <1>1, <1>3 DEF TransfersApplied
<1> QED
  BY <1>2, <1>3

(* Transfers implement module LedgerConfirmation (create_payout_batch,     *)
(* record_transfer_evidence).                                              *)
LEMMA TransfersConfirmStep ==
  IInv /\ IInv' /\ [Next]_vars => [Confirmation!Next]_(Confirmation!vars)
<1> SUFFICES ASSUME IInv, IInv', [Next]_vars
             PROVE  [Confirmation!Next]_(Confirmation!vars)
  OBVIOUS
<1>1. TypeOK /\ SentInv /\ RowsInv /\ Unshared /\ RowsStay
  BY PayoutRowsStay DEF IInv
<1>2. /\ Confirmation!Grows(TransfersApplied, TransfersApplied')
      /\ UNCHANGED outcome => UNCHANGED TransfersApplied
  BY <1>1, PaymentsApplied
<1>3. CASE UNCHANGED <<batch, transfer>>
  <2>1. UNCHANGED <<TransfersWanted, TransfersConfirmed>>
    BY <1>3, TransfersStay
  <2> QED
    BY <1>2, <2>1 DEF Confirmation!Next, Confirmation!Apply
<1>4. ASSUME NEW o \in Orders, NEW q \in Rules, CreatePayoutBatch(o, q)
      PROVE  Confirmation!Next
  <2> DEFINE row == [rule |-> q, tx |-> None, confirmed |-> 0,
                     status |-> "prepared"]
  <2>1. /\ batch[o] = None /\ row \in Batch
        /\ batch' = [batch EXCEPT ![o] = row]
        /\ transfer' = [transfer EXCEPT ![o] = transfer'[o]]
        /\ \A role \in Roles : transfer'[o][role].status = "pending"
    BY <1>1, <1>4, CreateBatchEffect
  <2> HIDE DEF row
  <2>2. /\ batch'[o] # None
        /\ \A k \in Orders \ {o} :
                batch'[k] = batch[k] /\ transfer'[k] = transfer[k]
    BY <1>1, <2>1, PayoutsAssumption DEF TypeOK
  <2>3. UNCHANGED TransfersApplied
    BY <1>2, <1>4 DEF CreatePayoutBatch
  <2>4. Transfers \subseteq Transfers'
    BY <2>1, <2>2 DEF Transfers
  <2>5. \A t \in Transfers : transfer'[t[1]] = transfer[t[1]]
    BY <2>1, <2>2 DEF Transfers
  <2>6. \A t \in Transfers' \ Transfers :
            transfer'[t[1]][t[2]].status # "confirmed"
    BY <2>1, <2>2 DEF Transfers
  <2>7. Confirmation!Grows(TransfersWanted, TransfersWanted')
    BY <2>4, <2>5 DEF TransfersWanted, Confirmation!Grows
  <2>8. UNCHANGED TransfersConfirmed
    <3>1. {t \in Transfers' : transfer'[t[1]][t[2]].status = "confirmed"} =
            {t \in Transfers : transfer[t[1]][t[2]].status = "confirmed"}
      BY <2>4, <2>5, <2>6
    <3> QED
      BY <2>5, <3>1 DEF TransfersConfirmed
  <2> QED
    BY <2>3, <2>7, <2>8 DEF Confirmation!Next, Confirmation!Ask
<1>5. ASSUME NEW o \in Orders, NEW from, NEW to \in {"submitted", "failed"},
             from \in {"pending", "submitted"}, UNCHANGED outcome,
             batch[o] \in Batch, batch'[o] \in Batch,
             batch' = [batch EXCEPT ![o] = batch'[o]],
             transfer[o] \in [Roles -> Transfer],
             transfer' = [transfer EXCEPT ![o] = MoveTransfers(o, from, to)]
      PROVE  UNCHANGED Confirmation!vars
  <2>1. \A k \in Orders : batch'[k] = None <=> batch[k] = None
    BY <1>1, <1>5, PayoutsAssumption DEF TypeOK
  <2>2. \A k \in Orders \ {o} : transfer'[k] = transfer[k]
    BY <1>1, <1>5 DEF TypeOK
  <2>3. \A role \in Roles :
            /\ transfer'[o][role].amount = transfer[o][role].amount
            /\ transfer'[o][role].operation = transfer[o][role].operation
            /\ transfer'[o][role].status = "confirmed" <=>
                    transfer[o][role].status = "confirmed"
    <3>1. transfer'[o] = MoveTransfers(o, from, to)
      BY <1>1, <1>5 DEF TypeOK
    <3> QED
      BY <1>5, <3>1, MovedTransfers
  <2>4. UNCHANGED <<TransfersWanted, TransfersConfirmed>>
    <3>1. \A t \in Transfers :
            LET old == transfer[t[1]][t[2]]
                new == transfer'[t[1]][t[2]]
            IN  /\ new.amount = old.amount
                /\ new.operation = old.operation
                /\ new.status = "confirmed" <=> old.status = "confirmed"
      BY <2>2, <2>3 DEF Transfers
    <3> QED
      BY <2>1, <3>1, TransfersStay
  <2> QED
    BY <1>2, <1>5, <2>4 DEF Confirmation!vars
<1>6. ASSUME NEW o \in Orders, NEW x \in Txs, RecordPayoutSubmission(o, x)
      PROVE  UNCHANGED Confirmation!vars
  <2>1. UNCHANGED outcome
    BY <1>6 DEF RecordPayoutSubmission
  <2> QED
    BY <1>1, <1>5, <1>6, <2>1, SubmissionEffect
<1>7. ASSUME NEW o \in Orders, RecordPayoutFailure(o)
      PROVE  UNCHANGED Confirmation!vars
  <2>1. UNCHANGED outcome
    BY <1>7 DEF RecordPayoutFailure
  <2> QED
    BY <1>1, <1>5, <1>7, <2>1, FailureEffect
<1>8. ASSUME NEW o \in Orders, NEW role \in Roles, NEW p \in Operations,
             NEW exact \in BOOLEAN, RecordTransferEvidence(o, role, p, exact),
             Reconciles(o, role, p, exact)
      PROVE  Confirmation!Next
  <2>1. /\ batch[o] \in Batch /\ evidence[p] = None
        /\ outcome[p[1]] = "success" /\ PaysTransfer(o, role, p)
        /\ batch' = [batch EXCEPT ![o] = batch'[o]] /\ batch'[o] \in Batch
        /\ transfer[o] \in [Roles -> Transfer]
        /\ transfer[o][role].status = "submitted"
        /\ transfer' = [transfer EXCEPT ![o] = transfer'[o]]
        /\ transfer'[o] = [transfer[o] EXCEPT ![role] = transfer'[o][role]]
        /\ transfer'[o][role].amount = transfer[o][role].amount
        /\ transfer'[o][role].operation = p
        /\ transfer'[o][role].status = "confirmed"
        /\ UNCHANGED outcome
    BY <1>1, <1>8, AcceptEffect
  <2> DEFINE it == <<o, role>>
  <2>2. /\ \A k \in Orders : batch'[k] = None <=> batch[k] = None
        /\ \A k \in Orders \ {o} : transfer'[k] = transfer[k]
        /\ \A other \in Roles \ {role} :
                transfer'[o][other] = transfer[o][other]
    BY <1>1, <2>1, PayoutsAssumption DEF TypeOK
  <2>3. Transfers' = Transfers /\ it \in Transfers
    BY <1>1, <2>1, <2>2, PayoutsAssumption DEF Transfers
  <2>4. \A t \in Transfers \ {it} :
            transfer'[t[1]][t[2]] = transfer[t[1]][t[2]]
    BY <2>2 DEF Transfers
  <2>5. UNCHANGED TransfersApplied
    BY <1>2, <2>1
  <2>6. UNCHANGED TransfersWanted
    <3>1. \A t \in Transfers : transfer'[t[1]][t[2]].amount =
                                    transfer[t[1]][t[2]].amount
      BY <2>1, <2>4
    <3> QED
      BY <2>3, <3>1 DEF TransfersWanted
  <2>7. /\ p \in DOMAIN TransfersApplied
        /\ it \in DOMAIN TransfersWanted \ DOMAIN TransfersConfirmed
        /\ TransfersApplied[p] \in TransfersWanted[it]
    BY <2>1, <2>3
       DEF TransfersApplied, TransfersWanted, TransfersConfirmed, PaysTransfer
  <2>8. \A t \in DOMAIN TransfersConfirmed : TransfersConfirmed[t] # p
    <3>1. ASSUME NEW k \in Orders, NEW other \in Roles, batch[k] # None,
                 transfer[k][other].status = "confirmed",
                 transfer[k][other].operation = p
          PROVE  FALSE
      <4>1. evidence[p] = "accepted"
        BY <1>1, <3>1 DEF RowsInv, PaidOf
      <4> QED
        BY <2>1, <4>1, PayoutsAssumption DEF Verdict
    <3> QED
      BY <3>1 DEF TransfersConfirmed, Transfers
  <2>9. /\ Confirmation!Grows(TransfersConfirmed, TransfersConfirmed')
        /\ DOMAIN TransfersConfirmed' = DOMAIN TransfersConfirmed \union {it}
        /\ TransfersConfirmed'[it] = p
    <3>1. \A t \in Transfers :
              transfer'[t[1]][t[2]].status = "confirmed" <=>
                  \/ transfer[t[1]][t[2]].status = "confirmed"
                  \/ t = it
      BY <2>1, <2>4
    <3>2. DOMAIN TransfersConfirmed' = DOMAIN TransfersConfirmed \union {it}
      BY <2>3, <3>1 DEF TransfersConfirmed
    <3>3. TransfersConfirmed'[it] = p
      BY <2>1, <2>3 DEF TransfersConfirmed
    <3>4. Confirmation!Grows(TransfersConfirmed, TransfersConfirmed')
      <4>1. \A t \in DOMAIN TransfersConfirmed : t \in Transfers \ {it}
        BY <2>1 DEF TransfersConfirmed
      <4> QED
        BY <2>3, <2>4, <3>1, <4>1 DEF TransfersConfirmed, Confirmation!Grows
    <3> QED
      BY <3>2, <3>3, <3>4
  <2>10. Confirmation!Confirm(it, p)
    BY <2>5, <2>6, <2>7, <2>8, <2>9 DEF Confirmation!Confirm
  <2> QED
    BY <2>7, <2>10 DEF Confirmation!Next
<1> QED
  BY <1>3, <1>4, <1>6, <1>7, <1>8, PayoutSteps

(* Whatever is reported, and in whatever order: see ConfirmsTransfers.     *)
THEOREM PayoutsConfirmTransfers == Spec => ConfirmsTransfers
<1>1. Init => Confirmation!Init
  BY PayoutsAssumption DEF Init, Confirmation!Init, TransfersApplied,
     TransfersConfirmed, Transfers, Operations
<1> QED
  BY <1>1, TransfersConfirmStep, PayoutsInvariant, PTL
     DEF Spec, ConfirmsTransfers, Confirmation!Spec
=============================================================================
