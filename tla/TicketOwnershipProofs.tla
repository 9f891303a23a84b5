------------------------ MODULE TicketOwnershipProofs ------------------------
(***************************************************************************)
(* Proofs about module TicketOwnership, for any number of tickets,         *)
(* transfers, users, tokens and transactions.                              *)
(*                                                                         *)
(* RowsInv is about the rows alone and holds whatever the ledger applies:  *)
(* an open transfer is from the present owner, a ticket that was checked   *)
(* in changes owners at most once more, and no token and no movement of    *)
(* one stands for two tickets.  LedgerInv ties the rows to the ledger: the *)
(* evidence of a ticket is a history of its token, in the ledger's order,  *)
(* and the holder of a token is known unless a wallet moved it.            *)
(*                                                                         *)
(* ProofInv says that what confirmed a ticket or a transfer is evidence of *)
(* a ticket, so that nothing confirms two of them: both implement module   *)
(* LedgerConfirmation.                                                     *)
(***************************************************************************)
EXTENDS TicketOwnership, SumTheorems, TLAPS

(* The types.  The ledger applies what was sent, and that once.            *)
RowTypes ==
    /\ issuance \in [Issuances -> Issuance]
    /\ checkIn \in [Issuances -> Nat \union {None}]
    /\ transfer \in [Transfers -> TransferRecord \union {None}]

Once(L) == \A m, n \in DOMAIN L : L[m] = L[n] => m = n

LedgerTypes ==
    /\ sent \in [Txs -> Movement \union {None}]
    /\ lapsed \subseteq {x \in Txs : sent[x] # None}
    /\ ledger \in Seq(Txs)
    /\ \A x \in Range(ledger) : sent[x] # None /\ x \notin lapsed
    /\ Once(ledger)

(* A ticket has a token exactly when it is issued.                         *)
IssuedHasToken ==
    \A i \in Issuances :
        /\ issuance[i].status = "issued" <=> issuance[i].token # None
        /\ issuance[i].status = "pending" => issuance[i].evidence = <<>>

Active(r) == transfer[r] # None /\ transfer[r].status \in ActiveTransfer

(* Transfers are of issued tickets; an active one is the only one of its   *)
(* ticket and from its owner.                                              *)
ActiveInv ==
    /\ \A r \in Transfers : transfer[r] # None =>
            issuance[transfer[r].issuance].status = "issued"
    /\ \A r, s \in Transfers :
            Active(r) /\ Active(s) =>
                (transfer[r].issuance = transfer[s].issuance => r = s)

(* A used ticket has no evidence beyond its check-in, or one more and then *)
(* no active transfer that could bring another.                            *)
UsedOf(i) ==
    checkIn[i] # None =>
        /\ issuance[i].status = "issued"
        /\ \/ Len(issuance[i].evidence) = checkIn[i]
           \/ /\ Len(issuance[i].evidence) = checkIn[i] + 1
              /\ ~HasActiveTransfer(i)

UsedInv == \A i \in Issuances : UsedOf(i)

RowsInv ==
    /\ RowTypes /\ IssuedHasToken /\ ActiveInv /\ UsedInv
    /\ TransfersComeFromOwner /\ OneTicketPerToken

Sent(x) == sent[x] # None

(* What is sent for a transfer does what the transfer says, once at a      *)
(* time; what no transfer and no holder sent is a mint for the buyer.      *)
(* Only what was sent for a transfer is recorded as submitted.             *)
SentInv ==
    /\ \A x \in Txs : Sent(x) /\ sent[x].for # None =>
            LET r == sent[x].for
            IN  /\ transfer[r] # None
                /\ transfer[r].status \in
                        {"approved", "submitted", "confirmed"}
                /\ MatchesTransfer(r, x)
    /\ \A x, y \in Txs \ lapsed :
            /\ Sent(x) /\ Sent(y)
            /\ sent[x].for # None
            /\ sent[x].for = sent[y].for
            => x = y
    /\ \A x \in Txs : Sent(x) /\ sent[x].for = None =>
            sent[x].from # None \/ sent[x].to = Buyer
    /\ \A r \in Transfers :
            transfer[r] # None /\ transfer[r].status = "submitted" =>
                /\ transfer[r].tx \in Txs
                /\ Sent(transfer[r].tx)
                /\ sent[transfer[r].tx].for # None

AppliedFor(r) == {x \in Range(ledger) : sent[x].for = r}

(* A transfer is of the token of its ticket.  While it is active, what was *)
(* applied for it comes after the evidence of the ticket; it is confirmed  *)
(* by evidence of a transaction of its own.                                *)
TransferOf(r) ==
    transfer[r] # None =>
        LET i == transfer[r].issuance
        IN  /\ transfer[r].token = issuance[i].token
            /\ transfer[r].status = "confirmed" =>
                    \E x \in Range(issuance[i].evidence) : sent[x].for = r
            /\ Active(r) =>
                    \A x \in AppliedFor(r), e \in Range(issuance[i].evidence) :
                        Place(ledger, e) < Place(ledger, x)

WalletMoved(k) == \E n \in Moves(k) : SentFromWallet(ledger[n])

(* Unless a wallet moved it, the token of a ticket is held by its owner,   *)
(* or, once an active transfer was applied, by the one it is for.          *)
HolderInv(i) ==
    LET k == issuance[i].token
    IN  k # None /\ ~WalletMoved(k) =>
            /\ \A r \in Transfers :
                    Active(r) /\ transfer[r].issuance = i /\ AppliedFor(r) # {}
                        => HolderOf(k) = transfer[r].to
            /\ \/ HolderOf(k) = issuance[i].owner
               \/ \E r \in Transfers :
                    /\ Active(r)
                    /\ transfer[r].issuance = i
                    /\ AppliedFor(r) # {}

TicketOf(i) ==
    /\ issuance[i].status = "pending" => issuance[i].owner = Buyer
    /\ HistoryOf(i)
    /\ HolderInv(i)

LedgerInv ==
    /\ SentInv
    /\ \A r \in Transfers : TransferOf(r)
    /\ \A i \in Issuances : TicketOf(i)

(* What is evidence of no ticket, and the token of none.                   *)
NoEvidence(x) == \A j \in Issuances : x \notin Range(issuance[j].evidence)
NoToken(k) == \A j \in Issuances : issuance[j].token # k

(* A report that is not committed yet is of a ticket that still waits, and *)
(* of a mint that nothing else, committed or not, has used.  If it found   *)
(* all others issued they still are.                                       *)
ReportOf(i) ==
    report[i] # None =>
        LET x == report[i].tx
        IN  /\ x \in Range(ledger)
            /\ issuance[i].status = "pending"
            /\ sent[x].to = issuance[i].owner
            /\ NoEvidence(x) /\ NoToken(sent[x].token)
            /\ report[i].last => NoneRemains(i)

ReportInv ==
    /\ report \in [Issuances -> Report \union {None}]
    /\ \A i \in Issuances : ReportOf(i)
    /\ \A i, j \in Issuances :
            i # j /\ report[i] # None /\ report[j] # None =>
                /\ report[i].tx # report[j].tx
                /\ sent[report[i].tx].token # sent[report[j].tx].token

(* An order is fulfilled only when every ticket of it is issued.           *)
OrderInv ==
    /\ policy \in {"non_transferable", "organizer_approved", "open"}
    /\ order \in {"fulfilling", "fulfilled"}
    /\ FulfilledOnlyWhenIssued

IInv == LedgerTypes /\ RowsInv /\ LedgerInv /\ ReportInv /\ OrderInv
-----------------------------------------------------------------------------
(* Sequences of evidence grow by what is appended.                         *)
LEMMA AppendedEvidence ==
  ASSUME NEW S, NEW E \in Seq(S), NEW x \in S
  PROVE  /\ Append(E, x) \in Seq(S)
         /\ Len(Append(E, x)) = Len(E) + 1 /\ Len(E) \in Nat
         /\ Range(Append(E, x)) = Range(E) \union {x}
<1>1. /\ Append(E, x) \in Seq(S)
      /\ Len(Append(E, x)) = Len(E) + 1 /\ Len(E) \in Nat
  OBVIOUS
<1>2. DOMAIN E = 1..Len(E) /\ DOMAIN Append(E, x) = 1..(Len(E) + 1)
  OBVIOUS
<1>3. /\ \A n \in 1..Len(E) : Append(E, x)[n] = E[n]
      /\ Append(E, x)[Len(E) + 1] = x
  OBVIOUS
<1>4. ASSUME NEW y
      PROVE  y \in Range(Append(E, x)) <=> y \in Range(E) \union {x}
  <2>1. ASSUME y \in Range(Append(E, x))
        PROVE  y \in Range(E) \union {x}
    <3>1. PICK n \in 1..(Len(E) + 1) : y = Append(E, x)[n]
      BY <1>2, <2>1 DEF Range
    <3>2. CASE n = Len(E) + 1
      BY <1>3, <3>1, <3>2
    <3>3. CASE n # Len(E) + 1
      <4>1. n \in 1..Len(E)
        BY <1>1, <3>3
      <4> QED
        BY <1>2, <1>3, <3>1, <4>1 DEF Range
    <3> QED
      BY <3>2, <3>3
  <2>2. ASSUME y \in Range(E)
        PROVE  y \in Range(Append(E, x))
    <3>1. PICK n \in 1..Len(E) : y = E[n]
      BY <1>2, <2>2 DEF Range
    <3>2. n \in 1..(Len(E) + 1)
      BY <1>1
    <3> QED
      BY <1>2, <1>3, <3>1, <3>2 DEF Range
  <2>3. x \in Range(Append(E, x))
    <3>1. Len(E) + 1 \in 1..(Len(E) + 1)
      BY <1>1
    <3> QED
      BY <1>2, <1>3, <3>1 DEF Range
  <2> QED
    BY <2>1, <2>2, <2>3
<1> QED
  BY <1>1, <1>4

(* What one transaction proves.                                            *)
LEMMA SingleEvidence ==
  ASSUME NEW S, NEW x \in S
  PROVE  /\ <<x>> \in Seq(S) /\ Len(<<x>>) = 1
         /\ Range(<<x>>) = {x} /\ Range(<<>>) = {}
<1>1. DOMAIN <<x>> = 1..1 /\ <<x>>[1] = x
  OBVIOUS
<1>2. 1..1 = {1}
  OBVIOUS
<1>3. DOMAIN <<>> = {}
  OBVIOUS
<1> QED
  BY <1>1, <1>2, <1>3 DEF Range

(* A set of numbers that is neither empty nor unbounded has a largest one. *)
LEMMA LargestExists ==
  ASSUME NEW n \in Nat, NEW S \in SUBSET (1..n), S # {}
  PROVE  Max(S) \in S /\ \A y \in S : y <= Max(S)
<1> DEFINE Good == {T \in SUBSET S :
                        T # {} => \E m \in T : \A y \in T : m >= y}
<1>1. IsFiniteSet(S)
  <2>1. IsFiniteSet(1..n)
    BY FS_Interval
  <2> QED
    BY <2>1, FS_Subset
<1>2. ASSUME NEW T \in SUBSET S, \A U \in SUBSET T : U # T => U \in Good
      PROVE  T \in Good
  <2> SUFFICES ASSUME NEW a \in T
               PROVE  \E m \in T : \A y \in T : m >= y
    OBVIOUS
  <2>1. T \ {a} \in Good
    BY <1>2
  <2>2. CASE T \ {a} = {}
    BY <2>2
  <2>3. CASE T \ {a} # {}
    <3>1. PICK m \in T \ {a} : \A y \in T \ {a} : m >= y
      BY <2>1, <2>3
    <3>2. CASE m >= a
      BY <3>1, <3>2
    <3>3. CASE a > m
      BY <3>1, <3>3
    <3> QED
      BY <3>2, <3>3
  <2> QED
    BY <2>2, <2>3
<1>3. S \in Good
  <2> HIDE DEF Good
  <2> QED
    BY <1>1, <1>2, InductionOnSubsets
<1>4. PICK m \in S : \A y \in S : m >= y
  BY <1>3
<1> QED
  BY <1>4 DEF Max

(* Who holds a token after a ledger L, when s says what the transactions   *)
(* do.                                                                     *)
MovesIn(L, s, k) == {n \in DOMAIN L : s[L[n]].token = k}

HolderIn(L, s, k) ==
    IF MovesIn(L, s, k) = {} THEN None ELSE s[L[Max(MovesIn(L, s, k))]].to

(* What a ledger has applied stays where it is, and before what is applied *)
(* later.                                                                  *)
LEMMA PlacesStay ==
  ASSUME NEW S, NEW L \in Seq(S), Once(L), NEW x \in S, x \notin Range(L)
  PROVE  /\ Once(Append(L, x))
         /\ \A e \in Range(L) :
                /\ Place(Append(L, x), e) = Place(L, e)
                /\ Place(L, e) < Place(Append(L, x), x)
<1> DEFINE A == Append(L, x)
<1>1. /\ A \in Seq(S) /\ Len(A) = Len(L) + 1 /\ Len(L) \in Nat
      /\ DOMAIN L = 1..Len(L) /\ DOMAIN A = 1..(Len(L) + 1)
      /\ \A n \in 1..Len(L) : A[n] = L[n]
      /\ A[Len(L) + 1] = x
  OBVIOUS
<1>2. \A n \in 1..Len(L) : L[n] # x
  BY <1>1 DEF Range
<1> HIDE DEF A
<1>3. Once(A)
  BY <1>1, <1>2 DEF Once
<1>4. ASSUME NEW M, Once(M), NEW n \in DOMAIN M
      PROVE  Place(M, M[n]) = n
  BY <1>4 DEF Place, Once
<1>5. Place(A, x) = Len(L) + 1
  BY <1>1, <1>3, <1>4
<1>6. ASSUME NEW e \in Range(L)
      PROVE  Place(A, e) = Place(L, e) /\ Place(L, e) < Place(A, x)
  <2>1. PICK n \in 1..Len(L) : e = L[n]
    BY <1>1 DEF Range
  <2>2. Place(L, e) = n
    BY <1>1, <1>4, <2>1
  <2>3. n \in DOMAIN A /\ A[n] = e
    BY <1>1, <2>1
  <2>4. Place(A, e) = n
    BY <1>3, <1>4, <2>3
  <2> QED
    BY <1>1, <1>5, <2>1, <2>2, <2>4
<1> QED
  BY <1>3, <1>6 DEF A

(* The holder of a token is the one to whom it was moved last.             *)
LEMMA HolderAfter ==
  ASSUME NEW S, NEW L \in Seq(S), NEW x \in S, NEW s, NEW t, NEW k,
         \A y \in Range(L) : t[y] = s[y]
  PROVE  /\ MovesIn(Append(L, x), t, k) = MovesIn(L, s, k) \union
                (IF t[x].token = k THEN {Len(L) + 1} ELSE {})
         /\ HolderIn(Append(L, x), t, k) =
                IF t[x].token = k THEN t[x].to ELSE HolderIn(L, s, k)
<1> DEFINE A == Append(L, x)
           N == Len(L)
           MA == MovesIn(A, t, k)
           ML == MovesIn(L, s, k)
<1>1. /\ DOMAIN L = 1..N /\ DOMAIN A = 1..(N + 1)
      /\ \A n \in 1..N : A[n] = L[n]
      /\ A[N + 1] = x
  OBVIOUS
<1>2. \A n \in 1..N : t[A[n]] = s[L[n]]
  BY <1>1 DEF Range
<1>3. N \in Nat /\ N + 1 \in Nat
  OBVIOUS
<1> HIDE DEF A, N
<1>4. ML \subseteq 1..N
  BY <1>1 DEF MovesIn
<1>5. CASE t[x].token = k
  <2>1. MA = ML \union {N + 1}
    BY <1>1, <1>2, <1>3, <1>5 DEF MovesIn
  <2> HIDE DEF MA, ML
  <2>2. MA \subseteq 1..(N + 1) /\ MA # {}
    BY <1>3, <1>4, <2>1
  <2>3. Max(MA) \in MA /\ \A n \in MA : n <= Max(MA)
    BY <1>3, <2>2, LargestExists
  <2>4. Max(MA) = N + 1
    <3>1. Max(MA) \in 1..(N + 1) /\ N + 1 <= Max(MA)
      BY <2>1, <2>2, <2>3
    <3> QED
      BY <1>3, <3>1
  <2> QED
    BY <1>1, <1>5, <2>1, <2>2, <2>4 DEF HolderIn, MA, ML, A, N
<1>6. CASE t[x].token # k
  <2>1. MA = ML
    BY <1>1, <1>2, <1>3, <1>6 DEF MovesIn
  <2>2. ASSUME ML # {}
        PROVE  t[A[Max(MA)]].to = s[L[Max(ML)]].to
    <3> HIDE DEF MA, ML
    <3>1. Max(ML) \in ML
      BY <1>3, <1>4, <2>2, LargestExists
    <3> QED
      BY <1>2, <1>4, <2>1, <3>1
  <2> QED
    BY <1>6, <2>1, <2>2 DEF HolderIn, A
<1> QED
  BY <1>5, <1>6
-----------------------------------------------------------------------------
(* What each handler does to the row of one ticket or transfer. *)

(* A report commits what it has found.                                     *)
Issues(i, x) ==
    /\ AcceptOwnershipEvidence(i)
    /\ report[i].tx = x
    /\ x \in Range(ledger)
    /\ issuance[i].status = "pending"
    /\ sent[x].to = issuance[i].owner
    /\ NoEvidence(x) /\ NoToken(sent[x].token)
    /\ report[i].last => NoneRemains(i)

LEMMA ReportIssues ==
  ASSUME ReportInv, NEW i \in Issuances, AcceptOwnershipEvidence(i)
  PROVE  \E x \in Txs : Issues(i, x)
<1>1. report[i] # None /\ report[i] \in Report
  BY DEF AcceptOwnershipEvidence, ReportInv
<1>2. report[i].tx \in Txs
  BY <1>1 DEF Report
<1>3. Issues(i, report[i].tx)
  BY <1>1 DEF ReportInv, ReportOf, Issues
<1> QED
  BY <1>2, <1>3

(* accept_ownership_evidence gives a pending ticket a token and evidence   *)
(* that no other has.                                                      *)
LEMMA OwnershipEffect ==
  ASSUME RowTypes, LedgerTypes, NEW i \in Issuances, NEW x \in Txs,
         Issues(i, x)
  PROVE  /\ issuance[i].status = "pending"
         /\ issuance' = [issuance EXCEPT ![i] = issuance'[i]]
         /\ issuance'[i] \in Issuance
         /\ issuance'[i].status = "issued"
         /\ issuance'[i].owner = issuance[i].owner
         /\ issuance'[i].token \in Tokens /\ NoToken(issuance'[i].token)
         /\ issuance'[i].token = sent[x].token
         /\ sent[x].to = issuance[i].owner /\ x \in Range(ledger)
         /\ issuance'[i].evidence = <<x>> /\ NoEvidence(x)
         /\ UNCHANGED <<checkIn, transfer, sent, lapsed, ledger>>
<1> DEFINE k == sent[x].token
           row == [issuance[i] EXCEPT !.status = "issued", !.token = k,
                                      !.evidence = <<x>>]
<1>1. issuance[i] \in Issuance
  BY DEF RowTypes
<1>2. k \in Tokens /\ NoToken(k) /\ NoEvidence(x)
  BY DEF Issues, LedgerTypes, Movement
<1>3. <<x>> \in Seq(Txs)
  BY SingleEvidence
<1>4. /\ row \in Issuance /\ row.status = "issued"
      /\ row.owner = issuance[i].owner
      /\ row.token = k /\ row.evidence = <<x>>
  <2> HIDE DEF k
  <2> QED
    BY <1>1, <1>2, <1>3 DEF Issuance
<1>5. issuance' = [issuance EXCEPT ![i] = row]
  BY <1>1 DEF Issues, AcceptOwnershipEvidence, RowTypes
<1>6. /\ issuance[i].status = "pending"
      /\ sent[x].to = issuance[i].owner /\ x \in Range(ledger)
      /\ UNCHANGED <<checkIn, transfer, sent, lapsed, ledger>>
  BY DEF Issues, AcceptOwnershipEvidence
<1> HIDE DEF row
<1> QED
  BY <1>2, <1>4, <1>5, <1>6 DEF RowTypes

(* A transfer keeps its ticket, token, source and destination.             *)
SameTerms(r) ==
    /\ transfer'[r].issuance = transfer[r].issuance
    /\ transfer'[r].token = transfer[r].token
    /\ transfer'[r].from = transfer[r].from
    /\ transfer'[r].to = transfer[r].to

(* accept_transfer_evidence gives the ticket of a submitted transfer to    *)
(* its new owner and confirms the transfer.                                *)
LEMMA TransferEffect ==
  ASSUME RowTypes, NEW r \in Transfers, NEW x \in Txs,
         AcceptTransferEvidence(r, x)
  PROVE  LET i == transfer[r].issuance
         IN  /\ transfer[r] # None /\ transfer[r].status = "submitted"
             /\ transfer[r].tx = x
             /\ i \in Issuances
             /\ issuance' = [issuance EXCEPT ![i] = issuance'[i]]
             /\ issuance'[i] \in Issuance
             /\ issuance'[i].status = "issued"
             /\ issuance'[i].token = issuance[i].token
             /\ issuance'[i].evidence = Append(issuance[i].evidence, x)
             /\ issuance'[i].owner = transfer[r].to
             /\ NoEvidence(x) /\ MatchesTransfer(r, x)
             /\ x \in Range(ledger)
             /\ transfer' = [transfer EXCEPT ![r] = transfer'[r]]
             /\ transfer'[r] \in TransferRecord
             /\ transfer'[r].status = "confirmed" /\ transfer'[r].tx = x
             /\ SameTerms(r)
             /\ UNCHANGED <<checkIn, sent, lapsed, ledger>>
<1> DEFINE i == transfer[r].issuance
           u == transfer[r].to
           E == Append(issuance[i].evidence, x)
           row == [issuance[i] EXCEPT !.status = "issued", !.owner = u,
                                      !.evidence = E]
           new == [transfer[r] EXCEPT !.status = "confirmed"]
<1>1. /\ transfer[r] # None /\ transfer[r].status = "submitted"
      /\ transfer[r].tx = x
      /\ NoEvidence(x) /\ MatchesTransfer(r, x) /\ x \in Range(ledger)
      /\ UNCHANGED <<checkIn, sent, lapsed, ledger>>
  BY DEF AcceptTransferEvidence, ProvesTransfer, UnusedEvidence, NoEvidence
<1>2. transfer[r] \in TransferRecord
  BY <1>1 DEF RowTypes
<1>3. i \in Issuances /\ u \in Users
  BY <1>2 DEF TransferRecord
<1>4. issuance[i] \in Issuance
  BY <1>3 DEF RowTypes
<1>5. E \in Seq(Txs)
  <2>1. issuance[i].evidence \in Seq(Txs)
    BY <1>4 DEF Issuance
  <2> QED
    BY <2>1, AppendedEvidence
<1>6. /\ row \in Issuance /\ row.status = "issued"
      /\ row.token = issuance[i].token /\ row.evidence = E
      /\ row.owner = u
  <2> HIDE DEF i, u, E
  <2> QED
    BY <1>3, <1>4, <1>5 DEF Issuance
<1>7. /\ new \in TransferRecord /\ new.status = "confirmed"
      /\ new.issuance = i /\ new.token = transfer[r].token
      /\ new.from = transfer[r].from /\ new.to = transfer[r].to
      /\ new.tx = transfer[r].tx
  BY <1>2 DEF TransferRecord, ActiveTransfer
<1>8. /\ issuance' = [issuance EXCEPT ![i] = row]
      /\ transfer' = [transfer EXCEPT ![r] = new]
  BY <1>2, <1>4 DEF AcceptTransferEvidence, RowTypes
<1> HIDE DEF row, new
<1>9. issuance'[i] = row /\ transfer'[r] = new
  BY <1>3, <1>8 DEF RowTypes
<1>10. SameTerms(r)
  BY <1>7, <1>9 DEF SameTerms
<1> QED
  BY <1>1, <1>3, <1>6, <1>7, <1>8, <1>9, <1>10

(* create_transfer opens a transfer of a ticket that is issued, unused and *)
(* without one, from its owner.                                            *)
LEMMA CreateEffect ==
  ASSUME RowTypes, IssuedHasToken, NEW r \in Transfers, NEW i \in Issuances,
         NEW u \in Users, CreateTransfer(r, i, u)
  PROVE  /\ transfer[r] = None /\ Transferable(i) /\ ~HasActiveTransfer(i)
         /\ transfer' = [transfer EXCEPT ![r] = transfer'[r]]
         /\ transfer'[r] \in TransferRecord
         /\ transfer'[r].issuance = i
         /\ transfer'[r].from = issuance[i].owner
         /\ transfer'[r].token = issuance[i].token
         /\ transfer'[r].status \in ActiveTransfer
         /\ UNCHANGED <<issuance, checkIn, sent, lapsed, ledger>>
<1> DEFINE status == InitialStatus
           row == [issuance |-> i, token |-> issuance[i].token,
                   from |-> issuance[i].owner, to |-> u, tx |-> None,
                   status |-> status]
<1>1. /\ transfer[r] = None /\ Transferable(i) /\ ~HasActiveTransfer(i)
      /\ transfer' = [transfer EXCEPT ![r] = row]
      /\ UNCHANGED <<issuance, checkIn, sent, lapsed, ledger>>
  BY DEF CreateTransfer
<1>2. issuance[i].owner \in Users /\ issuance[i].token \in Tokens
  <2>1. issuance[i] \in Issuance /\ issuance[i].token # None
    BY <1>1 DEF RowTypes, IssuedHasToken, Transferable
  <2> QED
    BY <2>1 DEF Issuance
<1>3. status \in ActiveTransfer
  BY DEF InitialStatus, ActiveTransfer
<1>4. row \in TransferRecord
  <2> HIDE DEF status
  <2> QED
    BY <1>2, <1>3 DEF TransferRecord
<1>5. /\ row.issuance = i /\ row.from = issuance[i].owner
      /\ row.token = issuance[i].token /\ row.status \in ActiveTransfer
  BY <1>3
<1> HIDE DEF row
<1> QED
  BY <1>1, <1>4, <1>5 DEF RowTypes

(* review_transfer and record_transfer_submission change the status of an  *)
(* active transfer, and nothing it says of the ticket.                     *)
LEMMA StatusEffect ==
  ASSUME RowTypes, NEW r \in Transfers,
         \/ \E decision \in {"approved", "rejected"} :
                ReviewTransfer(r, decision)
         \/ \E x \in Txs : RecordTransferSubmission(r, x)
  PROVE  /\ Active(r)
         /\ transfer' = [transfer EXCEPT ![r] = transfer'[r]]
         /\ transfer'[r] \in TransferRecord
         /\ SameTerms(r)
         /\ \/ /\ transfer[r].status = "requested"
               /\ transfer'[r].status \in {"approved", "rejected"}
            \/ /\ transfer'[r].status = "submitted"
               /\ transfer'[r].tx \in Txs /\ Sent(transfer'[r].tx)
               /\ sent[transfer'[r].tx].for # None
         /\ transfer'[r].status # "confirmed"
         /\ UNCHANGED <<issuance, checkIn, sent, lapsed, ledger>>
<1>1. ASSUME NEW row \in TransferRecord,
             transfer' = [transfer EXCEPT ![r] = row],
             row.issuance = transfer[r].issuance,
             row.token = transfer[r].token,
             row.from = transfer[r].from, row.to = transfer[r].to
      PROVE  /\ transfer' = [transfer EXCEPT ![r] = transfer'[r]]
             /\ transfer'[r] = row /\ SameTerms(r)
  <2>1. transfer'[r] = row
    BY <1>1 DEF RowTypes
  <2> QED
    BY <1>1, <2>1 DEF SameTerms
<1>2. ASSUME NEW decision \in {"approved", "rejected"},
             ReviewTransfer(r, decision)
      PROVE  /\ Active(r) /\ transfer[r].status = "requested"
             /\ transfer' = [transfer EXCEPT ![r] = transfer'[r]]
             /\ transfer'[r] \in TransferRecord
             /\ SameTerms(r)
             /\ transfer'[r].status \in {"approved", "rejected"}
             /\ UNCHANGED <<issuance, checkIn, sent, lapsed, ledger>>
  <2> DEFINE row == [transfer[r] EXCEPT !.status = decision]
  <2>1. /\ transfer[r] \in TransferRecord
        /\ transfer[r] # None /\ transfer[r].status = "requested"
    BY <1>2 DEF ReviewTransfer, Reviewable, RowTypes
  <2>2. /\ row \in TransferRecord
        /\ row.issuance = transfer[r].issuance
        /\ row.token = transfer[r].token
        /\ row.from = transfer[r].from /\ row.to = transfer[r].to
        /\ row.status = decision
    BY <2>1 DEF TransferRecord, ActiveTransfer
  <2>3. /\ transfer' = [transfer EXCEPT ![r] = row]
        /\ UNCHANGED <<issuance, checkIn, sent, lapsed, ledger>>
    BY <1>2, <2>1 DEF ReviewTransfer, RowTypes
  <2> HIDE DEF row
  <2> QED
    BY <1>1, <2>1, <2>2, <2>3 DEF Active, ActiveTransfer
<1>3. ASSUME NEW x \in Txs, RecordTransferSubmission(r, x)
      PROVE  /\ Active(r) /\ transfer'[r].status = "submitted"
             /\ transfer'[r].tx = x /\ Sent(x) /\ sent[x].for # None
             /\ transfer' = [transfer EXCEPT ![r] = transfer'[r]]
             /\ transfer'[r] \in TransferRecord
             /\ SameTerms(r)
             /\ UNCHANGED <<issuance, checkIn, sent, lapsed, ledger>>
  <2> DEFINE row == [transfer[r] EXCEPT !.status = "submitted", !.tx = x]
  <2>1. /\ transfer[r] \in TransferRecord
        /\ transfer[r] # None /\ transfer[r].status = "approved"
    BY <1>3 DEF RecordTransferSubmission, RowTypes
  <2>2. /\ row \in TransferRecord
        /\ row.issuance = transfer[r].issuance
        /\ row.token = transfer[r].token
        /\ row.from = transfer[r].from /\ row.to = transfer[r].to
        /\ row.status = "submitted" /\ row.tx = x
    BY <2>1 DEF TransferRecord, ActiveTransfer
  <2>3. /\ transfer' = [transfer EXCEPT ![r] = row]
        /\ Sent(x) /\ sent[x].for # None
        /\ UNCHANGED <<issuance, checkIn, sent, lapsed, ledger>>
    BY <1>3, <2>1 DEF RecordTransferSubmission, RowTypes, Sent
  <2> HIDE DEF row
  <2> QED
    BY <1>1, <2>1, <2>2, <2>3 DEF Active, ActiveTransfer
<1> QED
  BY <1>2, <1>3
-----------------------------------------------------------------------------
(* Every step leaves the rows alone or is one of these.                    *)
LEMMA OwnershipSteps ==
  ASSUME ReportInv, [Next]_vars
  PROVE  \/ UNCHANGED <<issuance, checkIn, transfer>>
         \/ \E i \in Issuances, x \in Txs : Issues(i, x)
         \/ \E i \in Issuances : CheckIn(i)
         \/ \E r \in Transfers, i \in Issuances, u \in Users :
                CreateTransfer(r, i, u)
         \/ \E r \in Transfers, decision \in {"approved", "rejected"} :
                ReviewTransfer(r, decision)
         \/ \E r \in Transfers, x \in Txs : RecordTransferSubmission(r, x)
         \/ \E r \in Transfers, x \in Txs : AcceptTransferEvidence(r, x)
<1>1. ASSUME \/ UNCHANGED vars
             \/ \E x \in Txs, k \in Tokens : Mint(x, k)
             \/ \E x \in Txs, r \in Transfers : SendTransfer(x, r)
             \/ \E x \in Txs : LedgerApplies(x)
             \/ \E x \in Txs : LedgerForgets(x)
             \/ \E x \in Txs, k \in Tokens, u \in Users :
                    WalletTransfer(x, k, u)
             \/ \E i \in Issuances, x \in Txs : CountRemaining(i, x)
             \/ \E i \in Issuances : RollBackReport(i)
      PROVE  UNCHANGED <<issuance, checkIn, transfer>>
  BY <1>1 DEF vars, Mint, SendTransfer, LedgerApplies, LedgerForgets,
     WalletTransfer, CountRemaining, RollBackReport
<1> QED
  BY <1>1, ReportIssues DEF Next

(* Who holds a token is a user, if it was minted.                          *)
LEMMA HolderIsUser ==
  ASSUME LedgerTypes, NEW k
  PROVE  HolderOf(k) \in Users \union {None}
<1> DEFINE M == Moves(k)
<1> SUFFICES ASSUME M # {}
             PROVE  HolderOf(k) \in Users
  BY DEF HolderOf
<1>1. /\ DOMAIN ledger = 1..Len(ledger) /\ Len(ledger) \in Nat
      /\ M \subseteq DOMAIN ledger
  BY DEF LedgerTypes, Moves
<1> HIDE DEF M
<1>2. Max(M) \in M
  BY <1>1, LargestExists
<1>3. ledger[Max(M)] \in Range(ledger) /\ ledger[Max(M)] \in Txs
  BY <1>1, <1>2 DEF Range, LedgerTypes
<1>4. sent[ledger[Max(M)]] \in Movement
  BY <1>3 DEF LedgerTypes
<1>5. sent[ledger[Max(M)]].to \in Users
  BY <1>4 DEF Movement
<1> QED
  BY <1>5 DEF HolderOf, M

(* What is sent is new.                                                    *)
Sends(x, m) ==
    /\ sent[x] = None
    /\ sent' = [sent EXCEPT ![x] = m]
    /\ UNCHANGED <<policy, order, issuance, report, checkIn, transfer,
                       lapsed>>

(* A mint, or a transfer from a wallet, is applied as it is sent.          *)
Performs(x, m) ==
    /\ Sends(x, m)
    /\ ledger' = Append(ledger, x)
    /\ m.for = None
    /\ m.from = None => m.to = Buyer /\ HolderOf(m.token) = None

(* The worker sends what a transfer says when what it sent before lapsed.  *)
Proposes(x, m) ==
    /\ Sends(x, m)
    /\ ledger' = ledger
    /\ m.for \in Transfers
    /\ LET r == m.for
       IN  /\ transfer[r] # None
           /\ transfer[r].status \in {"approved", "submitted"}
           /\ m.token = transfer[r].token
           /\ m.from = transfer[r].from
           /\ m.to = transfer[r].to
           /\ \A y \in Txs : Sent(y) /\ sent[y].for = r => y \in lapsed

LEMMA WorldSteps ==
  ASSUME RowTypes, LedgerTypes, [Next]_vars
  PROVE  \/ UNCHANGED <<sent, lapsed, ledger>>
         \/ \E x \in Txs, m \in Movement : Performs(x, m)
         \/ \E x \in Txs, m \in Movement : Proposes(x, m)
         \/ \E x \in Txs : LedgerApplies(x)
         \/ \E x \in Txs : LedgerForgets(x)
<1>1. ASSUME NEW x \in Txs, NEW k \in Tokens, Mint(x, k)
      PROVE  \E m \in Movement : Performs(x, m)
  <2> DEFINE m == [for |-> None, token |-> k, from |-> None, to |-> Buyer]
  <2>1. /\ m \in Movement /\ m.for = None /\ m.to = Buyer
        /\ m.token = k
    BY OwnershipAssumption DEF Movement
  <2>2. /\ sent[x] = None /\ sent' = [sent EXCEPT ![x] = m]
        /\ ledger' = Append(ledger, x) /\ HolderOf(k) = None
        /\ UNCHANGED <<policy, order, issuance, report, checkIn, transfer,
                       lapsed>>
    BY <1>1 DEF Mint
  <2> HIDE DEF m
  <2> QED
    BY <2>1, <2>2 DEF Performs, Sends
<1>2. ASSUME NEW x \in Txs, NEW k \in Tokens, NEW u \in Users,
             WalletTransfer(x, k, u)
      PROVE  \E m \in Movement : Performs(x, m)
  <2> DEFINE h == HolderOf(k)
             m == [for |-> None, token |-> k, from |-> h, to |-> u]
  <2>1. h \in Users /\ h # None
    BY <1>2, HolderIsUser DEF WalletTransfer
  <2>2. m \in Movement /\ m.for = None /\ m.from # None
    <3> HIDE DEF h
    <3> QED
      BY <2>1 DEF Movement
  <2>3. /\ sent[x] = None /\ sent' = [sent EXCEPT ![x] = m]
        /\ ledger' = Append(ledger, x)
        /\ UNCHANGED <<policy, order, issuance, report, checkIn, transfer,
                       lapsed>>
    BY <1>2 DEF WalletTransfer
  <2> HIDE DEF m
  <2> QED
    BY <2>2, <2>3 DEF Performs, Sends
<1>3. ASSUME NEW x \in Txs, NEW r \in Transfers, SendTransfer(x, r)
      PROVE  \E m \in Movement : Proposes(x, m)
  <2> DEFINE m == [for |-> r, token |-> transfer[r].token,
                   from |-> transfer[r].from, to |-> transfer[r].to]
  <2>1. transfer[r] \in TransferRecord
    BY <1>3 DEF SendTransfer, RowTypes
  <2>2. /\ m \in Movement /\ m.for = r /\ m.token = transfer[r].token
        /\ m.from = transfer[r].from /\ m.to = transfer[r].to
    BY <2>1 DEF Movement, TransferRecord
  <2>3. /\ sent[x] = None /\ sent' = [sent EXCEPT ![x] = m]
        /\ ledger' = ledger
        /\ transfer[r] # None
        /\ transfer[r].status \in {"approved", "submitted"}
        /\ \A y \in Txs : Sent(y) /\ sent[y].for = r => y \in lapsed
        /\ UNCHANGED <<policy, order, issuance, report, checkIn, transfer,
                       lapsed>>
    BY <1>3 DEF SendTransfer, Sent
  <2> HIDE DEF m
  <2> QED
    BY <2>2, <2>3 DEF Proposes, Sends
<1>4. ASSUME \/ UNCHANGED vars
             \/ \E i \in Issuances, x \in Txs : CountRemaining(i, x)
             \/ \E i \in Issuances : AcceptOwnershipEvidence(i)
             \/ \E i \in Issuances : RollBackReport(i)
             \/ \E i \in Issuances : CheckIn(i)
             \/ \E r \in Transfers, i \in Issuances, u \in Users :
                    CreateTransfer(r, i, u)
             \/ \E r \in Transfers, decision \in {"approved", "rejected"} :
                    ReviewTransfer(r, decision)
             \/ \E r \in Transfers, x \in Txs : RecordTransferSubmission(r, x)
             \/ \E r \in Transfers, x \in Txs : AcceptTransferEvidence(r, x)
      PROVE  UNCHANGED <<sent, lapsed, ledger>>
  BY <1>4 DEF vars, CountRemaining, AcceptOwnershipEvidence, RollBackReport,
     CheckIn, CreateTransfer, ReviewTransfer, RecordTransferSubmission, AcceptTransferEvidence
<1> QED
  BY <1>1, <1>2, <1>3, <1>4 DEF Next

(* What is sent becomes known, and nothing else changes.                   *)
LEMMA SendEffect ==
  ASSUME LedgerTypes, NEW x \in Txs, NEW m \in Movement, Sends(x, m)
  PROVE  /\ sent' \in [Txs -> Movement \union {None}]
         /\ sent'[x] = m /\ m # None
         /\ \A y \in Txs \ {x} : sent'[y] = sent[y]
         /\ x \notin Range(ledger) /\ x \notin lapsed
         /\ \A y \in Range(ledger) : sent'[y] = sent[y]
         /\ \A y \in Txs : Sent(y)' <=> Sent(y) \/ y = x
<1>1. m # None
  BY OwnershipAssumption
<1>2. /\ sent' \in [Txs -> Movement \union {None}]
      /\ sent'[x] = m
      /\ \A y \in Txs \ {x} : sent'[y] = sent[y]
  BY DEF Sends, LedgerTypes
<1>3. x \notin Range(ledger) /\ x \notin lapsed
  BY DEF Sends, LedgerTypes
<1>4. Range(ledger) \subseteq Txs
  BY DEF LedgerTypes, Range
<1> QED
  BY <1>1, <1>2, <1>3, <1>4 DEF Sends, Sent

(* The ledger applies what was sent, and each transaction once.            *)
LEMMA LedgerStep ==
  ASSUME LedgerTypes, RowsInv, [Next]_vars
  PROVE  LedgerTypes'
<1>1. CASE UNCHANGED <<sent, lapsed, ledger>>
  BY <1>1 DEF LedgerTypes
<1>2. ASSUME NEW x \in Txs, x \notin Range(ledger),
             ledger' = Append(ledger, x)
      PROVE  /\ ledger' \in Seq(Txs) /\ Once(ledger')
             /\ Range(ledger') = Range(ledger) \union {x}
  <2>1. ledger \in Seq(Txs) /\ Once(ledger)
    BY DEF LedgerTypes
  <2> QED
    BY <1>2, <2>1, AppendedEvidence, PlacesStay
<1>3. ASSUME NEW x \in Txs, NEW m \in Movement, Performs(x, m)
      PROVE  LedgerTypes'
  <2>1. Sends(x, m) /\ ledger' = Append(ledger, x) /\ lapsed' = lapsed
    BY <1>3 DEF Performs, Sends
  <2>2. /\ sent' \in [Txs -> Movement \union {None}]
        /\ x \notin Range(ledger) /\ x \notin lapsed
        /\ \A y \in Range(ledger) : sent'[y] = sent[y]
        /\ \A y \in Txs : Sent(y)' <=> Sent(y) \/ y = x
    BY <2>1, SendEffect
  <2>3. /\ ledger' \in Seq(Txs) /\ Once(ledger')
        /\ Range(ledger') = Range(ledger) \union {x}
    BY <1>2, <2>1, <2>2
  <2> QED
    BY <2>1, <2>2, <2>3 DEF LedgerTypes, Sent
<1>4. ASSUME NEW x \in Txs, NEW m \in Movement, Proposes(x, m)
      PROVE  LedgerTypes'
  <2>1. Sends(x, m) /\ ledger' = ledger /\ lapsed' = lapsed
    BY <1>4 DEF Proposes, Sends
  <2>2. /\ sent' \in [Txs -> Movement \union {None}]
        /\ \A y \in Range(ledger) : sent'[y] = sent[y]
        /\ \A y \in Txs : Sent(y)' <=> Sent(y) \/ y = x
    BY <2>1, SendEffect
  <2> QED
    BY <2>1, <2>2 DEF LedgerTypes, Sent
<1>5. ASSUME NEW x \in Txs, LedgerApplies(x)
      PROVE  LedgerTypes'
  <2>1. /\ sent[x] # None /\ x \notin Range(ledger) /\ x \notin lapsed
        /\ ledger' = Append(ledger, x) /\ UNCHANGED <<sent, lapsed>>
    BY <1>5 DEF LedgerApplies
  <2>2. /\ ledger' \in Seq(Txs) /\ Once(ledger')
        /\ Range(ledger') = Range(ledger) \union {x}
    BY <1>2, <2>1
  <2> QED
    BY <2>1, <2>2 DEF LedgerTypes
<1>6. ASSUME NEW x \in Txs, LedgerForgets(x)
      PROVE  LedgerTypes'
  BY <1>6 DEF LedgerForgets, LedgerTypes
<1> QED
  BY <1>1, <1>3, <1>4, <1>5, <1>6, WorldSteps DEF RowsInv
-----------------------------------------------------------------------------
(* Each handler keeps the rows in order. *)

(* An active transfer is of an issued ticket, whose token and owner it     *)
(* names, and of no other active transfer's.                               *)
LEMMA ActiveTransferOf ==
  ASSUME RowsInv, NEW r \in Transfers, Active(r)
  PROVE  /\ transfer[r] \in TransferRecord
         /\ transfer[r].issuance \in Issuances
         /\ issuance[transfer[r].issuance].status = "issued"
         /\ transfer[r].from = issuance[transfer[r].issuance].owner
         /\ transfer[r].token = issuance[transfer[r].issuance].token
<1>1. transfer[r] \in TransferRecord
  BY DEF RowsInv, RowTypes, Active
<1>2. transfer[r].issuance \in Issuances
  BY <1>1 DEF TransferRecord
<1> QED
  BY <1>1, <1>2 DEF RowsInv, ActiveInv, TransfersComeFromOwner, Active

LEMMA OwnershipKeepsRows ==
  ASSUME LedgerTypes, RowsInv, NEW i \in Issuances, NEW x \in Txs,
         Issues(i, x)
  PROVE  RowsInv'
<1>1. /\ issuance[i].status = "pending"
      /\ issuance' = [issuance EXCEPT ![i] = issuance'[i]]
      /\ issuance'[i] \in Issuance
      /\ issuance'[i].status = "issued"
      /\ issuance'[i].token \in Tokens /\ NoToken(issuance'[i].token)
      /\ issuance'[i].evidence = <<x>> /\ NoEvidence(x)
      /\ UNCHANGED <<checkIn, transfer>>
  BY OwnershipEffect DEF RowsInv
<1>2. \A j \in Issuances \ {i} : issuance'[j] = issuance[j]
  BY <1>1 DEF RowsInv, RowTypes
<1>3. RowTypes'
  BY <1>1 DEF RowsInv, RowTypes
<1>4. IssuedHasToken'
  <2>1. issuance'[i].token # None
    BY <1>1, OwnershipAssumption
  <2> QED
    BY <1>1, <1>2, <2>1 DEF RowsInv, IssuedHasToken
<1>5. \A r \in Transfers : transfer[r] # None => transfer[r].issuance # i
  BY <1>1 DEF RowsInv, ActiveInv
<1>6. \A r \in Transfers : transfer[r] # None =>
            transfer[r].issuance \in Issuances \ {i}
  <2>1. \A r \in Transfers : transfer[r] # None =>
            transfer[r].issuance \in Issuances
    BY DEF RowsInv, RowTypes, TransferRecord
  <2> QED
    BY <1>5, <2>1
<1>7. ActiveInv'
  BY <1>1, <1>2, <1>6 DEF RowsInv, ActiveInv, Active
<1>8. TransfersComeFromOwner'
  BY <1>1, <1>2, <1>6 DEF RowsInv, TransfersComeFromOwner
<1>9. UsedInv'
  <2>1. checkIn[i] = None
    BY <1>1 DEF RowsInv, UsedInv, UsedOf
  <2> QED
    BY <1>1, <1>2, <2>1 DEF RowsInv, UsedInv, UsedOf, HasActiveTransfer
<1>10. OneTicketPerToken'
  <2>1. Range(issuance'[i].evidence) = {x}
    BY <1>1, SingleEvidence
  <2>2. \A j \in Issuances : x \notin Range(issuance[j].evidence)
    BY <1>1 DEF NoEvidence
  <2>3. \A j \in Issuances : issuance[j].token # issuance'[i].token
    BY <1>1 DEF NoToken
  <2> QED
    BY <1>2, <2>1, <2>2, <2>3 DEF RowsInv, OneTicketPerToken
<1> QED
  BY <1>3, <1>4, <1>7, <1>8, <1>9, <1>10 DEF RowsInv

LEMMA CheckInKeepsRows ==
  ASSUME RowsInv, NEW i \in Issuances, CheckIn(i)
  PROVE  RowsInv'
<1>1. /\ issuance[i].status = "issued"
      /\ checkIn' = [checkIn EXCEPT ![i] = Len(issuance[i].evidence)]
      /\ UNCHANGED <<issuance, transfer>>
  BY DEF CheckIn
<1>2. Len(issuance[i].evidence) \in Nat
  <2>1. issuance[i].evidence \in Seq(Txs)
    BY DEF RowsInv, RowTypes, Issuance
  <2> QED
    BY <2>1
<1>3. RowTypes'
  BY <1>1, <1>2 DEF RowsInv, RowTypes
<1>4. UsedInv'
  BY <1>1, <1>2 DEF RowsInv, RowTypes, UsedInv, UsedOf, HasActiveTransfer
<1> QED
  BY <1>1, <1>3, <1>4 DEF RowsInv, IssuedHasToken, ActiveInv, Active,
     TransfersComeFromOwner, OneTicketPerToken

LEMMA CreateKeepsRows ==
  ASSUME RowsInv, NEW r \in Transfers, NEW i \in Issuances, NEW u \in Users,
         CreateTransfer(r, i, u)
  PROVE  RowsInv'
<1>1. /\ transfer[r] = None /\ Transferable(i) /\ ~HasActiveTransfer(i)
      /\ transfer' = [transfer EXCEPT ![r] = transfer'[r]]
      /\ transfer'[r] \in TransferRecord
      /\ transfer'[r].issuance = i
      /\ transfer'[r].from = issuance[i].owner
      /\ transfer'[r].token = issuance[i].token
      /\ UNCHANGED <<issuance, checkIn>>
  BY CreateEffect DEF RowsInv
<1>2. \A s \in Transfers \ {r} : transfer'[s] = transfer[s]
  BY <1>1 DEF RowsInv, RowTypes
<1>3. issuance[i].status = "issued" /\ checkIn[i] = None
  BY <1>1 DEF Transferable
<1>4. RowTypes'
  BY <1>1 DEF RowsInv, RowTypes
<1>5. \A s \in Transfers \ {r} : Active(s) => transfer[s].issuance # i
  BY <1>1 DEF HasActiveTransfer, Active
<1>6. ActiveInv'
  BY <1>1, <1>2, <1>3, <1>5 DEF RowsInv, ActiveInv, Active
<1>7. TransfersComeFromOwner'
  BY <1>1, <1>2 DEF RowsInv, TransfersComeFromOwner
<1>8. UsedInv'
  <2>1. ASSUME NEW j \in Issuances, j # i, HasActiveTransfer(j)'
        PROVE  HasActiveTransfer(j)
    BY <1>1, <1>2, <2>1 DEF HasActiveTransfer
  <2> QED
    BY <1>1, <1>3, <2>1 DEF RowsInv, UsedInv, UsedOf
<1> QED
  BY <1>1, <1>4, <1>6, <1>7, <1>8 DEF RowsInv, IssuedHasToken,
     OneTicketPerToken

LEMMA StatusKeepsRows ==
  ASSUME RowsInv, NEW r \in Transfers,
         \/ \E decision \in {"approved", "rejected"} :
                ReviewTransfer(r, decision)
         \/ \E x \in Txs : RecordTransferSubmission(r, x)
  PROVE  RowsInv'
<1>1. /\ Active(r)
      /\ transfer' = [transfer EXCEPT ![r] = transfer'[r]]
      /\ transfer'[r] \in TransferRecord
      /\ transfer'[r].issuance = transfer[r].issuance
      /\ transfer'[r].from = transfer[r].from
      /\ transfer'[r].token = transfer[r].token
      /\ UNCHANGED <<issuance, checkIn>>
  BY StatusEffect DEF RowsInv, SameTerms
<1>2. \A s \in Transfers \ {r} : transfer'[s] = transfer[s]
  BY <1>1 DEF RowsInv, RowTypes
<1>3. transfer[r] # None /\ transfer[r].status \in ActiveTransfer
  BY <1>1 DEF Active
<1>4. RowTypes'
  BY <1>1 DEF RowsInv, RowTypes
<1>5. \A s \in Transfers : Active(s)' =>
        /\ Active(s)
        /\ transfer'[s].issuance = transfer[s].issuance
        /\ transfer'[s].from = transfer[s].from
        /\ transfer'[s].token = transfer[s].token
  BY <1>1, <1>2 DEF Active
<1>6. ActiveInv'
  BY <1>1, <1>2, <1>3, <1>5 DEF RowsInv, ActiveInv
<1>7. TransfersComeFromOwner'
  BY <1>1, <1>5 DEF RowsInv, TransfersComeFromOwner, Active
<1>8. UsedInv'
  <2>1. ASSUME NEW j \in Issuances, HasActiveTransfer(j)'
        PROVE  HasActiveTransfer(j)
    BY <1>5, <2>1 DEF HasActiveTransfer, Active
  <2> QED
    BY <1>1, <2>1 DEF RowsInv, UsedInv, UsedOf
<1> QED
  BY <1>1, <1>4, <1>6, <1>7, <1>8 DEF RowsInv, IssuedHasToken,
     OneTicketPerToken

LEMMA TransferKeepsRows ==
  ASSUME RowsInv, NEW r \in Transfers, NEW x \in Txs,
         AcceptTransferEvidence(r, x)
  PROVE  RowsInv'
<1>1. PICK i \in Issuances :
        /\ i = transfer[r].issuance
        /\ transfer[r] # None /\ transfer[r].status = "submitted"
        /\ issuance' = [issuance EXCEPT ![i] = issuance'[i]]
        /\ issuance'[i] \in Issuance
        /\ issuance'[i].status = "issued"
        /\ issuance'[i].token = issuance[i].token
        /\ issuance'[i].evidence = Append(issuance[i].evidence, x)
        /\ NoEvidence(x)
        /\ transfer' = [transfer EXCEPT ![r] = transfer'[r]]
        /\ transfer'[r] \in TransferRecord
        /\ transfer'[r].status = "confirmed"
        /\ transfer'[r].issuance = i
        /\ UNCHANGED checkIn
  BY TransferEffect DEF RowsInv, SameTerms
<1>2. /\ \A s \in Transfers \ {r} : transfer'[s] = transfer[s]
      /\ \A j \in Issuances \ {i} : issuance'[j] = issuance[j]
  BY <1>1 DEF RowsInv, RowTypes
<1>3. Active(r) /\ ~Active(r)'
  BY <1>1 DEF Active, ActiveTransfer
<1>4. \A s \in Transfers : Active(s)' =>
        /\ Active(s) /\ transfer'[s] = transfer[s] /\ s # r
        /\ transfer[s].issuance \in Issuances \ {i}
  <2>1. ASSUME NEW s \in Transfers, Active(s)'
        PROVE  Active(s) /\ transfer'[s] = transfer[s] /\ s # r
    BY <1>2, <1>3, <2>1 DEF Active
  <2>2. ASSUME NEW s \in Transfers, Active(s), s # r
        PROVE  transfer[s].issuance \in Issuances \ {i}
    <3>1. transfer[s].issuance \in Issuances
      BY <2>2, ActiveTransferOf
    <3>2. transfer[s].issuance # i
      BY <1>1, <1>3, <2>2 DEF RowsInv, ActiveInv
    <3> QED
      BY <3>1, <3>2
  <2> QED
    BY <2>1, <2>2
<1>5. issuance[i].status = "issued"
  BY <1>1, <1>3, ActiveTransferOf
<1>6. RowTypes'
  BY <1>1 DEF RowsInv, RowTypes
<1>7. IssuedHasToken'
  BY <1>1, <1>2, <1>5 DEF RowsInv, IssuedHasToken
<1>8. ActiveInv'
  <2>1. ASSUME NEW s \in Transfers, transfer'[s] # None
        PROVE  issuance'[transfer'[s].issuance].status = "issued"
    <3>1. transfer[s] # None /\ transfer'[s].issuance = transfer[s].issuance
      BY <1>1, <1>2, <2>1
    <3>2. transfer[s] \in TransferRecord
      BY <3>1 DEF RowsInv, RowTypes
    <3>3. transfer[s].issuance \in Issuances
      BY <3>2 DEF TransferRecord
    <3>4. issuance[transfer[s].issuance].status = "issued"
      BY <3>1 DEF RowsInv, ActiveInv
    <3> QED
      BY <1>1, <1>2, <3>1, <3>3, <3>4
  <2>2. \A s, t \in Transfers :
            Active(s)' /\ Active(t)'
                /\ transfer'[s].issuance = transfer'[t].issuance => s = t
    BY <1>4 DEF RowsInv, ActiveInv
  <2> QED
    BY <2>1, <2>2 DEF ActiveInv
<1>9. TransfersComeFromOwner'
  BY <1>2, <1>4 DEF RowsInv, TransfersComeFromOwner, Active
<1>10. issuance[i].evidence \in Seq(Txs)
  BY DEF RowsInv, RowTypes, Issuance
<1>11. UsedInv'
  <2>1. ~HasActiveTransfer(i)'
    BY <1>4 DEF HasActiveTransfer, Active
  <2>2. UsedOf(i)'
    <3>1. ASSUME checkIn[i] # None
          PROVE  Len(issuance[i].evidence) = checkIn[i]
      <4>1. HasActiveTransfer(i)
        BY <1>1, <1>3 DEF HasActiveTransfer, Active
      <4> QED
        BY <3>1, <4>1 DEF RowsInv, UsedInv, UsedOf
    <3>2. Len(issuance'[i].evidence) = Len(issuance[i].evidence) + 1
      BY <1>1, <1>10, AppendedEvidence
    <3> QED
      BY <1>1, <2>1, <3>1, <3>2 DEF UsedOf
  <2>3. ASSUME NEW j \in Issuances, j # i
        PROVE  UsedOf(j)'
    <3>1. ASSUME HasActiveTransfer(j)'
          PROVE  HasActiveTransfer(j)
      BY <1>4, <3>1 DEF HasActiveTransfer, Active
    <3> QED
      BY <1>1, <1>2, <2>3, <3>1 DEF RowsInv, UsedInv, UsedOf
  <2> QED
    BY <2>2, <2>3 DEF UsedInv
<1>12. OneTicketPerToken'
  <2> DEFINE Apart(j, k) ==
        /\ issuance[j].token \notin {issuance[k].token} \ {None}
        /\ Range(issuance[j].evidence) \intersect
                Range(issuance[k].evidence) = {}
  <2>1. Range(issuance'[i].evidence)
            = Range(issuance[i].evidence) \union {x}
    BY <1>1, <1>10, AppendedEvidence
  <2>2. \A j \in Issuances : x \notin Range(issuance[j].evidence)
    BY <1>1 DEF NoEvidence
  <2>6. \A j, k \in Issuances : j # k => Apart(j, k)
    BY DEF RowsInv, OneTicketPerToken
  <2>7. ASSUME NEW j \in Issuances, NEW k \in Issuances, j # k
        PROVE  Apart(j, k)'
    <3>1. Apart(j, k)
      BY <2>6, <2>7
    <3>2. CASE j = i
      BY <1>1, <1>2, <2>1, <2>2, <2>7, <3>1, <3>2
    <3>3. CASE k = i
      BY <1>1, <1>2, <2>1, <2>2, <2>7, <3>1, <3>3
    <3>4. CASE j # i /\ k # i
      BY <1>2, <3>1, <3>4
    <3> QED
      BY <3>2, <3>3, <3>4
  <2> QED
    BY <2>7 DEF OneTicketPerToken
<1> QED
  BY <1>6, <1>7, <1>8, <1>9, <1>11, <1>12 DEF RowsInv
-----------------------------------------------------------------------------
LEMMA RowsInit == Init => LedgerTypes /\ RowsInv
<1> SUFFICES ASSUME Init
             PROVE  LedgerTypes /\ RowsInv
  OBVIOUS
<1> USE OwnershipAssumption
<1> DEFINE row == [status |-> "pending", owner |-> Buyer, token |-> None,
                   evidence |-> <<>>]
<1>1. /\ row \in Issuance /\ row.status = "pending" /\ row.token = None
      /\ row.evidence = <<>>
  BY DEF Issuance
<1>2. issuance = [i \in Issuances |-> row]
  BY DEF Init
<1> HIDE DEF row
<1>3. \A i \in Issuances : issuance[i] = row
  BY <1>2
<1>4. Range(<<>>) = {}
  BY SingleEvidence
<1>5. LedgerTypes
  BY <1>4 DEF Init, LedgerTypes, Once
<1>6. RowTypes /\ IssuedHasToken /\ ActiveInv /\ UsedInv
  BY <1>1, <1>2, <1>3 DEF Init, RowTypes, IssuedHasToken, ActiveInv, Active,
     UsedInv, UsedOf
<1>7. TransfersComeFromOwner
  BY DEF Init, TransfersComeFromOwner
<1>8. OneTicketPerToken
  BY <1>1, <1>3, <1>4 DEF OneTicketPerToken
<1> QED
  BY <1>5, <1>6, <1>7, <1>8 DEF RowsInv

LEMMA RowsStep ==
  ASSUME LedgerTypes, RowsInv, ReportInv, [Next]_vars
  PROVE  LedgerTypes' /\ RowsInv'
<1>1. LedgerTypes'
  BY LedgerStep
<1>2. CASE UNCHANGED <<issuance, checkIn, transfer>>
  BY <1>1, <1>2 DEF RowsInv, RowTypes, IssuedHasToken, ActiveInv,
     Active, UsedInv, UsedOf, HasActiveTransfer, TransfersComeFromOwner,
     OneTicketPerToken
<1> QED
  BY <1>1, <1>2, OwnershipSteps, OwnershipKeepsRows, CheckInKeepsRows,
     CreateKeepsRows, StatusKeepsRows, TransferKeepsRows
-----------------------------------------------------------------------------
(* What the ledger tells of a token, before and after a step of the ledger *)
(* or of the worker. *)

(* What was applied is still there, at its place, and does the same.       *)
LedgerKept ==
    /\ Range(ledger) \subseteq Range(ledger)'
    /\ \A y \in Range(ledger) :
            sent'[y] = sent[y] /\ Place(ledger', y) = Place(ledger, y)

LEMMA AppliedEffect ==
  ASSUME LedgerTypes, NEW x \in Txs, x \notin Range(ledger),
         ledger' = Append(ledger, x),
         \A y \in Range(ledger) : sent'[y] = sent[y]
  PROVE  /\ LedgerKept
         /\ Range(ledger)' = Range(ledger) \union {x}
         /\ \A e \in Range(ledger) : Place(ledger, e) < Place(ledger', x)
         /\ \A k : HolderOf(k)' =
                IF sent'[x].token = k THEN sent'[x].to ELSE HolderOf(k)
         /\ \A k : WalletMoved(k)' <=>
                \/ WalletMoved(k)
                \/ sent'[x].token = k /\ SentFromWallet(x)'
         /\ \A r : AppliedFor(r)' =
                AppliedFor(r) \union (IF sent'[x].for = r THEN {x} ELSE {})
<1> DEFINE N == Len(ledger)
<1>1. ledger \in Seq(Txs) /\ Once(ledger)
  BY DEF LedgerTypes
<1>2. Range(ledger') = Range(ledger) \union {x}
  BY <1>1, AppendedEvidence
<1>3. \A e \in Range(ledger) :
        /\ Place(ledger', e) = Place(ledger, e)
        /\ Place(ledger, e) < Place(ledger', x)
  BY <1>1, PlacesStay
<1>5. ASSUME NEW k
      PROVE  /\ Moves(k)' = Moves(k) \union
                    (IF sent'[x].token = k THEN {N + 1} ELSE {})
             /\ HolderOf(k)' =
                    IF sent'[x].token = k THEN sent'[x].to ELSE HolderOf(k)
  <2>1. /\ Moves(k) = MovesIn(ledger, sent, k)
        /\ Moves(k)' = MovesIn(ledger', sent', k)
        /\ HolderOf(k) = HolderIn(ledger, sent, k)
        /\ HolderOf(k)' = HolderIn(ledger', sent', k)
    BY DEF Moves, MovesIn, HolderOf, HolderIn
  <2> QED
    BY <1>1, <2>1, HolderAfter
<1>6. /\ ledger'[N + 1] = x /\ N \in Nat
      /\ \A n \in DOMAIN ledger :
            n \in Nat /\ n # N + 1 /\ ledger'[n] = ledger[n]
  BY <1>1
<1>7. ASSUME NEW k
      PROVE  WalletMoved(k)' <=>
                \/ WalletMoved(k)
                \/ sent'[x].token = k /\ SentFromWallet(x)'
  <2> DEFINE M == Moves(k)
             T == IF sent'[x].token = k THEN {N + 1} ELSE {}
             Wallet(y) == sent'[y].for = None /\ sent'[y].from # None
  <2>1. \A n \in M :
            /\ ledger'[n] = ledger[n]
            /\ SentFromWallet(ledger[n]) <=> Wallet(ledger[n])
    <3>1. \A n \in M : n \in DOMAIN ledger /\ ledger[n] \in Range(ledger)
      BY DEF Moves, Range
    <3> QED
      BY <1>6, <3>1 DEF SentFromWallet
  <2>2. WalletMoved(k)' <=> \E n \in M \union T : Wallet(ledger'[n])
    BY <1>5 DEF WalletMoved, SentFromWallet
  <2>6. WalletMoved(k) <=> \E n \in M : Wallet(ledger'[n])
    BY <2>1 DEF WalletMoved
  <2>7. (\E n \in T : Wallet(ledger'[n])) <=> sent'[x].token = k /\ Wallet(x)
    BY <1>6
  <2>8. SentFromWallet(x)' <=> Wallet(x)
    BY DEF SentFromWallet
  <2> HIDE DEF M, T, Wallet
  <2> QED
    BY <2>2, <2>6, <2>7, <2>8
<1>8. ASSUME NEW r
      PROVE  AppliedFor(r)' =
                AppliedFor(r) \union (IF sent'[x].for = r THEN {x} ELSE {})
  BY <1>2 DEF AppliedFor
<1>9. LedgerKept
  BY <1>2, <1>3 DEF LedgerKept
<1> QED
  BY <1>2, <1>3, <1>5, <1>7, <1>8, <1>9

LEMMA NothingApplied ==
  ASSUME LedgerTypes, ledger' = ledger,
         \A y \in Range(ledger) : sent'[y] = sent[y]
  PROVE  /\ LedgerKept /\ Range(ledger)' = Range(ledger)
         /\ \A k : HolderOf(k)' = HolderOf(k)
         /\ \A k : WalletMoved(k)' <=> WalletMoved(k)
         /\ \A r : AppliedFor(r)' = AppliedFor(r)
<1>1. \A n \in DOMAIN ledger : sent'[ledger[n]] = sent[ledger[n]]
  BY DEF Range
<1>2. \A k : Moves(k)' = Moves(k) /\ Moves(k) \subseteq DOMAIN ledger
  BY <1>1 DEF Moves
<1>3. ASSUME NEW k
      PROVE  HolderOf(k)' = HolderOf(k)
  <2>1. CASE Moves(k) = {}
    BY <1>2, <2>1 DEF HolderOf
  <2>2. CASE Moves(k) # {}
    <3>1. DOMAIN ledger = 1..Len(ledger) /\ Len(ledger) \in Nat
      BY DEF LedgerTypes
    <3>2. Max(Moves(k)) \in DOMAIN ledger
      BY <1>2, <2>2, <3>1, LargestExists
    <3> QED
      BY <1>1, <1>2, <3>2 DEF HolderOf
  <2> QED
    BY <2>1, <2>2
<1>4. \A k : WalletMoved(k)' <=> WalletMoved(k)
  BY <1>1, <1>2 DEF WalletMoved, SentFromWallet
<1>5. \A r : AppliedFor(r)' = AppliedFor(r)
  BY DEF AppliedFor
<1>6. LedgerKept
  BY DEF LedgerKept, Place
<1> QED
  BY <1>3, <1>4, <1>5, <1>6

-----------------------------------------------------------------------------
(* Steps of the ledger and the worker keep the history of the tickets. *)

LEMMA SendKeepsSent ==
  ASSUME LedgerTypes, SentInv, NEW x \in Txs, NEW m \in Movement,
         Performs(x, m) \/ Proposes(x, m)
  PROVE  SentInv'
<1> DEFINE Meant(y) ==
        LET r == sent[y].for
        IN  /\ transfer[r] # None
            /\ transfer[r].status \in {"approved", "submitted", "confirmed"}
            /\ MatchesTransfer(r, y)
<1>1. Sends(x, m) /\ UNCHANGED <<transfer, lapsed>>
  BY DEF Performs, Proposes, Sends
<1>2. /\ sent'[x] = m /\ \A y \in Txs \ {x} : sent'[y] = sent[y]
      /\ \A y \in Txs : Sent(y)' <=> Sent(y) \/ y = x
  BY <1>1, SendEffect
<1>3. ASSUME m.for # None
      PROVE  /\ Meant(x)'
             /\ \A y \in Txs : Sent(y) /\ sent[y].for = m.for => y \in lapsed
  BY <1>1, <1>2, <1>3 DEF Performs, Proposes, MatchesTransfer
<1>4. m.for = None => m.from # None \/ m.to = Buyer
  BY OwnershipAssumption DEF Performs, Proposes
<1>5. \A y \in Txs \ {x} : Meant(y)' <=> Meant(y)
  BY <1>1, <1>2 DEF MatchesTransfer
<1>6. /\ \A y \in Txs : Sent(y) /\ sent[y].for # None => Meant(y)
      /\ \A y, z \in Txs \ lapsed :
            /\ Sent(y) /\ Sent(z)
            /\ sent[y].for # None
            /\ sent[y].for = sent[z].for
            => y = z
      /\ \A y \in Txs : Sent(y) /\ sent[y].for = None =>
            sent[y].from # None \/ sent[y].to = Buyer
  BY DEF SentInv
<1>7. \A y \in Txs : Sent(y)' /\ sent'[y].for # None => Meant(y)'
  <2> HIDE DEF Meant
  <2> QED
    BY <1>2, <1>3, <1>5, <1>6
<1>8. \A y, z \in Txs \ lapsed :
            Sent(y)' /\ Sent(z)' /\ sent'[y].for # None
                /\ sent'[y].for = sent'[z].for
            => y = z
  BY <1>2, <1>3, <1>6
<1>9. \A y \in Txs : Sent(y)' /\ sent'[y].for = None =>
            sent'[y].from # None \/ sent'[y].to = Buyer
  BY <1>2, <1>4, <1>6
<1>10. \A r \in Transfers :
            transfer[r] # None /\ transfer[r].status = "submitted" =>
                /\ transfer[r].tx \in Txs
                /\ Sent(transfer[r].tx)'
                /\ sent'[transfer[r].tx].for # None
  <2>1. ~Sent(x)
    BY <1>1 DEF Sends, Sent
  <2> QED
    BY <1>1, <1>2, <2>1 DEF SentInv
<1> QED
  BY <1>1, <1>7, <1>8, <1>9, <1>10 DEF SentInv

(* The evidence of a ticket was applied.                                   *)
LEMMA EvidenceApplied ==
  ASSUME RowTypes, NEW i \in Issuances, HistoryOf(i)
  PROVE  /\ issuance[i].evidence \in Seq(Txs)
         /\ Range(issuance[i].evidence) \subseteq Range(ledger)
         /\ \A e \in Range(issuance[i].evidence) :
                sent[e].token = issuance[i].token
<1>1. issuance[i].evidence \in Seq(Txs)
  BY DEF RowTypes, Issuance
<1> QED
  BY <1>1 DEF HistoryOf, Range

LEMMA HistoryStays ==
  ASSUME RowTypes, NEW i \in Issuances, HistoryOf(i), LedgerKept,
         issuance'[i] = issuance[i]
  PROVE  HistoryOf(i)'
<1> DEFINE E == issuance'[i].evidence
<1>0. E = issuance[i].evidence
  OBVIOUS
<1>1. E \in Seq(Txs) /\ DOMAIN E = 1..Len(E) /\ Len(E) \in Nat
  BY <1>0, EvidenceApplied
<1>2. \A n \in DOMAIN E : E[n] \in Range(ledger)
  BY <1>0 DEF HistoryOf
<1> HIDE DEF E
<1>3. \A n \in DOMAIN E :
        /\ E[n] \in Range(ledger)'
        /\ sent'[E[n]] = sent[E[n]]
        /\ Place(ledger', E[n]) = Place(ledger, E[n])
  BY <1>2 DEF LedgerKept
<1>4. \A n \in DOMAIN E : n > 1 => n - 1 \in DOMAIN E
  BY <1>1
<1>5. E # <<>> => Len(E) \in DOMAIN E
  BY <1>1
<1>6. /\ \A n \in DOMAIN E :
            /\ sent[E[n]].token = issuance[i].token
            /\ n > 1 =>
                /\ Place(ledger, E[n - 1]) < Place(ledger, E[n])
                /\ sent[E[n]].from = sent[E[n - 1]].to
      /\ E # <<>> => issuance[i].owner = sent[E[Len(E)]].to
  BY <1>0 DEF HistoryOf, Last
<1>7. /\ \A n \in DOMAIN E :
            /\ E[n] \in Range(ledger)'
            /\ sent'[E[n]].token = issuance'[i].token
            /\ n > 1 =>
                /\ Place(ledger', E[n - 1]) < Place(ledger', E[n])
                /\ sent'[E[n]].from = sent'[E[n - 1]].to
      /\ E # <<>> => issuance'[i].owner = sent'[E[Len(E)]].to
  BY <1>3, <1>4, <1>5, <1>6
<1> QED
  BY <1>7 DEF HistoryOf, Last, E

LEMMA TransferStays ==
  ASSUME RowTypes, LedgerInv, LedgerKept, NEW r \in Transfers,
         UNCHANGED <<issuance, transfer>>,
         \A y \in AppliedFor(r)' \ AppliedFor(r), e \in Range(ledger) :
            Place(ledger, e) < Place(ledger', y)
  PROVE  TransferOf(r)'
<1> SUFFICES ASSUME transfer[r] # None
             PROVE  TransferOf(r)'
  BY DEF TransferOf
<1> DEFINE i == transfer[r].issuance
           E == issuance[i].evidence
<1>1. i \in Issuances
  BY DEF RowTypes, TransferRecord
<1>2. Range(E) \subseteq Range(ledger)
  BY <1>1, EvidenceApplied DEF LedgerInv, TicketOf
<1>3. TransferOf(r)
  BY DEF LedgerInv
<1>4. AppliedFor(r) \subseteq Range(ledger)
  BY DEF AppliedFor
<1>5. \A e \in Range(E) :
        sent'[e] = sent[e] /\ Place(ledger', e) = Place(ledger, e)
  BY <1>2 DEF LedgerKept
<1>6. \A y \in AppliedFor(r) : Place(ledger', y) = Place(ledger, y)
  BY <1>4 DEF LedgerKept
<1>7. ASSUME Active(r), NEW y \in AppliedFor(r)', NEW e \in Range(E)
      PROVE  Place(ledger', e) < Place(ledger', y)
  BY <1>2, <1>3, <1>5, <1>6, <1>7 DEF TransferOf
<1>8. Active(r)' <=> Active(r)
  BY DEF Active
<1>9. transfer[r].status = "confirmed" => \E x \in Range(E) : sent'[x].for = r
  BY <1>3, <1>5 DEF TransferOf
<1>10. transfer[r].token = issuance[i].token
  BY <1>3 DEF TransferOf
<1>11. /\ transfer'[r] = transfer[r] /\ transfer'[r].issuance = i
       /\ issuance'[i].evidence = E /\ issuance'[i] = issuance[i]
  OBVIOUS
<1> HIDE DEF E, i
<1> QED
  BY <1>7, <1>8, <1>9, <1>10, <1>11 DEF TransferOf

(* What the ledger applies for a transfer is that of an active transfer,   *)
(* and the first for it.                                                   *)
LEMMA AppliedIsActive ==
  ASSUME LedgerTypes, RowsInv, LedgerInv, NEW x \in Txs,
         Sent(x), sent[x].for # None, x \notin lapsed,
         \A i \in Issuances : x \notin Range(issuance[i].evidence)
  PROVE  LET r == sent[x].for
         IN  /\ r \in Transfers /\ Active(r) /\ MatchesTransfer(r, x)
             /\ transfer[r].status # "requested"
             /\ AppliedFor(r) \subseteq {x}
<1> DEFINE r == sent[x].for
           i == transfer[r].issuance
<1>1. /\ r \in Transfers /\ transfer[r] # None
      /\ transfer[r].status \in {"approved", "submitted", "confirmed"}
      /\ MatchesTransfer(r, x)
  BY DEF LedgerInv, SentInv, LedgerTypes, Movement, Sent
<1>2. i \in Issuances
  BY <1>1 DEF RowsInv, RowTypes, TransferRecord
<1>3. \A y \in Range(ledger) : sent[y].for = r => y = x
  <2>1. /\ Range(ledger) \subseteq Txs \ lapsed
        /\ \A y \in Range(ledger) : Sent(y)
    BY DEF LedgerTypes, Range, Sent
  <2> QED
    BY <2>1 DEF LedgerInv, SentInv
<1>4. transfer[r].status # "confirmed"
  <2> SUFFICES ASSUME transfer[r].status = "confirmed"
               PROVE  FALSE
    OBVIOUS
  <2>1. PICK y \in Range(issuance[i].evidence) : sent[y].for = r
    BY <1>1 DEF LedgerInv, TransferOf
  <2>2. y \in Range(ledger)
    BY <1>2, <2>1, EvidenceApplied DEF LedgerInv, TicketOf, RowsInv
  <2> QED
    BY <1>2, <1>3, <2>1, <2>2
<1> QED
  BY <1>1, <1>3, <1>4 DEF Active, ActiveTransfer, AppliedFor

(* A token whose holder is known has one.                                  *)
LEMMA HolderIsSome ==
  ASSUME RowTypes, NEW i \in Issuances, HolderInv(i),
         issuance[i].token # None, ~WalletMoved(issuance[i].token)
  PROVE  HolderOf(issuance[i].token) # None
<1>1. issuance[i].owner \in Users
  BY DEF RowTypes, Issuance
<1>2. \A r \in Transfers : transfer[r] # None => transfer[r].to \in Users
  BY DEF RowTypes, TransferRecord
<1> QED
  BY <1>1, <1>2, OwnershipAssumption DEF HolderInv, Active

(* When the ledger applies x, the holder of a ticket's token remains known. *)
LEMMA HolderStays ==
  ASSUME LedgerTypes, RowsInv, LedgerInv, NEW i \in Issuances,
         NEW x \in Txs, x \notin Range(ledger), x \notin lapsed,
         ledger' = Append(ledger, x), UNCHANGED <<issuance, transfer>>,
         \A y \in Range(ledger) : sent'[y] = sent[y],
         \/ SentFromWallet(x)'
         \/ HolderOf(sent'[x].token) = None /\ sent'[x].for = None
         \/ sent' = sent /\ Sent(x) /\ sent[x].for # None
  PROVE  HolderInv(i)'
<1> DEFINE k == issuance[i].token
           Known ==
            /\ \A r \in Transfers :
                    Active(r) /\ transfer[r].issuance = i
                            /\ AppliedFor(r)' # {}
                        => HolderOf(k)' = transfer[r].to
            /\ \/ HolderOf(k)' = issuance[i].owner
               \/ \E r \in Transfers :
                    /\ Active(r)
                    /\ transfer[r].issuance = i
                    /\ AppliedFor(r)' # {}
<1>1. /\ HolderOf(k)' = IF sent'[x].token = k THEN sent'[x].to ELSE HolderOf(k)
      /\ WalletMoved(k)' <=>
            \/ WalletMoved(k)
            \/ sent'[x].token = k /\ SentFromWallet(x)'
      /\ \A r : AppliedFor(r)' =
            AppliedFor(r) \union (IF sent'[x].for = r THEN {x} ELSE {})
  BY AppliedEffect
<1> SUFFICES ASSUME k # None, ~WalletMoved(k)'
             PROVE  Known
  BY DEF HolderInv, Active
<1>2. /\ HolderInv(i) /\ ~WalletMoved(k)
      /\ HolderOf(k) # None
  BY <1>1, HolderIsSome DEF LedgerInv, TicketOf, RowsInv
<1>3. x \notin UNION {Range(issuance[j].evidence) : j \in Issuances}
  BY EvidenceApplied DEF LedgerInv, TicketOf, RowsInv
<1>4. \A r \in Transfers : transfer[r] # None =>
            /\ transfer[r].issuance \in Issuances
            /\ transfer[r].token = issuance[transfer[r].issuance].token
  BY DEF LedgerInv, TransferOf, RowsInv, RowTypes, TransferRecord
<1>5. CASE sent' = sent /\ Sent(x) /\ sent[x].for # None
  <2> DEFINE r == sent[x].for
  <2>1. /\ r \in Transfers /\ Active(r) /\ MatchesTransfer(r, x)
        /\ AppliedFor(r) \subseteq {x}
    BY <1>3, <1>5, AppliedIsActive
  <2>2. AppliedFor(r)' # {} /\ \A s : s # r => AppliedFor(s)' = AppliedFor(s)
    BY <1>1, <1>5
  <2>6. /\ transfer[r].issuance \in Issuances
        /\ sent[x].token = issuance[transfer[r].issuance].token
    BY <1>4, <2>1 DEF Active, MatchesTransfer
  <2>7. CASE transfer[r].issuance = i
    <3>1. HolderOf(k)' = transfer[r].to
      BY <1>1, <1>5, <2>1, <2>6, <2>7 DEF MatchesTransfer
    <3>2. \A s \in Transfers : Active(s) /\ transfer[s].issuance = i => s = r
      BY <2>1, <2>7 DEF RowsInv, ActiveInv
    <3> QED
      BY <1>5, <2>1, <2>2, <2>7, <3>1, <3>2
  <2>8. CASE transfer[r].issuance # i
    <3>1. sent[x].token # k
      BY <2>6, <2>8 DEF RowsInv, OneTicketPerToken
    <3>2. HolderOf(k)' = HolderOf(k)
      BY <1>1, <1>5, <3>1
    <3>3. \A s \in Transfers :
            transfer[s].issuance = i => AppliedFor(s)' = AppliedFor(s)
      BY <2>2, <2>8
    <3>4. \/ HolderOf(k) = issuance[i].owner
          \/ \E s \in Transfers :
                Active(s) /\ transfer[s].issuance = i /\ AppliedFor(s) # {}
      BY <1>2 DEF HolderInv
    <3>5. \A s \in Transfers :
            Active(s) /\ transfer[s].issuance = i /\ AppliedFor(s) # {}
                => HolderOf(k) = transfer[s].to
      BY <1>2 DEF HolderInv
    <3> HIDE DEF k
    <3> QED
      BY <3>2, <3>3, <3>4, <3>5
  <2> QED
    BY <2>7, <2>8
<1>6. CASE \/ SentFromWallet(x)'
           \/ HolderOf(sent'[x].token) = None /\ sent'[x].for = None
  <2>1. sent'[x].token # k /\ sent'[x].for = None
    BY <1>1, <1>2, <1>6 DEF SentFromWallet
  <2>2. HolderOf(k)' = HolderOf(k)
    BY <1>1, <2>1
  <2>6. \A r \in Transfers : AppliedFor(r)' = AppliedFor(r)
    BY <1>1, <2>1, OwnershipAssumption
  <2> QED
    BY <1>2, <2>2, <2>6 DEF HolderInv
<1> QED
  BY <1>5, <1>6

(* The ledger applies x, which was sent before or now.                     *)
LEMMA ApplyKeeps ==
  ASSUME LedgerTypes, RowsInv, LedgerInv, SentInv',
         NEW x \in Txs, x \notin Range(ledger), x \notin lapsed,
         ledger' = Append(ledger, x), UNCHANGED <<issuance, transfer>>,
         \A y \in Range(ledger) : sent'[y] = sent[y],
         \/ SentFromWallet(x)'
         \/ HolderOf(sent'[x].token) = None /\ sent'[x].for = None
         \/ sent' = sent /\ Sent(x) /\ sent[x].for # None
  PROVE  LedgerInv'
<1>1. /\ LedgerKept
      /\ \A e \in Range(ledger) : Place(ledger, e) < Place(ledger', x)
      /\ \A r : AppliedFor(r)' =
            AppliedFor(r) \union (IF sent'[x].for = r THEN {x} ELSE {})
  BY AppliedEffect
<1>2. RowTypes
  BY DEF RowsInv
<1>3. ASSUME NEW r \in Transfers
      PROVE  TransferOf(r)'
  <2>1. \A y \in AppliedFor(r)' \ AppliedFor(r), e \in Range(ledger) :
            Place(ledger, e) < Place(ledger', y)
    BY <1>1
  <2> QED
    BY <1>1, <1>2, <2>1, TransferStays
<1>4. ASSUME NEW i \in Issuances
      PROVE  TicketOf(i)'
  <2>1. HolderInv(i)'
    BY HolderStays
  <2>2. HistoryOf(i)'
    BY <1>1, <1>2, HistoryStays DEF LedgerInv, TicketOf
  <2> QED
    BY <2>1, <2>2 DEF LedgerInv, TicketOf
<1> QED
  BY <1>3, <1>4 DEF LedgerInv

(* Nothing is applied.                                                     *)
LEMMA WaitKeeps ==
  ASSUME LedgerTypes, RowsInv, LedgerInv, SentInv',
         ledger' = ledger, UNCHANGED <<issuance, transfer>>,
         \A y \in Range(ledger) : sent'[y] = sent[y]
  PROVE  LedgerInv'
<1>1. /\ LedgerKept
      /\ \A k : HolderOf(k)' = HolderOf(k)
      /\ \A k : WalletMoved(k)' <=> WalletMoved(k)
      /\ \A r : AppliedFor(r)' = AppliedFor(r)
  BY NothingApplied
<1>2. RowTypes
  BY DEF RowsInv
<1>3. ASSUME NEW r \in Transfers
      PROVE  TransferOf(r)'
  BY <1>1, <1>2, TransferStays
<1>4. ASSUME NEW i \in Issuances
      PROVE  TicketOf(i)'
  <2>1. HolderInv(i)'
    BY <1>1 DEF LedgerInv, TicketOf, HolderInv, Active
  <2>2. HistoryOf(i)'
    BY <1>1, <1>2, HistoryStays DEF LedgerInv, TicketOf
  <2> QED
    BY <2>1, <2>2 DEF LedgerInv, TicketOf
<1> QED
  BY <1>3, <1>4 DEF LedgerInv

LEMMA WorldKeeps ==
  ASSUME LedgerTypes, RowsInv, LedgerInv, NEW x \in Txs,
         \/ \E m \in Movement : Performs(x, m)
         \/ \E m \in Movement : Proposes(x, m)
         \/ LedgerApplies(x)
         \/ LedgerForgets(x)
  PROVE  LedgerInv'
<1>1. ASSUME NEW m \in Movement, Performs(x, m)
      PROVE  LedgerInv'
  <2>1. /\ Sends(x, m) /\ ledger' = Append(ledger, x)
        /\ UNCHANGED <<issuance, transfer>>
    BY <1>1 DEF Performs, Sends
  <2>2. /\ sent'[x] = m /\ x \notin Range(ledger) /\ x \notin lapsed
        /\ \A y \in Range(ledger) : sent'[y] = sent[y]
    BY <2>1, SendEffect
  <2>6. SentInv'
    BY <1>1, SendKeepsSent DEF LedgerInv
  <2>7. \/ SentFromWallet(x)'
        \/ HolderOf(sent'[x].token) = None /\ sent'[x].for = None
    BY <1>1, <2>2 DEF Performs, SentFromWallet
  <2> QED
    BY <2>1, <2>2, <2>6, <2>7, ApplyKeeps
<1>2. ASSUME NEW m \in Movement, Proposes(x, m)
      PROVE  LedgerInv'
  <2>1. /\ Sends(x, m) /\ ledger' = ledger
        /\ UNCHANGED <<issuance, transfer>>
    BY <1>2 DEF Proposes, Sends
  <2>2. \A y \in Range(ledger) : sent'[y] = sent[y]
    BY <2>1, SendEffect
  <2>6. SentInv'
    BY <1>2, SendKeepsSent DEF LedgerInv
  <2> QED
    BY <2>1, <2>2, <2>6, WaitKeeps
<1>3. ASSUME LedgerApplies(x)
      PROVE  LedgerInv'
  <2>1. /\ Sent(x) /\ x \notin Range(ledger) /\ x \notin lapsed
        /\ HolderOf(sent[x].token) = sent[x].from
        /\ ledger' = Append(ledger, x)
        /\ UNCHANGED <<issuance, transfer, sent, lapsed>>
    BY <1>3 DEF LedgerApplies, Sent
  <2>2. SentInv'
    BY <2>1 DEF LedgerInv, SentInv, Sent, MatchesTransfer
  <2>6. \/ SentFromWallet(x)'
        \/ HolderOf(sent'[x].token) = None /\ sent'[x].for = None
        \/ sent' = sent /\ Sent(x) /\ sent[x].for # None
    BY <2>1 DEF SentFromWallet
  <2>7. \A y \in Range(ledger) : sent'[y] = sent[y]
    BY <2>1
  <2> QED
    BY <2>1, <2>2, <2>6, <2>7, ApplyKeeps
<1>4. ASSUME LedgerForgets(x)
      PROVE  LedgerInv'
  <2>1. /\ UNCHANGED <<issuance, transfer, sent, ledger>>
        /\ lapsed \subseteq lapsed'
    BY <1>4 DEF LedgerForgets
  <2>2. SentInv'
    BY <2>1 DEF LedgerInv, SentInv, Sent, MatchesTransfer
  <2>6. \A y \in Range(ledger) : sent'[y] = sent[y]
    BY <2>1
  <2> QED
    BY <2>1, <2>2, <2>6, WaitKeeps
<1> QED
  BY <1>1, <1>2, <1>3, <1>4

-----------------------------------------------------------------------------
(* The handlers keep the history of the tickets. *)

(* A step that changes transfers only: what was sent for a transfer still  *)
(* does what it says, and none is confirmed.                               *)
LEMMA RequestsKeep ==
  ASSUME LedgerTypes, RowsInv, LedgerInv,
         UNCHANGED <<issuance, sent, lapsed, ledger>>,
         \A s \in Transfers : transfer'[s] # None =>
            /\ transfer'[s].token = issuance[transfer'[s].issuance].token
            /\ transfer'[s].status = "confirmed" => transfer'[s] = transfer[s]
            /\ transfer'[s].status = "submitted" =>
                    /\ transfer'[s].tx \in Txs /\ Sent(transfer'[s].tx)
                    /\ sent[transfer'[s].tx].for # None,
         \A s \in Transfers, y \in Txs : Sent(y) /\ sent[y].for = s =>
            /\ transfer'[s] # None /\ SameTerms(s)
            /\ transfer'[s].status \in {"approved", "submitted", "confirmed"}
            /\ Active(s)' <=> Active(s)
  PROVE  LedgerInv'
<1>1. /\ LedgerKept
      /\ \A k : HolderOf(k)' = HolderOf(k)
      /\ \A k : WalletMoved(k)' <=> WalletMoved(k)
      /\ \A r : AppliedFor(r)' = AppliedFor(r)
  BY NothingApplied
<1>2. \A r : AppliedFor(r) \subseteq {y \in Txs : Sent(y) /\ sent[y].for = r}
  BY DEF AppliedFor, LedgerTypes, Range, Sent
<1>3. SentInv'
  <2> DEFINE Meant(x) ==
        LET r == sent[x].for
        IN  /\ transfer[r] # None
            /\ transfer[r].status \in {"approved", "submitted", "confirmed"}
            /\ MatchesTransfer(r, x)
  <2>1. ASSUME NEW x \in Txs, Sent(x), sent[x].for # None
        PROVE  Meant(x)'
    <3>1. sent[x] \in Movement
      BY <2>1 DEF Sent, LedgerTypes
    <3>2. PICK r \in Transfers : r = sent[x].for
      BY <2>1, <3>1 DEF Movement
    <3>3. MatchesTransfer(r, x)
      BY <2>1, <3>2 DEF LedgerInv, SentInv
    <3>4. /\ transfer'[r] # None /\ SameTerms(r)
          /\ transfer'[r].status \in {"approved", "submitted", "confirmed"}
      BY <2>1, <3>2
    <3> QED
      BY <3>2, <3>3, <3>4 DEF MatchesTransfer, SameTerms
  <2>2. \A x \in Txs : Sent(x)' <=> Sent(x)
    BY DEF Sent
  <2>6. \A r \in Transfers :
            transfer'[r] # None /\ transfer'[r].status = "submitted" =>
                /\ transfer'[r].tx \in Txs
                /\ Sent(transfer'[r].tx)
                /\ sent[transfer'[r].tx].for # None
    OBVIOUS
  <2>7. /\ \A x, y \in Txs \ lapsed :
            /\ Sent(x) /\ Sent(y)
            /\ sent[x].for # None
            /\ sent[x].for = sent[y].for
            => x = y
        /\ \A x \in Txs : Sent(x) /\ sent[x].for = None =>
            sent[x].from # None \/ sent[x].to = Buyer
    BY DEF LedgerInv, SentInv
  <2> QED
    BY <2>1, <2>2, <2>6, <2>7 DEF SentInv, Sent
<1>4. ASSUME NEW r \in Transfers, transfer'[r] # None
      PROVE  TransferOf(r)'
  <2>1. ASSUME transfer'[r].status = "confirmed"
        PROVE  \E x \in Range(issuance[transfer'[r].issuance].evidence) :
                    sent[x].for = r
    BY <1>4, <2>1 DEF LedgerInv, TransferOf
  <2>2. ASSUME Active(r)', NEW x \in AppliedFor(r),
               NEW e \in Range(issuance[transfer'[r].issuance].evidence)
        PROVE  Place(ledger, e) < Place(ledger, x)
    <3>1. SameTerms(r) /\ Active(r)
      BY <1>2, <2>2
    <3>2. transfer'[r].issuance = transfer[r].issuance
      BY <3>1 DEF SameTerms
    <3> QED
      BY <2>2, <3>1, <3>2 DEF LedgerInv, TransferOf, Active
  <2>6. transfer'[r].token = issuance[transfer'[r].issuance].token
    BY <1>4
  <2> QED
    BY <1>1, <2>1, <2>2, <2>6 DEF TransferOf
<1>5. ASSUME NEW i \in Issuances
      PROVE  TicketOf(i)'
  <2>1. HistoryOf(i)'
    BY <1>1, HistoryStays DEF LedgerInv, TicketOf, RowsInv
  <2>2. \A r \in Transfers : AppliedFor(r) # {} =>
            /\ Active(r)' <=> Active(r)
            /\ transfer'[r].issuance = transfer[r].issuance
            /\ transfer'[r].to = transfer[r].to
    BY <1>2 DEF SameTerms
  <2>6. HolderInv(i)
    BY DEF LedgerInv, TicketOf
  <2>7. HolderInv(i)'
    BY <1>1, <2>2, <2>6 DEF HolderInv
  <2> QED
    BY <2>1, <2>7 DEF LedgerInv, TicketOf
<1> QED
  BY <1>3, <1>4, <1>5 DEF LedgerInv, TransferOf

LEMMA CreateKeeps ==
  ASSUME LedgerTypes, RowsInv, LedgerInv, NEW r \in Transfers,
         NEW i \in Issuances, NEW u \in Users, CreateTransfer(r, i, u)
  PROVE  LedgerInv'
<1>1. /\ transfer[r] = None
      /\ transfer' = [transfer EXCEPT ![r] = transfer'[r]]
      /\ transfer'[r].issuance = i
      /\ transfer'[r].token = issuance[i].token
      /\ UNCHANGED <<issuance, sent, lapsed, ledger>>
  BY CreateEffect DEF RowsInv
<1>2. transfer'[r].status \notin {"confirmed", "submitted"}
  BY DEF CreateTransfer, InitialStatus, RowsInv, RowTypes
<1>3. \A s \in Transfers \ {r} : transfer'[s] = transfer[s]
  BY <1>1 DEF RowsInv, RowTypes
<1>4. \A s \in Transfers : transfer'[s] # None =>
            /\ transfer'[s].token = issuance[transfer'[s].issuance].token
            /\ transfer'[s].status = "confirmed" => transfer'[s] = transfer[s]
            /\ transfer'[s].status = "submitted" =>
                    /\ transfer'[s].tx \in Txs /\ Sent(transfer'[s].tx)
                    /\ sent[transfer'[s].tx].for # None
  BY <1>1, <1>2, <1>3 DEF LedgerInv, TransferOf, SentInv
<1>5. ASSUME NEW s \in Transfers, NEW y \in Txs, Sent(y), sent[y].for = s
      PROVE  /\ transfer'[s] # None /\ SameTerms(s)
             /\ transfer'[s].status \in {"approved", "submitted", "confirmed"}
             /\ Active(s)' <=> Active(s)
  <2>1. /\ transfer[s] # None
        /\ transfer[s].status \in {"approved", "submitted", "confirmed"}
    BY <1>5, OwnershipAssumption DEF LedgerInv, SentInv
  <2>2. transfer'[s] = transfer[s]
    BY <1>1, <1>3, <2>1
  <2> QED
    BY <2>1, <2>2 DEF SameTerms, Active
<1> QED
  BY <1>1, <1>4, <1>5, RequestsKeep

LEMMA StatusKeeps ==
  ASSUME LedgerTypes, RowsInv, LedgerInv, NEW r \in Transfers,
         \/ \E decision \in {"approved", "rejected"} :
                ReviewTransfer(r, decision)
         \/ \E x \in Txs : RecordTransferSubmission(r, x)
  PROVE  LedgerInv'
<1>1. /\ Active(r)
      /\ transfer' = [transfer EXCEPT ![r] = transfer'[r]]
      /\ transfer'[r] \in TransferRecord
      /\ SameTerms(r)
      /\ \/ /\ transfer[r].status = "requested"
            /\ transfer'[r].status \in {"approved", "rejected"}
         \/ /\ transfer'[r].status = "submitted"
            /\ transfer'[r].tx \in Txs /\ Sent(transfer'[r].tx)
            /\ sent[transfer'[r].tx].for # None
      /\ transfer'[r].status # "confirmed"
      /\ UNCHANGED <<issuance, sent, lapsed, ledger>>
  BY StatusEffect DEF RowsInv
<1>2. \A s \in Transfers \ {r} : transfer'[s] = transfer[s]
  BY <1>1 DEF RowsInv, RowTypes
<1>3. transfer[r] # None /\ transfer'[r] # None
  BY <1>1, OwnershipAssumption DEF Active
<1>4. \A s \in Transfers : transfer'[s] # None =>
            /\ transfer'[s].token = issuance[transfer'[s].issuance].token
            /\ transfer'[s].status = "confirmed" => transfer'[s] = transfer[s]
            /\ transfer'[s].status = "submitted" =>
                    /\ transfer'[s].tx \in Txs /\ Sent(transfer'[s].tx)
                    /\ sent[transfer'[s].tx].for # None
  BY <1>1, <1>2, <1>3 DEF LedgerInv, TransferOf, SentInv, SameTerms
<1>5. ASSUME NEW s \in Transfers, NEW y \in Txs, Sent(y), sent[y].for = s
      PROVE  /\ transfer'[s] # None /\ SameTerms(s)
             /\ transfer'[s].status \in {"approved", "submitted", "confirmed"}
             /\ Active(s)' <=> Active(s)
  <2>1. /\ transfer[s] # None
        /\ transfer[s].status \in {"approved", "submitted", "confirmed"}
    BY <1>5, OwnershipAssumption DEF LedgerInv, SentInv
  <2>2. CASE s # r
    BY <1>2, <2>1, <2>2 DEF SameTerms, Active
  <2>6. CASE s = r
    BY <1>1, <1>3, <2>1, <2>6 DEF Active, ActiveTransfer
  <2> QED
    BY <2>2, <2>6
<1> QED
  BY <1>1, <1>4, <1>5, RequestsKeep

(* A token that no ticket has was only minted, unless from a wallet.       *)
LEMMA UnusedIsBuyers ==
  ASSUME LedgerTypes, RowsInv, LedgerInv, NEW k, NoToken(k),
         NEW x \in Range(ledger), sent[x].token = k, ~WalletMoved(k)
  PROVE  HolderOf(k) = Buyer
<1>1. DOMAIN ledger = 1..Len(ledger) /\ Len(ledger) \in Nat
  BY DEF LedgerTypes
<1>2. Moves(k) # {} /\ Moves(k) \subseteq DOMAIN ledger
  BY DEF Moves, Range
<1> DEFINE n == Max(Moves(k))
           y == ledger[n]
<1>3. n \in Moves(k)
  BY <1>1, <1>2, LargestExists
<1> HIDE DEF n
<1>4. y \in Txs /\ Sent(y) /\ sent[y] \in Movement /\ sent[y].token = k
  BY <1>2, <1>3 DEF Moves, LedgerTypes, Range, Sent
<1>5. sent[y].for = None
  <2> SUFFICES ASSUME sent[y].for # None
               PROVE  FALSE
    OBVIOUS
  <2> DEFINE r == sent[y].for
  <2>1. /\ r \in Transfers /\ transfer[r] # None /\ transfer[r].token = k
    BY <1>4 DEF LedgerInv, SentInv, MatchesTransfer, Movement
  <2>2. /\ transfer[r].issuance \in Issuances
        /\ issuance[transfer[r].issuance].token = k
    BY <2>1 DEF LedgerInv, TransferOf, RowsInv, RowTypes, TransferRecord
  <2> QED
    BY <2>2 DEF NoToken
<1>6. ~SentFromWallet(y)
  BY <1>3 DEF WalletMoved
<1>7. sent[y].to = Buyer
  BY <1>4, <1>5, <1>6 DEF LedgerInv, SentInv, SentFromWallet
<1> QED
  BY <1>2, <1>7 DEF HolderOf, n

LEMMA OwnershipKeeps ==
  ASSUME LedgerTypes, RowsInv, LedgerInv, NEW i \in Issuances, NEW x \in Txs,
         Issues(i, x)
  PROVE  LedgerInv'
<1>1. /\ issuance[i].status = "pending"
      /\ issuance' = [issuance EXCEPT ![i] = issuance'[i]]
      /\ issuance'[i].status = "issued"
      /\ issuance'[i].owner = issuance[i].owner
      /\ NoToken(issuance'[i].token)
      /\ issuance'[i].token = sent[x].token
      /\ sent[x].to = issuance[i].owner /\ x \in Range(ledger)
      /\ issuance'[i].evidence = <<x>>
      /\ UNCHANGED <<transfer, sent, lapsed, ledger>>
  BY OwnershipEffect DEF RowsInv
<1>2. \A j \in Issuances \ {i} : issuance'[j] = issuance[j]
  BY <1>1 DEF RowsInv, RowTypes
<1>3. /\ LedgerKept
      /\ \A k : HolderOf(k)' = HolderOf(k)
      /\ \A k : WalletMoved(k)' <=> WalletMoved(k)
      /\ \A r : AppliedFor(r)' = AppliedFor(r)
  BY <1>1, NothingApplied
<1>4. \A r \in Transfers : transfer[r] # None =>
            transfer[r].issuance \in Issuances \ {i}
  <2>1. \A r \in Transfers : transfer[r] # None =>
            transfer[r].issuance \in Issuances
    BY DEF RowsInv, RowTypes, TransferRecord
  <2> QED
    BY <1>1, <2>1 DEF RowsInv, ActiveInv
<1>5. SentInv'
  BY <1>1 DEF LedgerInv, SentInv, Sent, MatchesTransfer
<1>6. ASSUME NEW r \in Transfers, transfer[r] # None
      PROVE  TransferOf(r)'
  <2>1. /\ TransferOf(r)
        /\ issuance'[transfer[r].issuance] = issuance[transfer[r].issuance]
    BY <1>2, <1>4, <1>6 DEF LedgerInv
  <2> QED
    BY <1>1, <1>3, <2>1 DEF TransferOf, Active
<1>7. ASSUME NEW j \in Issuances \ {i}
      PROVE  TicketOf(j)'
  <2>1. HistoryOf(j)'
    BY <1>2, <1>3, HistoryStays DEF LedgerInv, TicketOf, RowsInv
  <2>2. HolderInv(j)'
    BY <1>1, <1>2, <1>3 DEF LedgerInv, TicketOf, HolderInv, Active
  <2> QED
    BY <1>2, <2>1, <2>2 DEF LedgerInv, TicketOf
<1>8. HistoryOf(i)'
  <2> DEFINE E == <<x>>
  <2>1. /\ DOMAIN E = {1} /\ E[1] = x /\ Len(E) = 1
        /\ ~(1 > 1)
    OBVIOUS
  <2> HIDE DEF E
  <2>2. /\ issuance'[i].evidence = E
        /\ \A n \in DOMAIN E :
            /\ E[n] \in Range(ledger')
            /\ sent'[E[n]].token = issuance'[i].token
            /\ ~(n > 1)
        /\ issuance'[i].owner = sent'[E[Len(E)]].to
    BY <1>1, <2>1 DEF E
  <2> QED
    BY <2>2 DEF HistoryOf, Last
<1>9. HolderInv(i)'
  <2>1. issuance[i].owner = Buyer
    BY <1>1 DEF LedgerInv, TicketOf
  <2>2. ASSUME ~WalletMoved(issuance'[i].token)
        PROVE  HolderOf(issuance'[i].token) = Buyer
    BY <1>1, <2>2, UnusedIsBuyers
  <2>6. \A r \in Transfers : ~(Active(r)' /\ transfer'[r].issuance = i)
    BY <1>1, <1>4 DEF Active
  <2> QED
    BY <1>1, <1>3, <2>1, <2>2, <2>6 DEF HolderInv
<1>10. TicketOf(i)'
  BY <1>1, <1>8, <1>9 DEF TicketOf
<1> QED
  BY <1>1, <1>5, <1>6, <1>7, <1>10 DEF LedgerInv, TransferOf

(* The evidence that confirms a transfer is of a transaction of its own.   *)
LEMMA ConfirmedByOwn ==
  ASSUME LedgerTypes, RowsInv, LedgerInv, NEW r \in Transfers, NEW x \in Txs,
         AcceptTransferEvidence(r, x)
  PROVE  sent[x].for = r
<1>1. /\ transfer[r] # None /\ transfer[r].status = "submitted"
      /\ transfer[r].tx = x /\ x \in Range(ledger)
      /\ NoEvidence(x) /\ MatchesTransfer(r, x)
  BY TransferEffect DEF RowsInv
<1>2. Sent(x) /\ sent[x].for # None
  BY <1>1 DEF LedgerInv, SentInv
<1>3. x \notin lapsed
  BY <1>1 DEF LedgerTypes
<1>4. PICK s \in Transfers :
        s = sent[x].for /\ Active(s) /\ MatchesTransfer(s, x)
  BY <1>1, <1>2, <1>3, AppliedIsActive DEF NoEvidence
<1>5. Active(r)
  BY <1>1 DEF Active, ActiveTransfer
<1>6. transfer[r].token = transfer[s].token
  BY <1>1, <1>4 DEF MatchesTransfer
<1> DEFINE i == transfer[r].issuance
           j == transfer[s].issuance
<1>7. /\ i \in Issuances /\ j \in Issuances
      /\ transfer[r].token = issuance[i].token
      /\ transfer[s].token = issuance[j].token
      /\ issuance[i].status = "issued"
  BY <1>4, <1>5, ActiveTransferOf
<1>8. issuance[i].token # None
  BY <1>7 DEF RowsInv, IssuedHasToken
<1>9. i = j
  BY <1>6, <1>7, <1>8 DEF RowsInv, OneTicketPerToken
<1> QED
  BY <1>4, <1>5, <1>9 DEF RowsInv, ActiveInv

LEMMA TransferKeeps ==
  ASSUME LedgerTypes, RowsInv, LedgerInv, NEW r \in Transfers, NEW x \in Txs,
         AcceptTransferEvidence(r, x)
  PROVE  LedgerInv'
<1>1. PICK i \in Issuances :
        /\ i = transfer[r].issuance
        /\ transfer[r] # None /\ transfer[r].status = "submitted"
        /\ issuance' = [issuance EXCEPT ![i] = issuance'[i]]
        /\ issuance'[i].status = "issued"
        /\ issuance'[i].token = issuance[i].token
        /\ issuance'[i].owner = transfer[r].to
        /\ issuance'[i].evidence = Append(issuance[i].evidence, x)
        /\ MatchesTransfer(r, x) /\ x \in Range(ledger)
        /\ transfer' = [transfer EXCEPT ![r] = transfer'[r]]
        /\ transfer'[r] \in TransferRecord
        /\ transfer'[r].status = "confirmed"
        /\ SameTerms(r)
        /\ UNCHANGED <<sent, lapsed, ledger>>
  BY TransferEffect DEF RowsInv
<1>2. /\ \A s \in Transfers \ {r} : transfer'[s] = transfer[s]
      /\ \A j \in Issuances \ {i} : issuance'[j] = issuance[j]
  BY <1>1 DEF RowsInv, RowTypes
<1>3. Active(r) /\ ~Active(r)' /\ transfer'[r] # None
  BY <1>1, OwnershipAssumption DEF Active, ActiveTransfer
<1>4. /\ LedgerKept
      /\ \A k : HolderOf(k)' = HolderOf(k)
      /\ \A k : WalletMoved(k)' <=> WalletMoved(k)
      /\ \A s : AppliedFor(s)' = AppliedFor(s)
  BY <1>1, NothingApplied
<1>5. sent[x].for = r /\ x \in AppliedFor(r)
  BY <1>1, ConfirmedByOwn DEF AppliedFor
<1> DEFINE E == issuance[i].evidence
           F == Append(E, x)
<1>6. E \in Seq(Txs) /\ Range(E) \subseteq Range(ledger)
  BY EvidenceApplied DEF LedgerInv, TicketOf, RowsInv
<1>7. /\ Range(F) = Range(E) \union {x}
      /\ Len(F) = Len(E) + 1 /\ Len(E) \in Nat
      /\ DOMAIN E = 1..Len(E) /\ DOMAIN F = 1..(Len(E) + 1)
      /\ \A n \in 1..Len(E) : F[n] = E[n]
      /\ F[Len(E) + 1] = x
  BY <1>6, AppendedEvidence
<1>8. \A s \in Transfers : Active(s)' =>
        /\ s # r /\ Active(s) /\ transfer'[s] = transfer[s]
        /\ transfer[s].issuance \in Issuances \ {i}
  <2>1. ASSUME NEW s \in Transfers, Active(s)'
        PROVE  s # r /\ Active(s) /\ transfer'[s] = transfer[s]
    BY <1>2, <1>3, <2>1 DEF Active
  <2>2. ASSUME NEW s \in Transfers, Active(s), s # r
        PROVE  transfer[s].issuance \in Issuances \ {i}
    <3>1. transfer[s].issuance \in Issuances
      BY <2>2, ActiveTransferOf
    <3>2. transfer[s].issuance # i
      BY <1>1, <1>3, <2>2 DEF RowsInv, ActiveInv
    <3> QED
      BY <3>1, <3>2
  <2> QED
    BY <2>1, <2>2
<1>9. SentInv'
  <2> DEFINE Meant(y) ==
        LET s == sent[y].for
        IN  /\ transfer[s] # None
            /\ transfer[s].status \in {"approved", "submitted", "confirmed"}
            /\ MatchesTransfer(s, y)
  <2>1. ASSUME NEW y \in Txs, Sent(y), sent[y].for # None
        PROVE  Meant(y)'
    <3>1. Meant(y)
      BY <2>1 DEF LedgerInv, SentInv
    <3>2. sent[y].for \in Transfers
      BY <2>1 DEF Sent, LedgerTypes, Movement
    <3>3. CASE sent[y].for = r
      BY <1>1, <1>3, <3>1, <3>3 DEF MatchesTransfer, SameTerms
    <3>4. CASE sent[y].for # r
      BY <1>1, <1>2, <3>1, <3>2, <3>4 DEF MatchesTransfer
    <3> QED
      BY <3>3, <3>4
  <2>2. \A s \in Transfers :
            transfer'[s] # None /\ transfer'[s].status = "submitted" =>
                /\ transfer'[s].tx \in Txs
                /\ Sent(transfer'[s].tx)
                /\ sent[transfer'[s].tx].for # None
    BY <1>1, <1>2 DEF LedgerInv, SentInv
  <2>6. /\ \A y, z \in Txs \ lapsed :
            /\ Sent(y) /\ Sent(z)
            /\ sent[y].for # None
            /\ sent[y].for = sent[z].for
            => y = z
        /\ \A y \in Txs : Sent(y) /\ sent[y].for = None =>
            sent[y].from # None \/ sent[y].to = Buyer
    BY DEF LedgerInv, SentInv
  <2>7. sent' = sent /\ lapsed' = lapsed /\ \A y : Sent(y)' <=> Sent(y)
    BY <1>1 DEF Sent
  <2>8. \A y \in Txs : Sent(y)' /\ sent'[y].for # None => Meant(y)'
    BY <2>1, <2>7
  <2> QED
    BY <2>2, <2>6, <2>7, <2>8 DEF SentInv
<1>10. ASSUME NEW s \in Transfers, transfer'[s] # None
       PROVE  TransferOf(s)'
  <2> DEFINE j == transfer[s].issuance
  <2>1. transfer[s] # None /\ transfer'[s].issuance = j
        /\ transfer'[s].token = transfer[s].token
    BY <1>1, <1>2, <1>10 DEF SameTerms
  <2>2. j \in Issuances /\ TransferOf(s)
    BY <2>1 DEF LedgerInv, RowsInv, RowTypes, TransferRecord
  <2>6. /\ issuance'[j].token = issuance[j].token
        /\ Range(issuance[j].evidence) \subseteq Range(issuance'[j].evidence)
    BY <1>1, <1>2, <1>7, <2>2
  <2>7. transfer'[s].token = issuance'[j].token
    BY <2>1, <2>2, <2>6 DEF TransferOf
  <2>8. ASSUME transfer'[s].status = "confirmed"
        PROVE  \E y \in Range(issuance'[j].evidence) : sent'[y].for = s
    <3>1. CASE s = r
      BY <1>1, <1>5, <1>7, <3>1
    <3>2. CASE s # r
      BY <1>1, <1>2, <2>1, <2>2, <2>6, <2>8, <3>2 DEF TransferOf
    <3> QED
      BY <3>1, <3>2
  <2>9. ASSUME Active(s)', NEW y \in AppliedFor(s),
               NEW e \in Range(issuance'[j].evidence)
        PROVE  Place(ledger, e) < Place(ledger, y)
    <3>1. Active(s) /\ issuance'[j] = issuance[j]
      BY <1>2, <1>8, <2>2, <2>9
    <3> QED
      BY <2>2, <2>9, <3>1 DEF TransferOf, Active
  <2> HIDE DEF j
  <2> QED
    BY <1>1, <1>4, <2>1, <2>7, <2>8, <2>9 DEF TransferOf
<1>11. ASSUME NEW j \in Issuances \ {i}
       PROVE  TicketOf(j)'
  <2>1. HistoryOf(j)'
    BY <1>2, <1>4, HistoryStays DEF LedgerInv, TicketOf, RowsInv
  <2>2. \A s \in Transfers :
            (Active(s) /\ transfer[s].issuance = j) <=>
                (Active(s)' /\ transfer'[s].issuance = j)
    BY <1>1, <1>2, <1>3 DEF Active, SameTerms
  <2>6. \A s \in Transfers : transfer'[s].to = transfer[s].to
    BY <1>1, <1>2 DEF SameTerms
  <2>7. HolderInv(j)
    BY DEF LedgerInv, TicketOf
  <2>8. HolderInv(j)'
    BY <1>2, <1>4, <2>2, <2>6, <2>7 DEF HolderInv
  <2> QED
    BY <1>2, <2>1, <2>8 DEF LedgerInv, TicketOf
<1>12. HistoryOf(i)'
  <2> DEFINE N == Len(E)
  <2>1. /\ sent[x].token = issuance[i].token
        /\ sent[x].from = issuance[i].owner
        /\ sent[x].to = issuance'[i].owner
    BY <1>1, <1>3, ActiveTransferOf DEF MatchesTransfer
  <2>2. \A e \in Range(E) : Place(ledger, e) < Place(ledger, x)
    BY <1>1, <1>3, <1>5 DEF LedgerInv, TransferOf
  <2>3. HistoryOf(i) /\ DOMAIN E = 1..N /\ N \in Nat
        /\ Range(E) \subseteq Range(ledger)
    BY <1>6, <1>7 DEF LedgerInv, TicketOf
  <2>4. \A n \in 1..N : E[n] \in Range(E)
    BY <2>3 DEF Range
  <2>5. /\ \A n \in 1..N :
            /\ sent[E[n]].token = issuance[i].token
            /\ n > 1 =>
                /\ Place(ledger, E[n - 1]) < Place(ledger, E[n])
                /\ sent[E[n]].from = sent[E[n - 1]].to
        /\ E # <<>> => issuance[i].owner = sent[E[N]].to
    BY <2>3 DEF HistoryOf, Last
  <2>6. /\ \A n \in 1..N :
            /\ E[n] \in Range(E) /\ E[n] \in Range(ledger)
            /\ sent[E[n]].token = issuance[i].token
            /\ n > 1 =>
                /\ Place(ledger, E[n - 1]) < Place(ledger, E[n])
                /\ sent[E[n]].from = sent[E[n - 1]].to
        /\ N > 0 => issuance[i].owner = sent[E[N]].to
    BY <2>3, <2>4, <2>5
  <2>7. /\ N \in Nat /\ DOMAIN F = 1..(N + 1) /\ Len(F) = N + 1
        /\ \A n \in 1..N : F[n] = E[n]
        /\ F[N + 1] = x
    BY <1>7
  <2>8. issuance'[i].evidence = F
    BY <1>1
  <2> HIDE DEF E, F, N
  <2>9. ASSUME NEW n \in 1..(N + 1)
        PROVE  /\ F[n] \in Range(ledger)
               /\ sent[F[n]].token = issuance[i].token
               /\ n > 1 =>
                    /\ Place(ledger, F[n - 1]) < Place(ledger, F[n])
                    /\ sent[F[n]].from = sent[F[n - 1]].to
    <3>1. CASE n \in 1..N
      <4>1. n > 1 => n - 1 \in 1..N
        BY <2>7, <3>1
      <4> QED
        BY <2>6, <2>7, <3>1, <4>1
    <3>2. CASE n = N + 1
      <4>1. F[n] = x /\ x \in Range(ledger)
        BY <1>1, <2>7, <3>2
      <4>2. ASSUME n > 1
            PROVE  /\ F[n - 1] = E[N] /\ E[N] \in Range(E)
                   /\ issuance[i].owner = sent[E[N]].to
        <5>1. N \in 1..N /\ n - 1 = N /\ N > 0
          BY <2>7, <3>2, <4>2
        <5> QED
          BY <2>6, <2>7, <5>1
      <4> QED
        BY <2>1, <2>2, <4>1, <4>2
    <3> QED
      BY <2>7, <3>1, <3>2
  <2>10. issuance'[i].owner = sent[F[Len(F)]].to
    BY <2>1, <2>7
  <2>11. /\ sent' = sent /\ ledger' = ledger
        /\ issuance'[i].token = issuance[i].token
    BY <1>1
  <2> QED
    BY <2>7, <2>8, <2>9, <2>10, <2>11 DEF HistoryOf, Last
<1>13. HolderInv(i)'
  <2> DEFINE k == issuance[i].token
  <2>1. ASSUME k # None, ~WalletMoved(k)
        PROVE  HolderOf(k) = transfer[r].to
    BY <1>1, <1>3, <1>5, <2>1 DEF LedgerInv, TicketOf, HolderInv
  <2>2. \A s \in Transfers : ~(Active(s)' /\ transfer'[s].issuance = i)
    BY <1>8
  <2> QED
    BY <1>1, <1>4, <2>1, <2>2 DEF HolderInv
<1>14. TicketOf(i)'
  BY <1>1, <1>12, <1>13 DEF TicketOf
<1> QED
  BY <1>9, <1>10, <1>11, <1>14 DEF LedgerInv, TransferOf

LEMMA LedgerInit == Init => LedgerInv
<1> SUFFICES ASSUME Init
             PROVE  LedgerInv
  OBVIOUS
<1>1. \A i \in Issuances :
        /\ issuance[i].status = "pending" /\ issuance[i].owner = Buyer
        /\ issuance[i].token = None /\ issuance[i].evidence = <<>>
  BY DEF Init
<1>2. SentInv
  BY DEF Init, SentInv, Sent
<1>3. \A r \in Transfers : TransferOf(r)
  BY DEF Init, TransferOf
<1>4. ASSUME NEW i \in Issuances
      PROVE  TicketOf(i)
  <2>1. HistoryOf(i)
    BY <1>1 DEF HistoryOf
  <2>2. HolderInv(i)
    BY <1>1 DEF HolderInv
  <2> QED
    BY <1>1, <2>1, <2>2 DEF TicketOf
<1> QED
  BY <1>2, <1>3, <1>4 DEF LedgerInv

LEMMA LedgerInvStep ==
  ASSUME LedgerTypes, RowsInv, LedgerInv, ReportInv, [Next]_vars
  PROVE  LedgerInv'
<1>1. CASE UNCHANGED <<issuance, transfer, sent, lapsed, ledger>>
  <2>1. SentInv'
    BY <1>1 DEF LedgerInv, SentInv, Sent, MatchesTransfer
  <2>2. \A y \in Range(ledger) : sent'[y] = sent[y]
    BY <1>1
  <2> QED
    BY <1>1, <2>1, <2>2, WaitKeeps
<1>2. CASE UNCHANGED <<sent, lapsed, ledger>>
  <2>1. \A i \in Issuances : CheckIn(i) => UNCHANGED <<issuance, transfer>>
    BY DEF CheckIn
  <2> QED
    BY <1>1, <1>2, <2>1, OwnershipSteps, OwnershipKeeps, CreateKeeps,
       StatusKeeps, TransferKeeps
<1>3. CASE \E x \in Txs : \/ \E m \in Movement : Performs(x, m)
                          \/ \E m \in Movement : Proposes(x, m)
                          \/ LedgerApplies(x)
                          \/ LedgerForgets(x)
  BY <1>3, WorldKeeps
<1>4. RowTypes
  BY DEF RowsInv
<1> QED
  BY <1>2, <1>3, <1>4, WorldSteps

(* Issued tickets stay issued, whatever becomes of them: a transfer keeps  *)
(* the status and the token of its ticket.                                 *)
LEMMA TicketsStayIssued ==
  ASSUME RowsInv, LedgerTypes, NEW r \in Transfers, NEW x \in Txs,
         AcceptTransferEvidence(r, x)
  PROVE  /\ \A j \in Issuances :
                /\ issuance'[j].status = issuance[j].status
                /\ issuance'[j].token = issuance[j].token
                /\ Range(issuance'[j].evidence)
                        \subseteq Range(issuance[j].evidence) \union {x}
                /\ issuance[j].status = "pending" => issuance'[j] = issuance[j]
<1> DEFINE i == transfer[r].issuance
<1>1. /\ i \in Issuances
      /\ transfer[r] # None
      /\ issuance' = [issuance EXCEPT ![i] = issuance'[i]]
      /\ issuance'[i].status = "issued"
      /\ issuance'[i].token = issuance[i].token
      /\ issuance'[i].evidence = Append(issuance[i].evidence, x)
  BY TransferEffect DEF RowsInv
<1>2. issuance[i].status = "issued"
  BY <1>1 DEF RowsInv, ActiveInv
<1>3. Range(issuance'[i].evidence) = Range(issuance[i].evidence) \union {x}
  <2>1. issuance[i].evidence \in Seq(Txs)
    BY <1>1 DEF RowsInv, RowTypes, Issuance
  <2> QED
    BY <1>1, <2>1, AppendedEvidence
<1>4. \A j \in Issuances \ {i} : issuance'[j] = issuance[j]
  BY <1>1 DEF RowsInv, RowTypes
<1> HIDE DEF i
<1> QED
  BY <1>1, <1>2, <1>3, <1>4

(* What a report has found still holds when nothing but the ledger and the *)
(* reports themselves have moved on, ...                                   *)
LEMMA ReportsStay ==
  ASSUME LedgerTypes, ReportInv, UNCHANGED <<issuance, report>>,
         \A y \in Range(ledger) : y \in Range(ledger') /\ sent'[y] = sent[y]
  PROVE  ReportInv'
<1>1. ASSUME NEW i \in Issuances, report[i] # None
      PROVE  /\ report[i].tx \in Range(ledger)
             /\ report[i].tx \in Range(ledger')
             /\ sent'[report[i].tx] = sent[report[i].tx]
  BY <1>1 DEF ReportInv, ReportOf
<1>2. ASSUME NEW i \in Issuances
      PROVE  ReportOf(i)'
  BY <1>1 DEF ReportInv, ReportOf, NoEvidence, NoToken, NoneRemains
<1> QED
  BY <1>1, <1>2 DEF ReportInv

(* ... when one has been added, ...                                        *)
LEMMA ReportsAdd ==
  ASSUME LedgerTypes, ReportInv, NEW i \in Issuances, NEW x \in Txs,
         CountRemaining(i, x)
  PROVE  ReportInv'
<1> DEFINE new == [tx |-> x, last |-> NoneRemains(i)]
<1>1. /\ x \in Range(ledger) /\ issuance[i].status = "pending"
      /\ sent[x].to = issuance[i].owner
      /\ UnusedEvidence(x) /\ UnusedToken(sent[x].token)
      /\ report' = [report EXCEPT ![i] = new]
      /\ UNCHANGED <<issuance, sent, ledger>>
  BY DEF CountRemaining
<1>2. new \in Report /\ new.tx = x /\ new.last = NoneRemains(i)
  <2>1. NoneRemains(i) \in BOOLEAN
    BY DEF NoneRemains
  <2> QED
    BY <2>1 DEF Report
<1> HIDE DEF new
<1>3. /\ report'[i] = new
      /\ \A j \in Issuances \ {i} : report'[j] = report[j]
      /\ report' \in [Issuances -> Report \union {None}]
  BY <1>1, <1>2 DEF ReportInv
<1>4. NoEvidence(x) /\ NoToken(sent[x].token)
  BY <1>1 DEF UnusedEvidence, UnusedToken, NoEvidence, NoToken
<1>5. ReportOf(i)'
  BY <1>1, <1>2, <1>3, <1>4 DEF ReportOf, NoEvidence, NoToken, NoneRemains
<1>6. ASSUME NEW j \in Issuances \ {i}
      PROVE  ReportOf(j)'
  BY <1>1, <1>3 DEF ReportInv, ReportOf, NoEvidence, NoToken, NoneRemains
<1>7. ASSUME NEW j \in Issuances \ {i}, report[j] # None
      PROVE  report[j].tx # x /\ sent[report[j].tx].token # sent[x].token
  BY <1>1, <1>7 DEF UnusedEvidence, UnusedToken
<1>8. ASSUME NEW j \in Issuances, NEW k \in Issuances, j # k,
             report'[j] # None, report'[k] # None
      PROVE  /\ report'[j].tx # report'[k].tx
             /\ sent'[report'[j].tx].token # sent'[report'[k].tx].token
  BY <1>1, <1>2, <1>3, <1>7, <1>8 DEF ReportInv
<1> QED
  BY <1>3, <1>5, <1>6, <1>8 DEF ReportInv

(* ... when one has gone, ...                                              *)
LEMMA ReportsEnd ==
  ASSUME LedgerTypes, ReportInv, NEW i \in Issuances, RollBackReport(i)
  PROVE  ReportInv'
<1>1. /\ report' = [report EXCEPT ![i] = None]
      /\ UNCHANGED <<issuance, sent, ledger>>
  BY DEF RollBackReport
<1>2. /\ report'[i] = None
      /\ \A j \in Issuances \ {i} : report'[j] = report[j]
      /\ report' \in [Issuances -> Report \union {None}]
  BY <1>1 DEF ReportInv
<1>3. ASSUME NEW j \in Issuances
      PROVE  ReportOf(j)'
  BY <1>1, <1>2 DEF ReportInv, ReportOf, NoEvidence, NoToken, NoneRemains
<1> QED
  BY <1>1, <1>2, <1>3 DEF ReportInv

(* ... when one has committed, whose mint and token are not theirs, ...    *)
LEMMA ReportsCommit ==
  ASSUME LedgerTypes, RowsInv, ReportInv, NEW i \in Issuances, NEW x \in Txs,
         Issues(i, x)
  PROVE  ReportInv'
<1>1. /\ issuance' = [issuance EXCEPT ![i] = issuance'[i]]
      /\ issuance'[i].status = "issued"
      /\ issuance'[i].token = sent[x].token
      /\ Range(issuance'[i].evidence) = {x}
      /\ UNCHANGED <<sent, ledger>>
  BY OwnershipEffect, SingleEvidence DEF RowsInv
<1>2. \A j \in Issuances \ {i} : issuance'[j] = issuance[j]
  BY <1>1 DEF RowsInv, RowTypes
<1>3. /\ report[i] # None /\ report[i].tx = x
      /\ report' = [report EXCEPT ![i] = None]
  BY DEF Issues, AcceptOwnershipEvidence
<1>4. /\ report'[i] = None
      /\ \A j \in Issuances \ {i} : report'[j] = report[j]
      /\ report' \in [Issuances -> Report \union {None}]
  BY <1>3 DEF ReportInv
<1>5. ASSUME NEW j \in Issuances \ {i}, report[j] # None
      PROVE  ReportOf(j)'
  <2>1. /\ report[j].tx # x /\ sent[report[j].tx].token # sent[x].token
        /\ ReportOf(j)
    BY <1>3, <1>5 DEF ReportInv
  <2>2. NoEvidence(report[j].tx)' /\ NoToken(sent[report[j].tx].token)'
    BY <1>1, <1>2, <1>4, <1>5, <2>1 DEF ReportOf, NoEvidence, NoToken
  <2>3. NoneRemains(j) => NoneRemains(j)'
    BY <1>1, <1>2 DEF NoneRemains
  <2> QED
    BY <1>1, <1>2, <1>4, <1>5, <2>1, <2>2, <2>3 DEF ReportOf
<1>6. \A j \in Issuances : ReportOf(j)'
  BY <1>4, <1>5 DEF ReportOf
<1> QED
  BY <1>1, <1>4, <1>6 DEF ReportInv

(* ... and when a transfer is confirmed, by evidence that is not theirs.   *)
LEMMA ReportsOutlast ==
  ASSUME LedgerTypes, RowsInv, ReportInv, NEW r \in Transfers, NEW x \in Txs,
         AcceptTransferEvidence(r, x)
  PROVE  ReportInv'
<1>1. /\ UnusedEvidence(x)
      /\ UNCHANGED <<report, sent, ledger>>
  BY DEF AcceptTransferEvidence, ProvesTransfer
<1>2. ASSUME NEW j \in Issuances, report[j] # None
      PROVE  ReportOf(j)'
  <2>1. report[j].tx # x /\ ReportOf(j)
    BY <1>1, <1>2 DEF UnusedEvidence, ReportInv
  <2>2. NoEvidence(report[j].tx)'
    BY <1>1, <1>2, <2>1, TicketsStayIssued DEF ReportOf, NoEvidence
  <2>3. NoToken(sent[report[j].tx].token)'
    BY <1>1, <1>2, <2>1, TicketsStayIssued DEF ReportOf, NoToken
  <2>4. NoneRemains(j) => NoneRemains(j)'
    BY TicketsStayIssued DEF NoneRemains
  <2>5. issuance[j].status = "pending" => issuance'[j] = issuance[j]
    BY TicketsStayIssued
  <2> QED
    BY <1>1, <1>2, <2>1, <2>2, <2>3, <2>4, <2>5 DEF ReportOf
<1>3. \A j \in Issuances : ReportOf(j)'
  BY <1>1, <1>2 DEF ReportOf
<1> QED
  BY <1>1, <1>3 DEF ReportInv

LEMMA ReportStep ==
  ASSUME LedgerTypes, RowsInv, ReportInv, [Next]_vars
  PROVE  ReportInv'
<1>1. RowTypes
  BY DEF RowsInv
<1>2. ASSUME NEW x \in Txs, NEW m \in Movement,
             Performs(x, m) \/ Proposes(x, m)
      PROVE  ReportInv'
  <2>1. Sends(x, m) /\ (ledger' = ledger \/ ledger' = Append(ledger, x))
    BY <1>2 DEF Performs, Proposes
  <2>2. \A y \in Range(ledger) : sent'[y] = sent[y] /\ y \in Range(ledger')
    <3>1. ledger \in Seq(Txs)
      BY DEF LedgerTypes
    <3>2. Range(ledger) \subseteq Range(ledger')
      <4>1. Range(Append(ledger, x)) = Range(ledger) \union {x}
        BY <3>1, AppendedEvidence
      <4> QED
        BY <2>1, <4>1
    <3>3. \A y \in Range(ledger) : sent'[y] = sent[y]
      BY <2>1, SendEffect
    <3> QED
      BY <3>2, <3>3
  <2>3. UNCHANGED <<issuance, report>>
    BY <2>1 DEF Sends
  <2> QED
    BY <2>2, <2>3, ReportsStay
<1>3. ASSUME NEW x \in Txs, LedgerApplies(x)
      PROVE  ReportInv'
  <2>1. \A y \in Range(ledger) : y \in Range(ledger')
    BY <1>3, AppendedEvidence DEF LedgerTypes, LedgerApplies
  <2> QED
    BY <1>3, <2>1, ReportsStay DEF LedgerApplies
<1>4. ASSUME NEW x \in Txs, LedgerForgets(x)
      PROVE  ReportInv'
  BY <1>4, ReportsStay DEF LedgerForgets
<1>5. CASE UNCHANGED <<sent, lapsed, ledger>>
  <2>1. ASSUME UNCHANGED <<issuance, report>>
        PROVE  ReportInv'
    BY <1>5, <2>1, ReportsStay
  <2>2. ASSUME \/ UNCHANGED vars
               \/ \E x \in Txs, k \in Tokens : Mint(x, k)
               \/ \E x \in Txs, r \in Transfers : SendTransfer(x, r)
               \/ \E x \in Txs : LedgerApplies(x)
               \/ \E x \in Txs : LedgerForgets(x)
               \/ \E x \in Txs, k \in Tokens, u \in Users :
                    WalletTransfer(x, k, u)
               \/ \E i \in Issuances : CheckIn(i)
               \/ \E r \in Transfers, i \in Issuances, u \in Users :
                    CreateTransfer(r, i, u)
               \/ \E r \in Transfers, decision \in {"approved", "rejected"} :
                    ReviewTransfer(r, decision)
               \/ \E r \in Transfers, x \in Txs :
                    RecordTransferSubmission(r, x)
        PROVE  UNCHANGED <<issuance, report>>
    BY <2>2 DEF vars, Mint, SendTransfer, LedgerApplies, LedgerForgets,
       WalletTransfer, CheckIn, CreateTransfer, ReviewTransfer,
       RecordTransferSubmission
  <2> QED
    BY <2>1, <2>2, ReportsAdd, ReportsEnd, ReportsCommit, ReportIssues,
       ReportsOutlast DEF Next
<1> QED
  BY <1>1, <1>2, <1>3, <1>4, <1>5, WorldSteps

LEMMA ReportInit == Init => ReportInv
  BY OwnershipAssumption DEF Init, ReportInv, ReportOf

(* An order is fulfilled by a report that has found no other ticket left,  *)
(* and no ticket goes back to being pending.                               *)
LEMMA OrderStep ==
  ASSUME LedgerTypes, RowsInv, ReportInv, OrderInv, [Next]_vars
  PROVE  OrderInv'
<1>1. CASE UNCHANGED <<policy, order, issuance>>
  BY <1>1 DEF OrderInv, FulfilledOnlyWhenIssued
<1>2. ASSUME NEW i \in Issuances, NEW x \in Txs, Issues(i, x)
      PROVE  OrderInv'
  <2>1. /\ order' = IF report[i].last THEN "fulfilled" ELSE order
        /\ policy' = policy
        /\ report[i].last => NoneRemains(i)
    BY <1>2 DEF Issues, AcceptOwnershipEvidence
  <2>2. /\ issuance' = [issuance EXCEPT ![i] = issuance'[i]]
        /\ issuance'[i].status = "issued"
    BY <1>2, OwnershipEffect DEF RowsInv
  <2>3. \A j \in Issuances \ {i} : issuance'[j] = issuance[j]
    BY <2>2 DEF RowsInv, RowTypes
  <2> QED
    BY <2>1, <2>2, <2>3 DEF OrderInv, FulfilledOnlyWhenIssued, NoneRemains
<1>3. ASSUME NEW r \in Transfers, NEW x \in Txs,
             AcceptTransferEvidence(r, x)
      PROVE  OrderInv'
  <2>1. UNCHANGED <<policy, order>>
    BY <1>3 DEF AcceptTransferEvidence
  <2> QED
    BY <1>3, <2>1, TicketsStayIssued DEF OrderInv, FulfilledOnlyWhenIssued
<1>4. ASSUME \/ UNCHANGED vars
             \/ \E x \in Txs, k \in Tokens : Mint(x, k)
             \/ \E x \in Txs, r \in Transfers : SendTransfer(x, r)
             \/ \E x \in Txs : LedgerApplies(x)
             \/ \E x \in Txs : LedgerForgets(x)
             \/ \E x \in Txs, k \in Tokens, u \in Users :
                    WalletTransfer(x, k, u)
             \/ \E i \in Issuances, x \in Txs : CountRemaining(i, x)
             \/ \E i \in Issuances : RollBackReport(i)
             \/ \E i \in Issuances : CheckIn(i)
             \/ \E r \in Transfers, i \in Issuances, u \in Users :
                    CreateTransfer(r, i, u)
             \/ \E r \in Transfers, decision \in {"approved", "rejected"} :
                    ReviewTransfer(r, decision)
             \/ \E r \in Transfers, x \in Txs : RecordTransferSubmission(r, x)
      PROVE  UNCHANGED <<policy, order, issuance>>
  BY <1>4 DEF vars, Mint, SendTransfer, LedgerApplies, LedgerForgets,
     WalletTransfer, CountRemaining, RollBackReport, CheckIn,
     CreateTransfer, ReviewTransfer, RecordTransferSubmission
<1> QED
  BY <1>1, <1>2, <1>3, <1>4, ReportIssues DEF Next

LEMMA OrderInit == Init => OrderInv
<1> SUFFICES ASSUME Init
             PROVE  OrderInv
  OBVIOUS
<1>1. \A i \in Issuances : issuance[i].status = "pending"
  BY DEF Init
<1> QED
  BY <1>1, OwnershipAssumption DEF Init, OrderInv, FulfilledOnlyWhenIssued
-----------------------------------------------------------------------------
LEMMA OwnershipInit == Init => IInv
  BY RowsInit, LedgerInit, ReportInit, OrderInit DEF IInv

LEMMA OwnershipStep == IInv /\ [Next]_vars => IInv'
  BY RowsStep, LedgerInvStep, ReportStep, OrderStep DEF IInv

LEMMA OwnershipInvariant == Spec => []IInv
  BY OwnershipInit, OwnershipStep, PTL DEF Spec

(* An open transfer is always from the present owner of its ticket and of  *)
(* its token, so accept_transfer_evidence never answers                    *)
(* ticket_transfer_source_owner_drift.                                     *)
THEOREM OwnershipTransfersComeFromOwner == Spec => []TransfersComeFromOwner
<1>1. IInv => TransfersComeFromOwner
  BY DEF IInv, RowsInv
<1> QED
  BY OwnershipInvariant, <1>1, PTL

(* A ticket that was checked in changes owners at most once more, however  *)
(* many transfers are asked for: create_transfer, check_in_ticket,         *)
(* accept_transfer_evidence.                                               *)
THEOREM OwnershipMovesOnceAfterCheckIn == Spec => []MovesOnceAfterCheckIn
<1>1. ASSUME IInv, NEW i \in Issuances, checkIn[i] # None
      PROVE  Len(issuance[i].evidence) <= checkIn[i] + 1
  <2>1. checkIn[i] \in Nat
    BY <1>1 DEF IInv, RowsInv, RowTypes
  <2> QED
    BY <1>1, <2>1 DEF IInv, RowsInv, UsedInv, UsedOf
<1>2. IInv => MovesOnceAfterCheckIn
  BY <1>1 DEF MovesOnceAfterCheckIn
<1> QED
  BY OwnershipInvariant, <1>2, PTL

(* No token and no movement of one stands for two tickets, although each   *)
(* is stored in a transaction that locks one ticket only:                  *)
(* accept_ownership_evidence, accept_transfer_evidence.                    *)
THEOREM OwnershipOneTicketPerToken == Spec => []OneTicketPerToken
<1>1. IInv => OneTicketPerToken
  BY DEF IInv, RowsInv
<1> QED
  BY OwnershipInvariant, <1>1, PTL

LEMMA InvHasTypes == IInv => TypeOK
<1> SUFFICES ASSUME IInv
             PROVE  TypeOK
  OBVIOUS
<1> DEFINE S == {x \in Txs : sent[x] # None} \ lapsed
<1>1. /\ ledger \in Seq(Txs)
      /\ \A x \in Range(ledger) : sent[x] # None /\ x \notin lapsed
  BY DEF IInv, LedgerTypes
<1>2. \A n \in 1..Len(ledger) : ledger[n] \in S
  BY <1>1 DEF Range
<1>3. ledger \in Seq(S)
  <2> HIDE DEF S
  <2> QED
    BY <1>1, <1>2
<1> QED
  BY <1>3 DEF IInv, LedgerTypes, RowsInv, RowTypes, ReportInv, OrderInv,
     TypeOK

(* The evidence of a ticket is a history of its token as the ledger has    *)
(* it, in its order and ending with the owner, whatever is sent, lapses,   *)
(* is reported for another transfer or comes from a wallet; and the order  *)
(* is fulfilled only when all its tickets are issued, however many reports *)
(* are under way: accept_ownership_evidence, accept_transfer_evidence.     *)
THEOREM OwnershipHistoryFollowsLedger == Spec => []HistoryFollowsLedger
<1>1. IInv => HistoryFollowsLedger
  BY InvHasTypes DEF IInv, RowsInv, LedgerInv, TicketOf, OrderInv,
     HistoryFollowsLedger
<1> QED
  BY OwnershipInvariant, <1>1, PTL

(* Unless a wallet moved it, a ticket's token is held by the owner the     *)
(* program knows, or a transfer of the ticket waits for just the movement  *)
(* that the ledger made: accept_transfer_evidence accepts it, except of a  *)
(* transfer that the worker submitted with a transaction that lapsed or    *)
(* was sent for another transfer (record_transfer_submission).             *)
THEOREM OwnershipHolderIsKnown == Spec => []HolderIsKnown
<1>1. ASSUME IInv, NEW i \in Issuances, issuance[i].token # None,
             ~WalletMoved(issuance[i].token),
             HolderOf(issuance[i].token) # issuance[i].owner
      PROVE  \E r \in Transfers :
                /\ transfer[r] # None
                /\ transfer[r].issuance = i
                /\ \/ Misreported(r)
                   \/ \E x \in Txs :
                        /\ \/ transfer[r].status = "approved"
                           \/ transfer[r].status = "submitted"
                                /\ transfer[r].tx = x
                        /\ ProvesTransfer(r, x)
                        /\ sent[x].to = HolderOf(issuance[i].token)
  <2> DEFINE k == issuance[i].token
  <2>1. HolderInv(i)
    BY <1>1 DEF IInv, LedgerInv, TicketOf
  <2>2. PICK r \in Transfers :
            Active(r) /\ transfer[r].issuance = i /\ AppliedFor(r) # {}
    BY <1>1, <2>1 DEF HolderInv
  <2>3. transfer[r].to = HolderOf(k)
    BY <1>1, <2>1, <2>2 DEF HolderInv
  <2>4. PICK x \in Range(ledger) : sent[x].for = r
    BY <2>2 DEF AppliedFor
  <2>5. x \in Txs /\ Sent(x) /\ x \notin lapsed
    BY <1>1, <2>4 DEF IInv, LedgerTypes, Range, Sent
  <2>6. r # None
    BY OwnershipAssumption
  <2>7. /\ transfer[r].status \in {"approved", "submitted"}
        /\ MatchesTransfer(r, x)
    <3>1. /\ transfer[r].status \in {"approved", "submitted", "confirmed"}
          /\ MatchesTransfer(r, x)
      BY <1>1, <2>4, <2>5, <2>6 DEF IInv, LedgerInv, SentInv
    <3> QED
      BY <2>2, <3>1 DEF Active, ActiveTransfer
  <2>8. /\ issuance[i].owner = transfer[r].from
        /\ sent[x].token = k
        /\ sent[x].to = HolderOf(k)
    <3>1. transfer[r].from = issuance[i].owner /\ transfer[r].token = k
      BY <1>1, <2>2, ActiveTransferOf DEF IInv
    <3> QED
      BY <2>3, <2>7, <3>1 DEF MatchesTransfer
  <2>9. UnusedEvidence(x)
    <3>1. ASSUME NEW j \in Issuances, x \in Range(issuance[j].evidence)
          PROVE  FALSE
      <4>1. sent[x].token = issuance[j].token
        BY <1>1, <3>1 DEF IInv, LedgerInv, TicketOf, HistoryOf, Range
      <4>2. j = i
        BY <1>1, <2>8, <4>1 DEF IInv, RowsInv, OneTicketPerToken
      <4>3. Place(ledger, x) < Place(ledger, x)
        BY <1>1, <2>2, <2>4, <3>1, <4>2
        DEF IInv, LedgerInv, TransferOf, AppliedFor, Active
      <4>4. Place(ledger, x) \in Nat
        <5>1. \E n \in DOMAIN ledger : ledger[n] = x
          BY <2>4 DEF Range
        <5>2. Place(ledger, x) \in DOMAIN ledger
          BY <5>1 DEF Place
        <5> QED
          BY <1>1, <5>2 DEF IInv, LedgerTypes
      <4> QED
        BY <4>3, <4>4
    <3>2. ASSUME NEW j \in Issuances, report[j] # None
          PROVE  report[j].tx # x
      BY <1>1, <2>8, <3>2 DEF IInv, ReportInv, ReportOf, NoToken
    <3> QED
      BY <3>1, <3>2 DEF UnusedEvidence
  <2>10. ProvesTransfer(r, x)
    BY <2>2, <2>4, <2>7, <2>8, <2>9 DEF ProvesTransfer
  <2>11. CASE transfer[r].status = "approved" \/ transfer[r].tx = x
    BY <2>2, <2>5, <2>7, <2>8, <2>10, <2>11 DEF Active
  <2>12. CASE transfer[r].status = "submitted" /\ transfer[r].tx # x
    <3> DEFINE y == transfer[r].tx
    <3>1. y \in Txs /\ Sent(y)
      BY <1>1, <2>2, <2>12 DEF IInv, LedgerInv, SentInv, Active
    <3>2. CASE sent[y].for # r \/ y \in lapsed
      BY <2>2, <2>12, <3>2 DEF Misreported, Active
    <3>3. CASE sent[y].for = r /\ y \notin lapsed
      BY <1>1, <2>4, <2>5, <2>6, <2>12, <3>1, <3>3
      DEF IInv, LedgerInv, SentInv
    <3> QED
      BY <3>2, <3>3
  <2> QED
    BY <2>7, <2>11, <2>12
<1>2. IInv => HolderIsKnown
  BY <1>1 DEF HolderIsKnown, WalletMoved
<1> QED
  BY OwnershipInvariant, <1>2, PTL
-----------------------------------------------------------------------------
(* What confirmed a ticket or a transfer is evidence of a ticket.          *)
ProofInv ==
    /\ \A i \in Issuances : issuance[i].status = "issued" =>
            issuance[i].evidence # <<>>
    /\ \A r \in Transfers :
            transfer[r] # None /\ transfer[r].status = "confirmed" =>
                transfer[r].tx \in Range(issuance[transfer[r].issuance].evidence)

(* What a row is evidence of, for a ticket.                                *)
LEMMA FirstEvidence ==
  ASSUME NEW S, NEW E \in Seq(S), E # <<>>
  PROVE  /\ E[1] \in Range(E)
         /\ \A x \in S : Append(E, x)[1] = E[1]
<1>1. Len(E) \in Nat /\ Len(E) # 0
  OBVIOUS
<1>2. 1 \in 1..Len(E) /\ DOMAIN E = 1..Len(E)
  BY <1>1
<1>3. E[1] \in Range(E)
  BY <1>2 DEF Range
<1>4. ASSUME NEW x \in S
      PROVE  Append(E, x)[1] = E[1]
  BY <1>2
<1> QED
  BY <1>3, <1>4

(* The evidence of a ticket is a sequence of movements.                    *)
LEMMA EvidenceIsSeq ==
  ASSUME RowTypes, NEW i \in Issuances
  PROVE  issuance[i].evidence \in Seq(Txs)
BY DEF RowTypes, Issuance

(* A confirmation adds its evidence to that of the ticket, and nothing     *)
(* removes any.                                                            *)
LEMMA ProofStep ==
  ASSUME RowsInv, LedgerTypes, ReportInv, ProofInv, [Next]_vars
  PROVE  ProofInv'
<1>1. RowTypes /\ IssuedHasToken /\ ActiveInv
  BY DEF RowsInv
<1>2. CASE UNCHANGED <<issuance, checkIn, transfer>>
  BY <1>2 DEF ProofInv
<1>3. ASSUME NEW i \in Issuances, NEW x \in Txs, Issues(i, x)
      PROVE  ProofInv'
  <2>1. /\ issuance[i].status = "pending" /\ issuance'[i].evidence = <<x>>
        /\ issuance' = [issuance EXCEPT ![i] = issuance'[i]]
        /\ transfer' = transfer
    BY <1>1, <1>3, OwnershipEffect
  <2>2. issuance'[i].evidence # <<>>
    BY <2>1
  <2>3. \A j \in Issuances \ {i} : issuance'[j] = issuance[j]
    BY <1>1, <2>1 DEF RowTypes
  <2>4. ASSUME NEW r \in Transfers, transfer[r] # None
        PROVE  transfer[r].issuance \in Issuances \ {i}
    BY <1>1, <2>1, <2>4 DEF ActiveInv, RowTypes, TransferRecord
  <2> QED
    BY <2>1, <2>2, <2>3, <2>4 DEF ProofInv
<1>4. ASSUME NEW i \in Issuances, CheckIn(i)
      PROVE  ProofInv'
  BY <1>4 DEF CheckIn, ProofInv
<1>5. ASSUME NEW r \in Transfers, NEW i \in Issuances, NEW u \in Users,
             CreateTransfer(r, i, u)
      PROVE  ProofInv'
  <2>1. /\ transfer' = [transfer EXCEPT ![r] = transfer'[r]]
        /\ transfer'[r].status \in ActiveTransfer
        /\ issuance' = issuance
    BY <1>1, <1>5, CreateEffect
  <2>2. transfer'[r].status # "confirmed"
    BY <2>1 DEF ActiveTransfer
  <2>3. \A q \in Transfers \ {r} : transfer'[q] = transfer[q]
    BY <1>1, <2>1 DEF RowTypes
  <2> QED
    BY <2>1, <2>2, <2>3 DEF ProofInv
<1>6. ASSUME NEW r \in Transfers,
             \/ \E decision \in {"approved", "rejected"} :
                    ReviewTransfer(r, decision)
             \/ \E x \in Txs : RecordTransferSubmission(r, x)
      PROVE  ProofInv'
  <2>1. /\ transfer' = [transfer EXCEPT ![r] = transfer'[r]]
        /\ transfer'[r].status # "confirmed"
        /\ issuance' = issuance
    BY <1>1, <1>6, StatusEffect
  <2>2. \A q \in Transfers \ {r} : transfer'[q] = transfer[q]
    BY <1>1, <2>1 DEF RowTypes
  <2> QED
    BY <2>1, <2>2 DEF ProofInv
<1>7. ASSUME NEW r \in Transfers, NEW x \in Txs, AcceptTransferEvidence(r, x)
      PROVE  ProofInv'
  <2> DEFINE i == transfer[r].issuance
  <2>1. /\ i \in Issuances
        /\ transfer[r] # None /\ transfer'[r].tx = x
        /\ issuance' = [issuance EXCEPT ![i] = issuance'[i]]
        /\ issuance'[i].evidence = Append(issuance[i].evidence, x)
        /\ transfer' = [transfer EXCEPT ![r] = transfer'[r]]
        /\ SameTerms(r)
    BY <1>1, <1>7, TransferEffect
  <2>3. Range(issuance'[i].evidence) = Range(issuance[i].evidence) \union {x}
    BY <1>1, <2>1, EvidenceIsSeq, AppendedEvidence
  <2>4. issuance'[i].evidence # <<>>
    <3>1. issuance[i].evidence \in Seq(Txs)
      BY <1>1, <2>1, EvidenceIsSeq
    <3> QED
      BY <2>1, <3>1
  <2>5. /\ \A j \in Issuances \ {i} : issuance'[j] = issuance[j]
        /\ \A q \in Transfers \ {r} : transfer'[q] = transfer[q]
    BY <1>1, <2>1 DEF RowTypes
  <2>6. ASSUME NEW q \in Transfers \ {r}, transfer[q] # None,
               transfer[q].status = "confirmed"
        PROVE  transfer[q].tx \in
                    Range(issuance'[transfer[q].issuance].evidence)
    <3>1. transfer[q].issuance \in Issuances
      BY <1>1, <2>6 DEF RowTypes, TransferRecord
    <3>2. transfer[q].tx \in Range(issuance[transfer[q].issuance].evidence)
      BY <2>6 DEF ProofInv
    <3> QED
      BY <2>3, <2>5, <3>1, <3>2
  <2>7. transfer'[r].issuance = i
    BY <2>1 DEF SameTerms
  <2> HIDE DEF i
  <2> QED
    BY <2>1, <2>3, <2>4, <2>5, <2>6, <2>7 DEF ProofInv
<1> QED
  BY <1>2, <1>3, <1>4, <1>5, <1>6, <1>7, OwnershipSteps

(* A record is a ticket or a transfer.                                     *)
LEMMA RecordKinds ==
  ASSUME NEW k
  PROVE  k \in Records <=>
            \/ \E i \in Issuances : k = <<"ticket", i>>
            \/ \E r \in Transfers : transfer[r] # None /\ k = <<"transfer", r>>
BY DEF Records

(* What a step has to leave alone for records to stay as they are.         *)
SameTicket(i) ==
    /\ issuance'[i].status = "issued" <=> issuance[i].status = "issued"
    /\ issuance[i].status = "issued" =>
            issuance'[i].evidence[1] = issuance[i].evidence[1]

SameEffect(r) ==
    transfer[r] # None =>
        transfer'[r] # None /\ Effect(transfer'[r]) = Effect(transfer[r])

SameProof(r) ==
    transfer[r] # None =>
        /\ transfer'[r].status = "confirmed" <=>
                transfer[r].status = "confirmed"
        /\ transfer[r].status = "confirmed" => transfer'[r].tx = transfer[r].tx

(* Records that remain, and at most one that is confirmed.                 *)
LEMMA RecordsRemain ==
  ASSUME \A r \in Transfers : SameEffect(r)
  PROVE  /\ Records \subseteq Records'
         /\ \A k \in Records : WantedOf(k)' = WantedOf(k)
         /\ \A i \in Issuances : SameTicket(i) =>
                LET k == <<"ticket", i>>
                IN  /\ IsConfirmed(k)' <=> IsConfirmed(k)
                    /\ IsConfirmed(k) => ProofOf(k)' = ProofOf(k)
         /\ \A r \in Transfers : transfer[r] # None /\ SameProof(r) =>
                LET k == <<"transfer", r>>
                IN  /\ IsConfirmed(k)' <=> IsConfirmed(k)
                    /\ IsConfirmed(k) => ProofOf(k)' = ProofOf(k)
<1>1. Records \subseteq Records'
  BY DEF Records, SameEffect
<1>2. ASSUME NEW k \in Records
      PROVE  WantedOf(k)' = WantedOf(k)
  BY <1>2, RecordKinds DEF WantedOf, SameEffect
<1>3. ASSUME NEW i \in Issuances, SameTicket(i)
      PROVE  LET k == <<"ticket", i>>
             IN  /\ IsConfirmed(k)' <=> IsConfirmed(k)
                 /\ IsConfirmed(k) => ProofOf(k)' = ProofOf(k)
  BY <1>3 DEF SameTicket, IsConfirmed, ProofOf
<1>4. ASSUME NEW r \in Transfers, transfer[r] # None, SameProof(r)
      PROVE  LET k == <<"transfer", r>>
             IN  /\ IsConfirmed(k)' <=> IsConfirmed(k)
                 /\ IsConfirmed(k) => ProofOf(k)' = ProofOf(k)
  BY <1>4 DEF SameProof, IsConfirmed, ProofOf
<1> QED
  BY <1>1, <1>2, <1>3, <1>4

(* A step that keeps every record and its proof confirms nothing.          *)
LEMMA OwnersStay ==
  ASSUME \A r \in Transfers : /\ transfer[r] = None => transfer'[r] = None
                              /\ SameEffect(r) /\ SameProof(r),
         \A i \in Issuances : SameTicket(i)
  PROVE  UNCHANGED <<OwnersWanted, OwnersConfirmed>>
<1>1. Records' = Records
  BY DEF Records, SameEffect
<1>2. \A k \in Records :
        /\ WantedOf(k)' = WantedOf(k)
        /\ IsConfirmed(k)' <=> IsConfirmed(k)
        /\ IsConfirmed(k) => ProofOf(k)' = ProofOf(k)
  BY RecordsRemain, RecordKinds
<1>3. UNCHANGED OwnersWanted
  BY <1>1, <1>2 DEF OwnersWanted
<1>4. UNCHANGED OwnersConfirmed
  BY <1>1, <1>2 DEF OwnersConfirmed
<1> QED
  BY <1>3, <1>4

(* The one record it is confirmed, by movement x.                          *)
LEMMA OwnerConfirmed ==
  ASSUME NEW it \in Records, NEW x, x \in Range(ledger),
         Effect(sent[x]) \in WantedOf(it),
         ~IsConfirmed(it), IsConfirmed(it)', ProofOf(it)' = x,
         UNCHANGED OwnersApplied, Records' = Records,
         \A k \in Records : WantedOf(k)' = WantedOf(k),
         \A k \in Records \ {it} :
            /\ IsConfirmed(k)' <=> IsConfirmed(k)
            /\ IsConfirmed(k) => ProofOf(k)' = ProofOf(k),
         \A k \in Records : IsConfirmed(k) => ProofOf(k) # x
  PROVE  Confirmation!Next
<1>1. UNCHANGED OwnersWanted
  BY DEF OwnersWanted
<1>2. /\ it \in DOMAIN OwnersWanted \ DOMAIN OwnersConfirmed
      /\ x \in DOMAIN OwnersApplied
      /\ OwnersApplied[x] \in OwnersWanted[it]
  BY DEF OwnersWanted, OwnersConfirmed, OwnersApplied
<1>3. \A k \in DOMAIN OwnersConfirmed : OwnersConfirmed[k] # x
  BY DEF OwnersConfirmed
<1>4. DOMAIN OwnersConfirmed' = DOMAIN OwnersConfirmed \union {it}
  BY DEF OwnersConfirmed
<1>5. OwnersConfirmed'[it] = x
  BY DEF OwnersConfirmed
<1>6. Confirmation!Grows(OwnersConfirmed, OwnersConfirmed')
  BY <1>4 DEF OwnersConfirmed, Confirmation!Grows
<1>7. Confirmation!Confirm(it, x)
  BY <1>1, <1>2, <1>3, <1>4, <1>5, <1>6 DEF Confirmation!Confirm
<1> QED
  BY <1>2, <1>7 DEF Confirmation!Next

(* What is applied remains what it is.                                     *)
LEMMA MovementsStay ==
  ASSUME RowTypes, LedgerTypes, [Next]_vars
  PROVE  \/ UNCHANGED OwnersApplied
         \/ /\ Confirmation!Grows(OwnersApplied, OwnersApplied')
            /\ UNCHANGED <<issuance, transfer>>
<1>1. CASE UNCHANGED <<sent, lapsed, ledger>>
  BY <1>1 DEF OwnersApplied
<1>2. ASSUME \A x \in Range(ledger) : x \in Range(ledger') /\ sent'[x] = sent[x]
      PROVE  Confirmation!Grows(OwnersApplied, OwnersApplied')
  BY <1>2 DEF OwnersApplied, Confirmation!Grows
<1>3. ASSUME NEW x \in Txs, ledger' = Append(ledger, x)
      PROVE  Range(ledger') = Range(ledger) \union {x}
  BY <1>3, AppendedEvidence DEF LedgerTypes
<1>4. ASSUME NEW x \in Txs, NEW m \in Movement,
             Performs(x, m) \/ Proposes(x, m)
      PROVE  /\ Confirmation!Grows(OwnersApplied, OwnersApplied')
             /\ UNCHANGED <<issuance, transfer>>
  <2>1. Sends(x, m) /\ (ledger' = ledger \/ ledger' = Append(ledger, x))
    BY <1>4 DEF Performs, Proposes
  <2>2. \A y \in Range(ledger) : sent'[y] = sent[y]
    BY <2>1, SendEffect
  <2>3. UNCHANGED <<issuance, transfer>>
    BY <2>1 DEF Sends
  <2> QED
    BY <1>2, <1>3, <2>1, <2>2, <2>3
<1>5. ASSUME NEW x \in Txs, LedgerApplies(x)
      PROVE  /\ Confirmation!Grows(OwnersApplied, OwnersApplied')
             /\ UNCHANGED <<issuance, transfer>>
  BY <1>2, <1>3, <1>5 DEF LedgerApplies
<1>6. ASSUME NEW x \in Txs, LedgerForgets(x)
      PROVE  UNCHANGED OwnersApplied
  BY <1>6 DEF LedgerForgets, OwnersApplied
<1> QED
  BY <1>1, <1>4, <1>5, <1>6, WorldSteps

(* Tickets and transfers implement module LedgerConfirmation               *)
(* (accept_ownership_evidence, accept_transfer_evidence).                  *)
LEMMA OwnersConfirmStep ==
  IInv /\ ProofInv /\ [Next]_vars => [Confirmation!Next]_(Confirmation!vars)
<1> SUFFICES ASSUME IInv, ProofInv, [Next]_vars
             PROVE  [Confirmation!Next]_(Confirmation!vars)
  OBVIOUS
<1>1. /\ LedgerTypes /\ RowsInv /\ RowTypes /\ IssuedHasToken /\ ActiveInv
      /\ LedgerInv /\ ReportInv
  BY DEF IInv, RowsInv
<1>2. /\ \A i \in Issuances : issuance' = issuance => SameTicket(i)
      /\ \A r \in Transfers : transfer' = transfer =>
                                SameEffect(r) /\ SameProof(r)
  BY DEF SameTicket, SameEffect, SameProof
<1>3. CASE UNCHANGED <<issuance, transfer>>
  <2>1. UNCHANGED <<OwnersWanted, OwnersConfirmed>>
    BY <1>2, <1>3, OwnersStay
  <2>2. \/ UNCHANGED OwnersApplied
        \/ Confirmation!Grows(OwnersApplied, OwnersApplied')
    BY <1>1, MovementsStay
  <2> QED
    BY <2>1, <2>2 DEF Confirmation!vars, Confirmation!Next, Confirmation!Apply
<1>4. ASSUME NEW k \in Records, IsConfirmed(k), NEW x, NoEvidence(x)
      PROVE  ProofOf(k) # x
  <2>1. ASSUME NEW i \in Issuances, k = <<"ticket", i>>
        PROVE  ProofOf(k) # x
    <3>1. issuance[i].status = "issued" /\ ProofOf(k) = issuance[i].evidence[1]
      BY <1>4, <2>1 DEF IsConfirmed, ProofOf
    <3>2. issuance[i].evidence[1] \in Range(issuance[i].evidence)
      BY <1>1, <3>1, EvidenceIsSeq, FirstEvidence DEF ProofInv
    <3> QED
      BY <1>4, <3>1, <3>2 DEF NoEvidence
  <2>2. ASSUME NEW r \in Transfers, transfer[r] # None, k = <<"transfer", r>>
        PROVE  ProofOf(k) # x
    <3>1. transfer[r].status = "confirmed" /\ ProofOf(k) = transfer[r].tx
      BY <1>4, <2>2 DEF IsConfirmed, ProofOf
    <3>2. /\ transfer[r].issuance \in Issuances
          /\ transfer[r].tx \in Range(issuance[transfer[r].issuance].evidence)
      BY <1>1, <2>2, <3>1 DEF ProofInv, RowTypes, TransferRecord
    <3> QED
      BY <1>4, <3>1, <3>2 DEF NoEvidence
  <2> QED
    BY <2>1, <2>2, RecordKinds
<1>5. ASSUME NEW i \in Issuances, NEW x \in Txs, Issues(i, x)
      PROVE  Confirmation!Next
  <2> DEFINE it == <<"ticket", i>>
  <2>1. /\ issuance[i].status = "pending" /\ issuance'[i].status = "issued"
        /\ issuance' = [issuance EXCEPT ![i] = issuance'[i]]
        /\ sent[x].to = issuance[i].owner /\ x \in Range(ledger)
        /\ issuance'[i].evidence = <<x>> /\ NoEvidence(x)
        /\ UNCHANGED <<transfer, sent, ledger>>
    BY <1>1, <1>5, OwnershipEffect
  <2>2. \A j \in Issuances \ {i} : SameTicket(j)
    BY <1>1, <2>1 DEF RowTypes, SameTicket
  <2>3. \A r \in Transfers : SameEffect(r) /\ SameProof(r)
    BY <1>2, <2>1
  <2>4. it \in Records /\ ~IsConfirmed(it) /\ IsConfirmed(it)'
    BY <2>1, RecordKinds DEF IsConfirmed
  <2>5. ProofOf(it)' = x
    BY <2>1 DEF ProofOf
  <2>6. Effect(sent[x]) \in WantedOf(it)
    <3>1. sent[x].to = Buyer
      BY <1>1, <2>1 DEF LedgerInv, TicketOf
    <3>2. sent[x] \in Movement
      BY <1>1, <2>1 DEF LedgerTypes
    <3> QED
      BY <3>1, <3>2 DEF Effect, WantedOf, Movement
  <2>7. UNCHANGED OwnersApplied /\ Records' = Records
    BY <2>1 DEF OwnersApplied, Records
  <2>8. \A k \in Records : WantedOf(k)' = WantedOf(k)
    BY <2>3, RecordsRemain
  <2>9. \A k \in Records \ {it} :
            /\ IsConfirmed(k)' <=> IsConfirmed(k)
            /\ IsConfirmed(k) => ProofOf(k)' = ProofOf(k)
    BY <2>2, <2>3, RecordsRemain, RecordKinds
  <2> HIDE DEF it
  <2> QED
    BY <1>4, <2>1, <2>4, <2>5, <2>6, <2>7, <2>8, <2>9, OwnerConfirmed
<1>6. ASSUME NEW r \in Transfers, NEW x \in Txs, AcceptTransferEvidence(r, x)
      PROVE  Confirmation!Next
  <2> DEFINE it == <<"transfer", r>>
             i == transfer[r].issuance
  <2>1. /\ transfer[r] # None /\ transfer[r].status = "submitted"
        /\ transfer[r].tx = x /\ i \in Issuances
        /\ issuance' = [issuance EXCEPT ![i] = issuance'[i]]
        /\ issuance'[i].status = "issued"
        /\ issuance'[i].evidence = Append(issuance[i].evidence, x)
        /\ NoEvidence(x) /\ MatchesTransfer(r, x) /\ x \in Range(ledger)
        /\ transfer' = [transfer EXCEPT ![r] = transfer'[r]]
        /\ transfer'[r] \in TransferRecord
        /\ transfer'[r].status = "confirmed" /\ transfer'[r].tx = x
        /\ SameTerms(r)
        /\ UNCHANGED <<sent, ledger>>
    BY <1>1, <1>6, TransferEffect
  <2>3. transfer'[r] # None
    BY <2>1, OwnershipAssumption
  <2>4. \A q \in Transfers \ {r} : transfer'[q] = transfer[q]
    BY <1>1, <2>1 DEF RowTypes
  <2>5. \A q \in Transfers : SameEffect(q)
    BY <2>1, <2>3, <2>4 DEF SameEffect, SameTerms, Effect
  <2>6. \A q \in Transfers \ {r} : SameProof(q)
    BY <2>4 DEF SameProof
  <2>7. \A j \in Issuances : SameTicket(j)
    <3>1. SameTicket(i)
      <4>1. issuance[i].status = "issued"
        BY <1>1, <2>1 DEF ActiveInv
      <4>2. issuance[i].evidence \in Seq(Txs) /\ issuance[i].evidence # <<>>
        BY <1>1, <2>1, <4>1, EvidenceIsSeq DEF ProofInv
      <4>3. Append(issuance[i].evidence, x)[1] = issuance[i].evidence[1]
        BY <4>2, FirstEvidence
      <4> QED
        BY <2>1, <4>1, <4>3 DEF SameTicket
    <3>2. \A j \in Issuances \ {i} : issuance'[j] = issuance[j]
      BY <1>1, <2>1 DEF RowTypes
    <3> QED
      BY <3>1, <3>2 DEF SameTicket
  <2>8. it \in Records /\ ~IsConfirmed(it) /\ IsConfirmed(it)'
    BY <2>1, RecordKinds DEF IsConfirmed
  <2>9. ProofOf(it)' = x
    BY <2>1 DEF ProofOf
  <2>10. Effect(sent[x]) \in WantedOf(it)
    BY <2>1 DEF Effect, WantedOf, MatchesTransfer
  <2>11. UNCHANGED OwnersApplied /\ Records' = Records
    <3>1. {q \in Transfers : transfer'[q] # None} =
                {q \in Transfers : transfer[q] # None}
      BY <2>1, <2>3, <2>4
    <3> QED
      BY <2>1, <3>1 DEF OwnersApplied, Records
  <2>12. \A k \in Records : WantedOf(k)' = WantedOf(k)
    BY <2>5, RecordsRemain
  <2>13. \A k \in Records \ {it} :
            /\ IsConfirmed(k)' <=> IsConfirmed(k)
            /\ IsConfirmed(k) => ProofOf(k)' = ProofOf(k)
    BY <2>5, <2>6, <2>7, RecordsRemain, RecordKinds
  <2> HIDE DEF it
  <2> QED
    BY <1>4, <2>1, <2>8, <2>9, <2>10, <2>11, <2>12, <2>13, OwnerConfirmed
<1>7. ASSUME NEW r \in Transfers, NEW i \in Issuances, NEW u \in Users,
             CreateTransfer(r, i, u)
      PROVE  Confirmation!Next
  <2>1. /\ transfer[r] = None
        /\ transfer' = [transfer EXCEPT ![r] = transfer'[r]]
        /\ transfer'[r].status \in ActiveTransfer
        /\ UNCHANGED <<issuance, sent, ledger>>
    BY <1>1, <1>7, CreateEffect
  <2>2. \A q \in Transfers \ {r} : transfer'[q] = transfer[q]
    BY <1>1, <2>1 DEF RowTypes
  <2>3. /\ \A q \in Transfers : SameEffect(q) /\ SameProof(q)
        /\ \A j \in Issuances : SameTicket(j)
    BY <1>2, <2>1, <2>2 DEF SameEffect, SameProof
  <2>4. ASSUME NEW k \in Records' \ Records
        PROVE  ~IsConfirmed(k)'
    <3>1. PICK q \in Transfers :
                transfer'[q] # None /\ transfer[q] = None
                    /\ k = <<"transfer", q>>
      BY <2>4 DEF Records
    <3>2. q = r
      BY <2>2, <3>1
    <3> QED
      BY <2>1, <3>1, <3>2 DEF IsConfirmed, ActiveTransfer
  <2>5. /\ Records \subseteq Records'
        /\ \A k \in Records :
            /\ WantedOf(k)' = WantedOf(k)
            /\ IsConfirmed(k)' <=> IsConfirmed(k)
            /\ IsConfirmed(k) => ProofOf(k)' = ProofOf(k)
    BY <2>3, RecordsRemain, RecordKinds
  <2>6. Confirmation!Grows(OwnersWanted, OwnersWanted')
    BY <2>5 DEF OwnersWanted, Confirmation!Grows
  <2>7. UNCHANGED OwnersConfirmed
    <3>1. {k \in Records : IsConfirmed(k)}' = {k \in Records : IsConfirmed(k)}
      BY <2>4, <2>5
    <3> QED
      BY <2>5, <3>1 DEF OwnersConfirmed
  <2>8. UNCHANGED OwnersApplied
    BY <2>1 DEF OwnersApplied
  <2> QED
    BY <2>6, <2>7, <2>8 DEF Confirmation!Next, Confirmation!Ask
<1>8. ASSUME NEW r \in Transfers,
             \/ \E decision \in {"approved", "rejected"} :
                    ReviewTransfer(r, decision)
             \/ \E x \in Txs : RecordTransferSubmission(r, x)
      PROVE  UNCHANGED Confirmation!vars
  <2>1. /\ Active(r)
        /\ transfer' = [transfer EXCEPT ![r] = transfer'[r]]
        /\ transfer'[r] \in TransferRecord
        /\ SameTerms(r) /\ transfer'[r].status # "confirmed"
        /\ UNCHANGED <<issuance, sent, ledger>>
    BY <1>1, <1>8, StatusEffect
  <2>2. /\ transfer'[r] # None /\ transfer[r] # None
        /\ transfer[r].status # "confirmed"
    BY <2>1, OwnershipAssumption DEF Active, ActiveTransfer
  <2>3. \A q \in Transfers \ {r} : transfer'[q] = transfer[q]
    BY <1>1, <2>1 DEF RowTypes
  <2>4. \A q \in Transfers : /\ transfer[q] = None => transfer'[q] = None
                             /\ SameEffect(q) /\ SameProof(q)
    BY <2>1, <2>2, <2>3 DEF SameEffect, SameProof, SameTerms, Effect
  <2>5. UNCHANGED <<OwnersWanted, OwnersConfirmed>>
    BY <1>2, <2>1, <2>4, OwnersStay
  <2> QED
    BY <2>1, <2>5 DEF OwnersApplied, Confirmation!vars
<1>9. ASSUME NEW i \in Issuances, CheckIn(i)
      PROVE  UNCHANGED <<issuance, transfer>>
  BY <1>9 DEF CheckIn
<1> QED
  BY <1>1, <1>3, <1>5, <1>6, <1>7, <1>8, <1>9, OwnershipSteps

(* Whatever lapses, is repeated or reported for another: ConfirmsOwners.   *)
THEOREM OwnershipConfirmsOwners == Spec => ConfirmsOwners
<1>1. Init => Confirmation!Init /\ ProofInv
  <2> SUFFICES ASSUME Init
               PROVE  Confirmation!Init /\ ProofInv
    OBVIOUS
  <2>1. Range(ledger) = {}
    BY SingleEvidence DEF Init
  <2>2. \A k \in Records : ~IsConfirmed(k)
    BY RecordKinds DEF Init, IsConfirmed
  <2>3. DOMAIN OwnersApplied = {} /\ DOMAIN OwnersConfirmed = {}
    BY <2>1, <2>2 DEF OwnersApplied, OwnersConfirmed
  <2>4. ProofInv
    BY DEF Init, ProofInv
  <2> QED
    BY <2>3, <2>4 DEF Confirmation!Init
<1>2. IInv /\ ProofInv /\ [Next]_vars => ProofInv'
  BY ProofStep DEF IInv
<1> QED
  BY <1>1, <1>2, OwnersConfirmStep, OwnershipInvariant, PTL
     DEF Spec, ConfirmsOwners, Confirmation!Spec
=============================================================================
