------------------------ MODULE VotingAndMarketProofs ------------------------
(***************************************************************************)
(* Theorems about module Voting, for any rounds, requests, voters,         *)
(* contestants and transactions, and about modules Markets and Settlement, *)
(* for any stakes, outcomes, limits, fee and runs.                         *)
(*                                                                         *)
(* AnchorInv is why the three rows that say "anchored" agree: it ties the  *)
(* anchor of a round to its snapshot and to its status at every stage, not *)
(* only at the last one.  The lemmas about module Merkle are by induction  *)
(* over the levels of a tree; VotingReceiptVerifies uses them for the      *)
(* trees of snapshots.                                                     *)
(*                                                                         *)
(* MarketInv ties each position to the stake it was accepted for, and the  *)
(* totals to the positions.  SettlementInv adds the rows of settlements.   *)
(* What a plan divides is arithmetic about sums of quotients; once it is   *)
(* made, nothing it was made from changes.                                 *)
(*                                                                         *)
(* Anchors, stakes and items implement module LedgerConfirmation.          *)
(***************************************************************************)
EXTENDS Voting, Settlement, SumTheorems

(* A round has a snapshot only once it is closed, and what is known of its *)
(* anchor determines where its snapshot and the round stand.               *)
AnchorOf(r) ==
    /\ snapshot[r] # NoSnapshot => round[r] \in {"closed", "anchored"}
    /\ anchor[r] = NoAnchor =>
        /\ round[r] # "anchored"
        /\ snapshot[r] # NoSnapshot => snapshot[r].status = "created"
    /\ anchor[r] # NoAnchor =>
        /\ snapshot[r] # NoSnapshot
        /\ anchor[r].votes = snapshot[r].votes
        /\ anchor[r].status = "confirmed" =>
            /\ round[r] = "anchored"
            /\ snapshot[r].status = "anchored"
        /\ anchor[r].status # "confirmed" =>
            /\ round[r] = "closed"
            /\ snapshot[r].status = "anchor_pending"

AnchorInv == \A r \in Rounds : AnchorOf(r)

(* A confirmed anchor was published, as it is, by its transaction. *)
ChainInv ==
    \A r \in Rounds :
        anchor[r] # NoAnchor /\ anchor[r].status = "confirmed" =>
            /\ anchor[r].tx \in Txs
            /\ published[anchor[r].tx] # NoEvent
            /\ published[anchor[r].tx].round = r
            /\ published[anchor[r].tx].votes = anchor[r].votes

VotingInv == TypeOK /\ AnchorInv /\ ChainInv
-----------------------------------------------------------------------------
(* The state before any round exists has the right types.                  *)
LEMMA TypeInit == Init => TypeOK
  BY DEF Init, TypeOK, RoundStatus, RequestState

(* No handler, call of the contract or passage of time leaves the types.   *)
LEMMA TypeStep == TypeOK /\ AnchorInv /\ [Next]_vars => TypeOK'
<1> SUFFICES ASSUME TypeOK, AnchorInv, [Next]_vars
             PROVE  TypeOK'
  OBVIOUS
<1> USE DEF TypeOK
<1>1. CASE UNCHANGED vars
  BY <1>1 DEF vars
<1>2. ASSUME NEW r \in Rounds, CreateRound(r) \/ OpenRound(r) \/ CloseRound(r)
      PROVE  TypeOK'
  BY <1>2 DEF CreateRound, OpenRound, CloseRound, RoundStatus
<1>3. ASSUME NEW r \in Rounds, CreateSnapshot(r)
      PROVE  TypeOK'
  <2>1. Votes(r) \in SUBSET Requests
    BY DEF Votes
  <2> QED
    BY <1>3, <2>1 DEF CreateSnapshot, Snapshot
<1>4. ASSUME NEW r \in Rounds, CreateAnchorIntent(r)
      PROVE  TypeOK'
  BY <1>4 DEF CreateAnchorIntent, Snapshot, Anchor
<1>5. ASSUME NEW r \in Rounds, ClockAdvances(r)
      PROVE  TypeOK'
  BY <1>5 DEF ClockAdvances
<1>6. ASSUME NEW r \in Rounds, NEW t \in Txs, RecordAnchorSubmission(r, t)
      PROVE  TypeOK'
  BY <1>6 DEF RecordAnchorSubmission, Anchor
<1>7. ASSUME NEW r \in Rounds, NEW t \in Txs, AcceptAnchorEvidence(r, t)
      PROVE  TypeOK'
  <2>1. /\ anchor' \in [Rounds -> Anchor \union {NoAnchor}]
        /\ round' \in [Rounds -> RoundStatus]
    BY <1>7 DEF AcceptAnchorEvidence, MatchesIntent, EventOfTx,
       ConfirmAnchor, Anchor, RoundStatus
  <2>2. snapshot[r] # NoSnapshot
    BY <1>7 DEF AcceptAnchorEvidence, MatchesIntent, EventOfTx, AnchorInv,
       AnchorOf
  <2>3. snapshot' \in [Rounds -> Snapshot \union {NoSnapshot}]
    BY <1>7, <2>2 DEF AcceptAnchorEvidence, ConfirmAnchor, Snapshot
  <2> QED
    BY <1>7, <2>1, <2>3 DEF AcceptAnchorEvidence, ConfirmAnchor
<1>8. ASSUME NEW r \in Rounds, NEW t \in Txs, NEW votes \in SUBSET Requests,
             Publish(t, r, votes)
      PROVE  TypeOK'
  BY <1>8 DEF Publish, PublishEvent
<1>9. ASSUME NEW q \in Requests, NEW b \in Ballot, CheckVote(q, b)
      PROVE  TypeOK'
  BY <1>9 DEF CheckVote, RequestState
<1>10. ASSUME NEW q \in Requests, InsertVote(q)
       PROVE  TypeOK'
  BY <1>10 DEF InsertVote, RequestState
<1> QED
  BY <1>1, <1>2, <1>3, <1>4, <1>5, <1>6, <1>7, <1>8, <1>9, <1>10 DEF Next
-----------------------------------------------------------------------------
(* The handlers keep the anchor of a round, its snapshot and its status in *)
(* step (create_snapshot, create_anchor_intent, accept_anchor_evidence).   *)
LEMMA AnchorStep == TypeOK /\ AnchorInv /\ [Next]_vars => AnchorInv'
<1> SUFFICES ASSUME TypeOK, AnchorInv, [Next]_vars
             PROVE  AnchorInv'
  OBVIOUS
<1> USE DEF AnchorInv, AnchorOf
<1>1. CASE UNCHANGED <<round, snapshot, anchor>>
  BY <1>1
<1>2. ASSUME NEW r \in Rounds, CreateRound(r) \/ OpenRound(r) \/ CloseRound(r)
      PROVE  AnchorInv'
  BY <1>2 DEF CreateRound, OpenRound, CloseRound, TypeOK
<1>3. ASSUME NEW r \in Rounds, CreateSnapshot(r)
      PROVE  AnchorInv'
  <2>1. snapshot'[r].status = "created" /\ anchor[r] = NoAnchor
    BY <1>3 DEF CreateSnapshot, TypeOK
  <2> QED
    BY <1>3, <2>1 DEF CreateSnapshot, TypeOK
<1>4. ASSUME NEW r \in Rounds, CreateAnchorIntent(r)
      PROVE  AnchorInv'
  <2>1. /\ anchor'[r].votes = snapshot[r].votes
        /\ anchor'[r].status = "created"
        /\ snapshot[r] \in Snapshot
        /\ snapshot'[r] = [snapshot[r] EXCEPT !.status = "anchor_pending"]
    BY <1>4 DEF CreateAnchorIntent, TypeOK
  <2>2. /\ snapshot'[r] \in Snapshot
        /\ snapshot'[r].votes = snapshot[r].votes
        /\ snapshot'[r].status = "anchor_pending"
    BY <2>1 DEF Snapshot
  <2>3. round[r] = "closed"
    BY <1>4 DEF CreateAnchorIntent
  <2>4. snapshot'[r] # NoSnapshot
    BY <2>2, VotingAssumption
  <2>5. /\ round' = round
        /\ \A s \in Rounds : s # r => /\ snapshot'[s] = snapshot[s]
                                     /\ anchor'[s] = anchor[s]
    BY <1>4 DEF CreateAnchorIntent, TypeOK
  <2>6. anchor'[r] \in Anchor
    BY <1>4, <2>1 DEF CreateAnchorIntent, TypeOK, Anchor, Snapshot
  <2>7. anchor'[r] # NoAnchor
    BY <2>6, VotingAssumption
  <2>8. AnchorOf(r)'
    BY <2>1, <2>2, <2>3, <2>4, <2>5, <2>7
  <2>9. ASSUME NEW s \in Rounds, s # r
        PROVE  AnchorOf(s)'
    BY <2>5, <2>9
  <2> QED
    BY <2>8, <2>9
<1>5. ASSUME NEW r \in Rounds, NEW t \in Txs, RecordAnchorSubmission(r, t)
      PROVE  AnchorInv'
  <2>1. anchor[r] \in Anchor
    BY <1>5 DEF RecordAnchorSubmission, TypeOK
  <2>2. /\ anchor'[r].votes = anchor[r].votes
        /\ anchor'[r].status = "submitted"
    BY <1>5, <2>1 DEF RecordAnchorSubmission, TypeOK, Anchor
  <2>3. /\ anchor[r] # NoAnchor
        /\ anchor[r].status = "created"
    BY <1>5 DEF RecordAnchorSubmission
  <2>4. /\ round' = round
        /\ snapshot' = snapshot
        /\ \A s \in Rounds : s # r => anchor'[s] = anchor[s]
    BY <1>5 DEF RecordAnchorSubmission, TypeOK
  <2>5. anchor'[r] \in Anchor
    BY <1>5, <2>1 DEF RecordAnchorSubmission, TypeOK, Anchor
  <2>6. AnchorOf(r)'
    BY <2>2, <2>3, <2>4, <2>5, VotingAssumption
  <2>7. ASSUME NEW s \in Rounds, s # r
        PROVE  AnchorOf(s)'
    BY <2>4, <2>7
  <2> QED
    BY <2>6, <2>7
<1>6. ASSUME NEW r \in Rounds, NEW t \in Txs, AcceptAnchorEvidence(r, t)
      PROVE  AnchorInv'
  <2>1. /\ anchor[r] # NoAnchor
        /\ anchor[r].status = "submitted"
    BY <1>6 DEF AcceptAnchorEvidence, MatchesIntent, EventOfTx
  <2>2. anchor[r] \in Anchor /\ snapshot[r] \in Snapshot
    BY <2>1 DEF TypeOK
  <2>3. /\ round[r] = "closed"
        /\ snapshot[r].status = "anchor_pending"
    BY <2>1
  <2>4. /\ anchor'[r].votes = anchor[r].votes
        /\ anchor'[r].status = "confirmed"
    BY <1>6, <2>2 DEF AcceptAnchorEvidence, ConfirmAnchor, TypeOK, Anchor
  <2>5. /\ snapshot'[r] \in Snapshot
        /\ snapshot'[r].votes = snapshot[r].votes
        /\ snapshot'[r].status = "anchored"
    BY <1>6, <2>2, <2>3 DEF AcceptAnchorEvidence, ConfirmAnchor, TypeOK,
       Snapshot
  <2>6. round'[r] = "anchored"
    BY <1>6, <2>3 DEF AcceptAnchorEvidence, ConfirmAnchor, TypeOK
  <2>7. \A s \in Rounds \ {r} : /\ round'[s] = round[s]
                               /\ anchor'[s] = anchor[s]
                               /\ snapshot'[s] = snapshot[s]
    BY <1>6 DEF AcceptAnchorEvidence, ConfirmAnchor, TypeOK
  <2>8. snapshot'[r] # NoSnapshot
    BY <2>5, VotingAssumption
  <2>9. anchor'[r] # NoAnchor
    <3>1. anchor'[r] \in Anchor
      BY <1>6, <2>2 DEF AcceptAnchorEvidence, ConfirmAnchor, TypeOK, Anchor
    <3> QED
      BY <3>1, VotingAssumption
  <2> QED
    BY <2>1, <2>4, <2>5, <2>6, <2>7, <2>8, <2>9
<1>7. ASSUME NEW r \in Rounds, NEW t \in Txs, NEW votes \in SUBSET Requests,
             Publish(t, r, votes)
      PROVE  AnchorInv'
  BY <1>7, <1>1 DEF Publish
<1>8. ASSUME NEW r \in Rounds, ClockAdvances(r)
      PROVE  AnchorInv'
  BY <1>8, <1>1 DEF ClockAdvances
<1>9. ASSUME NEW q \in Requests, InsertVote(q) \/ \E b \in Ballot : CheckVote(q, b)
      PROVE  AnchorInv'
  BY <1>9, <1>1 DEF InsertVote, CheckVote
<1> QED
  BY <1>1, <1>2, <1>3, <1>4, <1>5, <1>6, <1>7, <1>8, <1>9 DEF Next, vars
-----------------------------------------------------------------------------
(* What is published is never published again, and an anchor is confirmed  *)
(* only by what is published (publish, accept_anchor_evidence).            *)
LEMMA ChainStep ==
  TypeOK /\ AnchorInv /\ ChainInv /\ [Next]_vars => ChainInv'
<1> SUFFICES ASSUME TypeOK, AnchorInv, ChainInv, [Next]_vars
             PROVE  ChainInv'
  OBVIOUS
<1> USE DEF ChainInv
<1>1. CASE UNCHANGED <<anchor, published>>
  BY <1>1
<1>2. ASSUME NEW r \in Rounds, CreateAnchorIntent(r)
      PROVE  ChainInv'
  <2>1. anchor'[r].status = "created"
    BY <1>2 DEF CreateAnchorIntent, TypeOK
  <2> QED
    BY <1>2, <2>1 DEF CreateAnchorIntent, TypeOK
<1>3. ASSUME NEW r \in Rounds, NEW t \in Txs, RecordAnchorSubmission(r, t)
      PROVE  ChainInv'
  <2>1. anchor[r] \in Anchor
    BY <1>3 DEF RecordAnchorSubmission, TypeOK
  <2>2. anchor'[r].status = "submitted"
    BY <1>3, <2>1 DEF RecordAnchorSubmission, TypeOK, Anchor
  <2> QED
    BY <1>3, <2>2 DEF RecordAnchorSubmission, TypeOK
<1>4. ASSUME NEW r \in Rounds, NEW t \in Txs, AcceptAnchorEvidence(r, t)
      PROVE  ChainInv'
  <2>1. /\ anchor[r] \in Anchor
        /\ anchor[r].tx = t
        /\ published[t] # NoEvent
        /\ published[t].round = r
        /\ published[t].votes = anchor[r].votes
    BY <1>4 DEF AcceptAnchorEvidence, MatchesIntent, EventOfTx, TypeOK
  <2>2. anchor'[r].tx = t /\ anchor'[r].votes = anchor[r].votes
    BY <1>4, <2>1 DEF AcceptAnchorEvidence, ConfirmAnchor, TypeOK, Anchor
  <2>3. published' = published /\ \A s \in Rounds \ {r} : anchor'[s] = anchor[s]
    BY <1>4 DEF AcceptAnchorEvidence, ConfirmAnchor, TypeOK
  <2> QED
    BY <2>1, <2>2, <2>3
<1>5. ASSUME NEW r \in Rounds, NEW t \in Txs, NEW votes \in SUBSET Requests,
             Publish(t, r, votes)
      PROVE  ChainInv'
  <2>1. /\ published[t] = NoEvent
        /\ anchor' = anchor
        /\ \A x \in Txs \ {t} : published'[x] = published[x]
    BY <1>5 DEF Publish, TypeOK
  <2> QED
    BY <2>1
<1>6. ASSUME NEW r \in Rounds,
             \/ CreateRound(r) \/ OpenRound(r) \/ CloseRound(r)
             \/ CreateSnapshot(r) \/ ClockAdvances(r)
      PROVE  ChainInv'
  BY <1>6, <1>1 DEF CreateRound, OpenRound, CloseRound, CreateSnapshot,
     ClockAdvances
<1>7. ASSUME NEW q \in Requests, InsertVote(q) \/ \E b \in Ballot : CheckVote(q, b)
      PROVE  ChainInv'
  BY <1>7, <1>1 DEF InsertVote, CheckVote
<1> QED
  BY <1>1, <1>2, <1>3, <1>4, <1>5, <1>6, <1>7 DEF Next, vars
-----------------------------------------------------------------------------
(* The inductive invariant.                                                *)
THEOREM VotingInvariant == Spec => []VotingInv
<1>1. Init => VotingInv
  BY TypeInit DEF Init, VotingInv, AnchorInv, AnchorOf, ChainInv
<1>2. VotingInv /\ [Next]_vars => VotingInv'
  BY TypeStep, AnchorStep, ChainStep DEF VotingInv
<1> QED
  BY <1>1, <1>2, PTL DEF Spec

(* The rows of rounds, snapshots and anchors never disagree about what is  *)
(* anchored (accept_anchor_evidence).                                      *)
THEOREM VotingRowsAgree == Spec => []AnchorRowsAgree
<1>1. VotingInv => AnchorRowsAgree
  BY DEF VotingInv, AnchorInv, AnchorOf, AnchorRowsAgree
<1> QED
  BY <1>1, VotingInvariant, PTL

(* An anchored round is on the ledger, with the votes of its snapshot      *)
(* (accept_anchor_evidence, publish).                                      *)
THEOREM VotingAnchoredIsOnChain == Spec => []AnchoredIsOnChain
<1>1. ASSUME VotingInv, NEW r \in Rounds, round[r] = "anchored"
      PROVE  \E t \in Txs :
                /\ published[t] = [round |-> r, votes |-> snapshot[r].votes]
                /\ anchor[r].tx = t
  <2>1. /\ anchor[r] # NoAnchor
        /\ anchor[r].status = "confirmed"
        /\ anchor[r].votes = snapshot[r].votes
    BY <1>1 DEF VotingInv, AnchorInv, AnchorOf
  <2>2. /\ anchor[r].tx \in Txs
        /\ published[anchor[r].tx] \in PublishEvent
        /\ published[anchor[r].tx].round = r
        /\ published[anchor[r].tx].votes = snapshot[r].votes
    BY <1>1, <2>1 DEF VotingInv, ChainInv, TypeOK
  <2>3. published[anchor[r].tx] = [round |-> r, votes |-> snapshot[r].votes]
    BY <2>2 DEF PublishEvent
  <2> QED
    BY <2>2, <2>3
<1>2. VotingInv => AnchoredIsOnChain
  BY <1>1 DEF AnchoredIsOnChain
<1> QED
  BY <1>2, VotingInvariant, PTL

(* A snapshot is taken of the votes of the round and then kept             *)
(* (create_snapshot).                                                      *)
LEMMA SnapshotStep ==
  ASSUME VotingInv, VotingInv', [Next]_vars
  PROVE  \A r \in Rounds :
            /\ snapshot[r] # NoSnapshot =>
                    /\ snapshot'[r] # NoSnapshot
                    /\ snapshot'[r].votes = snapshot[r].votes
            /\ snapshot[r] = NoSnapshot =>
                    \/ snapshot'[r] = NoSnapshot
                    \/ snapshot'[r].votes = Votes(r)
<1> DEFINE Kept(r) == /\ snapshot[r] # NoSnapshot =>
                            /\ snapshot'[r] # NoSnapshot
                            /\ snapshot'[r].votes = snapshot[r].votes
                      /\ snapshot[r] = NoSnapshot =>
                            \/ snapshot'[r] = NoSnapshot
                            \/ snapshot'[r].votes = Votes(r)
<1>1. \A r \in Rounds : Kept(r)
  <2> USE DEF VotingInv, TypeOK
  <2>1. CASE UNCHANGED snapshot
    BY <2>1
  <2>2. ASSUME NEW r \in Rounds, CreateSnapshot(r)
        PROVE  \A s \in Rounds : Kept(s)
    BY <2>2 DEF CreateSnapshot
  <2>3. ASSUME NEW r \in Rounds, CreateAnchorIntent(r)
        PROVE  \A s \in Rounds : Kept(s)
    <3>1. snapshot'[r].votes = snapshot[r].votes
      BY <2>3 DEF CreateAnchorIntent, Snapshot
    <3>2. snapshot[r] \in Snapshot
      BY <2>3 DEF CreateAnchorIntent
    <3>3. snapshot'[r] \in Snapshot
      BY <2>3, <3>2 DEF CreateAnchorIntent, Snapshot
    <3>4. snapshot'[r] # NoSnapshot
      BY <3>3, VotingAssumption
    <3> QED
      BY <2>3, <3>1, <3>4 DEF CreateAnchorIntent
  <2>4. ASSUME NEW r \in Rounds, NEW t \in Txs, AcceptAnchorEvidence(r, t)
        PROVE  \A s \in Rounds : Kept(s)
    <3>1. snapshot[r] \in Snapshot
      BY <2>4 DEF AcceptAnchorEvidence, MatchesIntent, EventOfTx, AnchorInv,
         AnchorOf
    <3>2. snapshot'[r].votes = snapshot[r].votes /\ snapshot'[r] \in Snapshot
      BY <2>4, <3>1 DEF AcceptAnchorEvidence, ConfirmAnchor, Snapshot
    <3>3. snapshot'[r] # NoSnapshot /\ snapshot[r] # NoSnapshot
      BY <3>1, <3>2, VotingAssumption
    <3>4. ASSUME NEW s \in Rounds, s # r
          PROVE  snapshot'[s] = snapshot[s]
      BY <2>4, <3>4 DEF AcceptAnchorEvidence, ConfirmAnchor
    <3> QED
      BY <3>2, <3>3, <3>4
  <2>5. ASSUME NEW r \in Rounds, NEW t \in Txs, NEW votes \in SUBSET Requests,
               Publish(t, r, votes)
        PROVE  UNCHANGED snapshot
    BY <2>5 DEF Publish
  <2>6. ASSUME NEW r \in Rounds,
               \/ CreateRound(r) \/ OpenRound(r) \/ CloseRound(r)
               \/ ClockAdvances(r)
               \/ \E t \in Txs : RecordAnchorSubmission(r, t)
        PROVE  UNCHANGED snapshot
    BY <2>6 DEF CreateRound, OpenRound, CloseRound, ClockAdvances,
       RecordAnchorSubmission
  <2>7. ASSUME NEW q \in Requests,
               InsertVote(q) \/ \E b \in Ballot : CheckVote(q, b)
        PROVE  UNCHANGED snapshot
    BY <2>7 DEF InsertVote, CheckVote
  <2> HIDE DEF Kept
  <2> QED
    BY <2>1, <2>2, <2>3, <2>4, <2>5, <2>6, <2>7 DEF Next, vars
<1> QED
  BY <1>1

(* A snapshot, once taken, is of the same votes for ever (create_snapshot, *)
(* UNIQUE (round_id)).                                                     *)
THEOREM VotingSnapshotIsKept == Spec => SnapshotIsKept
<1> DEFINE Kept(r) == snapshot[r] # NoSnapshot =>
                        /\ snapshot'[r] # NoSnapshot
                        /\ snapshot'[r].votes = snapshot[r].votes
<1>1. VotingInv /\ VotingInv' /\ [Next]_vars
        => [\A r \in Rounds : Kept(r)]_vars
  BY SnapshotStep
<1> QED
  BY <1>1, VotingInvariant, PTL DEF Spec, SnapshotIsKept
-----------------------------------------------------------------------------
(* Of several requests of one voter, however they interleave, at most one  *)
(* becomes a vote (cast_vote, UNIQUE (round_id, voter_user_id)).           *)
THEOREM VotingOneVotePerVoter == Spec => []OneVotePerVoter
<1>1. Init => OneVotePerVoter
  BY DEF Init, OneVotePerVoter, Votes
<1>2. VotingInv /\ OneVotePerVoter /\ [Next]_vars => OneVotePerVoter'
  <2> SUFFICES ASSUME VotingInv, OneVotePerVoter, [Next]_vars
               PROVE  OneVotePerVoter'
    OBVIOUS
  <2> USE DEF VotingInv, TypeOK, OneVotePerVoter, Votes
  <2>1. CASE UNCHANGED <<request, ballot>>
    BY <2>1
  <2>2. ASSUME NEW q \in Requests, NEW b \in Ballot, CheckVote(q, b)
        PROVE  OneVotePerVoter'
    BY <2>2 DEF CheckVote
  <2>3. ASSUME NEW q \in Requests, InsertVote(q)
        PROVE  OneVotePerVoter'
    BY <2>3 DEF InsertVote, HasVoted
  <2>4. ASSUME NEW r \in Rounds, NEW t \in Txs,
               \/ RecordAnchorSubmission(r, t) \/ AcceptAnchorEvidence(r, t)
               \/ \E votes \in SUBSET Requests : Publish(t, r, votes)
        PROVE  UNCHANGED <<request, ballot>>
    BY <2>4 DEF RecordAnchorSubmission, AcceptAnchorEvidence, Publish
  <2>5. ASSUME NEW r \in Rounds,
               \/ CreateRound(r) \/ OpenRound(r) \/ CloseRound(r)
               \/ CreateSnapshot(r) \/ CreateAnchorIntent(r)
               \/ ClockAdvances(r)
        PROVE  UNCHANGED <<request, ballot>>
    BY <2>5 DEF CreateRound, OpenRound, CloseRound, CreateSnapshot,
       CreateAnchorIntent, ClockAdvances
  <2> HIDE DEF OneVotePerVoter
  <2> QED
    BY <2>1, <2>2, <2>3, <2>4, <2>5 DEF Next, vars
<1> QED
  BY <1>1, <1>2, VotingInvariant, PTL DEF Spec
-----------------------------------------------------------------------------
(* Merkle trees.                                                           *)

(* A set of natural numbers has a least element.                           *)
LEMMA LeastElement ==
  ASSUME NEW S \in SUBSET Nat, S # {}
  PROVE  \E k \in S : \A j \in S : k <= j
<1> DEFINE Less == OpToRel(<, Nat)
<1>1. IsWellFoundedOn(Less, Nat)
  BY NatLessThanWellFounded
<1>2. \A j, k \in Nat : j < k => <<j, k>> \in Less
  BY DEF OpToRel
<1> HIDE DEF Less
<1>3. \E k \in S : \A j \in S : ~(<<j, k>> \in Less)
  BY <1>1, WFMin
<1>4. PICK k \in S : \A j \in S : ~(<<j, k>> \in Less)
  BY <1>3
<1>5. ASSUME NEW j \in S
      PROVE  k <= j
  <2>1. j \in Nat /\ k \in Nat
    OBVIOUS
  <2>2. ~(j < k)
    BY <1>2, <1>4, <2>1
  <2> QED
    BY <2>1, <2>2
<1> QED
  BY <1>5

(* Induction on the numbers up to n.  Good is the set of those for which   *)
(* the statement holds.                                                    *)
LEMMA InductionUpTo ==
  ASSUME NEW n \in Nat, NEW Good, 0 \in Good,
         \A k \in 1..n : k - 1 \in Good => k \in Good
  PROVE  \A k \in 0..n : k \in Good
<1> DEFINE Bad == {k \in 0..n : k \notin Good}
<1> SUFFICES ASSUME Bad # {}
             PROVE  FALSE
  OBVIOUS
<1>1. Bad \in SUBSET Nat
  OBVIOUS
<1> HIDE DEF Bad
<1>2. PICK k \in Bad : \A j \in Bad : k <= j
  BY <1>1, LeastElement
<1>3. k \in 1..n /\ k \in Nat
  BY DEF Bad
<1>4. k - 1 \notin Bad
  BY <1>2, <1>3
<1> QED
  BY <1>3, <1>4 DEF Bad

(* A function on the first n numbers is a sequence of length n.            *)
LEMMA LengthOfFunction ==
  ASSUME NEW n \in Nat, NEW s, s = [j \in 1..n |-> s[j]]
  PROVE  Len(s) = n
<1>1. s \in [1..n -> {s[j] : j \in 1..n}]
  OBVIOUS
<1>2. s \in Seq({s[j] : j \in 1..n})
  BY <1>1
<1> QED
  BY <1>1, <1>2
-----------------------------------------------------------------------------
(* A level of a tree, or its leaves: a function on the first numbers.      *)
IsLevel(s) == Len(s) \in Nat /\ s = [j \in 1..Len(s) |-> s[j]]

LEMMA NextLevelHalves ==
  ASSUME NEW s, IsLevel(s)
  PROVE  /\ IsLevel(NextLevel(s))
         /\ Len(NextLevel(s)) = (Len(s) + 1) \div 2
         /\ \A j \in 1..Len(NextLevel(s)) :
                NextLevel(s)[j] =
                    <<s[2 * j - 1],
                      IF 2 * j <= Len(s) THEN s[2 * j] ELSE s[2 * j - 1]>>
<1> DEFINE n == (Len(s) + 1) \div 2
           t == NextLevel(s)
<1>1. n \in Nat
  BY DEF IsLevel
<1>2. t = [j \in 1..n |->
            <<s[2 * j - 1],
              IF 2 * j <= Len(s) THEN s[2 * j] ELSE s[2 * j - 1]>>]
  BY DEF NextLevel, HashNode
<1> HIDE DEF n, t
<1>3. t = [j \in 1..n |-> t[j]]
  BY <1>2
<1>4. Len(t) = n
  BY <1>1, <1>3, LengthOfFunction
<1> QED
  BY <1>1, <1>2, <1>3, <1>4 DEF n, t, IsLevel

(* The levels of a tree, by the equation that defines them.                *)
AreLevels(f, leaves, n) ==
    f = [k \in 0..n |-> IF k = 0 THEN leaves ELSE NextLevel(f[k - 1])]

LEMMA LevelsExist ==
  ASSUME NEW leaves, NEW n \in Nat
  PROVE  \E f : AreLevels(f, leaves, n)
<1> DEFINE Good == {m \in Nat : \E f : AreLevels(f, leaves, m)}
<1>1. 0 \in Good
  <2>1. AreLevels([k \in 0..0 |-> leaves], leaves, 0)
    BY DEF AreLevels
  <2> QED
    BY <2>1
<1>2. ASSUME NEW m \in 1..n, m - 1 \in Good
      PROVE  m \in Good
  <2>1. PICK f : AreLevels(f, leaves, m - 1)
    BY <1>2
  <2> DEFINE g == [k \in 0..m |->
                    IF k = m THEN NextLevel(f[m - 1]) ELSE f[k]]
  <2>2. \A k \in 0..(m - 1) : g[k] = f[k]
    OBVIOUS
  <2>3. \A k \in 0..(m - 1) :
            f[k] = IF k = 0 THEN leaves ELSE NextLevel(f[k - 1])
    BY <2>1 DEF AreLevels
  <2>4. ASSUME NEW k \in 0..m
        PROVE  g[k] = IF k = 0 THEN leaves ELSE NextLevel(g[k - 1])
    <3>1. CASE k = m
      <4>1. g[k] = NextLevel(f[m - 1]) /\ g[m - 1] = f[m - 1] /\ k # 0
        BY <3>1, <2>2
      <4> QED
        BY <3>1, <4>1
    <3>2. CASE k # m
      <4>1. k \in 0..(m - 1) /\ (k # 0 => k - 1 \in 0..(m - 1))
        BY <3>2
      <4>2. k # 0 => g[k - 1] = f[k - 1]
        BY <4>1, <2>2
      <4> HIDE DEF g
      <4> QED
        BY <4>1, <4>2, <2>2, <2>3
    <3> QED
      BY <3>1, <3>2
  <2>5. g = [k \in 0..m |-> g[k]]
    OBVIOUS
  <2> HIDE DEF g
  <2>6. AreLevels(g, leaves, m)
    BY <2>4, <2>5, Zenon DEF AreLevels
  <2> QED
    BY <2>6
<1> HIDE DEF Good
<1>3. n \in Good
  BY <1>1, <1>2, InductionUpTo
<1> QED
  BY <1>3 DEF Good

LEMMA LevelsAre ==
  ASSUME NEW leaves, Len(leaves) \in Nat
  PROVE  /\ Levels(leaves)[0] = leaves
         /\ \A k \in 1..Len(leaves) :
                Levels(leaves)[k] = NextLevel(Levels(leaves)[k - 1])
<1>1. Levels(leaves) = CHOOSE f : AreLevels(f, leaves, Len(leaves))
  BY Zenon DEF Levels, AreLevels
<1>2. AreLevels(Levels(leaves), leaves, Len(leaves))
  BY <1>1, LevelsExist
<1> QED
  BY <1>2 DEF AreLevels
-----------------------------------------------------------------------------
LEMMA Halves ==
  ASSUME NEW m \in Nat
  PROVE  /\ (m + 1) \div 2 \in Nat
         /\ m >= 1 => (m + 1) \div 2 >= 1
         /\ m = 1 => (m + 1) \div 2 = 1
         /\ m > 1 => (m + 1) \div 2 <= m - 1
         /\ \A p \in 1..m : (p + 1) \div 2 \in 1..((m + 1) \div 2)
  OBVIOUS

(* Levels shrink until one node is left.                                   *)
LEMMA LevelsShrink ==
  ASSUME NEW leaves, IsLevel(leaves), Len(leaves) >= 1
  PROVE  \A k \in 0..Len(leaves) :
            /\ IsLevel(Levels(leaves)[k])
            /\ Len(Levels(leaves)[k]) >= 1
            /\ \/ Len(Levels(leaves)[k]) = 1
               \/ Len(Levels(leaves)[k]) <= Len(leaves) - k
<1> DEFINE n == Len(leaves)
           L == Levels(leaves)
           Shrunk(k) == /\ IsLevel(L[k])
                        /\ Len(L[k]) >= 1
                        /\ Len(L[k]) = 1 \/ Len(L[k]) <= n - k
           Good == {k \in 0..n : Shrunk(k)}
<1>1. n \in Nat
  BY DEF IsLevel
<1>2. L[0] = leaves /\ \A k \in 1..n : L[k] = NextLevel(L[k - 1])
  BY <1>1, LevelsAre
<1> HIDE DEF L, n
<1>3. 0 \in Good
  <2>1. Shrunk(0)
    BY <1>1, <1>2 DEF n
  <2> QED
    BY <1>1, <2>1
<1>4. ASSUME NEW k \in 1..n, k - 1 \in Good
      PROVE  k \in Good
  <2>1. /\ IsLevel(L[k - 1]) /\ Len(L[k - 1]) >= 1
        /\ Len(L[k - 1]) = 1 \/ Len(L[k - 1]) <= n - (k - 1)
    BY <1>4
  <2>2. /\ IsLevel(L[k])
        /\ Len(L[k]) = (Len(L[k - 1]) + 1) \div 2
    BY <1>2, <2>1, NextLevelHalves
  <2>3. Len(L[k - 1]) \in Nat
    BY <2>1 DEF IsLevel
  <2>4. /\ Len(L[k]) >= 1
        /\ Len(L[k]) = 1 \/ Len(L[k]) <= n - k
    <3>1. ASSUME NEW a \in Nat, a >= 1, a = 1 \/ a <= n - (k - 1)
          PROVE  /\ (a + 1) \div 2 >= 1
                 /\ (a + 1) \div 2 = 1 \/ (a + 1) \div 2 <= n - k
      BY <1>1, <3>1, Halves
    <3> QED
      BY <2>1, <2>2, <2>3, <3>1
  <2>5. Shrunk(k)
    BY <2>2, <2>4
  <2> QED
    BY <1>1, <2>5
<1> HIDE DEF Good
<1>5. \A k \in 0..n : k \in Good
  BY <1>1, <1>3, <1>4, InductionUpTo
<1> QED
  BY <1>5 DEF Good, n, L

(* So the height of a tree is what its definition says.                    *)
LEMMA HeightIs ==
  ASSUME NEW leaves, IsLevel(leaves), Len(leaves) >= 1
  PROVE  /\ Height(leaves) \in 0..Len(leaves)
         /\ Len(Levels(leaves)[Height(leaves)]) = 1
<1> DEFINE n == Len(leaves)
           L == Levels(leaves)
           Single == {k \in 0..n : Len(L[k]) = 1}
<1>1. n \in Nat /\ \A k \in 0..n : Len(L[k]) \in Nat /\ Len(L[k]) >= 1
  BY LevelsShrink DEF IsLevel
<1>2. Len(L[n]) = 1
  <2>1. n \in 0..n
    BY <1>1
  <2>2. Len(L[n]) = 1 \/ Len(L[n]) <= n - n
    BY <2>1, LevelsShrink
  <2> QED
    BY <1>1, <2>1, <2>2
<1> HIDE DEF n, L
<1>3. Single \in SUBSET Nat /\ n \in Single
  BY <1>1, <1>2
<1>4. PICK k \in Single : \A j \in Single : k <= j
  <2> HIDE DEF Single
  <2> QED
    BY <1>3, LeastElement
<1>5. k \in 0..n /\ Len(L[k]) = 1
  BY <1>4
<1>6. ASSUME NEW j \in 0..(k - 1)
      PROVE  Len(L[j]) > 1
  <2>1. j \in 0..n /\ ~(k <= j)
    BY <1>1, <1>5
  <2>2. j \notin Single
    BY <1>4, <2>1
  <2>3. Len(L[j]) \in Nat /\ Len(L[j]) >= 1 /\ Len(L[j]) # 1
    BY <1>1, <2>1, <2>2
  <2>4. \A a \in Nat : a >= 1 /\ a # 1 => a > 1
    OBVIOUS
  <2> QED
    BY <2>3, <2>4, Zenon
<1> QED
  BY <1>5, <1>6, Zenon DEF Height, n, L
-----------------------------------------------------------------------------
(* The way up from a leaf.                                                 *)
IsPath(f, i, n) ==
    f = [k \in 0..n |-> IF k = 0 THEN i ELSE (f[k - 1] + 1) \div 2]

LEMMA PathExists ==
  ASSUME NEW i, NEW n \in Nat
  PROVE  \E f : IsPath(f, i, n)
<1> DEFINE Good == {m \in Nat : \E f : IsPath(f, i, m)}
<1>1. 0 \in Good
  <2>1. IsPath([k \in 0..0 |-> i], i, 0)
    BY DEF IsPath
  <2> QED
    BY <2>1
<1>2. ASSUME NEW m \in 1..n, m - 1 \in Good
      PROVE  m \in Good
  <2>1. PICK f : IsPath(f, i, m - 1)
    BY <1>2
  <2> DEFINE g == [k \in 0..m |->
                    IF k = m THEN (f[m - 1] + 1) \div 2 ELSE f[k]]
  <2>2. \A k \in 0..(m - 1) : g[k] = f[k]
    OBVIOUS
  <2>3. \A k \in 0..(m - 1) :
            f[k] = IF k = 0 THEN i ELSE (f[k - 1] + 1) \div 2
    BY <2>1 DEF IsPath
  <2>4. ASSUME NEW k \in 0..m
        PROVE  g[k] = IF k = 0 THEN i ELSE (g[k - 1] + 1) \div 2
    <3>1. CASE k = m
      <4>1. g[k] = (f[m - 1] + 1) \div 2 /\ g[m - 1] = f[m - 1] /\ k # 0
        BY <3>1, <2>2
      <4> HIDE DEF g
      <4> QED
        BY <3>1, <4>1
    <3>2. CASE k # m
      <4>1. k \in 0..(m - 1) /\ (k # 0 => k - 1 \in 0..(m - 1))
        BY <3>2
      <4>2. k # 0 => g[k - 1] = f[k - 1]
        BY <4>1, <2>2
      <4> HIDE DEF g
      <4> QED
        BY <4>1, <4>2, <2>2, <2>3
    <3> QED
      BY <3>1, <3>2
  <2>5. g = [k \in 0..m |-> g[k]]
    OBVIOUS
  <2> HIDE DEF g
  <2>6. IsPath(g, i, m)
    BY <2>4, <2>5, Zenon DEF IsPath
  <2> QED
    BY <2>6
<1> HIDE DEF Good
<1>3. n \in Good
  BY <1>1, <1>2, InductionUpTo
<1> QED
  BY <1>3 DEF Good

LEMMA PathIs ==
  ASSUME NEW leaves, NEW i, Height(leaves) \in Nat
  PROVE  /\ Path(leaves, i)[0] = i
         /\ \A k \in 1..Height(leaves) :
                Path(leaves, i)[k] = (Path(leaves, i)[k - 1] + 1) \div 2
<1>1. Path(leaves, i) = CHOOSE f : IsPath(f, i, Height(leaves))
  BY Zenon DEF Path, IsPath
<1>2. IsPath(Path(leaves, i), i, Height(leaves))
  BY <1>1, PathExists
<1> QED
  BY <1>2 DEF IsPath

(* It stays within the levels.                                             *)
LEMMA PathWithinLevels ==
  ASSUME NEW leaves, IsLevel(leaves), NEW i \in 1..Len(leaves)
  PROVE  \A k \in 0..Height(leaves) :
            Path(leaves, i)[k] \in 1..Len(Levels(leaves)[k])
<1> DEFINE h == Height(leaves)
           L == Levels(leaves)
           at == Path(leaves, i)
           Good == {k \in 0..h : at[k] \in 1..Len(L[k])}
<1>1. /\ Len(leaves) \in Nat /\ Len(leaves) >= 1
      /\ h \in 0..Len(leaves) /\ h \in Nat
  BY HeightIs DEF IsLevel
<1>2. /\ L[0] = leaves
      /\ \A k \in 1..h : /\ IsLevel(L[k - 1])
                         /\ L[k] = NextLevel(L[k - 1])
  <2>1. \A k \in 1..h : k \in 1..Len(leaves) /\ k - 1 \in 0..Len(leaves)
    BY <1>1
  <2> HIDE DEF h
  <2> QED
    BY <1>1, <2>1, LevelsAre, LevelsShrink
<1>3. at[0] = i /\ \A k \in 1..h : at[k] = (at[k - 1] + 1) \div 2
  BY <1>1, PathIs
<1> HIDE DEF h, L, at
<1>4. 0 \in Good
  BY <1>1, <1>2, <1>3
<1>5. ASSUME NEW k \in 1..h, k - 1 \in Good
      PROVE  k \in Good
  <2>1. Len(L[k]) = (Len(L[k - 1]) + 1) \div 2 /\ Len(L[k - 1]) \in Nat
    BY <1>2, NextLevelHalves DEF IsLevel
  <2>2. at[k] = (at[k - 1] + 1) \div 2 /\ at[k - 1] \in 1..Len(L[k - 1])
    BY <1>3, <1>5
  <2>3. at[k] \in 1..Len(L[k])
    BY <2>1, <2>2, Halves
  <2> QED
    BY <1>1, <2>3
<1> HIDE DEF Good
<1>6. \A k \in 0..h : k \in Good
  BY <1>1, <1>4, <1>5, InductionUpTo
<1> QED
  BY <1>6 DEF Good, h, L, at

-----------------------------------------------------------------------------
(* What a proof makes of a leaf.                                           *)
HashStep(step, hash) ==
    IF step.position = "left" THEN HashNode(step.hash, hash)
                              ELSE HashNode(hash, step.hash)

AreHashes(f, leaf, proof, n) ==
    f = [k \in 0..n |-> IF k = 0 THEN leaf
                        ELSE HashStep(proof[k], f[k - 1])]

LEMMA HashesExist ==
  ASSUME NEW leaf, NEW proof, NEW n \in Nat
  PROVE  \E f : AreHashes(f, leaf, proof, n)
<1> DEFINE Good == {m \in Nat : \E f : AreHashes(f, leaf, proof, m)}
<1>1. 0 \in Good
  <2>1. AreHashes([k \in 0..0 |-> leaf], leaf, proof, 0)
    BY DEF AreHashes
  <2> QED
    BY <2>1
<1>2. ASSUME NEW m \in 1..n, m - 1 \in Good
      PROVE  m \in Good
  <2>1. PICK f : AreHashes(f, leaf, proof, m - 1)
    BY <1>2
  <2> DEFINE g == [k \in 0..m |->
                    IF k = m THEN HashStep(proof[m], f[m - 1]) ELSE f[k]]
  <2>2. \A k \in 0..(m - 1) : g[k] = f[k]
    OBVIOUS
  <2>3. \A k \in 0..(m - 1) :
            f[k] = IF k = 0 THEN leaf ELSE HashStep(proof[k], f[k - 1])
    BY <2>1 DEF AreHashes
  <2>4. ASSUME NEW k \in 0..m
        PROVE  g[k] = IF k = 0 THEN leaf ELSE HashStep(proof[k], g[k - 1])
    <3>1. CASE k = m
      <4>1. /\ g[k] = HashStep(proof[m], f[m - 1])
            /\ g[m - 1] = f[m - 1] /\ k # 0
        BY <3>1, <2>2
      <4> HIDE DEF g
      <4> QED
        BY <3>1, <4>1
    <3>2. CASE k # m
      <4>1. k \in 0..(m - 1) /\ (k # 0 => k - 1 \in 0..(m - 1))
        BY <3>2
      <4>2. k # 0 => g[k - 1] = f[k - 1]
        BY <4>1, <2>2
      <4> HIDE DEF g
      <4> QED
        BY <4>1, <4>2, <2>2, <2>3
    <3> QED
      BY <3>1, <3>2
  <2>5. g = [k \in 0..m |-> g[k]]
    OBVIOUS
  <2> HIDE DEF g
  <2>6. AreHashes(g, leaf, proof, m)
    BY <2>4, <2>5, Zenon DEF AreHashes
  <2> QED
    BY <2>6
<1> HIDE DEF Good
<1>3. n \in Good
  BY <1>1, <1>2, InductionUpTo
<1> QED
  BY <1>3 DEF Good

LEMMA HashesAre ==
  ASSUME NEW leaf, NEW proof, Len(proof) \in Nat
  PROVE  /\ Hashes(leaf, proof)[0] = leaf
         /\ \A k \in 1..Len(proof) :
                Hashes(leaf, proof)[k] =
                    HashStep(proof[k], Hashes(leaf, proof)[k - 1])
<1>1. Hashes(leaf, proof) = CHOOSE f : AreHashes(f, leaf, proof, Len(proof))
  BY Zenon DEF Hashes, AreHashes, HashStep
<1>2. AreHashes(Hashes(leaf, proof), leaf, proof, Len(proof))
  BY <1>1, HashesExist
<1> QED
  BY <1>2 DEF AreHashes

(* A proof has a step per level, which shows the sibling on that level.    *)
LEMMA ProofSteps ==
  ASSUME NEW leaves, NEW i, Height(leaves) \in Nat
  PROVE  /\ Len(MerkleProof(leaves, i)) = Height(leaves)
         /\ \A k \in 1..Height(leaves) :
                LET level == Levels(leaves)[k - 1]
                    p == Path(leaves, i)[k - 1]
                IN  /\ MerkleProof(leaves, i)[k].position
                            = IF p % 2 = 1 THEN "right" ELSE "left"
                    /\ MerkleProof(leaves, i)[k].hash
                            = level[Sibling(level, p)]
<1> DEFINE step(k) ==
              LET level == Levels(leaves)[k - 1]
                  p == Path(leaves, i)[k - 1]
              IN  [position |-> IF p % 2 = 1 THEN "right" ELSE "left",
                   hash |-> level[Sibling(level, p)]]
           proof == MerkleProof(leaves, i)
<1>1. proof = [k \in 1..Height(leaves) |-> step(k)]
  BY Zenon DEF MerkleProof
<1>2. \A k \in 1..Height(leaves) : proof[k] = step(k)
  BY <1>1, Zenon
<1>3. Len(proof) = Height(leaves)
  <2>1. proof = [k \in 1..Height(leaves) |-> proof[k]]
    BY <1>1, <1>2, Zenon
  <2> QED
    BY <2>1, LengthOfFunction
<1> HIDE DEF proof
<1> QED
  BY <1>2, <1>3 DEF proof

(* A node and its sibling make the node above them.                        *)
LEMMA SiblingsMakeNode ==
  ASSUME NEW s, IsLevel(s), NEW p \in 1..Len(s)
  PROVE  NextLevel(s)[(p + 1) \div 2] =
            IF p % 2 = 1 THEN <<s[p], s[Sibling(s, p)]>>
                         ELSE <<s[Sibling(s, p)], s[p]>>
<1> DEFINE j == (p + 1) \div 2
<1>1. Len(s) \in Nat
  BY DEF IsLevel
<1>2. j \in 1..Len(NextLevel(s))
  BY <1>1, NextLevelHalves, Halves
<1>3. NextLevel(s)[j] =
        <<s[2 * j - 1], IF 2 * j <= Len(s) THEN s[2 * j] ELSE s[2 * j - 1]>>
  BY <1>2, NextLevelHalves
<1>4. CASE p % 2 = 1
  <2>1. 2 * j - 1 = p /\ 2 * j = p + 1
    BY <1>4
  <2>2. (2 * j <= Len(s)) = (p < Len(s))
    BY <1>1, <2>1
  <2>3. Sibling(s, p) = IF p < Len(s) THEN p + 1 ELSE p
    BY <1>4 DEF Sibling
  <2> HIDE DEF j
  <2> QED
    BY <1>3, <1>4, <2>1, <2>2, <2>3 DEF j
<1>5. CASE p % 2 # 1
  <2>1. 2 * j - 1 = p - 1 /\ 2 * j = p
    BY <1>5
  <2>2. Sibling(s, p) = p - 1
    BY <1>5 DEF Sibling
  <2> HIDE DEF j
  <2> QED
    BY <1>1, <1>3, <1>5, <2>1, <2>2 DEF j
<1> QED
  BY <1>4, <1>5

(* The proof of leaf i goes along its path up to the root.                 *)
LEMMA ProofFollowsPath ==
  ASSUME NEW leaves, IsLevel(leaves), NEW i \in 1..Len(leaves)
  PROVE  /\ Len(MerkleProof(leaves, i)) \in Nat
         /\ VerifyProof(leaves[i], MerkleProof(leaves, i), MerkleRoot(leaves))
<1> DEFINE h == Height(leaves)
           L == Levels(leaves)
           at == Path(leaves, i)
           proof == MerkleProof(leaves, i)
           hash == Hashes(leaves[i], proof)
           Good == {k \in 0..h : hash[k] = L[k][at[k]]}
<1>1. /\ Len(leaves) \in Nat /\ Len(leaves) >= 1
      /\ h \in 0..Len(leaves) /\ h \in Nat
      /\ Len(L[h]) = 1
  BY HeightIs DEF IsLevel
<1>2. /\ L[0] = leaves
      /\ \A k \in 1..h : IsLevel(L[k - 1]) /\ L[k] = NextLevel(L[k - 1])
  <2>1. \A k \in 1..h : k \in 1..Len(leaves) /\ k - 1 \in 0..Len(leaves)
    BY <1>1
  <2> HIDE DEF h
  <2> QED
    BY <1>1, <2>1, LevelsAre, LevelsShrink
<1>3. /\ at[0] = i
      /\ \A k \in 1..h : at[k] = (at[k - 1] + 1) \div 2
      /\ \A k \in 0..h : at[k] \in 1..Len(L[k])
  <2>1. \A k \in 0..h : at[k] \in 1..Len(L[k])
    BY PathWithinLevels, Zenon
  <2> QED
    BY <1>1, <2>1, PathIs
<1>4. /\ Len(proof) = h
      /\ \A k \in 1..h :
            /\ proof[k].position = IF at[k - 1] % 2 = 1 THEN "right" ELSE "left"
            /\ proof[k].hash = L[k - 1][Sibling(L[k - 1], at[k - 1])]
  BY <1>1, ProofSteps
<1>5. /\ hash[0] = leaves[i]
      /\ \A k \in 1..h : hash[k] = HashStep(proof[k], hash[k - 1])
  BY <1>1, <1>4, HashesAre
<1>6. VerifyProof(leaves[i], proof, MerkleRoot(leaves)) = (hash[h] = L[h][1])
  <2>1. leaves # <<>>
    BY <1>1
  <2> QED
    BY <1>4, <2>1 DEF VerifyProof, MerkleRoot
<1> HIDE DEF h, L, at, proof, hash
<1>7. 0 \in Good
  BY <1>1, <1>2, <1>3, <1>5
<1>8. ASSUME NEW k \in 1..h, k - 1 \in Good
      PROVE  k \in Good
  <2> DEFINE s == L[k - 1]
             p == at[k - 1]
  <2>1. hash[k - 1] = s[p]
    BY <1>8
  <2>2. IsLevel(s) /\ L[k] = NextLevel(s) /\ at[k] = (p + 1) \div 2
    BY <1>2, <1>3
  <2>3. p \in 1..Len(s)
    BY <1>1, <1>3
  <2>4. L[k][at[k]] = IF p % 2 = 1 THEN <<s[p], s[Sibling(s, p)]>>
                                   ELSE <<s[Sibling(s, p)], s[p]>>
    BY <2>2, <2>3, SiblingsMakeNode
  <2>5. hash[k] = IF p % 2 = 1 THEN <<hash[k - 1], proof[k].hash>>
                               ELSE <<proof[k].hash, hash[k - 1]>>
    BY <1>4, <1>5 DEF HashStep, HashNode
  <2>6. proof[k].hash = s[Sibling(s, p)]
    BY <1>4
  <2>7. hash[k] = L[k][at[k]]
    BY <2>1, <2>4, <2>5, <2>6
  <2> QED
    BY <1>1, <2>7
<1>9. \A k \in 0..h : k \in Good
  <2> HIDE DEF Good
  <2>1. h \in Nat
    BY <1>1
  <2> QED
    BY <1>7, <1>8, <2>1, InductionUpTo
<1>10. h \in Good /\ at[h] = 1
  <2>1. h \in 0..h
    BY <1>1
  <2>2. at[h] \in 1..1
    BY <1>1, <1>3, <2>1, Zenon
  <2>3. \A a \in 1..1 : a = 1
    OBVIOUS
  <2> HIDE DEF Good
  <2> QED
    BY <1>9, <2>1, <2>2, <2>3, Zenon
<1> QED
  BY <1>1, <1>4, <1>6, <1>10 DEF proof

(* Two leaves that a proof leads to one hash are the same: a step takes    *)
(* nothing of the hash before it away.                                     *)
LEMMA ProofServesOneLeaf ==
  ASSUME NEW x, NEW y, NEW proof, Len(proof) \in Nat,
         Hashes(x, proof)[Len(proof)] = Hashes(y, proof)[Len(proof)]
  PROVE  x = y
<1> DEFINE n == Len(proof)
           f == Hashes(x, proof)
           g == Hashes(y, proof)
           Good == {k \in 0..n : f[k] = g[k] => x = y}
<1>1. /\ n \in Nat
      /\ f[0] = x /\ \A k \in 1..n : f[k] = HashStep(proof[k], f[k - 1])
      /\ g[0] = y /\ \A k \in 1..n : g[k] = HashStep(proof[k], g[k - 1])
  BY HashesAre
<1>2. f[n] = g[n]
  OBVIOUS
<1> HIDE DEF n, f, g
<1>3. 0 \in Good
  BY <1>1
<1>4. ASSUME NEW k \in 1..n, k - 1 \in Good
      PROVE  k \in Good
  <2>1. HashStep(proof[k], f[k - 1]) = HashStep(proof[k], g[k - 1])
            => f[k - 1] = g[k - 1]
    BY DEF HashStep, HashNode
  <2>2. f[k] = g[k] => x = y
    BY <1>1, <1>4, <2>1
  <2> QED
    BY <1>1, <2>2
<1>5. \A k \in 0..n : k \in Good
  <2> HIDE DEF Good
  <2>1. n \in Nat
    BY <1>1
  <2> QED
    BY <1>3, <1>4, <2>1, InductionUpTo
<1> QED
  BY <1>1, <1>2, <1>5

(* In a tree of different leaves, whatever they are and however many, the  *)
(* proof of a leaf leads from it to the root, and from no other leaf.      *)
THEOREM MerkleProofsHold ==
  ASSUME NEW leaves, IsLevel(leaves),
         \A i, j \in 1..Len(leaves) : leaves[i] = leaves[j] => i = j
  PROVE  ProofsHold(leaves)
<1>1. DOMAIN leaves = 1..Len(leaves)
  BY DEF IsLevel
<1>2. ASSUME NEW i \in 1..Len(leaves), NEW j \in 1..Len(leaves)
      PROVE  VerifyProof(leaves[j], MerkleProof(leaves, i), MerkleRoot(leaves))
                <=> i = j
  <2> DEFINE proof == MerkleProof(leaves, i)
             root == MerkleRoot(leaves)
  <2>1. Len(proof) \in Nat /\ VerifyProof(leaves[i], proof, root)
    BY ProofFollowsPath
  <2>2. ASSUME VerifyProof(leaves[j], proof, root)
        PROVE  leaves[i] = leaves[j]
    <3> HIDE DEF proof, root
    <3> QED
      BY <2>1, <2>2, ProofServesOneLeaf DEF VerifyProof
  <2> QED
    BY <2>1, <2>2
<1> QED
  BY <1>1, <1>2 DEF ProofsHold
-----------------------------------------------------------------------------
(* No more requests are made, and no more votes accepted, than can be      *)
(* counted, so the leaves of a snapshot are a sequence.                    *)
Asked == {q \in Requests : request[q] # "idle"}

FiniteVotes ==
    /\ IsFiniteSet(Asked)
    /\ \A r \in Rounds : snapshot[r] # NoSnapshot =>
            /\ snapshot[r].votes \in SUBSET Requests
            /\ IsFiniteSet(snapshot[r].votes)

LEMMA FiniteVotesStep ==
  VotingInv /\ VotingInv' /\ FiniteVotes /\ [Next]_vars => FiniteVotes'
<1> SUFFICES ASSUME VotingInv, VotingInv', FiniteVotes, [Next]_vars
             PROVE  FiniteVotes'
  OBVIOUS
<1>1. IsFiniteSet(Asked')
  <2>1. ASSUME NEW q \in Requests, NEW b \in Ballot, CheckVote(q, b)
        PROVE  IsFiniteSet(Asked')
    <3>1. IsFiniteSet(Asked \union {q})
      BY FS_AddElement DEF FiniteVotes
    <3>2. Asked' \in SUBSET (Asked \union {q})
      BY <2>1 DEF CheckVote, Asked, VotingInv, TypeOK
    <3> QED
      BY <3>1, <3>2, FS_Subset
  <2>2. ASSUME NEW q \in Requests, InsertVote(q)
        PROVE  Asked' \in SUBSET Asked
    BY <2>2 DEF InsertVote, Asked, VotingInv, TypeOK
  <2>3. ASSUME NEW r \in Rounds, NEW t \in Txs,
               \/ RecordAnchorSubmission(r, t) \/ AcceptAnchorEvidence(r, t)
               \/ \E votes \in SUBSET Requests : Publish(t, r, votes)
        PROVE  UNCHANGED request
    BY <2>3 DEF RecordAnchorSubmission, AcceptAnchorEvidence, Publish
  <2>4. ASSUME NEW r \in Rounds,
               \/ CreateRound(r) \/ OpenRound(r) \/ CloseRound(r)
               \/ CreateSnapshot(r) \/ CreateAnchorIntent(r)
               \/ ClockAdvances(r)
        PROVE  UNCHANGED request
    BY <2>4 DEF CreateRound, OpenRound, CloseRound, CreateSnapshot,
       CreateAnchorIntent, ClockAdvances
  <2>5. CASE UNCHANGED request
    BY <2>5 DEF Asked, FiniteVotes
  <2>6. CASE Asked' \in SUBSET Asked
    BY <2>6, FS_Subset DEF FiniteVotes
  <2> QED
    BY <2>1, <2>2, <2>3, <2>4, <2>5, <2>6 DEF Next, vars
<1>2. ASSUME NEW r \in Rounds, snapshot'[r] # NoSnapshot
      PROVE  /\ snapshot'[r].votes \in SUBSET Requests
             /\ IsFiniteSet(snapshot'[r].votes)
  <2>1. snapshot'[r].votes \in SUBSET Requests
    BY <1>2 DEF VotingInv, TypeOK, Snapshot
  <2>2. CASE snapshot[r] # NoSnapshot
    <3>1. snapshot'[r].votes = snapshot[r].votes
      BY <2>2, SnapshotStep
    <3> QED
      BY <2>1, <2>2, <3>1 DEF FiniteVotes
  <2>3. CASE snapshot[r] = NoSnapshot
    <3>1. snapshot'[r].votes = Votes(r)
      BY <1>2, <2>3, SnapshotStep
    <3>2. Votes(r) \in SUBSET Asked
      BY DEF Votes, Asked
    <3> QED
      BY <2>1, <3>1, <3>2, FS_Subset DEF FiniteVotes
  <2> QED
    BY <2>2, <2>3
<1> QED
  BY <1>1, <1>2 DEF FiniteVotes

(* Every snapshot is of finitely many votes: only requests that were made  *)
(* have been counted (create_snapshot).                                    *)
THEOREM VotingFiniteVotes == Spec => []FiniteVotes
<1>1. Init => FiniteVotes
  <2> SUFFICES ASSUME Init
               PROVE  FiniteVotes
    OBVIOUS
  <2>1. Asked = {}
    BY DEF Init, Asked
  <2> QED
    BY <2>1, FS_EmptySet DEF Init, FiniteVotes
<1> QED
  BY <1>1, FiniteVotesStep, VotingInvariant, PTL DEF Spec

(* Every receipt of a snapshot, of however many votes and in whatever      *)
(* order of their hashes, has a proof that leads from its leaf to the      *)
(* root, and this proof serves no other receipt (merkle_root,              *)
(* merkle_proof, verify_proof).                                            *)
THEOREM VotingReceiptVerifies == Spec => []ReceiptVerifies
<1>1. ASSUME NEW n \in 0..MaxLeaves
      PROVE  ProofsHold([i \in 1..n |-> i])
  <2> DEFINE leaves == [i \in 1..n |-> i]
  <2>1. n \in Nat
    BY VotingAssumption
  <2>2. leaves = [i \in 1..n |-> leaves[i]]
    OBVIOUS
  <2>3. \A i, j \in 1..n : leaves[i] = leaves[j] => i = j
    OBVIOUS
  <2> HIDE DEF leaves
  <2>4. Len(leaves) = n
    BY <2>1, <2>2, LengthOfFunction
  <2>5. IsLevel(leaves)
    BY <2>1, <2>2, <2>4 DEF IsLevel
  <2> QED
    BY <2>3, <2>4, <2>5, MerkleProofsHold DEF leaves
<1>2. ASSUME FiniteVotes, NEW r \in Rounds, snapshot[r] # NoSnapshot,
             NEW leaves \in SetToSeqs(snapshot[r].votes)
      PROVE  ProofsHold(leaves)
  <2> DEFINE n == Cardinality(snapshot[r].votes)
  <2>1. n \in Nat
    BY <1>2, FS_CardinalityType DEF FiniteVotes
  <2> HIDE DEF n
  <2>2. /\ leaves \in [1..n -> snapshot[r].votes]
        /\ \A i, j \in 1..n : i # j => leaves[i] # leaves[j]
    BY <1>2 DEF SetToSeqs, n
  <2>3. leaves = [i \in 1..n |-> leaves[i]]
    BY <2>2
  <2>4. Len(leaves) = n
    BY <2>1, <2>3, LengthOfFunction
  <2>5. IsLevel(leaves)
    BY <2>1, <2>3, <2>4 DEF IsLevel
  <2> QED
    BY <2>2, <2>4, <2>5, MerkleProofsHold
<1>3. FiniteVotes => ReceiptVerifies
  BY <1>1, <1>2 DEF ReceiptVerifies, ProofsHoldUpTo
<1> QED
  BY <1>3, VotingFiniteVotes, PTL
-----------------------------------------------------------------------------
(* Markets and settlements: the invariant.                                 *)

(* What a position rests on: its intent, which stays, and evidence that    *)
(* matches it and is that of no other position.                            *)
PositionRows ==
    \A i \in Intents :
        /\ submitting[i] # {} => intent[i] # None
        /\ position[i] # None => intent[i] # None
        /\ (evidence[i] = None) = (position[i] = None)
        /\ evidence[i] # None =>
            /\ EvidenceMatches(i, evidence[i])
            /\ \A j \in Intents : evidence[j] = evidence[i] => j = i

HeldOn(k) == {i \in Intents : position[i] # None /\ intent[i].outcome = k}

TotalsAreHeld ==
    /\ \A k \in Outcomes : totalActive[k] = SumOfAmounts(HeldOn(k))
    /\ SumOfAmounts(Active) <= MaxMarket

MarketInv == MarketTypeOK /\ PositionRows /\ TotalsAreHeld

(* A run has items from the start, of positions that stay; it is confirmed *)
(* when they all are.                                                      *)
Confirmed(t) == item[t].status = "confirmed"

RunRows ==
    \A r \in Runs :
        /\ run[r] = None => Planned(r) = {}
        /\ run[r] # None =>
            /\ Planned(r) # {}
            /\ \A i \in Planned(r) : position[i] # None
            /\ (run[r].status = "confirmed") =
                    (\A i \in Planned(r) : Confirmed(<<r, i>>))

(* An item names a transaction once it is submitted, no other item names   *)
(* it, and evidence has confirmed it only with a payment of its amount to  *)
(* its recipient.                                                          *)
Paid(t) ==
    LET paid == receipt[t]
    IN  /\ paid \in payment[item[t].tx]
        /\ Account[paid[2]] = Account[t[2]]
        /\ item[paid].payout = item[t].payout

ItemRows ==
    \A t \in Items :
        item[t] # None =>
            /\ (item[t].status = "planned") = (item[t].tx = None)
            /\ item[t].tx # None =>
                \A u \in Items :
                    item[u] # None /\ item[u].tx = item[t].tx => u = t
            /\ Confirmed(t) => Paid(t)

PaymentRows ==
    \A x \in Payments : \A u \in payment[x] : item[u] # None

ClosedByRun ==
    \A i \in Intents :
        position[i] \in {"settled", "refunded"} =>
            \E r \in Runs :
                /\ run[r] # None
                /\ run[r].status = "confirmed"
                /\ position[i] = Closed(run[r].kind)

SettlementTypes ==
    /\ run \in [Runs -> Run \union {None}]
    /\ item \in [Items -> Item \union {None}]
    /\ receipt \in [Items -> Items \union {None}]
    /\ payment \in [Payments -> SUBSET Items]

SettlementInv ==
    /\ MarketInv
    /\ SettlementTypes
    /\ RunRows
    /\ ItemRows
    /\ PaymentRows
    /\ ClosedByRun
    /\ PlanIsExact
-----------------------------------------------------------------------------
(* Sums of stakes.                                                         *)
LEMMA AmountsAreNatural ==
  ASSUME NEW set \in SUBSET Intents
  PROVE  /\ IsFiniteSet(set)
         /\ SumOfAmounts(set) \in Nat
         /\ \A sub \in SUBSET set : SumOfAmounts(sub) <= SumOfAmounts(set)
<1>1. IsFiniteSet(set) /\ \A i \in set : Amount[i] \in Nat
  BY MarketsAssumption, FS_Subset
<1>2. SumOfAmounts(set) \in Nat
  BY <1>1, SumType DEF SumOfAmounts
<1>3. \A sub \in SUBSET set : SumOfAmounts(sub) <= SumOfAmounts(set)
  BY <1>1, SumOfPart DEF SumOfAmounts
<1> QED
  BY <1>1, <1>2, <1>3

LEMMA AmountAdded ==
  ASSUME NEW set \in SUBSET Intents, NEW i \in Intents, i \notin set
  PROVE  SumOfAmounts(set \union {i}) = SumOfAmounts(set) + Amount[i]
<1>1. IsFiniteSet(set) /\ \A j \in set \union {i} : Amount[j] \in Int
  BY MarketsAssumption, FS_Subset
<1> QED
  BY <1>1, SumAdd DEF SumOfAmounts

(* Some stake makes the sum positive.                                      *)
LEMMA StakesArePositive ==
  ASSUME NEW set \in SUBSET Intents, set # {}
  PROVE  SumOfAmounts(set) \in Nat /\ SumOfAmounts(set) > 0
<1>1. PICK i \in set : TRUE
  OBVIOUS
<1>2. Amount[i] \in Nat /\ Amount[i] > 0
  BY MarketsAssumption
<1>3. Amount[i] <= SumOfAmounts(set)
  BY AmountsAreNatural, MarketsAssumption, SumOfElement DEF SumOfAmounts
<1> QED
  BY <1>2, <1>3, AmountsAreNatural
-----------------------------------------------------------------------------
(* The market up to its positions.                                         *)
LEMMA MarketInvInit == MarketInit => MarketInv
<1> SUFFICES ASSUME MarketInit
             PROVE  MarketInv
  OBVIOUS
<1> USE DEF MarketInit
<1>1. MarketTypeOK
  BY DEF MarketTypeOK, Statuses
<1>2. PositionRows
  BY DEF PositionRows
<1>3. Active = {} /\ \A k \in Outcomes : HeldOn(k) = {}
  BY MarketsAssumption DEF Active, HeldOn
<1>4. TotalsAreHeld
  BY <1>3, SumEmpty, MarketsAssumption DEF TotalsAreHeld, SumOfAmounts
<1> QED
  BY <1>1, <1>2, <1>4 DEF MarketInv

(* The steps that write the row of one intent.                             *)
LEMMA IntentUpdate ==
  ASSUME intent \in [Intents -> Intent \union {None}], NEW i \in Intents,
         NEW row \in Intent, intent' = [intent EXCEPT ![i] = row],
         intent[i] # None => row.outcome = intent[i].outcome
  PROVE  /\ intent' \in [Intents -> Intent \union {None}]
         /\ \A j \in Intents : intent[j] # None =>
                /\ intent'[j] # None
                /\ intent'[j].outcome = intent[j].outcome
  BY IntentAssumption

(* A step that adds no position and takes nothing back that one rests on   *)
(* keeps the books, whichever positions it closes.                         *)
LEMMA BooksKept ==
  ASSUME MarketInv, MarketTypeOK',
         \A i \in Intents : (position'[i] = None) = (position[i] = None),
         Active' \subseteq Active,
         evidence' = evidence, totalActive' = totalActive,
         \A h \in StakeTxs : stake[h] # None => stake'[h] = stake[h],
         \A i \in Intents : intent[i] # None =>
            intent'[i] # None /\ intent'[i].outcome = intent[i].outcome,
         \A i \in Intents : submitting'[i] # {} => intent'[i] # None
  PROVE  MarketInv'
<1>1. PositionRows'
  <2> SUFFICES ASSUME NEW i \in Intents
               PROVE  /\ position'[i] # None => intent'[i] # None
                      /\ (evidence'[i] = None) = (position'[i] = None)
                      /\ evidence'[i] # None =>
                          /\ EvidenceMatches(i, evidence[i])'
                          /\ \A j \in Intents :
                                evidence'[j] = evidence'[i] => j = i
    BY DEF PositionRows, EvidenceMatches
  <2>1. evidence[i] # None => evidence[i] \in StakeTxs
    BY DEF MarketInv, MarketTypeOK
  <2> QED
    BY <2>1 DEF MarketInv, PositionRows, EvidenceMatches
<1>2. \A k \in Outcomes : HeldOn(k)' = HeldOn(k)
  BY DEF MarketInv, PositionRows, HeldOn
<1>3. SumOfAmounts(Active)' <= MaxMarket
  <2>1. /\ Active \in SUBSET Intents /\ Active' \in SUBSET Active
        /\ SumOfAmounts(Active)' = SumOfAmounts(Active')
    BY DEF Active, SumOfAmounts
  <2>2. /\ SumOfAmounts(Active') <= SumOfAmounts(Active)
        /\ SumOfAmounts(Active) <= MaxMarket
        /\ SumOfAmounts(Active) \in Nat /\ SumOfAmounts(Active') \in Nat
    BY <2>1, AmountsAreNatural DEF MarketInv, TotalsAreHeld
  <2>3. MaxMarket \in Nat
    BY MarketsAssumption
  <2> HIDE DEF Active
  <2> QED
    BY <2>1, <2>2, <2>3
<1>4. TotalsAreHeld'
  BY <1>2, <1>3 DEF MarketInv, TotalsAreHeld, SumOfAmounts
<1> QED
  BY <1>1, <1>4 DEF MarketInv

LEMMA BooksUntouched ==
  ASSUME MarketInv, UNCHANGED marketVars
  PROVE  MarketInv'
<1>1. /\ UNCHANGED <<status, winner, clock, allowed, delayed>>
      /\ UNCHANGED <<intent, submitting, stake>>
      /\ UNCHANGED <<evidence, position, totalActive>>
  BY DEF marketVars, market, staking, holdings
<1>2. MarketTypeOK'
  BY <1>1 DEF MarketInv, MarketTypeOK
<1>3. Active' = Active
  BY <1>1 DEF Active
<1>4. \A i \in Intents : submitting'[i] # {} => intent'[i] # None
  BY <1>1 DEF MarketInv, PositionRows
<1> QED
  BY <1>1, <1>2, <1>3, <1>4, BooksKept

(* Only evidence makes a position.                                         *)
LEMMA EvidenceKeepsBooks ==
  ASSUME MarketInv, NEW i \in Intents, NEW h \in StakeTxs,
         AcceptPositionEvidence(i, h)
  PROVE  MarketInv'
<1> USE DEF AcceptPositionEvidence
<1>1. /\ intent \in [Intents -> Intent \union {None}]
      /\ evidence \in [Intents -> StakeTxs \union {None}]
      /\ position \in [Intents -> {"active", "settled", "refunded", None}]
      /\ totalActive \in [Outcomes -> Nat]
      /\ Amount[i] \in Nat /\ h # None
      /\ MaxMarket \in Nat
  BY MarketsAssumption DEF MarketInv, MarketTypeOK
<1>2. intent[i] \in Intent /\ intent[i].outcome \in Outcomes
  BY <1>1 DEF Intent
<1>3. /\ evidence[i] = None /\ position[i] = None
      /\ \A j \in Intents : evidence[j] # h
  BY DEF FreshEvidence, MarketInv, PositionRows
<1>4. PICK row \in Intent : /\ intent' = [intent EXCEPT ![i] = row]
                            /\ row.outcome = intent[i].outcome
  <2>1. [intent[i] EXCEPT !.status = "confirmed"] \in Intent
    BY <1>2 DEF Intent
  <2> QED
    BY <2>1, <1>1, <1>2 DEF Intent
<1>5. /\ intent' \in [Intents -> Intent \union {None}]
      /\ \A j \in Intents : intent[j] # None =>
            /\ intent'[j] # None
            /\ intent'[j].outcome = intent[j].outcome
  BY <1>1, <1>4, IntentUpdate
<1>6. MarketTypeOK'
  <2>1. evidence' \in [Intents -> StakeTxs \union {None}]
    BY <1>1
  <2>2. position' \in [Intents -> {"active", "settled", "refunded", None}]
    BY <1>1
  <2>3. totalActive' \in [Outcomes -> Nat]
    BY <1>1, <1>2
  <2> QED
    BY <1>5, <2>1, <2>2, <2>3 DEF MarketInv, MarketTypeOK, market
<1>7. /\ position' = [position EXCEPT ![i] = "active"]
      /\ evidence' = [evidence EXCEPT ![i] = h]
      /\ stake' = stake /\ submitting' = submitting
      /\ EvidenceMatches(i, h)
  OBVIOUS
<1>8. PositionRows'
  <2> SUFFICES ASSUME NEW j \in Intents
               PROVE  /\ submitting'[j] # {} => intent'[j] # None
                      /\ position'[j] # None => intent'[j] # None
                      /\ (evidence'[j] = None) = (position'[j] = None)
                      /\ evidence'[j] # None =>
                          /\ EvidenceMatches(j, evidence'[j])
                          /\ \A l \in Intents :
                                evidence'[l] = evidence'[j] => l = j
    BY <1>7 DEF PositionRows, EvidenceMatches
  <2>1. CASE j = i
    BY <1>1, <1>3, <1>5, <1>7, <2>1, MarketsAssumption
       DEF MarketInv, PositionRows
  <2>2. CASE j # i
    BY <1>1, <1>3, <1>5, <1>7, <2>2 DEF MarketInv, PositionRows
  <2> QED
    BY <2>1, <2>2
<1>9. ASSUME NEW k \in Outcomes
      PROVE  totalActive'[k] = SumOfAmounts(HeldOn(k)')
  <2>1. HeldOn(k) \in SUBSET Intents /\ i \notin HeldOn(k)
        /\ totalActive[k] = SumOfAmounts(HeldOn(k))
    BY <1>3 DEF HeldOn, MarketInv, TotalsAreHeld
  <2>2. \A j \in Intents : position[j] # None => intent[j] # None
    BY DEF MarketInv, PositionRows
  <2>3. CASE k = intent[i].outcome
    <3>1. HeldOn(k)' = HeldOn(k) \union {i}
      BY <1>1, <1>3, <1>5, <1>7, <2>2, <2>3, MarketsAssumption DEF HeldOn
    <3>2. totalActive'[k] = totalActive[k] + Amount[i]
      BY <1>1, <1>2, <2>3
    <3> QED
      BY <2>1, <3>1, <3>2, AmountAdded
  <2>4. CASE k # intent[i].outcome
    <3>1. HeldOn(k)' = HeldOn(k)
      BY <1>1, <1>3, <1>5, <1>7, <2>2, <2>4 DEF HeldOn
    <3>2. totalActive'[k] = totalActive[k]
      BY <1>1, <1>2, <2>4
    <3> QED
      BY <2>1, <3>1, <3>2
  <2> QED
    BY <2>3, <2>4
<1>10. SumOfAmounts(Active') <= MaxMarket
  <2>1. Active' = Active \union {i} /\ i \notin Active
        /\ Active \in SUBSET Intents
    BY <1>1, <1>3, <1>7, MarketsAssumption DEF Active
  <2> QED
    BY <2>1, AmountAdded
<1>11. TotalsAreHeld'
  BY <1>9, <1>10 DEF TotalsAreHeld, SumOfAmounts
<1> QED
  BY <1>6, <1>8, <1>11 DEF MarketInv

(* The other steps of the market leave positions and evidence alone.       *)
LEMMA MarketKeepsBooks ==
  ASSUME MarketInv, MarketNext
  PROVE  MarketInv'
<1> USE DEF MarketInv, MarketTypeOK, holdings
<1> DEFINE
      IntentsKept ==
        /\ intent' \in [Intents -> Intent \union {None}]
        /\ \A j \in Intents : intent[j] # None =>
                /\ intent'[j] # None
                /\ intent'[j].outcome = intent[j].outcome
      StatusTyped == /\ status' \in Statuses \union {None}
                     /\ winner' \in Outcomes \union {None}
                     /\ clock' \in {"before", "within", "after"}
                     /\ allowed' \in BOOLEAN
                     /\ delayed' = None \/ delayed' \in
                            [to : Statuses, winner : Outcomes \union {None}]
<1>1. ASSUME StatusTyped, UNCHANGED <<staking, holdings>>
      PROVE  MarketInv'
  <2>1. MarketTypeOK'
    BY <1>1 DEF staking
  <2>2. Active' = Active
    BY <1>1 DEF Active
  <2> QED
    BY <1>1, <2>1, <2>2, BooksKept DEF staking, PositionRows
<1>2. ASSUME IntentsKept, UNCHANGED <<market, clock, allowed, delayed,
                                      holdings>>,
             stake' \in [StakeTxs -> Intents \union {None}],
             \A h \in StakeTxs : stake[h] # None => stake'[h] = stake[h],
             submitting' \in [Intents -> SUBSET StakeTxs],
             \A i \in Intents : submitting'[i] # {} => intent'[i] # None
      PROVE  MarketInv'
  <2>1. MarketTypeOK'
    BY <1>2 DEF market
  <2>2. Active' = Active
    BY <1>2 DEF Active
  <2> QED
    BY <1>2, <2>1, <2>2, BooksKept
<1>3. /\ \A j \in Intents : submitting[j] # {} => intent[j] # None
      /\ intent \in [Intents -> Intent \union {None}]
  BY DEF PositionRows
<1>4. CASE CreateMarket
  BY <1>1, <1>4 DEF CreateMarket, Statuses
<1>5. CASE TimePasses
  BY <1>1, <1>5 DEF TimePasses, market
<1>6. ASSUME NEW decision \in {"allow", "deny"},
             RecordPolicyDecision(decision)
      PROVE  MarketInv'
  BY <1>1, <1>6 DEF RecordPolicyDecision, market
<1>7. ASSUME NEW target \in Statuses, NEW k \in Outcomes \union {None},
             TransitionMarket(target, k) \/ ReadTransition(target, k)
      PROVE  MarketInv'
  BY <1>1, <1>7 DEF TransitionMarket, ReadTransition, WriteStatus, market
<1>8. CASE WriteTransition
  BY <1>1, <1>8 DEF WriteTransition, WriteStatus
<1>9. ASSUME NEW i \in Intents, NEW k \in Outcomes, CheckStakeIntent(i, k)
      PROVE  MarketInv'
  <2> DEFINE row == [status |-> "checked", outcome |-> k, tx |-> None]
  <2>1. row \in Intent /\ intent' = [intent EXCEPT ![i] = row]
        /\ intent[i] = None
    BY <1>9 DEF CheckStakeIntent, Intent
  <2> HIDE DEF row
  <2>2. IntentsKept
    BY <1>3, <2>1, IntentUpdate
  <2> QED
    BY <1>2, <1>3, <1>9, <2>2 DEF CheckStakeIntent
<1>10. ASSUME NEW i \in Intents, InsertStakeIntent(i) \/ ExpireIntent(i)
       PROVE  MarketInv'
  <2>1. intent[i] # None /\ intent[i] \in Intent
    BY <1>3, <1>10 DEF InsertStakeIntent, ExpireIntent
  <2>2. PICK s \in {"awaiting_signature", "expired"} :
            intent' = [intent EXCEPT ![i] = [intent[i] EXCEPT !.status = s]]
    BY <1>10 DEF InsertStakeIntent, ExpireIntent
  <2>3. /\ [intent[i] EXCEPT !.status = s] \in Intent
        /\ [intent[i] EXCEPT !.status = s].outcome = intent[i].outcome
    BY <2>1 DEF Intent
  <2>4. IntentsKept
    BY <1>3, <2>2, <2>3, IntentUpdate
  <2> QED
    BY <1>2, <1>3, <1>10, <2>4 DEF InsertStakeIntent, ExpireIntent
<1>11. ASSUME NEW i \in Intents, NEW h \in StakeTxs, SendStake(i, h)
       PROVE  MarketInv'
  <2>1. stake' = [stake EXCEPT ![h] = i] /\ stake[h] = None
        /\ UNCHANGED <<intent, submitting>>
    BY <1>11 DEF SendStake
  <2>2. stake' \in [StakeTxs -> Intents \union {None}]
    BY <2>1
  <2>3. \A g \in StakeTxs : stake[g] # None => stake'[g] = stake[g]
    BY <2>1
  <2> QED
    BY <1>2, <1>3, <1>11, <2>1, <2>2, <2>3 DEF SendStake
<1>12. ASSUME NEW i \in Intents, NEW h \in StakeTxs, ReadSubmission(i, h)
       PROVE  MarketInv'
  BY <1>2, <1>3, <1>12 DEF ReadSubmission
<1>13. ASSUME NEW i \in Intents, NEW h \in StakeTxs, WriteSubmission(i, h)
       PROVE  MarketInv'
  <2>1. h \in submitting[i]
        /\ submitting' = [submitting EXCEPT ![i] = @ \ {h}]
    BY <1>13 DEF WriteSubmission
  <2>2. intent[i] # None /\ intent[i] \in Intent
    BY <1>3, <2>1
  <2>3. IntentsKept
    <3>1. CASE intent' = intent
      BY <1>3, <3>1
    <3>2. CASE intent' # intent
      <4> DEFINE row == [intent[i] EXCEPT !.status = "submitted", !.tx = h]
      <4>1. row \in Intent /\ row.outcome = intent[i].outcome
            /\ intent' = [intent EXCEPT ![i] = row]
        BY <1>3, <1>13, <2>2, <3>2 DEF WriteSubmission, Intent
      <4> HIDE DEF row
      <4> QED
        BY <1>3, <4>1, IntentUpdate
    <3> QED
      BY <3>1, <3>2
  <2>4. \A j \in Intents : submitting'[j] # {} => intent'[j] # None
    BY <1>3, <2>1, <2>3
  <2>5. UNCHANGED <<market, clock, allowed, delayed, holdings, stake>>
    BY <1>13 DEF WriteSubmission
  <2>6. submitting' \in [Intents -> SUBSET StakeTxs]
    BY <2>1
  <2>7. /\ stake' \in [StakeTxs -> Intents \union {None}]
        /\ \A g \in StakeTxs : stake[g] # None => stake'[g] = stake[g]
    BY <2>5
  <2> HIDE DEF IntentsKept
  <2> QED
    BY <1>2, <2>3, <2>4, <2>5, <2>6, <2>7
<1>14. ASSUME NEW i \in Intents, NEW h \in StakeTxs,
              AcceptPositionEvidence(i, h)
       PROVE  MarketInv'
  BY <1>14, EvidenceKeepsBooks
<1> QED
  BY <1>4, <1>5, <1>6, <1>7, <1>8, <1>9, <1>10, <1>11, <1>12, <1>13, <1>14
     DEF MarketNext

(* What the invariant says is what the property says.                      *)
LEMMA MarketInvBacked == MarketInv => PositionsAreBacked
<1> SUFFICES ASSUME MarketInv
             PROVE  PositionsAreBacked
  OBVIOUS
<1> DEFINE Held == {i \in Intents : position[i] # None}
<1>1. \A k \in Outcomes : HeldOn(k) = {i \in Held : intent[i].outcome = k}
  BY DEF HeldOn
<1>2. \A i \in Held :
        /\ evidence[i] # None
        /\ EvidenceMatches(i, evidence[i])
        /\ \A j \in Held : evidence[j] = evidence[i] => i = j
  BY DEF MarketInv, PositionRows
<1>3. \A k \in Outcomes :
        totalActive[k] = SumOfAmounts({i \in Held : intent[i].outcome = k})
  BY <1>1 DEF MarketInv, TotalsAreHeld
<1> QED
  BY <1>2, <1>3 DEF MarketInv, TotalsAreHeld, PositionsAreBacked
-----------------------------------------------------------------------------
(* What a plan gives out.  D is divided by the stakes a[i] that add up to  *)
(* S; what rounding leaves is less than one unit for each of them.         *)
Distributable(kind) == SumOfAmounts(Active) - PlannedFee(kind)

LEMMA ActiveStakes ==
  ASSUME NEW kind \in {"payout", "refund"}
  PROVE  /\ Active \in SUBSET Intents
         /\ Recipients(kind) \in SUBSET Active
         /\ Recipients(kind) \in SUBSET Intents
         /\ IsFiniteSet(Recipients(kind))
<1>1. Active \in SUBSET Intents /\ Recipients(kind) \in SUBSET Active
  BY DEF Active, Recipients
<1> QED
  BY <1>1, AmountsAreNatural

LEMMA FeeFits ==
  ASSUME NEW kind \in {"payout", "refund"}
  PROVE  /\ SumOfAmounts(Active) \in Nat
         /\ PlannedFee(kind) \in Nat
         /\ Distributable(kind) \in Nat
         /\ Distributable(kind) + PlannedFee(kind) = SumOfAmounts(Active)
         /\ kind = "refund" => PlannedFee(kind) = 0
<1> DEFINE T == SumOfAmounts(Active)
<1>1. T \in Nat
  BY ActiveStakes, AmountsAreNatural
<1> HIDE DEF T
<1>2. CASE kind = "refund"
  BY <1>1, <1>2 DEF PlannedFee, Distributable, T
<1>3. CASE kind = "payout"
  <2>1. FeeBps \in Nat /\ FeeBps <= 10000
    BY SettlementAssumption
  <2>2. T * FeeBps <= T * 10000 /\ T * FeeBps \in Nat
    BY <1>1, <2>1, ProductGrows
  <2> DEFINE q == (T * FeeBps) \div 10000
  <2>3. q \in Nat /\ q * 10000 <= T * FeeBps
    BY <2>2, Quotient
  <2>4. PlannedFee(kind) = q
    BY <1>3 DEF PlannedFee, BpsDenominator, T
  <2> HIDE DEF q
  <2> QED
    BY <1>1, <1>3, <2>2, <2>3, <2>4 DEF Distributable, T
<1> QED
  BY <1>2, <1>3

(* Each share is rounded down, and a larger stake has no smaller share.    *)
LEMMA SharesRoundDown ==
  ASSUME Recipients("payout") # {}
  PROVE  LET S == SumOfAmounts(Recipients("payout"))
             D == Distributable("payout")
             q(i) == RoundedPayout(i, "payout")
         IN  /\ S \in Nat /\ S > 0 /\ D \in Nat
             /\ \A i \in Intents :
                    /\ Amount[i] * D \in Nat
                    /\ q(i) \in Nat
                    /\ q(i) * S \in Nat
                    /\ q(i) * S <= Amount[i] * D
                    /\ Amount[i] * D < q(i) * S + S
             /\ \A i, j \in Intents : Amount[j] <= Amount[i] => q(j) <= q(i)
<1> DEFINE S == SumOfAmounts(Recipients("payout"))
           D == Distributable("payout")
           q(i) == RoundedPayout(i, "payout")
<1>1. S \in Nat /\ S > 0 /\ D \in Nat
  BY ActiveStakes, FeeFits, StakesArePositive
<1>2. \A i \in Intents : q(i) = (Amount[i] * D) \div S
  BY DEF RoundedPayout, Distributable
<1> HIDE DEF S, D, q
<1>3. ASSUME NEW i \in Intents
      PROVE  /\ Amount[i] \in Nat
             /\ Amount[i] * D \in Nat
             /\ q(i) \in Nat
             /\ q(i) * S \in Nat
             /\ q(i) * S <= Amount[i] * D
             /\ Amount[i] * D < q(i) * S + S
  <2>1. Amount[i] \in Nat
    BY MarketsAssumption
  <2>2. Amount[i] * D \in Nat
    BY <1>1, <2>1
  <2>3. /\ q(i) \in Nat
        /\ q(i) * S <= Amount[i] * D
        /\ Amount[i] * D < q(i) * S + S
    BY <1>1, <1>2, <2>2, Quotient
  <2> QED
    BY <1>1, <2>1, <2>2, <2>3
<1>4. ASSUME NEW i \in Intents, NEW j \in Intents, Amount[j] <= Amount[i]
      PROVE  q(j) <= q(i)
  <2>1. Amount[j] * D <= Amount[i] * D
    BY <1>1, <1>3, <1>4, ProductGrows
  <2>2. q(j) * S < (q(i) + 1) * S
    BY <1>1, <1>3, <2>1
  <2>3. CASE q(i) + 1 <= q(j)
    <3>1. (q(i) + 1) * S <= q(j) * S
      BY <1>1, <1>3, <2>3, ProductGrows
    <3> QED
      BY <1>1, <1>3, <2>2, <3>1
  <2> QED
    BY <1>3, <2>3
<1>5. /\ S \in Nat /\ S > 0 /\ D \in Nat
      /\ \A i \in Intents :
            /\ Amount[i] * D \in Nat
            /\ q(i) \in Nat
            /\ q(i) * S \in Nat
            /\ q(i) * S <= Amount[i] * D
            /\ Amount[i] * D < q(i) * S + S
      /\ \A i, j \in Intents : Amount[j] <= Amount[i] => q(j) <= q(i)
  BY <1>1, <1>3, <1>4
<1> QED
  BY <1>5 DEF S, D, q

LEMMA ProductCancelsStrictly ==
  ASSUME NEW a \in Nat, NEW b \in Nat, NEW c \in Nat, a * c < b * c
  PROVE  a < b
<1>1. CASE b <= a
  BY <1>1, ProductGrows
<1> QED
  BY <1>1

(* There is a unit for no more than all but one of the recipients, so that *)
(* create_settlement_plan, which goes through them once, always ends with  *)
(* nothing left over: the guard of CreateSettlementPlan can be met.        *)
THEOREM SettlementRemainderFits ==
  Recipients("payout") # {} =>
    Remainder("payout") \in 0..(Cardinality(Recipients("payout")) - 1)
<1> SUFFICES ASSUME Recipients("payout") # {}
             PROVE  Remainder("payout")
                        \in 0..(Cardinality(Recipients("payout")) - 1)
  OBVIOUS
<1> DEFINE R == Recipients("payout")
           S == SumOfAmounts(R)
           D == Distributable("payout")
           q == [i \in Intents |-> RoundedPayout(i, "payout")]
           zero == [i \in Intents |-> 0]
           one == [i \in Intents |-> 1]
           low == [i \in Intents |-> S * q[i]]
           share == [i \in Intents |-> D * Amount[i]]
           next == [i \in Intents |-> share[i] + 1]
           high == [i \in Intents |-> S * q[i] + S]
           each == [i \in Intents |-> S]
           n == Cardinality(R)
<1>1. R \in SUBSET Intents /\ IsFiniteSet(R) /\ n \in Nat /\ n > 0
  BY ActiveStakes, FS_CardinalityType, FS_EmptySet
<1>2. /\ S \in Nat /\ S > 0 /\ D \in Nat
      /\ \A i \in Intents :
            /\ q[i] \in Nat
            /\ q[i] * S \in Nat
            /\ Amount[i] * D \in Nat
            /\ q[i] * S <= Amount[i] * D
            /\ Amount[i] * D < q[i] * S + S
  BY SharesRoundDown
<1>3. Remainder("payout") = D - SumFunctionOnSet(q, R)
  BY DEF Remainder, Distributable
<1>4. \A i \in Intents : Amount[i] \in Nat
  BY MarketsAssumption
<1>5. S = SumFunctionOnSet(Amount, R)
  BY DEF SumOfAmounts
<1> HIDE DEF R, S, D, q, n
<1>6. SumFunctionOnSet(q, R) \in Nat
  BY <1>1, <1>2, SumType
<1>7. SumFunctionOnSet(low, R) = S * SumFunctionOnSet(q, R)
  <2>1. \A i \in R : q[i] \in Int /\ zero[i] \in Int
                     /\ low[i] = S * q[i] + zero[i]
    BY <1>1, <1>2
  <2> HIDE DEF low, zero
  <2>2. SumFunctionOnSet(low, R) =
            S * SumFunctionOnSet(q, R) + SumFunctionOnSet(zero, R)
    BY <1>1, <1>2, <2>1, SumLinear
  <2>3. SumFunctionOnSet(zero, R) = 0
    BY <1>1, SumOfZeros DEF zero
  <2> QED
    BY <1>2, <1>6, <2>2, <2>3
<1>8. SumFunctionOnSet(share, R) = D * S
  <2>1. \A i \in R : Amount[i] \in Int /\ zero[i] \in Int
                     /\ share[i] = D * Amount[i] + zero[i]
    BY <1>1, <1>2, <1>4
  <2> HIDE DEF share, zero
  <2>2. SumFunctionOnSet(share, R) =
            D * SumFunctionOnSet(Amount, R) + SumFunctionOnSet(zero, R)
    BY <1>1, <1>2, <2>1, SumLinear
  <2>3. SumFunctionOnSet(zero, R) = 0
    BY <1>1, SumOfZeros DEF zero
  <2> QED
    BY <1>2, <1>5, <2>2, <2>3
<1>9. SumFunctionOnSet(one, R) = n
  BY <1>1, SumOfOnes DEF n
<1>10. SumFunctionOnSet(next, R) = D * S + n
  <2>1. \A i \in R : share[i] \in Int /\ one[i] \in Int
                     /\ next[i] = 1 * share[i] + one[i]
    BY <1>1, <1>2, <1>4
  <2> HIDE DEF share, one, next
  <2>2. SumFunctionOnSet(next, R) =
            1 * SumFunctionOnSet(share, R) + SumFunctionOnSet(one, R)
    BY <1>1, <2>1, SumLinear
  <2> QED
    BY <1>1, <1>2, <1>8, <1>9, <2>2
<1>11. SumFunctionOnSet(each, R) = S * n
  <2>1. \A i \in R : one[i] \in Int /\ zero[i] \in Int
                     /\ each[i] = S * one[i] + zero[i]
    BY <1>1, <1>2
  <2> HIDE DEF one, zero, each
  <2>2. SumFunctionOnSet(each, R) =
            S * SumFunctionOnSet(one, R) + SumFunctionOnSet(zero, R)
    BY <1>1, <1>2, <2>1, SumLinear
  <2>3. SumFunctionOnSet(zero, R) = 0
    BY <1>1, SumOfZeros DEF zero
  <2> QED
    BY <1>1, <1>2, <1>9, <2>2, <2>3
<1>12. SumFunctionOnSet(high, R) = S * SumFunctionOnSet(q, R) + S * n
  <2>1. \A i \in R : q[i] \in Int /\ each[i] \in Int
                     /\ high[i] = S * q[i] + each[i]
    BY <1>1, <1>2
  <2> HIDE DEF high, each
  <2>2. SumFunctionOnSet(high, R) =
            S * SumFunctionOnSet(q, R) + SumFunctionOnSet(each, R)
    BY <1>1, <1>2, <2>1, SumLinear
  <2> QED
    BY <1>11, <2>2
<1>13. S * SumFunctionOnSet(q, R) <= D * S
  <2>1. \A i \in R : /\ low[i] \in Int /\ share[i] \in Int
                     /\ low[i] <= share[i]
    <3>1. \A i \in R : S * q[i] = q[i] * S /\ D * Amount[i] = Amount[i] * D
      BY <1>1, <1>2, <1>4
    <3> QED
      BY <1>1, <1>2, <3>1
  <2> HIDE DEF low, share
  <2> QED
    BY <1>1, <1>7, <1>8, <2>1, SumMonotone
<1>14. D * S + n <= S * SumFunctionOnSet(q, R) + S * n
  <2>1. \A i \in R : /\ next[i] \in Int /\ high[i] \in Int
                     /\ next[i] <= high[i]
    <3>1. \A i \in R : S * q[i] = q[i] * S /\ D * Amount[i] = Amount[i] * D
      BY <1>1, <1>2, <1>4
    <3> QED
      BY <1>1, <1>2, <3>1
  <2> HIDE DEF next, high
  <2> QED
    BY <1>1, <1>10, <1>12, <2>1, SumMonotone
<1> DEFINE total == SumFunctionOnSet(q, R)
<1> HIDE DEF total
<1>15. total \in Nat /\ S * total <= D * S /\ D * S + n <= S * total + S * n
  BY <1>6, <1>13, <1>14 DEF total
<1>16. S * total = total * S /\ S * n = n * S
  BY <1>1, <1>2, <1>15
<1>17. total <= D
  BY <1>2, <1>15, <1>16, ProductCancels
<1>18. D < total + n
  <2>1. (total + n) * S = total * S + n * S
    BY <1>1, <1>2, <1>15
  <2>2. D * S < (total + n) * S
    <3>1. D * S \in Nat /\ total * S \in Nat /\ n * S \in Nat
      BY <1>1, <1>2, <1>15
    <3> QED
      BY <1>1, <1>15, <1>16, <2>1, <3>1
  <2> QED
    BY <1>1, <1>2, <1>15, <2>2, ProductCancelsStrictly
<1>19. Remainder("payout") = D - total
  BY <1>3 DEF total
<1>20. Remainder("payout") \in 0..(n - 1)
  BY <1>1, <1>2, <1>15, <1>17, <1>18, <1>19
<1> QED
  BY <1>20 DEF n, R

(* The units given to the lucky make up for what rounding left.            *)
LEMMA PayoutsAddUp ==
  ASSUME NEW kind \in {"payout", "refund"}, NEW lucky \in SUBSET Intents,
         lucky \subseteq Recipients(kind), Recipients(kind) # {},
         Cardinality(lucky) =
            (IF kind = "payout" THEN Remainder(kind) ELSE 0)
  PROVE  LET pay == [i \in Intents |-> PlannedPayout(i, kind, lucky)]
         IN  /\ \A i \in Intents : pay[i] \in Nat
             /\ SumFunctionOnSet(pay, Recipients(kind)) = Distributable(kind)
<1> DEFINE pay == [i \in Intents |-> PlannedPayout(i, kind, lucky)]
           R == Recipients(kind)
<1>1. R \in SUBSET Intents /\ IsFiniteSet(R) /\ IsFiniteSet(lucky)
      /\ lucky \in SUBSET R
  BY ActiveStakes, FS_Subset
<1>2. CASE kind = "refund"
  <2>1. \A i \in Intents : pay[i] = Amount[i] /\ Amount[i] \in Nat
    BY <1>2, MarketsAssumption DEF PlannedPayout
  <2>2. SumFunctionOnSet(pay, R) = SumOfAmounts(R)
    BY <1>1, <2>1, SumAgree DEF SumOfAmounts
  <2>3. R = Active /\ SumOfAmounts(Active) = Distributable(kind)
    BY <1>2, FeeFits DEF Recipients, Distributable
  <2> QED
    BY <2>1, <2>2, <2>3
<1>3. CASE kind = "payout"
  <2> DEFINE q == [i \in Intents |-> RoundedPayout(i, kind)]
             unit == [i \in Intents |-> IF i \in lucky THEN 1 ELSE 0]
  <2>1. \A i \in Intents : q[i] \in Nat
    BY <1>3, SharesRoundDown
  <2>2. \A i \in Intents : /\ unit[i] \in Nat
                           /\ pay[i] = 1 * q[i] + unit[i]
                           /\ pay[i] \in Nat
    BY <1>3, <2>1 DEF PlannedPayout
  <2>3. SumFunctionOnSet(unit, lucky) = Cardinality(lucky)
    BY <1>1, SumOfOnes
  <2>4. SumFunctionOnSet(unit, R \ lucky) = 0
    <3>1. \A i \in R \ lucky : unit[i] = 0
      BY <1>1
    <3>2. IsFiniteSet(R \ lucky)
      BY <1>1, FS_Subset
    <3> HIDE DEF unit
    <3> QED
      BY <3>1, <3>2, SumOfZeros
  <2>5. Remainder(kind) = Distributable(kind) - SumFunctionOnSet(q, R)
    BY DEF Remainder, Distributable
  <2> HIDE DEF unit, q, pay, R
  <2>6. SumFunctionOnSet(unit, R) =
            SumFunctionOnSet(unit, lucky) + SumFunctionOnSet(unit, R \ lucky)
    BY <1>1, <2>2, SumOfParts
  <2>7. /\ SumFunctionOnSet(pay, R) =
                1 * SumFunctionOnSet(q, R) + SumFunctionOnSet(unit, R)
        /\ SumFunctionOnSet(q, R) \in Int
    BY <1>1, <2>1, <2>2, SumLinear
  <2>8. Cardinality(lucky) \in Nat /\ Distributable(kind) \in Nat
    BY <1>1, FS_CardinalityType, FeeFits
  <2>9. Cardinality(lucky) = Remainder(kind)
    BY <1>3
  <2>10. SumFunctionOnSet(pay, R) = Distributable(kind)
    BY <2>3, <2>4, <2>5, <2>6, <2>7, <2>8, <2>9
  <2> QED
    BY <2>2, <2>10 DEF pay, R
<1> QED
  BY <1>2, <1>3
-----------------------------------------------------------------------------
(* The rows of a settlement.                                               *)
LEMMA ItemParts ==
  ASSUME NEW t \in Items
  PROVE  t[1] \in Runs /\ t[2] \in Intents /\ t = <<t[1], t[2]>>
  BY DEF Items

(* PlanIsExact, of one run.                                                *)
ExactPlan(r) ==
    /\ run[r].planned =
            SumFunctionOnSet([i \in Intents |-> Payout(r, i)], Planned(r))
    /\ run[r].planned + run[r].fee = run[r].stake
    /\ run[r].kind = "refund" =>
        /\ run[r].fee = 0
        /\ \A i \in Planned(r) : Payout(r, i) = Amount[i]
    /\ run[r].kind = "payout" => \A i, j \in Planned(r) :
        /\ intent[i].outcome = intent[j].outcome
        /\ Amount[i] >= Amount[j] => Payout(r, i) + 1 >= Payout(r, j)
        /\ LET staked == SumOfAmounts(Planned(r))
               share == Amount[i] * run[r].planned
           IN  /\ Payout(r, i) * staked <= share + staked
               /\ Payout(r, i) * staked > share - staked

LEMMA PlansAreExact ==
  PlanIsExact <=> \A r \in Runs : run[r] # None => ExactPlan(r)
  BY DEF PlanIsExact, ExactPlan

(* A plan stays as exact as it was made while the row of its run keeps its *)
(* figures, its items their amounts and the intents their outcomes.        *)
LEMMA PlanKept ==
  ASSUME NEW r \in Runs, ExactPlan(r),
         run'[r].kind = run[r].kind, run'[r].fee = run[r].fee,
         run'[r].stake = run[r].stake, run'[r].planned = run[r].planned,
         Planned(r)' = Planned(r),
         \A i \in Planned(r) :
            /\ Payout(r, i)' = Payout(r, i)
            /\ intent'[i].outcome = intent[i].outcome
  PROVE  ExactPlan(r)'
<1> DEFINE pay == [i \in Intents |-> Payout(r, i)]
           pays == [i \in Intents |-> Payout(r, i)']
<1>1. Planned(r) \in SUBSET Intents /\ IsFiniteSet(Planned(r))
  BY AmountsAreNatural DEF Planned
<1>2. SumFunctionOnSet(pays, Planned(r)) = SumFunctionOnSet(pay, Planned(r))
  <2>1. \A i \in Planned(r) : pays[i] = pay[i]
    BY <1>1
  <2> HIDE DEF pay, pays
  <2> QED
    BY <1>1, <2>1, SumAgree
<1>3. pays = [i \in Intents |-> Payout(r, i)]'
  OBVIOUS
<1> HIDE DEF pays
<1> QED
  BY <1>2, <1>3 DEF ExactPlan, SumOfAmounts

LEMMA PlansKept ==
  ASSUME PlanIsExact, run' = run, item' = item,
         \A r \in Runs : run[r] # None =>
            \A i \in Planned(r) : intent'[i].outcome = intent[i].outcome
  PROVE  PlanIsExact'
<1>1. ASSUME NEW r \in Runs, run'[r] # None
      PROVE  ExactPlan(r)'
  <2>1. ExactPlan(r)
    BY <1>1, PlansAreExact
  <2>2. Planned(r)' = Planned(r) /\ \A i : Payout(r, i)' = Payout(r, i)
    BY DEF Planned, Payout
  <2> QED
    BY <1>1, <2>1, <2>2, PlanKept
<1>2. PlanIsExact' <=> \A r \in Runs : run'[r] # None => ExactPlan(r)'
  BY DEF PlanIsExact, ExactPlan
<1> QED
  BY <1>1, <1>2

(* What a settlement rests on stays in every step of the market.           *)
LEMMA MarketKeepsPositions ==
  ASSUME MarketInv, MarketNext
  PROVE  \A i \in Intents :
            /\ position[i] # None =>
                /\ position'[i] = position[i]
                /\ intent'[i].outcome = intent[i].outcome
            /\ position'[i] \in {"settled", "refunded"} =>
                    position'[i] = position[i]
<1> SUFFICES ASSUME NEW i \in Intents
             PROVE  /\ position[i] # None =>
                        /\ position'[i] = position[i]
                        /\ intent'[i].outcome = intent[i].outcome
                    /\ position'[i] \in {"settled", "refunded"} =>
                            position'[i] = position[i]
  OBVIOUS
<1>1. /\ intent \in [Intents -> Intent \union {None}]
      /\ position \in [Intents -> {"active", "settled", "refunded", None}]
      /\ position[i] # None => intent[i] # None
  BY DEF MarketInv, MarketTypeOK, PositionRows
<1>2. intent[i] # None => intent[i] \in Intent
  BY <1>1
<1> USE DEF holdings
<1>3. ASSUME position' = position,
             \/ intent' = intent
             \/ \E j \in Intents : \E row :
                    /\ intent' = [intent EXCEPT ![j] = row]
                    /\ intent[j] # None => row.outcome = intent[j].outcome
      PROVE  /\ position[i] # None =>
                /\ position'[i] = position[i]
                /\ intent'[i].outcome = intent[i].outcome
             /\ position'[i] \in {"settled", "refunded"} =>
                    position'[i] = position[i]
  BY <1>1, <1>3
<1>4. CASE \/ CreateMarket \/ TimePasses \/ WriteTransition
           \/ \E decision \in {"allow", "deny"} :
                    RecordPolicyDecision(decision)
           \/ \E target \in Statuses, k \in Outcomes \union {None} :
                    TransitionMarket(target, k) \/ ReadTransition(target, k)
  BY <1>3, <1>4 DEF CreateMarket, TimePasses, WriteTransition,
     RecordPolicyDecision, TransitionMarket, ReadTransition, WriteStatus,
     staking
<1>5. ASSUME NEW j \in Intents, InsertStakeIntent(j) \/ ExpireIntent(j)
      PROVE  /\ position' = position
             /\ \E row : /\ intent' = [intent EXCEPT ![j] = row]
                         /\ row.outcome = intent[j].outcome
  <2>1. intent[j] \in Intent
    BY <1>1, <1>5 DEF InsertStakeIntent, ExpireIntent
  <2>2. PICK s \in {"awaiting_signature", "expired"} :
            intent' = [intent EXCEPT ![j] = [intent[j] EXCEPT !.status = s]]
    BY <1>5 DEF InsertStakeIntent, ExpireIntent
  <2>3. [intent[j] EXCEPT !.status = s].outcome = intent[j].outcome
    BY <2>1 DEF Intent
  <2>4. position' = position
    BY <1>5 DEF InsertStakeIntent, ExpireIntent
  <2> QED
    BY <2>2, <2>3, <2>4
<1>6. ASSUME NEW j \in Intents, NEW k \in Outcomes, CheckStakeIntent(j, k)
      PROVE  /\ position' = position
             /\ \E row : /\ intent' = [intent EXCEPT ![j] = row]
                         /\ intent[j] = None
  BY <1>6 DEF CheckStakeIntent
<1>7. ASSUME NEW j \in Intents, NEW h \in StakeTxs, WriteSubmission(j, h)
      PROVE  /\ position' = position
             /\ \/ intent' = intent
                \/ \E row : /\ intent' = [intent EXCEPT ![j] = row]
                            /\ row.outcome = intent[j].outcome
  <2>1. intent[j] # None
    BY <1>7 DEF WriteSubmission, MarketInv, PositionRows
  <2>2. intent[j] \in Intent
    BY <1>1, <2>1
  <2> DEFINE new == [intent[j] EXCEPT !.status = "submitted", !.tx = h]
  <2>3. new.outcome = intent[j].outcome
    BY <2>2 DEF Intent
  <2>4. intent' = intent \/ intent' = [intent EXCEPT ![j] = new]
    BY <1>1, <1>7, <2>2 DEF WriteSubmission, Intent
  <2>5. position' = position
    BY <1>7 DEF WriteSubmission
  <2> HIDE DEF new
  <2> QED
    BY <2>3, <2>4, <2>5
<1>8. CASE \E j \in Intents, h \in StakeTxs :
                SendStake(j, h) \/ ReadSubmission(j, h)
  BY <1>3, <1>8 DEF SendStake, ReadSubmission
<1>9. ASSUME NEW j \in Intents, NEW h \in StakeTxs,
             AcceptPositionEvidence(j, h)
      PROVE  /\ position[i] # None =>
                /\ position'[i] = position[i]
                /\ intent'[i].outcome = intent[i].outcome
             /\ position'[i] \in {"settled", "refunded"} =>
                    position'[i] = position[i]
  <2>1. position[j] = None
    BY <1>9 DEF AcceptPositionEvidence, FreshEvidence, MarketInv,
       PositionRows
  <2>2. position' = [position EXCEPT ![j] = "active"]
        /\ \A l \in Intents \ {j} : intent'[l] = intent[l]
    BY <1>1, <1>9 DEF AcceptPositionEvidence
  <2> QED
    BY <1>1, <2>1, <2>2
<1> QED
  BY <1>3, <1>4, <1>5, <1>6, <1>7, <1>8, <1>9 DEF MarketNext

(* So the rows of a settlement mean the same after it.                     *)
LEMMA MarketKeepsSettlement ==
  ASSUME SettlementInv, MarketNext, UNCHANGED settlementVars
  PROVE  SettlementInv'
<1>1. UNCHANGED <<run, item, receipt, payment>>
  BY DEF settlementVars
<1>2. MarketInv'
  BY MarketKeepsBooks DEF SettlementInv
<1>3. \A i \in Intents :
        /\ position[i] # None =>
            /\ position'[i] = position[i]
            /\ intent'[i].outcome = intent[i].outcome
        /\ position'[i] \in {"settled", "refunded"} =>
                position'[i] = position[i]
  BY MarketKeepsPositions DEF SettlementInv
<1>4. \A r \in Runs : Planned(r)' = Planned(r)
  BY <1>1 DEF Planned
<1>5. SettlementTypes'
  BY <1>1 DEF SettlementInv, SettlementTypes
<1>6. RunRows'
  <2>1. \A r \in Runs : Planned(r) \in SUBSET Intents
    BY DEF Planned
  <2> QED
    BY <1>1, <1>3, <1>4, <2>1 DEF SettlementInv, RunRows, Confirmed
<1>7. ItemRows' /\ PaymentRows'
  BY <1>1 DEF SettlementInv, ItemRows, PaymentRows, Confirmed, Paid
<1>8. ClosedByRun'
  <2> SUFFICES ASSUME NEW i \in Intents,
                      position'[i] \in {"settled", "refunded"}
               PROVE  \E r \in Runs : /\ run'[r] # None
                                      /\ run'[r].status = "confirmed"
                                      /\ position'[i] = Closed(run'[r].kind)
    BY DEF ClosedByRun, Closed
  <2> QED
    BY <1>1, <1>3 DEF SettlementInv, ClosedByRun
<1>9. PlanIsExact'
  <2>1. \A r \in Runs : run[r] # None =>
            \A i \in Planned(r) : i \in Intents /\ position[i] # None
    BY DEF SettlementInv, RunRows, Planned
  <2> QED
    BY <1>1, <1>3, <2>1, PlansKept DEF SettlementInv
<1> QED
  BY <1>2, <1>5, <1>6, <1>7, <1>8, <1>9 DEF SettlementInv
-----------------------------------------------------------------------------
(* The steps of a settlement.                                              *)
LEMMA SettlementInvInit == SettlementInit => SettlementInv
<1> SUFFICES ASSUME SettlementInit
             PROVE  SettlementInv
  OBVIOUS
<1> USE DEF SettlementInit
<1>1. MarketInv
  BY MarketInvInit
<1>2. SettlementTypes
  BY DEF SettlementTypes
<1>3. \A r \in Runs : Planned(r) = {}
  BY DEF Planned, Items
<1>4. RunRows /\ ItemRows /\ PaymentRows /\ PlanIsExact
  BY <1>3 DEF RunRows, ItemRows, PaymentRows, PlanIsExact
<1>5. ClosedByRun
  BY MarketsAssumption DEF ClosedByRun, MarketInit
<1> QED
  BY <1>1, <1>2, <1>4, <1>5 DEF SettlementInv

(* create_settlement_plan: the items of a run that was not there.          *)
LEMMA PlanKeepsSettlement ==
  ASSUME SettlementInv, NEW r \in Runs, NEW kind \in {"payout", "refund"},
         NEW lucky \in SUBSET Intents, CreateSettlementPlan(r, kind, lucky)
  PROVE  SettlementInv'
<1> DEFINE R == Recipients(kind)
           pay == [i \in Intents |-> PlannedPayout(i, kind, lucky)]
           row == [kind |-> kind, status |-> "planned",
                   stake |-> SumOfAmounts(Active), fee |-> PlannedFee(kind),
                   planned |-> Distributable(kind)]
           new(i) == [payout |-> pay[i], tx |-> None, status |-> "planned"]
<1>1. /\ R \in SUBSET Intents /\ R # {}
      /\ \A i \in R : position[i] = "active"
  BY ActiveStakes DEF CreateSettlementPlan, Active
<1>2. /\ \A i \in Intents : pay[i] \in Nat
      /\ SumFunctionOnSet(pay, R) = Distributable(kind)
  BY PayoutsAddUp DEF CreateSettlementPlan
<1>3. /\ run \in [Runs -> Run \union {None}]
      /\ item \in [Items -> Item \union {None}]
      /\ receipt \in [Items -> Items \union {None}]
      /\ payment \in [Payments -> SUBSET Items]
      /\ run[r] = None /\ Planned(r) = {}
  BY DEF SettlementInv, SettlementTypes, RunRows, CreateSettlementPlan
<1>4. row \in Run /\ row # None /\ run' = [run EXCEPT ![r] = row]
  <2>1. row \in Run
    BY FeeFits DEF Run
  <2>2. run' = [run EXCEPT ![r] = row]
    BY DEF CreateSettlementPlan, Distributable
  <2> HIDE DEF row
  <2> QED
    BY <2>1, <2>2, SettlementRowAssumption
<1>5. \A i \in R : new(i) \in Item /\ new(i) # None
  <2>1. \A i \in R : new(i) \in Item
    BY <1>1, <1>2 DEF Item
  <2> HIDE DEF new
  <2> QED
    BY <2>1, SettlementRowAssumption
<1>6. \A t \in Items :
        item'[t] = IF t[1] = r /\ t[2] \in R THEN new(t[2]) ELSE item[t]
  BY <1>1 DEF CreateSettlementPlan
<1>7. \A t \in Items : t[1] = r => item[t] = None
  BY <1>3, ItemParts DEF Planned
<1>8. /\ UNCHANGED <<winner, clock, allowed, delayed, intent, submitting,
                     stake, evidence, position, totalActive, receipt,
                     payment>>
      /\ status' = "settling"
  BY DEF CreateSettlementPlan, staking, holdings
<1>9. SettlementTypes'
  <2>1. run' \in [Runs -> Run \union {None}]
    BY <1>3, <1>4
  <2>2. item' \in [Items -> Item \union {None}]
    <3>1. item' = [t \in Items |-> item'[t]]
      BY DEF CreateSettlementPlan
    <3>2. \A t \in Items : item'[t] \in Item \union {None}
      BY <1>3, <1>5, <1>6
    <3> QED
      BY <3>1, <3>2
  <2> QED
    BY <1>3, <1>8, <2>1, <2>2 DEF SettlementTypes
<1>10. MarketInv'
  <2>1. MarketTypeOK'
    BY <1>8 DEF SettlementInv, MarketInv, MarketTypeOK, Statuses
  <2>2. Active' = Active
    BY <1>8 DEF Active
  <2>3. \A i \in Intents : submitting'[i] # {} => intent'[i] # None
    BY <1>8 DEF SettlementInv, MarketInv, PositionRows
  <2> QED
    BY <1>8, <2>1, <2>2, <2>3, BooksKept DEF SettlementInv
<1> HIDE DEF row
<1>11. \A i \in R : /\ new(i).payout = pay[i]
                   /\ new(i).tx = None
                   /\ new(i).status = "planned"
  OBVIOUS
<1> HIDE DEF R, pay, new
<1>12. Planned(r)' = R /\ \A i \in R : Payout(r, i)' = pay[i]
  <2>1. \A i \in Intents : /\ <<r, i>> \in Items
                           /\ item'[<<r, i>>] =
                                IF i \in R THEN new(i) ELSE None
    BY <1>6, <1>7 DEF Items
  <2>3. Planned(r)' = R
    BY <1>1, <1>5, <2>1 DEF Planned
  <2>4. \A i \in R : item'[<<r, i>>] = new(i)
    BY <1>1, <2>1
  <2> QED
    BY <1>11, <2>3, <2>4 DEF Payout
<1>13. \A q \in Runs \ {r} :
            /\ run'[q] = run[q]
            /\ Planned(q)' = Planned(q)
            /\ \A i \in Intents : item'[<<q, i>>] = item[<<q, i>>]
  BY <1>3, <1>4, <1>6 DEF Planned, Items
<1>14. RunRows'
  <2> SUFFICES ASSUME NEW q \in Runs
               PROVE  /\ run'[q] = None => Planned(q)' = {}
                      /\ run'[q] # None =>
                          /\ Planned(q)' # {}
                          /\ \A i \in Planned(q)' : position'[i] # None
                          /\ (run'[q].status = "confirmed") =
                                (\A i \in Planned(q)' :
                                    item'[<<q, i>>].status = "confirmed")
    BY DEF RunRows, Confirmed
  <2>1. CASE q = r
    <3>1. run'[r] = row /\ row.status = "planned"
      BY <1>3, <1>4 DEF row
    <3>2. \A i \in R : /\ item'[<<r, i>>] = new(i)
                       /\ position'[i] # None
      <4>1. \A i \in R : <<r, i>> \in Items
        BY <1>1 DEF Items
      <4> QED
        BY <1>1, <1>6, <1>8, <4>1, MarketsAssumption
    <3> QED
      BY <1>1, <1>4, <1>11, <1>12, <2>1, <3>1, <3>2
  <2>2. CASE q # r
    <3>1. Planned(q) \in SUBSET Intents
      BY DEF Planned
    <3>2. /\ run'[q] = run[q] /\ Planned(q)' = Planned(q)
          /\ \A i \in Intents : item'[<<q, i>>] = item[<<q, i>>]
      BY <1>13, <2>2
    <3>3. /\ run[q] = None => Planned(q) = {}
          /\ run[q] # None =>
                /\ Planned(q) # {}
                /\ \A i \in Planned(q) : position[i] # None
                /\ (run[q].status = "confirmed") =
                    (\A i \in Planned(q) :
                        item[<<q, i>>].status = "confirmed")
      BY DEF SettlementInv, RunRows, Confirmed
    <3>4. (\A i \in Planned(q) : item'[<<q, i>>].status = "confirmed") =
          (\A i \in Planned(q) : item[<<q, i>>].status = "confirmed")
      BY <3>1, <3>2
    <3> QED
      BY <1>8, <3>2, <3>3, <3>4
  <2> QED
    BY <2>1, <2>2
<1>15. \A t \in Items : item[t] # None => item'[t] = item[t]
  BY <1>6, <1>7
<1>16. PaymentRows'
  BY <1>3, <1>8, <1>15 DEF SettlementInv, PaymentRows
<1>17. ItemRows'
  <2> SUFFICES ASSUME NEW t \in Items, item'[t] # None
               PROVE  /\ (item'[t].status = "planned") = (item'[t].tx = None)
                      /\ item'[t].tx # None =>
                          \A u \in Items :
                            item'[u] # None /\ item'[u].tx = item'[t].tx
                                => u = t
                      /\ item'[t].status = "confirmed" => Paid(t)'
    BY DEF ItemRows, Confirmed
  <2>1. \A u \in Items : item'[u] # None /\ item'[u].tx # None
                            => item[u] # None /\ item'[u] = item[u]
    BY <1>6, <1>11
  <2>2. CASE item[t] = None
    <3>1. item'[t].status = "planned" /\ item'[t].tx = None
      BY <1>6, <1>11, <2>2
    <3> QED
      BY <3>1
  <2>3. CASE item[t] # None
    <3>1. item'[t] = item[t]
      BY <1>15, <2>3
    <3>2. item[t].status = "confirmed" => Paid(t)'
      <4>1. SUFFICES ASSUME item[t].status = "confirmed"
                     PROVE  Paid(t)'
        OBVIOUS
      <4>2. Paid(t) /\ item[t].tx \in Payments
        BY <1>3, <2>3, <4>1 DEF SettlementInv, ItemRows, Confirmed, Item
      <4>3. LET paid == receipt[t]
            IN  paid \in Items /\ item'[paid] = item[paid]
        BY <1>3, <1>15, <4>2 DEF SettlementInv, PaymentRows, Paid
      <4> QED
        BY <1>8, <3>1, <4>2, <4>3 DEF Paid
    <3> QED
      BY <2>1, <2>3, <3>1, <3>2 DEF SettlementInv, ItemRows
  <2> QED
    BY <2>2, <2>3
<1>18. ClosedByRun'
  <2> SUFFICES ASSUME NEW i \in Intents,
                      position'[i] \in {"settled", "refunded"}
               PROVE  \E q \in Runs : /\ run'[q] # None
                                      /\ run'[q].status = "confirmed"
                                      /\ position'[i] = Closed(run'[q].kind)
    BY DEF ClosedByRun, Closed
  <2> QED
    BY <1>3, <1>8, <1>13 DEF SettlementInv, ClosedByRun

<1>19. ExactPlan(r)'
  <2> DEFINE D == Distributable(kind)
             S == SumOfAmounts(R)
  <2>1. /\ run'[r].planned = D /\ run'[r].stake = SumOfAmounts(Active)
        /\ run'[r].fee = PlannedFee(kind) /\ run'[r].kind = kind
    BY <1>3, <1>4 DEF row
  <2>2. SumFunctionOnSet([i \in Intents |-> Payout(r, i)]', R) = D
    <3> DEFINE pays == [i \in Intents |-> Payout(r, i)]'
    <3>1. \A i \in R : pays[i] = pay[i]
      BY <1>1, <1>12
    <3>2. IsFiniteSet(R)
      BY <1>1, AmountsAreNatural
    <3> HIDE DEF pays
    <3>3. SumFunctionOnSet(pays, R) = SumFunctionOnSet(pay, R)
      BY <3>1, <3>2, SumAgree
    <3> QED
      BY <1>2, <3>3 DEF pays
  <2>3. /\ D + PlannedFee(kind) = SumOfAmounts(Active)
        /\ kind = "refund" => PlannedFee(kind) = 0
    BY FeeFits
  <2>4. kind = "refund" => \A i \in R : pay[i] = Amount[i]
    BY <1>1 DEF pay, PlannedPayout
  <2>5. ASSUME kind = "payout"
        PROVE  \A i, j \in R :
                /\ intent[i].outcome = intent[j].outcome
                /\ Amount[i] >= Amount[j] => pay[i] + 1 >= pay[j]
                /\ pay[i] * S <= Amount[i] * D + S
                /\ pay[i] * S > Amount[i] * D - S
    <3> DEFINE q(i) == RoundedPayout(i, "payout")
    <3>1. \A i \in R : intent[i].outcome = winner
      BY <2>5 DEF R, Recipients
    <3>2. /\ S \in Nat /\ S > 0 /\ D \in Nat
          /\ \A i \in Intents :
                /\ Amount[i] * D \in Nat
                /\ q(i) \in Nat
                /\ q(i) * S \in Nat
                /\ q(i) * S <= Amount[i] * D
                /\ Amount[i] * D < q(i) * S + S
          /\ \A i, j \in Intents : Amount[j] <= Amount[i] => q(j) <= q(i)
      BY <1>1, <2>5, SharesRoundDown DEF R
    <3>3. \A i \in Intents : pay[i] \in {q(i), q(i) + 1}
      BY <2>5, <3>2 DEF pay, PlannedPayout
    <3> HIDE DEF q, S, D
    <3>4. TAKE i, j \in R
    <3>5. Amount[i] >= Amount[j] => pay[i] + 1 >= pay[j]
      <4>1. Amount[i] \in Nat /\ Amount[j] \in Nat
        BY <1>1, MarketsAssumption
      <4> QED
        BY <1>1, <3>2, <3>3, <4>1
    <3>6. /\ pay[i] * S <= Amount[i] * D + S
          /\ pay[i] * S > Amount[i] * D - S
      <4>1. pay[i] * S = q(i) * S \/ pay[i] * S = q(i) * S + S
        <5>1. (q(i) + 1) * S = q(i) * S + S
          BY <1>1, <3>2
        <5> QED
          BY <1>1, <3>3, <5>1
      <4>2. /\ Amount[i] * D \in Nat /\ q(i) * S \in Nat
            /\ q(i) * S <= Amount[i] * D
            /\ Amount[i] * D < q(i) * S + S
        BY <1>1, <3>2
      <4> QED
        BY <3>2, <4>1, <4>2
    <3> QED
      BY <1>1, <3>1, <3>5, <3>6
  <2> HIDE DEF D, S
  <2>6. SumOfAmounts(Planned(r))' = S
    BY <1>12 DEF SumOfAmounts, S
  <2>7. run'[r].planned =
            SumFunctionOnSet([i \in Intents |-> Payout(r, i)]', Planned(r)')
    <3> DEFINE pays == [i \in Intents |-> Payout(r, i)]'
    <3>1. SumFunctionOnSet(pays, R) = D /\ Planned(r)' = R
      BY <1>12, <2>2
    <3> HIDE DEF pays
    <3>2. run'[r].planned = SumFunctionOnSet(pays, Planned(r)')
      BY <2>1, <3>1
    <3> QED
      BY <3>2 DEF pays
  <2>8. run'[r].kind = "refund" =>
            /\ run'[r].fee = 0
            /\ \A i \in Planned(r)' : Payout(r, i)' = Amount[i]
    BY <1>12, <2>1, <2>3, <2>4
  <2>9. run'[r].kind = "payout" => \A i, j \in Planned(r)' :
            /\ intent'[i].outcome = intent'[j].outcome
            /\ Amount[i] >= Amount[j] =>
                    Payout(r, i)' + 1 >= Payout(r, j)'
            /\ Payout(r, i)' * S <= Amount[i] * D + S
            /\ Payout(r, i)' * S > Amount[i] * D - S
    <3>1. kind = "payout" => \A i, j \in R :
            /\ intent'[i].outcome = intent'[j].outcome
            /\ Amount[i] >= Amount[j] =>
                    Payout(r, i)' + 1 >= Payout(r, j)'
            /\ Payout(r, i)' * S <= Amount[i] * D + S
            /\ Payout(r, i)' * S > Amount[i] * D - S
      <4>1. \A i \in R : Payout(r, i)' = pay[i]
        BY <1>12
      <4>2. intent' = intent
        BY <1>8
      <4> QED
        BY <2>5, <4>1, <4>2
    <3> QED
      BY <1>12, <2>1, <3>1
  <2> QED
    BY <2>1, <2>3, <2>6, <2>7, <2>8, <2>9 DEF ExactPlan
<1>20. PlanIsExact'
  <2>1. ASSUME NEW q \in Runs \ {r}, run'[q] # None
        PROVE  ExactPlan(q)'
    <3>1. ExactPlan(q)
      BY <1>13, <2>1, PlansAreExact DEF SettlementInv
    <3>2. \A i \in Planned(q) : /\ Payout(q, i)' = Payout(q, i)
                                /\ intent'[i].outcome = intent[i].outcome
      BY <1>8, <1>13, <2>1 DEF Payout, Planned
    <3> QED
      BY <1>13, <2>1, <3>1, <3>2, PlanKept
  <2>2. PlanIsExact' <=> \A q \in Runs : run'[q] # None => ExactPlan(q)'
    BY DEF PlanIsExact, ExactPlan
  <2> QED
    BY <1>19, <2>1, <2>2
<1> QED
  BY <1>9, <1>10, <1>14, <1>16, <1>17, <1>18, <1>20 DEF SettlementInv

(* A transaction pays items.                                               *)
LEMMA PaymentKeepsSettlement ==
  ASSUME SettlementInv, NEW S \in Batches, NEW x \in Payments, PayItems(S, x)
  PROVE  SettlementInv'
<1>1. /\ \A u \in S : item[u] # None
      /\ payment[x] = {}
      /\ payment' = [payment EXCEPT ![x] = S]
      /\ UNCHANGED <<run, item, receipt>>
  BY DEF PayItems
<1>2. UNCHANGED marketVars
  BY DEF PayItems
<1>3. MarketInv'
  BY <1>2, BooksUntouched DEF SettlementInv
<1>4. position' = position /\ intent' = intent
  BY <1>2 DEF marketVars, staking, holdings
<1>5. payment \in [Payments -> SUBSET Items] /\ S \in SUBSET Items
  BY SettlementRowAssumption DEF SettlementInv, SettlementTypes
<1>6. SettlementTypes'
  BY <1>1, <1>5 DEF SettlementInv, SettlementTypes
<1>7. PaymentRows'
  BY <1>1, <1>5 DEF SettlementInv, PaymentRows
<1>8. RunRows' /\ ClosedByRun'
  BY <1>1, <1>4 DEF SettlementInv, RunRows, ClosedByRun, Planned, Confirmed,
     Closed
<1>9. PlanIsExact'
  BY <1>1, <1>4, PlansKept DEF SettlementInv
<1>10. \A y \in Payments : payment[y] \subseteq payment'[y]
  BY <1>1, <1>5
<1>11. ItemRows'
  <2>1. ASSUME NEW u \in Items, item[u] # None, Confirmed(u)
        PROVE  Paid(u)'
    <3>1. Paid(u) /\ item[u].tx \in Payments
      BY <2>1 DEF SettlementInv, SettlementTypes, ItemRows, Confirmed, Item,
         Paid
    <3> QED
      BY <1>1, <1>10, <3>1 DEF Paid
  <2> QED
    BY <1>1, <2>1 DEF SettlementInv, ItemRows, Confirmed
<1> QED
  BY <1>3, <1>6, <1>7, <1>8, <1>9, <1>11 DEF SettlementInv

(* The row of one item and the status of its run are changed: what both    *)
(* were made from stays.                                                   *)
ItemUpdated(t, s, tx, rs) ==
    /\ SettlementTypes' /\ PaymentRows' /\ PlanIsExact'
    /\ run[t[1]] # None
    /\ \A r \in Runs :
           /\ (run'[r] = None) = (run[r] = None)
           /\ run[r] # None =>
               /\ run'[r].kind = run[r].kind
               /\ run'[r].fee = run[r].fee
               /\ run'[r].stake = run[r].stake
               /\ run'[r].planned = run[r].planned
               /\ run'[r].status =
                       IF r = t[1] THEN rs ELSE run[r].status
    /\ \A u \in Items :
           /\ (item'[u] = None) = (item[u] = None)
           /\ item[u] # None =>
               /\ item'[u].payout = item[u].payout
               /\ item'[u].status = IF u = t THEN s ELSE item[u].status
               /\ item'[u].tx = IF u = t THEN tx ELSE item[u].tx
    /\ \A r \in Runs : Planned(r)' = Planned(r)

LEMMA ItemUpdate ==
  ASSUME SettlementInv, NEW t \in Items, item[t] # None,
         NEW tx \in Payments \union {None},
         NEW s \in {"submitted", "confirmed"},
         item' = [item EXCEPT ![t] = [item[t] EXCEPT !.status = s, !.tx = tx]],
         NEW rs \in {"planned", "submitting", "confirmed"},
         run' = [run EXCEPT ![t[1]] = [run[t[1]] EXCEPT !.status = rs]],
         receipt' \in [Items -> Items \union {None}],
         payment' = payment, intent' = intent
  PROVE  ItemUpdated(t, s, tx, rs)
<1> DEFINE row == [item[t] EXCEPT !.status = s, !.tx = tx]
           new == [run[t[1]] EXCEPT !.status = rs]
<1>1. /\ run \in [Runs -> Run \union {None}]
      /\ item \in [Items -> Item \union {None}]
      /\ payment \in [Payments -> SUBSET Items]
  BY DEF SettlementInv, SettlementTypes
<1>2. t[1] \in Runs /\ t[2] \in Intents /\ t = <<t[1], t[2]>>
  BY ItemParts
<1>3. t[2] \in Planned(t[1])
  BY <1>2 DEF Planned
<1>4. run[t[1]] # None
  BY <1>2, <1>3 DEF SettlementInv, RunRows
<1>5. run[t[1]] \in Run /\ item[t] \in Item
  BY <1>1, <1>2, <1>4
<1>6. /\ row \in Item /\ row.payout = item[t].payout
      /\ row.status = s /\ row.tx = tx
  BY <1>5 DEF Item
<1>7. /\ new \in Run /\ new.kind = run[t[1]].kind
      /\ new.fee = run[t[1]].fee /\ new.stake = run[t[1]].stake
      /\ new.planned = run[t[1]].planned /\ new.status = rs
  BY <1>5 DEF Run
<1>8. item' = [item EXCEPT ![t] = row] /\ run' = [run EXCEPT ![t[1]] = new]
  OBVIOUS
<1> HIDE DEF row, new
<1>9. row # None /\ new # None
  BY <1>6, <1>7, SettlementRowAssumption
<1>10. SettlementTypes'
  BY <1>1, <1>2, <1>6, <1>7, <1>8 DEF SettlementTypes
<1>11. \A r \in Runs :
        /\ (run'[r] = None) = (run[r] = None)
        /\ run[r] # None =>
            /\ run'[r].kind = run[r].kind
            /\ run'[r].fee = run[r].fee
            /\ run'[r].stake = run[r].stake
            /\ run'[r].planned = run[r].planned
            /\ run'[r].status = IF r = t[1] THEN rs ELSE run[r].status
  BY <1>1, <1>2, <1>4, <1>7, <1>8, <1>9
<1>12. \A u \in Items :
        /\ (item'[u] = None) = (item[u] = None)
        /\ item[u] # None =>
            /\ item'[u].payout = item[u].payout
            /\ item'[u].status = IF u = t THEN s ELSE item[u].status
            /\ item'[u].tx = IF u = t THEN tx ELSE item[u].tx
  BY <1>1, <1>6, <1>8, <1>9
<1>13. \A r \in Runs : Planned(r)' = Planned(r)
  <2>1. \A r \in Runs, i \in Intents : <<r, i>> \in Items
    BY DEF Items
  <2> QED
    BY <1>12, <2>1 DEF Planned
<1>14. PaymentRows'
  BY <1>1, <1>12 DEF SettlementInv, PaymentRows
<1>15. PlanIsExact'
  <2>1. ASSUME NEW r \in Runs, run'[r] # None
        PROVE  ExactPlan(r)'
    <3>1. ExactPlan(r) /\ run[r] # None
      BY <1>11, <2>1, PlansAreExact DEF SettlementInv
    <3>2. \A i \in Planned(r) : Payout(r, i)' = Payout(r, i)
      BY <1>12 DEF Planned, Payout, Items
    <3> QED
      BY <1>11, <1>13, <3>1, <3>2, PlanKept
  <2>2. PlanIsExact' <=> \A r \in Runs : run'[r] # None => ExactPlan(r)'
    BY DEF PlanIsExact, ExactPlan
  <2> QED
    BY <2>1, <2>2
<1> QED
  BY <1>4, <1>10, <1>11, <1>12, <1>13, <1>14, <1>15 DEF ItemUpdated

(* An item is submitted with a transaction that no other names.            *)
LEMMA SubmissionKeepsSettlement ==
  ASSUME SettlementInv, NEW t \in Items, NEW x \in Payments, SubmitItem(t, x)
  PROVE  SettlementInv'
<1>1. /\ item[t] # None /\ item[t].status = "planned"
      /\ run[t[1]].status \in {"planned", "submitting"}
      /\ \A u \in Items : item[u] # None => item[u].tx # x
  BY DEF SubmitItem, UnusedHash
<1>2. UNCHANGED marketVars /\ receipt' = receipt /\ payment' = payment
  BY DEF SubmitItem
<1>3. position' = position /\ intent' = intent
  BY <1>2 DEF marketVars, staking, holdings
<1>4. MarketInv'
  BY <1>2, BooksUntouched DEF SettlementInv
<1>5. /\ item' = [item EXCEPT ![t] =
                    [item[t] EXCEPT !.status = "submitted", !.tx = x]]
      /\ run' = [run EXCEPT ![t[1]] =
                    [run[t[1]] EXCEPT !.status = "submitting"]]
  <2>1. /\ run \in [Runs -> Run \union {None}]
        /\ item \in [Items -> Item \union {None}]
    BY DEF SettlementInv, SettlementTypes
  <2>2. item[t] \in Item /\ t[1] \in Runs
    BY <1>1, <2>1, ItemParts
  <2> QED
    BY <2>1, <2>2 DEF SubmitItem, Item
<1>6. /\ SettlementTypes' /\ PaymentRows' /\ PlanIsExact'
      /\ run[t[1]] # None
      /\ \A r \in Runs :
            /\ (run'[r] = None) = (run[r] = None)
            /\ run[r] # None =>
                /\ run'[r].kind = run[r].kind
                /\ run'[r].status =
                        IF r = t[1] THEN "submitting" ELSE run[r].status
      /\ \A u \in Items :
            /\ (item'[u] = None) = (item[u] = None)
            /\ item[u] # None =>
                /\ item'[u].payout = item[u].payout
                /\ item'[u].status =
                        IF u = t THEN "submitted" ELSE item[u].status
                /\ item'[u].tx = IF u = t THEN x ELSE item[u].tx
      /\ \A r \in Runs : Planned(r)' = Planned(r)
  <2>1. receipt' \in [Items -> Items \union {None}]
    BY <1>2 DEF SettlementInv, SettlementTypes
  <2>2. ItemUpdated(t, "submitted", x, "submitting")
    BY <1>1, <1>2, <1>3, <1>5, <2>1, ItemUpdate
  <2> QED
    BY <2>2 DEF ItemUpdated
<1>7. t[1] \in Runs /\ t[2] \in Planned(t[1]) /\ t = <<t[1], t[2]>>
  BY <1>1, ItemParts DEF Planned
<1>8. RunRows'
  <2> SUFFICES ASSUME NEW r \in Runs
               PROVE  /\ run'[r] = None => Planned(r)' = {}
                      /\ run'[r] # None =>
                          /\ Planned(r)' # {}
                          /\ \A i \in Planned(r)' : position'[i] # None
                          /\ (run'[r].status = "confirmed") =
                                (\A i \in Planned(r)' :
                                    item'[<<r, i>>].status = "confirmed")
    BY DEF RunRows, Confirmed
  <2>1. /\ run[r] = None => Planned(r) = {}
        /\ run[r] # None =>
              /\ Planned(r) # {}
              /\ \A i \in Planned(r) : position[i] # None
              /\ (run[r].status = "confirmed") =
                  (\A i \in Planned(r) : item[<<r, i>>].status = "confirmed")
    BY DEF SettlementInv, RunRows, Confirmed
  <2>2. CASE r = t[1]
    <3>1. run'[r].status = "submitting"
      BY <1>6, <2>2
    <3>2. item'[<<r, t[2]>>].status = "submitted"
      BY <1>1, <1>6, <1>7, <2>2
    <3> QED
      BY <1>3, <1>6, <1>7, <2>1, <2>2, <3>1, <3>2
  <2>3. CASE r # t[1]
    <3>1. \A i \in Planned(r) :
            item'[<<r, i>>].status = item[<<r, i>>].status
      BY <1>6, <1>7, <2>3 DEF Planned, Items
    <3>2. (\A i \in Planned(r) : item'[<<r, i>>].status = "confirmed") =
          (\A i \in Planned(r) : item[<<r, i>>].status = "confirmed")
      BY <3>1
    <3> QED
      BY <1>3, <1>6, <2>1, <2>3, <3>2
  <2> QED
    BY <2>2, <2>3
<1>9. ItemRows'
  <2> SUFFICES ASSUME NEW u \in Items, item'[u] # None
               PROVE  /\ (item'[u].status = "planned") = (item'[u].tx = None)
                      /\ item'[u].tx # None =>
                          \A w \in Items :
                            item'[w] # None /\ item'[w].tx = item'[u].tx
                                => w = u
                      /\ item'[u].status = "confirmed" => Paid(u)'
    BY DEF ItemRows, Confirmed
  <2>1. x # None
    BY SettlementAssumption
  <2>2. item[u] # None
    BY <1>6
  <2>3. /\ (item[u].status = "planned") = (item[u].tx = None)
        /\ item[u].tx # None =>
              \A w \in Items :
                item[w] # None /\ item[w].tx = item[u].tx => w = u
        /\ item[u].status = "confirmed" => Paid(u)
    BY <2>2 DEF SettlementInv, ItemRows, Confirmed
  <2>4. item'[u].status = "confirmed" => Paid(u)'
    <3> SUFFICES ASSUME item'[u].status = "confirmed"
                 PROVE  Paid(u)'
      OBVIOUS
    <3>1. u # t /\ item'[u].tx = item[u].tx /\ item[u].status = "confirmed"
          /\ item'[u].payout = item[u].payout
      BY <1>6, <2>2
    <3>2. Paid(u) /\ item[u].tx \in Payments
      BY <2>2, <2>3, <3>1
         DEF SettlementInv, SettlementTypes, ItemRows, Item
    <3>3. receipt[u] \in Items /\ item[receipt[u]] # None
      BY <3>2 DEF SettlementInv, SettlementTypes, PaymentRows, Paid
    <3> QED
      BY <1>2, <1>6, <3>1, <3>2, <3>3 DEF Paid
  <2>5. (item'[u].status = "planned") = (item'[u].tx = None)
    BY <1>6, <2>1, <2>2, <2>3
  <2>6. item'[u].tx # None =>
            \A w \in Items :
                item'[w] # None /\ item'[w].tx = item'[u].tx => w = u
    BY <1>1, <1>6, <2>1, <2>2, <2>3
  <2> QED
    BY <2>4, <2>5, <2>6
<1>10. ClosedByRun'
  <2> SUFFICES ASSUME NEW i \in Intents,
                      position'[i] \in {"settled", "refunded"}
               PROVE  \E r \in Runs : /\ run'[r] # None
                                      /\ run'[r].status = "confirmed"
                                      /\ position'[i] = Closed(run'[r].kind)
    BY DEF ClosedByRun, Closed
  <2>1. PICK r \in Runs : /\ run[r] # None
                          /\ run[r].status = "confirmed"
                          /\ position[i] = Closed(run[r].kind)
    BY <1>3 DEF SettlementInv, ClosedByRun
  <2>2. r # t[1]
    BY <1>1, <2>1
  <2> QED
    BY <1>3, <1>6, <2>1, <2>2
<1> QED
  BY <1>4, <1>6, <1>8, <1>9, <1>10 DEF SettlementInv

(* Evidence confirms an item, and the last one its run and what it closes. *)
LEMMA AcceptanceKeepsSettlement ==
  ASSUME SettlementInv, NEW t \in Items, NEW x \in Payments, NEW o \in Items,
         AcceptSettlementEvidence(t, x, o)
  PROVE  SettlementInv'
<1> DEFINE rs == IF CompletesRun(t) THEN "confirmed" ELSE run[t[1]].status
<1>1. /\ item[t] # None /\ item[t].status = "submitted" /\ item[t].tx = x
      /\ o \in payment[x]
      /\ Account[o[2]] = Account[t[2]]
      /\ item[o].payout = item[t].payout
      /\ receipt' = [receipt EXCEPT ![t] = o]
  BY DEF AcceptSettlementEvidence, ItemEvidenceMatches
<1>2. /\ UNCHANGED <<winner, clock, allowed, delayed, intent, submitting,
                     stake, evidence, totalActive>>
      /\ payment' = payment
  BY DEF AcceptSettlementEvidence, staking
<1>3. /\ run \in [Runs -> Run \union {None}]
      /\ item \in [Items -> Item \union {None}]
      /\ receipt \in [Items -> Items \union {None}]
      /\ payment \in [Payments -> SUBSET Items]
      /\ position \in [Intents -> {"active", "settled", "refunded", None}]
      /\ status \in Statuses \union {None}
  BY DEF SettlementInv, SettlementTypes, MarketInv, MarketTypeOK
<1>4. t[1] \in Runs /\ t[2] \in Planned(t[1]) /\ t = <<t[1], t[2]>>
  BY <1>1, ItemParts DEF Planned
<1>5. run[t[1]] # None
  BY <1>4 DEF SettlementInv, RunRows
<1>6. run[t[1]] \in Run /\ item[t] \in Item /\ rs \in
            {"planned", "submitting", "confirmed"}
  BY <1>1, <1>3, <1>4, <1>5 DEF Run
<1>7. run[t[1]].status # "confirmed"
  BY <1>1, <1>4, <1>5 DEF SettlementInv, RunRows, Confirmed
<1>8. /\ item' = [item EXCEPT ![t] =
                    [item[t] EXCEPT !.status = "confirmed", !.tx = x]]
      /\ run' = [run EXCEPT ![t[1]] = [run[t[1]] EXCEPT !.status = rs]]
  <2>1. item' = [item EXCEPT ![t] =
                    [item[t] EXCEPT !.status = "confirmed", !.tx = x]]
    BY <1>1, <1>3, <1>6 DEF AcceptSettlementEvidence, Item
  <2>2. CASE CompletesRun(t)
    BY <1>3, <1>4, <1>6, <2>1, <2>2 DEF AcceptSettlementEvidence, FinalizeRun
  <2>3. CASE ~CompletesRun(t)
    <3>1. run' = run /\ rs = run[t[1]].status
      BY <2>3 DEF AcceptSettlementEvidence
    <3>2. [run[t[1]] EXCEPT !.status = rs] = run[t[1]]
      BY <1>6, <3>1 DEF Run
    <3> QED
      BY <1>3, <2>1, <3>1, <3>2
  <2> QED
    BY <2>2, <2>3
<1> HIDE DEF rs
<1>9. ItemUpdated(t, "confirmed", x, rs)
  <2>1. receipt' \in [Items -> Items \union {None}]
    BY <1>1, <1>3
  <2> QED
    BY <1>1, <1>2, <1>6, <1>8, <2>1, ItemUpdate
<1>10. \A r \in Runs :
        /\ Planned(r)' = Planned(r)
        /\ (run'[r] = None) = (run[r] = None)
        /\ run[r] # None =>
            /\ run'[r].kind = run[r].kind
            /\ run'[r].status = IF r = t[1] THEN rs ELSE run[r].status
  BY <1>9 DEF ItemUpdated
<1>11. \A u \in Items :
        /\ (item'[u] = None) = (item[u] = None)
        /\ item[u] # None =>
            /\ item'[u].payout = item[u].payout
            /\ item'[u].status = IF u = t THEN "confirmed" ELSE item[u].status
            /\ item'[u].tx = item[u].tx
  BY <1>1, <1>9 DEF ItemUpdated
<1>12. \A i \in Intents :
        /\ (position'[i] = None) = (position[i] = None)
        /\ position'[i] = position[i] \/
            /\ rs = "confirmed"
            /\ position'[i] = Closed(run[t[1]].kind)
  <2>1. \A kind : Closed(kind) \in {"settled", "refunded"}
    BY DEF Closed
  <2>2. CASE CompletesRun(t)
    BY <1>3, <2>1, <2>2, MarketsAssumption
       DEF AcceptSettlementEvidence, FinalizeRun, rs
  <2>3. CASE ~CompletesRun(t)
    BY <2>3 DEF AcceptSettlementEvidence
  <2> QED
    BY <2>2, <2>3
<1>13. MarketInv'
  <2>1. \A i \in Intents : position'[i] = "active" => position[i] = "active"
    BY <1>12 DEF Closed
  <2>2. Active' \subseteq Active
    BY <2>1 DEF Active
  <2>3. status' \in Statuses \union {None}
        /\ position' \in [Intents -> {"active", "settled", "refunded", None}]
    BY <1>3 DEF AcceptSettlementEvidence, FinalizeRun, Closed, Statuses
  <2>4. MarketTypeOK'
    BY <1>2, <2>3 DEF SettlementInv, MarketInv, MarketTypeOK
  <2>5. \A i \in Intents : submitting'[i] # {} => intent'[i] # None
    BY <1>2 DEF SettlementInv, MarketInv, PositionRows
  <2> QED
    BY <1>2, <1>12, <2>2, <2>4, <2>5, BooksKept DEF SettlementInv
<1>14. RunRows'
  <2> SUFFICES ASSUME NEW r \in Runs
               PROVE  /\ run'[r] = None => Planned(r)' = {}
                      /\ run'[r] # None =>
                          /\ Planned(r)' # {}
                          /\ \A i \in Planned(r)' : position'[i] # None
                          /\ (run'[r].status = "confirmed") =
                                (\A i \in Planned(r)' :
                                    item'[<<r, i>>].status = "confirmed")
    BY DEF RunRows, Confirmed
  <2>1. /\ run[r] = None => Planned(r) = {}
        /\ run[r] # None =>
              /\ Planned(r) # {}
              /\ \A i \in Planned(r) : position[i] # None
              /\ (run[r].status = "confirmed") =
                  (\A i \in Planned(r) : item[<<r, i>>].status = "confirmed")
    BY DEF SettlementInv, RunRows, Confirmed
  <2>2. \A i \in Planned(r) : i \in Intents /\ <<r, i>> \in Items
                              /\ item[<<r, i>>] # None
    BY DEF Planned, Items
  <2>3. CASE r = t[1]
    <3>1. (rs = "confirmed") =
            (\A i \in Planned(r) : item'[<<r, i>>].status = "confirmed")
      <4>1. CASE CompletesRun(t)
        <5>1. ASSUME NEW i \in Planned(r)
              PROVE  item'[<<r, i>>].status = "confirmed"
          <6>1. CASE <<r, i>> = t
            BY <1>1, <1>11, <6>1
          <6>2. CASE <<r, i>> # t
            <7>1. <<r, i>>[1] = t[1] /\ <<r, i>> \in Items \ {t}
              BY <2>2, <2>3, <6>2
            <7>2. item[<<r, i>>].status = "confirmed"
              BY <2>2, <4>1, <7>1 DEF CompletesRun
            <7> QED
              BY <1>11, <2>2, <6>2, <7>2
          <6> QED
            BY <6>1, <6>2
        <5> QED
          BY <4>1, <5>1 DEF rs
      <4>2. CASE ~CompletesRun(t)
        <5>1. PICK u \in Items \ {t} : /\ u[1] = t[1] /\ item[u] # None
                                       /\ item[u].status # "confirmed"
          BY <4>2 DEF CompletesRun
        <5>2. u = <<r, u[2]>> /\ u[2] \in Planned(r)
          BY <2>3, <5>1, ItemParts DEF Planned
        <5>3. item'[<<r, u[2]>>].status # "confirmed"
          BY <1>11, <5>1, <5>2
        <5>4. rs # "confirmed"
          BY <1>7, <4>2 DEF rs
        <5> QED
          BY <5>2, <5>3, <5>4
      <4> QED
        BY <4>1, <4>2
    <3>2. run'[r].status = rs /\ run[r] # None
      BY <1>5, <1>10, <2>3
    <3> QED
      BY <1>10, <1>12, <2>1, <2>2, <3>1, <3>2
  <2>4. CASE r # t[1]
    <3>1. \A i \in Planned(r) :
            item'[<<r, i>>].status = item[<<r, i>>].status
      BY <1>4, <1>11, <2>2, <2>4
    <3>2. (\A i \in Planned(r) : item'[<<r, i>>].status = "confirmed") =
          (\A i \in Planned(r) : item[<<r, i>>].status = "confirmed")
      BY <3>1
    <3> QED
      BY <1>10, <1>12, <2>1, <2>2, <2>4, <3>2
  <2> QED
    BY <2>3, <2>4
<1>15. ItemRows'
  <2> SUFFICES ASSUME NEW u \in Items, item'[u] # None
               PROVE  /\ (item'[u].status = "planned") = (item'[u].tx = None)
                      /\ item'[u].tx # None =>
                          \A w \in Items :
                            item'[w] # None /\ item'[w].tx = item'[u].tx
                                => w = u
                      /\ item'[u].status = "confirmed" => Paid(u)'
    BY DEF ItemRows, Confirmed
  <2>1. item[u] # None
    BY <1>11
  <2>2. /\ (item[u].status = "planned") = (item[u].tx = None)
        /\ item[u].tx # None =>
              \A w \in Items :
                item[w] # None /\ item[w].tx = item[u].tx => w = u
        /\ item[u].status = "confirmed" => Paid(u)
    BY <2>1 DEF SettlementInv, ItemRows, Confirmed
  <2>3. item'[u].status = "confirmed" => Paid(u)'
    <3> SUFFICES ASSUME item'[u].status = "confirmed"
                 PROVE  Paid(u)'
      OBVIOUS
    <3>1. CASE u = t
      <4>1. receipt'[t] = o /\ item[o] # None /\ o \in Items
        BY <1>1, <1>3 DEF SettlementInv, PaymentRows
      <4>2. item'[t].tx = x /\ item'[t].payout = item[t].payout
            /\ item'[o].payout = item[o].payout
        BY <1>1, <1>11, <4>1
      <4> QED
        BY <1>1, <1>2, <3>1, <4>1, <4>2 DEF Paid
    <3>2. CASE u # t
      <4>1. item[u].status = "confirmed"
        BY <1>11, <2>1, <3>2
      <4>2. item[u].tx # None /\ item[u] \in Item
        BY <1>3, <2>1, <2>2, <4>1
      <4>3. Paid(u) /\ item[u].tx \in Payments
        BY <2>2, <4>1, <4>2 DEF Item
      <4>4. receipt[u] \in Items /\ item[receipt[u]] # None
        BY <1>3, <4>3 DEF SettlementInv, PaymentRows, Paid
      <4>5. receipt'[u] = receipt[u]
        BY <1>1, <1>3, <3>2
      <4> QED
        BY <1>2, <1>11, <2>1, <4>3, <4>4, <4>5 DEF Paid
    <3> QED
      BY <3>1, <3>2
  <2>4. (item'[u].status = "planned") = (item'[u].tx = None)
    BY <1>1, <1>11, <2>1, <2>2, SettlementAssumption
  <2>5. item'[u].tx # None =>
            \A w \in Items :
                item'[w] # None /\ item'[w].tx = item'[u].tx => w = u
    BY <1>11, <2>1, <2>2
  <2> QED
    BY <2>3, <2>4, <2>5
<1>16. ClosedByRun'
  <2> SUFFICES ASSUME NEW i \in Intents,
                      position'[i] \in {"settled", "refunded"}
               PROVE  \E r \in Runs : /\ run'[r] # None
                                      /\ run'[r].status = "confirmed"
                                      /\ position'[i] = Closed(run'[r].kind)
    BY DEF ClosedByRun, Closed
  <2>1. CASE position'[i] = position[i]
    <3>1. PICK r \in Runs : /\ run[r] # None
                            /\ run[r].status = "confirmed"
                            /\ position[i] = Closed(run[r].kind)
      BY <2>1 DEF SettlementInv, ClosedByRun
    <3>2. r # t[1]
      BY <1>7, <3>1
    <3> QED
      BY <1>10, <2>1, <3>1, <3>2
  <2>2. CASE position'[i] # position[i]
    <3>1. rs = "confirmed" /\ position'[i] = Closed(run[t[1]].kind)
      BY <1>12, <2>2
    <3> QED
      BY <1>4, <1>5, <1>10, <3>1
  <2> QED
    BY <2>1, <2>2
<1> QED
  BY <1>9, <1>13, <1>14, <1>15, <1>16 DEF SettlementInv, ItemUpdated
-----------------------------------------------------------------------------
(* The invariant of markets and settlements, whatever the stakes, the fee  *)
(* and the runs, and in whatever order requests, evidence and payments     *)
(* come in.                                                                *)
THEOREM SettlementInvariant == SettlementSpec => []SettlementInv
<1>1. SettlementInit => SettlementInv
  BY SettlementInvInit
<1>2. SettlementInv /\ [SettlementNext]_allMarketVars => SettlementInv'
  <2> SUFFICES ASSUME SettlementInv, [SettlementNext]_allMarketVars
               PROVE  SettlementInv'
    OBVIOUS
  <2>1. CASE MarketNext /\ UNCHANGED settlementVars
    BY <2>1, MarketKeepsSettlement
  <2>2. ASSUME NEW r \in Runs, NEW kind \in {"payout", "refund"},
               NEW lucky \in SUBSET Intents,
               CreateSettlementPlan(r, kind, lucky)
        PROVE  SettlementInv'
    BY <2>2, PlanKeepsSettlement
  <2>3. ASSUME NEW x \in Payments,
               \/ \E S \in Batches : PayItems(S, x)
               \/ \E t \in Items : SubmitItem(t, x)
               \/ \E t, o \in Items : AcceptSettlementEvidence(t, x, o)
        PROVE  SettlementInv'
    BY <2>3, PaymentKeepsSettlement, SubmissionKeepsSettlement,
       AcceptanceKeepsSettlement
  <2>4. CASE UNCHANGED allMarketVars
    <3>1. UNCHANGED marketVars /\ UNCHANGED settlementVars
      BY <2>4 DEF allMarketVars
    <3>2. MarketInv'
      BY <3>1, BooksUntouched DEF SettlementInv
    <3>3. /\ position' = position /\ intent' = intent
          /\ UNCHANGED <<run, item, receipt, payment>>
      BY <3>1 DEF marketVars, staking, holdings, settlementVars
    <3>4. SettlementTypes' /\ RunRows' /\ PaymentRows' /\ ClosedByRun'
      BY <3>3 DEF SettlementInv, SettlementTypes, RunRows, PaymentRows,
         ClosedByRun, Planned, Confirmed, Closed
    <3>5. ItemRows'
      BY <3>3 DEF SettlementInv, ItemRows, Confirmed, Paid
    <3>6. PlanIsExact'
      BY <3>3, PlansKept DEF SettlementInv
    <3> QED
      BY <3>2, <3>4, <3>5, <3>6 DEF SettlementInv
  <2> QED
    BY <2>1, <2>2, <2>3, <2>4 DEF SettlementNext
<1> QED
  BY <1>1, <1>2, PTL DEF SettlementSpec

(* However submissions overwrite each other, and evidence is reported for  *)
(* the wrong intent, every position has a stake of its own on the ledger   *)
(* and the totals count each once.                                         *)
THEOREM MarketPositionsAreBacked == SettlementSpec => []PositionsAreBacked
<1>1. SettlementInv => PositionsAreBacked
  BY MarketInvBacked DEF SettlementInv
<1> QED
  BY <1>1, SettlementInvariant, PTL

(* create_settlement_plan divides exactly what is staked less the fee,     *)
(* whatever the stakes and the fee.                                        *)
THEOREM SettlementPlanIsExact == SettlementSpec => []PlanIsExact
<1>1. SettlementInv => PlanIsExact
  BY DEF SettlementInv
<1> QED
  BY <1>1, SettlementInvariant, PTL

(* A run is confirmed with all its items, an item with a payment of its    *)
(* own, and a position is closed only with such a run.                     *)
THEOREM SettlementRunsArePaid == SettlementSpec => []RunsArePaid
<1>1. SettlementInv => RunsArePaid
  <2> SUFFICES ASSUME SettlementInv
               PROVE  RunsArePaid
    OBVIOUS
  <2> DEFINE confirmed ==
        {t \in Items : item[t] # None /\ item[t].status = "confirmed"}
  <2>1. SettlementTypeOK
    BY DEF SettlementInv, MarketInv, SettlementTypes, SettlementTypeOK
  <2>2. ASSUME NEW r \in Runs, run[r] # None
        PROVE  (run[r].status = "confirmed") =
                    (\A i \in Planned(r) : <<r, i>> \in confirmed)
    <3>1. \A i \in Planned(r) : <<r, i>> \in Items /\ item[<<r, i>>] # None
      BY DEF Planned, Items
    <3>2. (\A i \in Planned(r) : <<r, i>> \in confirmed) =
          (\A i \in Planned(r) : item[<<r, i>>].status = "confirmed")
      BY <3>1
    <3> QED
      BY <2>2, <3>2 DEF SettlementInv, RunRows, Confirmed
  <2>3. ASSUME NEW t \in confirmed
        PROVE  /\ Paid(t)
               /\ \A u \in confirmed : item[u].tx = item[t].tx => u = t
    <3>1. t \in Items /\ item[t] # None /\ item[t].status = "confirmed"
      OBVIOUS
    <3>2. item[t].tx # None
      BY <3>1 DEF SettlementInv, ItemRows
    <3> QED
      BY <3>1, <3>2 DEF SettlementInv, ItemRows, Confirmed
  <2> QED
    BY <2>1, <2>2, <2>3
       DEF RunsArePaid, Paid, SettlementInv, ClosedByRun
<1> QED
  BY <1>1, SettlementInvariant, PTL
-----------------------------------------------------------------------------
(* A step that leaves anchors and events alone confirms nothing.           *)
LEMMA AnchorsStay ==
  ASSUME UNCHANGED <<anchor, published>>
  PROVE  UNCHANGED Confirmation!vars
BY DEF Confirmation!vars, AnchorsWanted, AnchorsApplied, AnchorsConfirmed

(* The anchors of rounds implement module LedgerConfirmation               *)
(* (create_anchor_intent, publish, accept_anchor_evidence).                *)
LEMMA AnchorsConfirmStep ==
  VotingInv /\ VotingInv' /\ [Next]_vars => [Confirmation!Next]_(Confirmation!vars)
<1> SUFFICES ASSUME VotingInv, VotingInv', [Next]_vars
             PROVE  [Confirmation!Next]_(Confirmation!vars)
  OBVIOUS
<1>1. CASE UNCHANGED <<anchor, published>>
  BY <1>1, AnchorsStay
<1>2. ASSUME NEW r \in Rounds, CreateAnchorIntent(r)
      PROVE  Confirmation!Next
  <2>1. /\ anchor[r] = NoAnchor
        /\ anchor'[r].status = "created"
        /\ \A q \in Rounds \ {r} : anchor'[q] = anchor[q]
        /\ UNCHANGED published
    BY <1>2 DEF CreateAnchorIntent, VotingInv, TypeOK
  <2>2. Confirmation!Grows(AnchorsWanted, AnchorsWanted')
    BY <2>1 DEF Confirmation!Grows, AnchorsWanted
  <2>3. UNCHANGED AnchorsApplied
    BY <2>1 DEF AnchorsApplied
  <2>4. UNCHANGED AnchorsConfirmed
    BY <2>1 DEF AnchorsConfirmed
  <2> QED
    BY <2>2, <2>3, <2>4 DEF Confirmation!Next, Confirmation!Ask
<1>3. ASSUME NEW r \in Rounds, NEW t \in Txs, RecordAnchorSubmission(r, t)
      PROVE  UNCHANGED Confirmation!vars
  <2>1. /\ anchor \in [Rounds -> Anchor \union {NoAnchor}]
        /\ anchor[r] # NoAnchor /\ anchor[r] \in Anchor
        /\ anchor[r].status = "created"
        /\ anchor' = [anchor EXCEPT ![r].status = "submitted", ![r].tx = t]
        /\ UNCHANGED published
    BY <1>3 DEF RecordAnchorSubmission, VotingInv, TypeOK
  <2>2. /\ anchor'[r] # NoAnchor
        /\ anchor'[r].status = "submitted"
        /\ anchor'[r].votes = anchor[r].votes
        /\ \A q \in Rounds \ {r} : anchor'[q] = anchor[q]
    <3>1. anchor'[r] = [anchor[r] EXCEPT !.status = "submitted", !.tx = t]
      BY <2>1
    <3>2. /\ anchor'[r].status = "submitted"
          /\ anchor'[r].votes = anchor[r].votes
      BY <2>1, <3>1 DEF Anchor
    <3>3. anchor'[r] \in Anchor
      BY <2>1, <3>1 DEF Anchor
    <3> QED
      BY <2>1, <3>2, <3>3, VotingAssumption
  <2>3. UNCHANGED AnchorsWanted
    <3>1. \A q \in Rounds : /\ anchor'[q] # NoAnchor <=> anchor[q] # NoAnchor
                            /\ anchor'[q].votes = anchor[q].votes
      BY <2>1, <2>2
    <3> QED
      BY <3>1 DEF AnchorsWanted
  <2>4. UNCHANGED AnchorsApplied
    BY <2>1 DEF AnchorsApplied
  <2>5. UNCHANGED AnchorsConfirmed
    <3>1. \A q \in Rounds :
              /\ anchor'[q] # NoAnchor <=> anchor[q] # NoAnchor
              /\ anchor'[q].status = "confirmed" <=> anchor[q].status = "confirmed"
              /\ anchor[q].status = "confirmed" => anchor'[q] = anchor[q]
      BY <2>1, <2>2
    <3> QED
      BY <3>1 DEF AnchorsConfirmed
  <2> QED
    BY <2>3, <2>4, <2>5 DEF Confirmation!vars
<1>4. ASSUME NEW r \in Rounds, NEW t \in Txs, AcceptAnchorEvidence(r, t)
      PROVE  Confirmation!Next
  <2>1. /\ anchor \in [Rounds -> Anchor \union {NoAnchor}]
        /\ anchor[r] # NoAnchor /\ anchor[r] \in Anchor
        /\ anchor[r].status = "submitted"
        /\ anchor[r].tx = t
        /\ published[t] # NoEvent /\ published[t] \in PublishEvent
        /\ published[t].round = r
        /\ published[t].votes = anchor[r].votes
        /\ anchor' = [anchor EXCEPT ![r].status = "confirmed"]
        /\ UNCHANGED published
    BY <1>4 DEF AcceptAnchorEvidence, MatchesIntent, EventOfTx, ConfirmAnchor,
       VotingInv, TypeOK
  <2>2. /\ anchor'[r] # NoAnchor
        /\ anchor'[r].status = "confirmed"
        /\ anchor'[r].votes = anchor[r].votes
        /\ anchor'[r].tx = t
        /\ \A q \in Rounds \ {r} : anchor'[q] = anchor[q]
    <3>1. anchor'[r] \in Anchor /\ anchor'[r].status = "confirmed"
          /\ anchor'[r].votes = anchor[r].votes
          /\ anchor'[r].tx = t
      BY <2>1 DEF Anchor
    <3> QED
      BY <2>1, <3>1, VotingAssumption
  <2>3. UNCHANGED AnchorsWanted
    BY <2>1, <2>2 DEF AnchorsWanted
  <2>4. UNCHANGED AnchorsApplied
    BY <2>1 DEF AnchorsApplied
  <2>5. /\ r \in DOMAIN AnchorsWanted \ DOMAIN AnchorsConfirmed
        /\ t \in DOMAIN AnchorsApplied
    BY <2>1 DEF AnchorsWanted, AnchorsApplied, AnchorsConfirmed
  <2>6. AnchorsApplied[t] \in AnchorsWanted[r]
    BY <2>1 DEF AnchorsWanted, AnchorsApplied, PublishEvent
  <2>7. \A s \in DOMAIN AnchorsConfirmed : AnchorsConfirmed[s] # t
    BY <2>1 DEF AnchorsConfirmed, VotingInv, ChainInv
  <2>8. /\ Confirmation!Grows(AnchorsConfirmed, AnchorsConfirmed')
        /\ DOMAIN AnchorsConfirmed' = DOMAIN AnchorsConfirmed \union {r}
        /\ AnchorsConfirmed'[r] = t
    BY <2>1, <2>2 DEF AnchorsConfirmed, Confirmation!Grows
  <2>9. Confirmation!Confirm(r, t)
    BY <2>3, <2>4, <2>6, <2>7, <2>8 DEF Confirmation!Confirm
  <2> QED
    BY <2>5, <2>9 DEF Confirmation!Next
<1>5. ASSUME NEW r \in Rounds, NEW t \in Txs, NEW votes \in SUBSET Requests,
             Publish(t, r, votes)
      PROVE  Confirmation!Next
  <2>1. Confirmation!Grows(AnchorsApplied, AnchorsApplied')
    <3>1. /\ published[t] = NoEvent
          /\ \A x \in Txs \ {t} : published'[x] = published[x]
      BY <1>5 DEF Publish, VotingInv, TypeOK
    <3> QED
      BY <3>1 DEF AnchorsApplied, Confirmation!Grows
  <2>2. UNCHANGED <<AnchorsWanted, AnchorsConfirmed>>
    BY <1>5 DEF Publish, AnchorsWanted, AnchorsConfirmed
  <2> QED
    BY <2>1, <2>2 DEF Confirmation!Next, Confirmation!Apply
<1>6. ASSUME NEW r \in Rounds,
             \/ CreateRound(r) \/ OpenRound(r) \/ CloseRound(r)
             \/ CreateSnapshot(r) \/ ClockAdvances(r)
      PROVE  UNCHANGED <<anchor, published>>
  BY <1>6 DEF CreateRound, OpenRound, CloseRound, CreateSnapshot,
     ClockAdvances
<1>7. ASSUME NEW q \in Requests,
             InsertVote(q) \/ \E b \in Ballot : CheckVote(q, b)
      PROVE  UNCHANGED <<anchor, published>>
  BY <1>7 DEF InsertVote, CheckVote
<1> QED
  BY <1>1, <1>2, <1>3, <1>4, <1>5, <1>6, <1>7 DEF Next, vars

(* An anchor is confirmed by one event, which publishes it: see            *)
(* ConfirmsAnchors.                                                        *)
THEOREM VotingConfirmsAnchors == Spec => ConfirmsAnchors
<1>1. Init => Confirmation!Init
  BY DEF Init, Confirmation!Init, AnchorsApplied, AnchorsConfirmed
<1> QED
  BY <1>1, AnchorsConfirmStep, VotingInvariant, PTL
     DEF Spec, ConfirmsAnchors, Confirmation!Spec
-----------------------------------------------------------------------------
(* Positions that stay, of intents that stay, change nothing of what       *)
(* module LedgerConfirmation says of stakes.                               *)
LEMMA StakesStay ==
  ASSUME \A i \in Intents : (intent'[i] = None) = (intent[i] = None),
         \A i \in Intents : (position'[i] = None) = (position[i] = None),
         stake' = stake, evidence' = evidence
  PROVE  UNCHANGED Stakes!vars
<1>1. UNCHANGED StakesWanted
  BY DEF StakesWanted
<1>2. UNCHANGED StakesApplied
  BY DEF StakesApplied
<1>3. UNCHANGED StakesConfirmed
  BY DEF StakesConfirmed
<1> QED
  BY <1>1, <1>2, <1>3 DEF Stakes!vars

(* The steps of a market: create_stake_intent asks, a user stakes, and     *)
(* accept_position_evidence confirms.                                      *)
LEMMA MarketConfirmsStep ==
  ASSUME MarketInv, MarketNext
  PROVE  [Stakes!Next]_(Stakes!vars)
<1>1. /\ intent \in [Intents -> Intent \union {None}]
      /\ stake \in [StakeTxs -> Intents \union {None}]
      /\ position \in [Intents -> {"active", "settled", "refunded", None}]
      /\ evidence \in [Intents -> StakeTxs \union {None}]
      /\ PositionRows
  BY DEF MarketInv, MarketTypeOK
<1> USE DEF holdings
<1>2. CASE UNCHANGED <<intent, stake, evidence, position>>
  BY <1>2, StakesStay
<1>3. CASE \/ CreateMarket \/ TimePasses \/ WriteTransition
           \/ \E decision \in {"allow", "deny"} :
                    RecordPolicyDecision(decision)
           \/ \E target \in Statuses, k \in Outcomes \union {None} :
                    TransitionMarket(target, k) \/ ReadTransition(target, k)
           \/ \E i \in Intents, h \in StakeTxs : ReadSubmission(i, h)
  BY <1>2, <1>3 DEF CreateMarket, TimePasses, WriteTransition,
     RecordPolicyDecision, TransitionMarket, ReadTransition, WriteStatus,
     ReadSubmission, staking
<1>4. ASSUME NEW i \in Intents, NEW row \in Intent, intent[i] # None,
             intent' = [intent EXCEPT ![i] = row],
             UNCHANGED <<stake, evidence, position>>
      PROVE  UNCHANGED Stakes!vars
  <2>1. \A j \in Intents : (intent'[j] = None) = (intent[j] = None)
    BY <1>1, <1>4, IntentAssumption
  <2> QED
    BY <1>4, <2>1, StakesStay
<1>5. ASSUME NEW i \in Intents, InsertStakeIntent(i) \/ ExpireIntent(i)
      PROVE  UNCHANGED Stakes!vars
  <2>1. intent[i] # None /\ intent[i] \in Intent
    BY <1>1, <1>5 DEF InsertStakeIntent, ExpireIntent
  <2>2. PICK s \in {"awaiting_signature", "expired"} :
            intent' = [intent EXCEPT ![i] = [intent[i] EXCEPT !.status = s]]
    BY <1>5 DEF InsertStakeIntent, ExpireIntent
  <2>3. [intent[i] EXCEPT !.status = s] \in Intent
    BY <2>1 DEF Intent
  <2>4. UNCHANGED <<stake, evidence, position>>
    BY <1>5 DEF InsertStakeIntent, ExpireIntent
  <2> QED
    BY <1>4, <2>1, <2>2, <2>3, <2>4
<1>6. ASSUME NEW i \in Intents, NEW h \in StakeTxs, WriteSubmission(i, h)
      PROVE  UNCHANGED Stakes!vars
  <2>1. intent[i] # None
    BY <1>1, <1>6 DEF WriteSubmission, PositionRows
  <2>2. intent[i] \in Intent
    BY <1>1, <2>1
  <2> DEFINE row == [intent[i] EXCEPT !.status = "submitted", !.tx = h]
  <2>3. row \in Intent
    BY <2>2 DEF Intent
  <2>4. intent' = intent \/ intent' = [intent EXCEPT ![i] = row]
    BY <1>1, <1>6, <2>2 DEF WriteSubmission, Intent
  <2>5. UNCHANGED <<stake, evidence, position>>
    BY <1>6 DEF WriteSubmission
  <2> HIDE DEF row
  <2>6. CASE intent' = intent
    BY <2>5, <2>6, StakesStay
  <2>7. CASE intent' = [intent EXCEPT ![i] = row]
    BY <1>4, <2>1, <2>3, <2>5, <2>7
  <2> QED
    BY <2>4, <2>6, <2>7
<1>7. ASSUME NEW i \in Intents, NEW k \in Outcomes, CheckStakeIntent(i, k)
      PROVE  Stakes!Next
  <2>1. /\ intent[i] = None
        /\ \A j \in Intents \ {i} : intent'[j] = intent[j]
        /\ UNCHANGED <<stake, evidence, position>>
    BY <1>1, <1>7 DEF CheckStakeIntent
  <2>2. Stakes!Grows(StakesWanted, StakesWanted')
    BY <2>1 DEF StakesWanted, Stakes!Grows
  <2>3. UNCHANGED StakesApplied
    BY <2>1 DEF StakesApplied
  <2>4. UNCHANGED StakesConfirmed
    BY <2>1 DEF StakesConfirmed
  <2> QED
    BY <2>2, <2>3, <2>4 DEF Stakes!Next, Stakes!Ask
<1>8. ASSUME NEW i \in Intents, NEW h \in StakeTxs, SendStake(i, h)
      PROVE  Stakes!Next
  <2>1. /\ stake[h] = None
        /\ \A g \in StakeTxs \ {h} : stake'[g] = stake[g]
        /\ UNCHANGED <<intent, evidence, position>>
    BY <1>1, <1>8 DEF SendStake
  <2>2. Stakes!Grows(StakesApplied, StakesApplied')
    BY <2>1 DEF StakesApplied, Stakes!Grows
  <2>3. UNCHANGED StakesWanted
    BY <2>1 DEF StakesWanted
  <2>4. UNCHANGED StakesConfirmed
    BY <2>1 DEF StakesConfirmed
  <2> QED
    BY <2>2, <2>3, <2>4 DEF Stakes!Next, Stakes!Apply
<1>9. ASSUME NEW i \in Intents, NEW h \in StakeTxs,
             AcceptPositionEvidence(i, h)
      PROVE  Stakes!Next
  <2>1. /\ intent[i] # None /\ FreshEvidence(i, h) /\ EvidenceMatches(i, h)
        /\ evidence' = [evidence EXCEPT ![i] = h]
        /\ position' = [position EXCEPT ![i] = "active"]
        /\ intent' = [intent EXCEPT ![i] =
                        [intent[i] EXCEPT !.status = "confirmed"]]
        /\ stake' = stake
    BY <1>9 DEF AcceptPositionEvidence
  <2>2. \A j \in Intents : (intent'[j] = None) = (intent[j] = None)
    <3>1. [intent[i] EXCEPT !.status = "confirmed"] \in Intent
      BY <1>1, <2>1 DEF Intent
    <3> QED
      BY <1>1, <2>1, <3>1, IntentAssumption
  <2>3. UNCHANGED StakesWanted
    BY <2>2 DEF StakesWanted
  <2>4. UNCHANGED StakesApplied
    BY <2>1 DEF StakesApplied
  <2>5. /\ position[i] = None
        /\ \A j \in Intents : evidence[j] # h
    BY <1>1, <2>1 DEF FreshEvidence, PositionRows
  <2>6. /\ i \in DOMAIN StakesWanted \ DOMAIN StakesConfirmed
        /\ h \in DOMAIN StakesApplied
        /\ StakesApplied[h] \in StakesWanted[i]
        /\ \A j \in DOMAIN StakesConfirmed : StakesConfirmed[j] # h
    BY <2>1, <2>5 DEF StakesWanted, StakesApplied, StakesConfirmed,
       EvidenceMatches
  <2>7. /\ position'[i] # None /\ evidence'[i] = h
        /\ \A j \in Intents \ {i} : /\ position'[j] = position[j]
                                    /\ evidence'[j] = evidence[j]
    BY <1>1, <2>1, MarketsAssumption
  <2>8. /\ Stakes!Grows(StakesConfirmed, StakesConfirmed')
        /\ DOMAIN StakesConfirmed' = DOMAIN StakesConfirmed \union {i}
        /\ StakesConfirmed'[i] = h
    BY <2>5, <2>7 DEF StakesConfirmed, Stakes!Grows
  <2>9. Stakes!Confirm(i, h)
    BY <2>3, <2>4, <2>6, <2>8 DEF Stakes!Confirm
  <2> QED
    BY <2>6, <2>9 DEF Stakes!Next
<1> QED
  BY <1>3, <1>5, <1>6, <1>7, <1>8, <1>9 DEF MarketNext

(* A settlement closes positions, and opens and forgets none.              *)
LEMMA SettlementKeepsStakes ==
  ASSUME SettlementInv, SettlementNext, ~MarketNext
  PROVE  UNCHANGED Stakes!vars
<1>1. /\ position \in [Intents -> {"active", "settled", "refunded", None}]
  BY DEF SettlementInv, MarketInv, MarketTypeOK
<1>2. ASSUME NEW r \in Runs, NEW kind \in {"payout", "refund"},
             NEW lucky \in SUBSET Intents, CreateSettlementPlan(r, kind, lucky)
      PROVE  UNCHANGED <<intent, stake, evidence, position>>
  BY <1>2 DEF CreateSettlementPlan, staking, holdings
<1>3. ASSUME NEW x \in Payments,
             \/ \E S \in Batches : PayItems(S, x)
             \/ \E t \in Items : SubmitItem(t, x)
      PROVE  UNCHANGED <<intent, stake, evidence, position>>
  BY <1>3 DEF PayItems, SubmitItem, marketVars, staking, holdings
<1>4. ASSUME NEW t \in Items, NEW x \in Payments, NEW o \in Items,
             AcceptSettlementEvidence(t, x, o)
      PROVE  UNCHANGED Stakes!vars
  <2>1. UNCHANGED <<intent, stake, evidence>>
    BY <1>4 DEF AcceptSettlementEvidence, staking
  <2>2. \A i \in Intents : (position'[i] = None) = (position[i] = None)
    BY <1>1, <1>4, MarketsAssumption
       DEF AcceptSettlementEvidence, FinalizeRun, Closed
  <2> QED
    BY <2>1, <2>2, StakesStay
<1>5. CASE UNCHANGED <<intent, stake, evidence, position>>
  BY <1>5, StakesStay
<1> QED
  BY <1>2, <1>3, <1>4, <1>5 DEF SettlementNext

(* Every position is opened by one stake: see ConfirmsStakes.              *)
THEOREM MarketConfirmsStakes == SettlementSpec => ConfirmsStakes
<1>1. SettlementInit => Stakes!Init
  BY DEF SettlementInit, MarketInit, Stakes!Init, StakesApplied,
     StakesConfirmed
<1>2. SettlementInv /\ [SettlementNext]_allMarketVars
        => [Stakes!Next]_(Stakes!vars)
  <2> SUFFICES ASSUME SettlementInv, [SettlementNext]_allMarketVars
               PROVE  [Stakes!Next]_(Stakes!vars)
    OBVIOUS
  <2>1. CASE MarketNext
    BY <2>1, MarketConfirmsStep DEF SettlementInv
  <2>2. CASE SettlementNext /\ ~MarketNext
    BY <2>2, SettlementKeepsStakes
  <2>3. CASE UNCHANGED allMarketVars
    BY <2>3, StakesStay DEF allMarketVars, marketVars, staking, holdings
  <2> QED
    BY <2>1, <2>2, <2>3
<1> QED
  BY <1>1, <1>2, SettlementInvariant, PTL
     DEF SettlementSpec, ConfirmsStakes, Stakes!Spec

(* An item of which a step writes status and transaction says the same of  *)
(* whom it pays, and how much.                                             *)
LEMMA ItemWritten ==
  ASSUME SettlementTypes, NEW t \in Items, item[t] # None,
         NEW s \in {"submitted", "confirmed"},
         NEW x \in Payments \union {None},
         item' = [item EXCEPT ![t] = [item[t] EXCEPT !.status = s, !.tx = x]],
         payment' = payment
  PROVE  /\ \A u \in Items \ {t} : item'[u] = item[u]
         /\ item'[t] # None /\ item'[t].status = s /\ item'[t].tx = x
         /\ item'[t].payout = item[t].payout
         /\ UNCHANGED <<ItemsWanted, ItemsApplied>>
<1> DEFINE row == [item[t] EXCEPT !.status = s, !.tx = x]
<1>1. /\ item \in [Items -> Item \union {None}]
      /\ payment \in [Payments -> SUBSET Items]
      /\ item[t] \in Item
  BY DEF SettlementTypes
<1>2. /\ row \in Item /\ row.status = s /\ row.tx = x
      /\ row.payout = item[t].payout
  BY <1>1 DEF Item
<1>3. item'[t] = row /\ \A u \in Items \ {t} : item'[u] = item[u]
  BY <1>1
<1> HIDE DEF row
<1>4. row # None
  BY <1>2, SettlementRowAssumption
<1>5. UNCHANGED ItemsWanted
  BY <1>2, <1>3, <1>4 DEF ItemsWanted
<1>6. UNCHANGED ItemsApplied
  <2>1. \A u \in Items : item'[u].payout = item[u].payout
    BY <1>2, <1>3
  <2>2. \A y \in Payments : \A u \in payment[y] :
            item'[u].payout = item[u].payout
    BY <1>1, <2>1
  <2> QED
    BY <2>2 DEF ItemsApplied
<1> QED
  BY <1>2, <1>3, <1>4, <1>5, <1>6

(* The steps of a settlement: create_settlement_plan asks, a worker pays,  *)
(* and accept_settlement_evidence confirms.                                *)
LEMMA SettlementConfirmsStep ==
  ASSUME SettlementInv, SettlementNext
  PROVE  [Settling!Next]_(Settling!vars)
<1>1. /\ SettlementTypes /\ RunRows /\ ItemRows /\ PaymentRows
      /\ item \in [Items -> Item \union {None}]
      /\ receipt \in [Items -> Items \union {None}]
      /\ payment \in [Payments -> SUBSET Items]
  BY DEF SettlementInv, SettlementTypes
<1>2. CASE MarketNext /\ UNCHANGED settlementVars
  BY <1>2 DEF settlementVars, Settling!vars, ItemsWanted, ItemsApplied,
     ItemsConfirmed
<1>3. ASSUME NEW r \in Runs, NEW kind \in {"payout", "refund"},
             NEW lucky \in SUBSET Intents, CreateSettlementPlan(r, kind, lucky)
      PROVE  Settling!Next
  <2>1. run[r] = None /\ receipt' = receipt /\ payment' = payment
    BY <1>3 DEF CreateSettlementPlan
  <2>2. \A t \in Items : t[1] = r => item[t] = None
    <3>1. Planned(r) = {}
      BY <1>1, <2>1 DEF RunRows
    <3> QED
      BY <3>1, ItemParts DEF Planned
  <2>3. ASSUME NEW t \in Items
        PROVE  /\ item[t] # None => item'[t] = item[t]
               /\ item[t] = None /\ item'[t] # None =>
                    item'[t].status = "planned"
    <3> DEFINE mine == t[1] = r /\ t[2] \in Recipients(kind)
               row == [payout |-> PlannedPayout(t[2], kind, lucky),
                       tx |-> None, status |-> "planned"]
    <3>1. item'[t] = IF mine THEN row ELSE item[t]
      BY <1>3 DEF CreateSettlementPlan
    <3>2. row.status = "planned" /\ (mine => t[1] = r)
      OBVIOUS
    <3> HIDE DEF mine, row
    <3> QED
      BY <2>2, <3>1, <3>2
  <2>4. Settling!Grows(ItemsWanted, ItemsWanted')
    BY <2>3 DEF ItemsWanted, Settling!Grows
  <2>5. UNCHANGED ItemsApplied
    <3>1. \A x \in Payments : \A u \in payment[x] : item'[u] = item[u]
      BY <1>1, <2>3 DEF PaymentRows
    <3> QED
      BY <2>1, <3>1 DEF ItemsApplied
  <2>6. UNCHANGED ItemsConfirmed
    BY <2>1, <2>3 DEF ItemsConfirmed
  <2> QED
    BY <2>4, <2>5, <2>6 DEF Settling!Next, Settling!Ask
<1>4. ASSUME NEW S \in Batches, NEW x \in Payments, PayItems(S, x)
      PROVE  Settling!Next
  <2>1. /\ \A y \in Payments : payment[y] \subseteq payment'[y]
        /\ item' = item /\ receipt' = receipt
    BY <1>1, <1>4 DEF PayItems
  <2>2. Settling!Grows(ItemsApplied, ItemsApplied')
    BY <2>1 DEF ItemsApplied, Settling!Grows
  <2>3. UNCHANGED <<ItemsWanted, ItemsConfirmed>>
    BY <2>1 DEF ItemsWanted, ItemsConfirmed
  <2> QED
    BY <2>2, <2>3 DEF Settling!Next, Settling!Apply
<1>5. ASSUME NEW t \in Items, NEW x \in Payments, SubmitItem(t, x)
      PROVE  UNCHANGED Settling!vars
  <2>1. /\ item[t] # None /\ item[t].status = "planned"
        /\ receipt' = receipt /\ payment' = payment /\ item[t] \in Item
    BY <1>1, <1>5 DEF SubmitItem
  <2>2. item' = [item EXCEPT ![t] =
                    [item[t] EXCEPT !.status = "submitted", !.tx = x]]
    BY <1>1, <1>5, <2>1 DEF SubmitItem, Item
  <2>3. /\ \A u \in Items \ {t} : item'[u] = item[u]
        /\ item'[t].status = "submitted"
        /\ UNCHANGED <<ItemsWanted, ItemsApplied>>
    BY <1>1, <2>1, <2>2, ItemWritten
  <2>4. UNCHANGED ItemsConfirmed
    <3>1. \A u \in Items :
            (item'[u] # None /\ item'[u].status = "confirmed") <=>
                (item[u] # None /\ item[u].status = "confirmed")
      BY <2>1, <2>3
    <3>2. \A u \in Items : item[u] # None /\ item[u].status = "confirmed"
                                => item'[u] = item[u]
      BY <2>1, <2>3
    <3> QED
      BY <2>1, <3>1, <3>2 DEF ItemsConfirmed
  <2> QED
    BY <2>3, <2>4 DEF Settling!vars
<1>6. ASSUME NEW t \in Items, NEW x \in Payments, NEW o \in Items,
             AcceptSettlementEvidence(t, x, o)
      PROVE  Settling!Next
  <2>1. /\ item[t] # None /\ item[t].status = "submitted" /\ item[t].tx = x
        /\ o \in payment[x]
        /\ Account[o[2]] = Account[t[2]]
        /\ item[o].payout = item[t].payout
        /\ payment' = payment /\ item[t] \in Item
        /\ receipt'[t] = o
        /\ \A u \in Items \ {t} : receipt'[u] = receipt[u]
    BY <1>1, <1>6 DEF AcceptSettlementEvidence, ItemEvidenceMatches
  <2>2. item' = [item EXCEPT ![t] =
                    [item[t] EXCEPT !.status = "confirmed", !.tx = x]]
    BY <1>1, <1>6, <2>1 DEF AcceptSettlementEvidence, Item
  <2>3. /\ \A u \in Items \ {t} : item'[u] = item[u]
        /\ item'[t] # None /\ item'[t].status = "confirmed"
        /\ item'[t].tx = x
        /\ UNCHANGED <<ItemsWanted, ItemsApplied>>
    BY <1>1, <2>1, <2>2, ItemWritten
  <2>4. /\ t \in DOMAIN ItemsWanted \ DOMAIN ItemsConfirmed
        /\ <<x, o>> \in DOMAIN ItemsApplied
        /\ ItemsApplied[<<x, o>>] \in ItemsWanted[t]
    <3>1. <<x, o>> \in {q \in Payments \X Items : q[2] \in payment[q[1]]}
      BY <2>1
    <3>2. ItemsApplied[<<x, o>>] = <<Account[o[2]], item[o].payout>>
      BY <3>1 DEF ItemsApplied
    <3> QED
      BY <2>1, <3>1, <3>2 DEF ItemsWanted, ItemsApplied, ItemsConfirmed
  <2>5. \A u \in DOMAIN ItemsConfirmed : ItemsConfirmed[u] # <<x, o>>
    <3>1. x # None
      BY SettlementAssumption
    <3>2. \A u \in Items : item[u] # None /\ item[u].tx = x => u = t
      BY <1>1, <2>1, <3>1 DEF ItemRows
    <3> QED
      BY <2>1, <3>2 DEF ItemsConfirmed
  <2>6. /\ Settling!Grows(ItemsConfirmed, ItemsConfirmed')
        /\ DOMAIN ItemsConfirmed' = DOMAIN ItemsConfirmed \union {t}
        /\ ItemsConfirmed'[t] = <<x, o>>
    BY <2>1, <2>3 DEF ItemsConfirmed, Settling!Grows
  <2>7. Settling!Confirm(t, <<x, o>>)
    BY <2>3, <2>4, <2>5, <2>6 DEF Settling!Confirm
  <2> QED
    BY <2>4, <2>7 DEF Settling!Next
<1> QED
  BY <1>2, <1>3, <1>4, <1>5, <1>6 DEF SettlementNext

(* Every item is confirmed by one payment: see ConfirmsItems.              *)
THEOREM SettlementConfirmsItems == SettlementSpec => ConfirmsItems
<1>1. SettlementInit => Settling!Init
  BY DEF SettlementInit, Settling!Init, ItemsApplied, ItemsConfirmed
<1>2. SettlementInv /\ [SettlementNext]_allMarketVars
        => [Settling!Next]_(Settling!vars)
  <2> SUFFICES ASSUME SettlementInv, [SettlementNext]_allMarketVars
               PROVE  [Settling!Next]_(Settling!vars)
    OBVIOUS
  <2>1. CASE SettlementNext
    BY <2>1, SettlementConfirmsStep
  <2>2. CASE UNCHANGED allMarketVars
    BY <2>2 DEF allMarketVars, settlementVars, Settling!vars, ItemsWanted,
       ItemsApplied, ItemsConfirmed
  <2> QED
    BY <2>1, <2>2
<1> QED
  BY <1>1, <1>2, SettlementInvariant, PTL
     DEF SettlementSpec, ConfirmsItems, Settling!Spec
=============================================================================
