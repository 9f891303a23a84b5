------------------------------- MODULE Voting -------------------------------
(***************************************************************************)
(* Official voting: rounds, the intake of votes, the snapshot of a closed  *)
(* round and its anchoring on the ledger (services/api/src/voting.rs,      *)
(* voting_proofs.rs, voting_anchor.rs, contracts/audit-anchor).            *)
(*                                                                         *)
(* The handlers that move a round, take its snapshot or anchor it lock the *)
(* row they decide on for as long as they run, so each is one action.      *)
(* cast_vote locks nothing when it reads the round: between its read and   *)
(* its INSERT any number of other handlers may commit.  It is two actions. *)
(* The INSERT waits, for its foreign key, until no handler holds the round *)
(* FOR UPDATE, and those wait for the vote to commit, so the INSERT and    *)
(* the commit are one.                                                     *)
(*                                                                         *)
(* A definition marked FAULT is not part of the model: it is the next      *)
(* definition with a plausible mistake, which a property has to notice.    *)
(*                                                                         *)
(* A tally is a function of the votes it is computed from, and so are the  *)
(* leaves and the root of a snapshot once the votes are put in the order   *)
(* of their receipt hashes: all are represented by that set of votes.      *)
(***************************************************************************)
EXTENDS Merkle, SequencesExt

CONSTANTS
    Rounds,         \* rows of voting_rounds
    Requests,       \* requests to cast a vote, and the votes they become
    Voters,
    Contestants,
    Txs,            \* transactions that call publish of the contract
    MaxLeaves,      \* the largest tree whose proofs are checked
    NoBallot, NoSnapshot, NoAnchor, NoTx, NoEvent

Ballot == [round : Rounds, voter : Voters, contestant : Contestants]
Snapshot == [status : {"created", "anchor_pending", "anchored"},
             votes : SUBSET Requests]
Anchor == [status : {"created", "submitted", "confirmed"},
           votes : SUBSET Requests, tx : Txs \union {NoTx}]
PublishEvent == [round : Rounds, votes : SUBSET Requests]

ASSUME VotingAssumption ==
    /\ MaxLeaves \in Nat
    /\ NoBallot \notin Ballot
    /\ NoSnapshot \notin Snapshot
    /\ NoAnchor \notin Anchor
    /\ NoTx \notin Txs
    /\ NoEvent \notin PublishEvent

VARIABLES
    round,      \* voting_rounds.status; "none" before the row exists
    window,     \* where the clock stands: before opens_at, within, past closes_at
    request,    \* how far each cast_vote has come
    ballot,     \* what it asks for; of an accepted request, the row of votes
    snapshot,   \* the row of voting_snapshots and its leaves, by round
    anchor,     \* the row of voting_anchor_intents, by round
    published   \* the events of the audit-anchor contract, by transaction

vars == <<round, window, request, ballot, snapshot, anchor, published>>

RoundStatus == {"none", "scheduled", "open", "closed", "anchored"}
RequestState == {"idle", "checked", "accepted", "refused"}

Votes(r) == {q \in Requests : request[q] = "accepted" /\ ballot[q].round = r}

Init ==
    /\ round = [r \in Rounds |-> "none"]
    /\ window \in [Rounds -> {"before", "within"}]
    /\ request = [q \in Requests |-> "idle"]
    /\ ballot = [q \in Requests |-> NoBallot]
    /\ snapshot = [r \in Rounds |-> NoSnapshot]
    /\ anchor = [r \in Rounds |-> NoAnchor]
    /\ published = [t \in Txs |-> NoEvent]
-----------------------------------------------------------------------------
(* voting.rs *)

CreateRound(r) ==
    /\ round[r] = "none"
    /\ window[r] # "past"
    /\ round' = [round EXCEPT ![r] = "scheduled"]
    /\ UNCHANGED <<window, request, ballot, snapshot, anchor, published>>

OpenRound(r) ==
    /\ round[r] = "scheduled"
    /\ window[r] = "within"
    /\ round' = [round EXCEPT ![r] = "open"]
    /\ UNCHANGED <<window, request, ballot, snapshot, anchor, published>>

CloseRound(r) ==
    /\ round[r] = "open"
    /\ round' = [round EXCEPT ![r] = "closed"]
    /\ UNCHANGED <<window, request, ballot, snapshot, anchor, published>>

(* cast_vote up to its INSERT: the round is read once, without a lock. *)
CheckVote(q, b) ==
    /\ request[q] = "idle"
    /\ round[b.round] = "open"
    /\ window[b.round] = "within"
    /\ request' = [request EXCEPT ![q] = "checked"]
    /\ ballot' = [ballot EXCEPT ![q] = b]
    /\ UNCHANGED <<round, window, snapshot, anchor, published>>

(* FAULT: the unique key is missing. *)
NoVoterKey(voter, r) == FALSE

(* UNIQUE (round_id, voter_user_id). *)
HasVoted(voter, r) == \E q \in Votes(r) : ballot[q].voter = voter

(* The rest of it.  A second vote of a voter violates the unique key, or   *)
(* is answered with the receipt of the first when it repeats its request.  *)
InsertVote(q) ==
    /\ request[q] = "checked"
    /\ request' = [request EXCEPT ![q] =
            IF HasVoted(ballot[q].voter, ballot[q].round) THEN "refused"
                                                          ELSE "accepted"]
    /\ UNCHANGED <<round, window, ballot, snapshot, anchor, published>>
-----------------------------------------------------------------------------
(* voting_proofs.rs *)

(* FAULT: a repeated request takes the snapshot again. *)
RetakeSnapshot(r) ==
    /\ round[r] \in {"closed", "anchored"}
    /\ snapshot' = [snapshot EXCEPT ![r] =
            [status |-> "created", votes |-> Votes(r)]]
    /\ UNCHANGED <<round, window, request, ballot, anchor, published>>

CreateSnapshot(r) ==
    /\ round[r] \in {"closed", "anchored"}
    /\ snapshot[r] = NoSnapshot
    /\ snapshot' = [snapshot EXCEPT ![r] =
            [status |-> "created", votes |-> Votes(r)]]
    /\ UNCHANGED <<round, window, request, ballot, anchor, published>>

(* What get_receipt_proof answers: for every leaf of a tree the proof that *)
(* it computes is the one that verifies for this leaf, and for no other.   *)
ProofsHold(leaves) ==
    \A i, j \in DOMAIN leaves :
        VerifyProof(leaves[j], MerkleProof(leaves, i), MerkleRoot(leaves))
            <=> i = j
-----------------------------------------------------------------------------
(* voting_anchor.rs *)

CreateAnchorIntent(r) ==
    /\ snapshot[r] # NoSnapshot
    /\ snapshot[r].status \in {"created", "anchor_pending"}
    /\ anchor[r] = NoAnchor
    /\ anchor' = [anchor EXCEPT ![r] =
            [status |-> "created", votes |-> snapshot[r].votes, tx |-> NoTx]]
    /\ snapshot' = [snapshot EXCEPT ![r].status = "anchor_pending"]
    /\ UNCHANGED <<round, window, request, ballot, published>>

(* The worker reports a hash before it knows what became of it, and the    *)
(* hash is never replaced.                                                 *)
RecordAnchorSubmission(r, t) ==
    /\ anchor[r] # NoAnchor
    /\ anchor[r].status = "created"
    /\ anchor' = [anchor EXCEPT ![r].status = "submitted", ![r].tx = t]
    /\ UNCHANGED <<round, window, request, ballot, snapshot, published>>

(* What accept_anchor_evidence requires of the reported event. *)
EventOfTx(r, t) ==
    /\ anchor[r] # NoAnchor
    /\ anchor[r].status = "submitted"
    /\ anchor[r].tx = t
    /\ published[t] # NoEvent
    /\ published[t].round = r

(* FAULT: the root of the event is not compared. *)
MatchesRoundOnly(r, t) == EventOfTx(r, t)

MatchesIntent(r, t) == EventOfTx(r, t) /\ published[t].votes = anchor[r].votes

(* FAULT: the snapshot is left 'anchor_pending'. *)
ConfirmAnchorOnly(r) ==
    /\ anchor' = [anchor EXCEPT ![r].status = "confirmed"]
    /\ round' = [round EXCEPT ![r] = IF @ = "closed" THEN "anchored" ELSE @]
    /\ UNCHANGED snapshot

ConfirmAnchor(r) ==
    /\ anchor' = [anchor EXCEPT ![r].status = "confirmed"]
    /\ snapshot' = [snapshot EXCEPT ![r].status =
            IF @ = "anchor_pending" THEN "anchored" ELSE @]
    /\ round' = [round EXCEPT ![r] = IF @ = "closed" THEN "anchored" ELSE @]

(* The worker reports the contract event of transaction t. *)
AcceptAnchorEvidence(r, t) ==
    /\ MatchesIntent(r, t)
    /\ ConfirmAnchor(r)
    /\ UNCHANGED <<window, request, ballot, published>>
-----------------------------------------------------------------------------
(* contracts/audit-anchor: publish is refused for a round that has a       *)
(* checkpoint.  The administrator publishes what the intent says, or makes *)
(* a mistake in it; the mistake is represented by the empty checkpoint.    *)
HasCheckpoint(r) == \E t \in Txs : published[t] # NoEvent /\ published[t].round = r

Publish(t, r, votes) ==
    /\ anchor[r] # NoAnchor
    /\ votes \in {anchor[r].votes, {}}
    /\ published[t] = NoEvent
    /\ ~HasCheckpoint(r)
    /\ published' = [published EXCEPT ![t] = [round |-> r, votes |-> votes]]
    /\ UNCHANGED <<round, window, request, ballot, snapshot, anchor>>

ClockAdvances(r) ==
    /\ \/ window[r] = "before" /\ window' = [window EXCEPT ![r] = "within"]
       \/ window[r] = "within" /\ window' = [window EXCEPT ![r] = "past"]
    /\ UNCHANGED <<round, request, ballot, snapshot, anchor, published>>

Next ==
    \/ \E r \in Rounds :
        \/ CreateRound(r)
        \/ OpenRound(r)
        \/ CloseRound(r)
        \/ CreateSnapshot(r)
        \/ CreateAnchorIntent(r)
        \/ ClockAdvances(r)
        \/ \E t \in Txs :
            \/ RecordAnchorSubmission(r, t)
            \/ AcceptAnchorEvidence(r, t)
            \/ \E votes \in SUBSET Requests : Publish(t, r, votes)
    \/ \E q \in Requests :
        \/ \E b \in Ballot : CheckVote(q, b)
        \/ InsertVote(q)

Spec == Init /\ [][Next]_vars
-----------------------------------------------------------------------------
TypeOK ==
    /\ round \in [Rounds -> RoundStatus]
    /\ window \in [Rounds -> {"before", "within", "past"}]
    /\ request \in [Requests -> RequestState]
    /\ ballot \in [Requests -> Ballot \union {NoBallot}]
    /\ snapshot \in [Rounds -> Snapshot \union {NoSnapshot}]
    /\ anchor \in [Rounds -> Anchor \union {NoAnchor}]
    /\ published \in [Txs -> PublishEvent \union {NoEvent}]

ProofsHoldUpTo == \A n \in 0..MaxLeaves : ProofsHold([i \in 1..n |-> i])

(* Every receipt of a snapshot has a proof that leads from its leaf to the *)
(* root, whatever the number of votes and the order of their hashes, and   *)
(* that proof serves no other receipt (merkle_root, merkle_proof and       *)
(* verify_proof treat a node without sibling in the same way).             *)
ReceiptVerifies ==
    /\ ProofsHoldUpTo
    /\ \A r \in Rounds : snapshot[r] # NoSnapshot =>
            \A leaves \in SetToSeqs(snapshot[r].votes) :
                ProofsHold(leaves)

(* Concurrent requests of one voter, all of them checked before any is     *)
(* inserted, leave one vote in a round (UNIQUE (round_id, voter_user_id)). *)
OneVotePerVoter ==
    \A r \in Rounds : \A p, q \in Votes(r) :
        ballot[p].voter = ballot[q].voter => p = q

(* A snapshot is taken once and is not rewritten, by a repeated request or *)
(* by anything later (create_snapshot, UNIQUE (round_id)).                 *)
SnapshotIsKept ==
    [][\A r \in Rounds : snapshot[r] # NoSnapshot =>
            /\ snapshot'[r] # NoSnapshot
            /\ snapshot'[r].votes = snapshot[r].votes]_vars

(* The three rows that say a round is anchored are changed by three UPDATE *)
(* statements of accept_anchor_evidence and never disagree, and what is to *)
(* be anchored is what the snapshot holds (create_anchor_intent).          *)
AnchorRowsAgree ==
    /\ TypeOK
    /\ \A r \in Rounds :
        /\ round[r] = "anchored" <=>
                anchor[r] # NoAnchor /\ anchor[r].status = "confirmed"
        /\ round[r] = "anchored" <=>
                snapshot[r] # NoSnapshot /\ snapshot[r].status = "anchored"
        /\ anchor[r] # NoAnchor =>
                snapshot[r] # NoSnapshot /\ anchor[r].votes = snapshot[r].votes

(* docs/workstreams/MILESTONE_C_VOTING.md line 63: "Anchored state         *)
(* requires accepted indexed chain evidence and exact reconciliation."  An *)
(* anchored round has a checkpoint in the contract, of exactly the votes   *)
(* of its snapshot, made by the transaction its intent names.              *)
AnchoredIsOnChain ==
    \A r \in Rounds : round[r] = "anchored" =>
        \E t \in Txs : /\ published[t] = [round |-> r, votes |-> snapshot[r].votes]
                       /\ anchor[r].tx = t

(* docs/workstreams/MILESTONE_C_VOTING.md line 61: "Closing a round        *)
(* freezes the accepted vote set used to derive the immutable snapshot."   *)
(* So the snapshot holds every vote that was accepted.                     *)
CloseFreezesVotes ==
    \A r \in Rounds : snapshot[r] # NoSnapshot => snapshot[r].votes = Votes(r)

(* What module LedgerConfirmation says of anchors.                         *)
AnchorsWanted ==
    [r \in {q \in Rounds : anchor[q] # NoAnchor} |->
        {[round |-> r, votes |-> anchor[r].votes]}]
AnchorsApplied == [t \in {x \in Txs : published[x] # NoEvent} |-> published[t]]
AnchorsConfirmed ==
    [r \in {q \in Rounds : /\ anchor[q] # NoAnchor
                           /\ anchor[q].status = "confirmed"} |->
        anchor[r].tx]

Confirmation == INSTANCE LedgerConfirmation WITH
    wanted <- AnchorsWanted,
    applied <- AnchorsApplied,
    confirmedBy <- AnchorsConfirmed

(* Confirmed anchors are on the ledger: what is to be published of a round *)
(* is fixed with its anchor, which is confirmed once and for good, by a    *)
(* transaction that published just that and anchors no other round         *)
(* (create_anchor_intent, accept_anchor_evidence).                         *)
ConfirmsAnchors == Confirmation!Spec
=============================================================================
