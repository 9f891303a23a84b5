------------------------------- MODULE Markets ------------------------------
(***************************************************************************)
(* A prediction market of the API up to its positions: the transitions of  *)
(* its status, the policy decisions they ask for, stake intents, and the   *)
(* evidence that turns an intent into a position (services/api/src/        *)
(* markets.rs and accept_position_evidence of market_positions.rs).        *)
(*                                                                         *)
(* transition_market, create_stake_intent and record_submission read the   *)
(* rows they decide on without a lock and write later, so each is two      *)
(* actions with the request in flight between them.  Evidence is accepted  *)
(* under locks on the intent and the market and is one action.             *)
(*                                                                         *)
(* There is one market.  The decisions on the five policy actions are one  *)
(* here, whether a policy allows, as no property tells them apart; that a  *)
(* decision expires has the effect of recording another one.               *)
(*                                                                         *)
(* A definition marked FAULT is not part of the model: it is the next      *)
(* definition with a plausible mistake, which a property has to notice.    *)
(***************************************************************************)
EXTENDS Integers, FiniteSets, Functions

CONSTANTS
    Intents,            \* stake intents that may be created
    Amount,             \* amount_minor of each intent
    Account,            \* the account each intent is to be paid from
    Outcomes,           \* the outcomes of the market
    MaxUser,            \* max_user_exposure_minor
    MaxMarket,          \* max_market_exposure_minor
    DelayedTargets,     \* bound: the transitions that may be written late
    StakeTxs,           \* stake transactions
    GovernanceActions,  \* what the log of the market may record
    None

ASSUME MarketsAssumption ==
    /\ IsFiniteSet(Intents)
    /\ Amount \in [Intents -> Nat \ {0}]
    /\ Cardinality(Outcomes) >= 2
    /\ MaxUser \in Nat /\ MaxMarket \in Nat
    /\ None \notin StakeTxs \union Outcomes \union Intents
                    \union {"active", "settled", "refunded"}

VARIABLES
    status,     \* prediction_markets.status, None before it is created
    winner,     \* winning_outcome_id
    clock,      \* before opens_at, within the window, after closes_at
    allowed,    \* the policy decision in force is 'allow'
    delayed,    \* the transition a request in flight is to write
    intent,     \* rows of prediction_market_stake_intents
    submitting, \* the hashes that requests are to write to an intent
    stake,      \* the intent each transaction pays for on the ledger
    evidence,   \* the transaction accepted as evidence for an intent
    position,   \* prediction_market_positions.status
    totalActive \* prediction_market_outcomes.total_active_minor

market == <<status, winner>>
staking == <<intent, submitting, stake>>
holdings == <<evidence, position, totalActive>>
marketVars == <<market, clock, allowed, delayed, staking, holdings>>

Statuses ==
    {"draft", "pending_review", "approved", "open", "paused", "closed",
     "resolution_pending", "resolved", "cancelled", "settling", "settled",
     "archived"}

Intent ==
    [status : {"checked", "awaiting_signature", "submitted", "confirmed",
               "expired"},
     outcome : Outcomes, tx : StakeTxs \union {None}]

ASSUME IntentAssumption == None \notin Intent

MarketInit ==
    /\ status = None /\ winner = None
    /\ clock = "before"
    /\ allowed = FALSE
    /\ delayed = None
    /\ intent = [i \in Intents |-> None]
    /\ submitting = [i \in Intents |-> {}]
    /\ stake = [h \in StakeTxs |-> None]
    /\ evidence = [i \in Intents |-> None]
    /\ position = [i \in Intents |-> None]
    /\ totalActive = [k \in Outcomes |-> 0]
-----------------------------------------------------------------------------
CreateMarket ==
    /\ status = None
    /\ clock # "after"
    /\ "market.create" \in GovernanceActions
    /\ status' = "draft"
    /\ UNCHANGED <<winner, clock, allowed, delayed, staking, holdings>>

(* The third decision, 'review', has the effect of 'deny'. *)
RecordPolicyDecision(decision) ==
    /\ status # None
    /\ allowed' = (decision = "allow")
    /\ UNCHANGED <<market, clock, delayed, staking, holdings>>

Transitions ==
    {<<"draft", "pending_review">>, <<"pending_review", "approved">>,
     <<"approved", "open">>, <<"open", "paused">>, <<"paused", "open">>,
     <<"open", "closed">>, <<"paused", "closed">>,
     <<"closed", "resolution_pending">>, <<"resolution_pending", "resolved">>,
     <<"resolved", "settling">>, <<"settling", "settled">>,
     <<"settled", "archived">>, <<"cancelled", "archived">>}
    \union {"pending_review", "approved", "open", "paused", "closed",
            "resolution_pending"} \X {"cancelled"}

(* What transition_market reads, without a lock, before it writes. *)
MayMove(target, outcome) ==
    /\ <<status, target>> \in Transitions
    /\ target = "open" => clock = "within"
    /\ target = "resolution_pending" => clock = "after"
    /\ target \in {"open", "resolution_pending", "resolved", "settling"}
            => allowed
    /\ (target = "resolved") = (outcome # None)

(* The UPDATE asks for nothing but the id of the market. *)
WriteStatus(target, outcome) ==
    /\ "market.transition" \in GovernanceActions
    /\ status' = target
    /\ winner' = IF target = "resolved" THEN outcome ELSE winner
    /\ UNCHANGED <<clock, allowed, staking, holdings>>

(* Requests that nothing comes between, ... *)
TransitionMarket(target, outcome) ==
    /\ MayMove(target, outcome)
    /\ WriteStatus(target, outcome)
    /\ UNCHANGED delayed

(* ... and one at a time that writes late what it checked early. *)
ReadTransition(target, outcome) ==
    /\ delayed = None
    /\ target \in DelayedTargets
    /\ MayMove(target, outcome)
    /\ delayed' = [to |-> target, winner |-> outcome]
    /\ UNCHANGED <<market, clock, allowed, staking, holdings>>

WriteTransition ==
    /\ delayed # None
    /\ WriteStatus(delayed.to, delayed.winner)
    /\ delayed' = None

TimePasses ==
    /\ \/ clock = "before" /\ clock' = "within"
       \/ clock = "within" /\ clock' = "after"
    /\ UNCHANGED <<market, allowed, delayed, staking, holdings>>
-----------------------------------------------------------------------------
(* expires_at is closes_at: the window is no longer than the fifteen       *)
(* minutes an intent has, which is when expiry and closing meet.           *)
Due == clock = "after"

Pending(i) ==
    /\ intent[i] # None
    /\ intent[i].status \in {"awaiting_signature", "submitted"}
    /\ ~Due

SumOfAmounts(set) == SumFunctionOnSet(Amount, set)

(* Active positions and pending intents among those of set. *)
Exposure(set) ==
    SumOfAmounts({i \in set : position[i] = "active"})
        + SumOfAmounts({i \in set : Pending(i)})

(* create_stake_intent up to its INSERT, which comes in a later action. *)
CheckStakeIntent(i, outcome) ==
    /\ intent[i] = None
    /\ status = "open"
    /\ clock = "within"
    /\ allowed
    /\ Exposure({j \in Intents : Account[j] = Account[i]}) + Amount[i]
            <= MaxUser
    /\ Exposure(Intents) + Amount[i] <= MaxMarket
    /\ intent' = [intent EXCEPT ![i] =
            [status |-> "checked", outcome |-> outcome, tx |-> None]]
    /\ UNCHANGED <<market, clock, allowed, delayed, submitting, stake,
                   holdings>>

(* CHECK (expires_at > created_at): not once the market has closed. *)
InsertStakeIntent(i) ==
    /\ intent[i] # None
    /\ intent[i].status = "checked"
    /\ ~Due
    /\ intent' = [intent EXCEPT ![i].status = "awaiting_signature"]
    /\ UNCHANGED <<market, clock, allowed, delayed, submitting, stake,
                   holdings>>

ExpireIntent(i) ==
    /\ intent[i] # None
    /\ intent[i].status = "awaiting_signature"
    /\ Due
    /\ intent' = [intent EXCEPT ![i].status = "expired"]
    /\ UNCHANGED <<market, clock, allowed, delayed, submitting, stake,
                   holdings>>

(* The user signs and the transaction is applied to the ledger. *)
SendStake(i, h) ==
    /\ intent[i] # None
    /\ intent[i].status # "checked"
    /\ stake[h] = None
    /\ stake' = [stake EXCEPT ![h] = i]
    /\ UNCHANGED <<market, clock, allowed, delayed, intent, submitting,
                   holdings>>

(* record_submission up to its UPDATE. *)
ReadSubmission(i, h) ==
    /\ intent[i] # None
    /\ intent[i].status = "awaiting_signature"
    /\ ~Due
    /\ intent[i].tx = None
    /\ h \notin submitting[i]
    /\ submitting' = [submitting EXCEPT ![i] = @ \union {h}]
    /\ UNCHANGED <<market, clock, allowed, delayed, intent, stake,
                   holdings>>

(* The UPDATE asks for nothing but the id; hashes are unique. *)
WriteSubmission(i, h) ==
    LET taken == \E j \in Intents \ {i} : intent[j] # None /\ intent[j].tx = h
    IN  /\ h \in submitting[i]
        /\ submitting' = [submitting EXCEPT ![i] = @ \ {h}]
        /\ intent' = IF taken THEN intent
                     ELSE [intent EXCEPT ![i].status = "submitted",
                                         ![i].tx = h]
        /\ UNCHANGED <<market, clock, allowed, delayed, stake,
                       holdings>>
-----------------------------------------------------------------------------
(* FAULT: the same event is evidence for one intent after another. *)
ReusableEvidence(i, h) == evidence[i] = None

FreshEvidence(i, h) ==
    evidence[i] = None /\ \A j \in Intents : evidence[j] # h

(* Amount and source are compared, the hash and the outcome are not. *)
EvidenceMatches(i, h) ==
    /\ stake[h] # None
    /\ Amount[stake[h]] = Amount[i]
    /\ Account[stake[h]] = Account[i]

Active == {i \in Intents : position[i] = "active"}

AcceptPositionEvidence(i, h) ==
    /\ intent[i] # None
    /\ intent[i].status = "submitted"
    /\ FreshEvidence(i, h)
    /\ EvidenceMatches(i, h)
    /\ SumOfAmounts(Active) + Amount[i] <= MaxMarket
    /\ evidence' = [evidence EXCEPT ![i] = h]
    /\ position' = [position EXCEPT ![i] = "active"]
    /\ totalActive' = [totalActive EXCEPT ![intent[i].outcome] = @ + Amount[i]]
    /\ intent' = [intent EXCEPT ![i].status = "confirmed"]
    /\ UNCHANGED <<market, clock, allowed, delayed, submitting, stake>>
-----------------------------------------------------------------------------
MarketNext ==
    \/ CreateMarket
    \/ TimePasses
    \/ \E decision \in {"allow", "deny"} :
            RecordPolicyDecision(decision)
    \/ \E target \in Statuses, k \in Outcomes \union {None} :
            TransitionMarket(target, k) \/ ReadTransition(target, k)
    \/ WriteTransition
    \/ \E i \in Intents : InsertStakeIntent(i) \/ ExpireIntent(i)
    \/ \E i \in Intents, k \in Outcomes : CheckStakeIntent(i, k)
    \/ \E i \in Intents, h \in StakeTxs :
            \/ SendStake(i, h)
            \/ ReadSubmission(i, h)
            \/ WriteSubmission(i, h)
            \/ AcceptPositionEvidence(i, h)

MarketTypeOK ==
    /\ status \in Statuses \union {None}
    /\ winner \in Outcomes \union {None}
    /\ clock \in {"before", "within", "after"}
    /\ allowed \in BOOLEAN
    /\ delayed = None \/ delayed \in
            [to : Statuses, winner : Outcomes \union {None}]
    /\ intent \in [Intents -> Intent \union {None}]
    /\ submitting \in [Intents -> SUBSET StakeTxs]
    /\ stake \in [StakeTxs -> Intents \union {None}]
    /\ evidence \in [Intents -> StakeTxs \union {None}]
    /\ position \in [Intents -> {"active", "settled", "refunded", None}]
    /\ totalActive \in [Outcomes -> Nat]

(* However submissions overwrite each other and evidence is reported for   *)
(* the wrong intent, accept_position_evidence counts every stake on the    *)
(* ledger once: each position has a transaction of its own, of its amount  *)
(* and from its account, the totals shown per outcome are the positions on *)
(* it, and the active ones keep within the limit of the market.            *)
PositionsAreBacked ==
    LET Held == {i \in Intents : position[i] # None}
    IN  /\ MarketTypeOK
        /\ \A i \in Held :
            /\ evidence[i] # None
            /\ EvidenceMatches(i, evidence[i])
            /\ \A j \in Held : evidence[j] = evidence[i] => i = j
        /\ \A k \in Outcomes :
            totalActive[k] =
                SumOfAmounts({i \in Held : intent[i].outcome = k})
        /\ SumOfAmounts(Active) <= MaxMarket

(* What module LedgerConfirmation says of stakes.                          *)
StakesWanted ==
    [i \in {j \in Intents : intent[j] # None} |-> {<<Account[i], Amount[i]>>}]
StakesApplied ==
    [h \in {g \in StakeTxs : stake[g] # None} |->
        <<Account[stake[h]], Amount[stake[h]]>>]
StakesConfirmed ==
    [i \in {j \in Intents : position[j] # None} |-> evidence[i]]

Stakes == INSTANCE LedgerConfirmation WITH
    wanted <- StakesWanted,
    applied <- StakesApplied,
    confirmedBy <- StakesConfirmed

(* Positions are on the ledger: each was opened once and for good, by a    *)
(* stake of its amount from its account that opened no other position      *)
(* (accept_position_evidence).                                             *)
ConfirmsStakes == Stakes!Spec
=============================================================================
