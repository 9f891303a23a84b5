-------------------------- MODULE PredictionContract -------------------------
(***************************************************************************)
(* The prediction-market contract (contracts/prediction-market/src/        *)
(* lib.rs): markets that share one escrow account, stakes that can be      *)
(* withdrawn until a market closes, a resolution that waits out a delay,   *)
(* cancellation, and the claims and refunds that empty the escrow.         *)
(*                                                                         *)
(* Each call is one ledger transaction and one action; a call whose check  *)
(* fails panics and changes nothing.  Calls are signed by whom require_auth *)
(* asks for, so the signers are left out.  Amounts are i128 in the code,   *)
(* with checked arithmetic: a sum that does not fit refuses the call, and  *)
(* no amount here comes near.                                              *)
(*                                                                         *)
(* A definition marked FAULT is not part of the model: it is the next      *)
(* definition with a plausible mistake, which a property has to notice.    *)
(***************************************************************************)
EXTENDS Integers, FiniteSets, Functions

CONSTANTS
    Markets,    \* markets the admin may create
    Users,      \* accounts that stake
    Options,    \* the options of every market
    Amounts,    \* what one call may stake
    MaxTotal,   \* bound: what may be staked on one market at a time
    FeeBps,     \* the fee on a winner's profit
    CloseTime,  \* the ledger time at which markets close
    Delay,      \* the resolution delay
    MaxTime,    \* bound: the last ledger time of a behaviour
    None

BpsDenominator == 10000
MaxFeeBps == 1000
MaxOptions == 32

ASSUME ContractAssumption ==
    /\ IsFiniteSet(Markets) /\ IsFiniteSet(Users) /\ IsFiniteSet(Options)
    /\ Cardinality(Options) \in 2..MaxOptions
    /\ Amounts \subseteq Nat \ {0}
    /\ FeeBps \in 0..MaxFeeBps
    /\ CloseTime \in Nat \ {0}
    /\ Delay \in Nat
    /\ MaxTime \in Nat
    /\ None \notin Options

VARIABLES
    market,     \* rows MarketInfo
    pool,       \* what is staked on each option of a market
    position,   \* what each user staked on each option of a market
    claimed,    \* the users that claimed or were refunded, by market
    paused,     \* staking is paused
    now,        \* the ledger's time
    escrow,     \* the contract's balance of the token
    received    \* what each market has paid to each user for its stakes

vars == <<market, pool, position, claimed, paused, now, escrow, received>>
stakes == <<pool, position>>

Status == {"open", "pending", "resolved", "cancelled"}
MarketInfo ==
    [status : Status, winner : Options \union {None}, proposedAt : Nat,
     total : Nat, claimedGross : Nat, claimedStake : Nat]

ASSUME MarketAssumption == None \notin MarketInfo

Init ==
    /\ market = [m \in Markets |-> None]
    /\ pool = [m \in Markets |-> [k \in Options |-> 0]]
    /\ position = [m \in Markets |-> [u \in Users |-> [k \in Options |-> 0]]]
    /\ claimed = [m \in Markets |-> {}]
    /\ paused = FALSE
    /\ now = 0
    /\ escrow = 0
    /\ received = [m \in Markets |-> [u \in Users |-> 0]]
-----------------------------------------------------------------------------
Exists(m) == market[m] # None

(* Stakes move only while the market is open and its time has not come. *)
Staking(m) ==
    /\ Exists(m)
    /\ market[m].status = "open"
    /\ now < CloseTime

CreateMarket(m) ==
    /\ ~Exists(m)
    /\ now < CloseTime
    /\ market' = [market EXCEPT ![m] =
            [status |-> "open", winner |-> None, proposedAt |-> 0,
             total |-> 0, claimedGross |-> 0, claimedStake |-> 0]]
    /\ UNCHANGED <<stakes, claimed, paused, now, escrow, received>>

Stake(u, m, k, amount) ==
    /\ ~paused
    /\ Staking(m)
    /\ market[m].total + amount <= MaxTotal
    /\ escrow' = escrow + amount
    /\ pool' = [pool EXCEPT ![m][k] = @ + amount]
    /\ position' = [position EXCEPT ![m][u][k] = @ + amount]
    /\ market' = [market EXCEPT ![m].total = @ + amount]
    /\ UNCHANGED <<claimed, paused, now, received>>

(* FAULT: the pool of the option is not reduced. *)
UnstakeKeepingPool(u, m, k) ==
    /\ Staking(m)
    /\ position[m][u][k] > 0
    /\ market' = [market EXCEPT ![m].total = @ - position[m][u][k]]
    /\ position' = [position EXCEPT ![m][u][k] = 0]
    /\ escrow' = escrow - position[m][u][k]
    /\ UNCHANGED <<pool, claimed, paused, now, received>>

Unstake(u, m, k) ==
    /\ Staking(m)
    /\ position[m][u][k] > 0
    /\ pool' = [pool EXCEPT ![m][k] = @ - position[m][u][k]]
    /\ market' = [market EXCEPT ![m].total = @ - position[m][u][k]]
    /\ position' = [position EXCEPT ![m][u][k] = 0]
    /\ escrow' = escrow - position[m][u][k]
    /\ UNCHANGED <<claimed, paused, now, received>>
-----------------------------------------------------------------------------
ProposeResolution(m, k) ==
    /\ Exists(m)
    /\ market[m].status = "open"
    /\ now >= CloseTime
    /\ pool[m][k] > 0
    /\ market' = [market EXCEPT ![m].status = "pending", ![m].winner = k,
                                ![m].proposedAt = now]
    /\ UNCHANGED <<stakes, claimed, paused, now, escrow, received>>

FinalizeResolution(m) ==
    /\ Exists(m)
    /\ market[m].status = "pending"
    /\ now >= market[m].proposedAt + Delay
    /\ market' = [market EXCEPT ![m].status = "resolved"]
    /\ UNCHANGED <<stakes, claimed, paused, now, escrow, received>>

(* FAULT: a resolved market can still be cancelled. *)
CancellableLate(m) == market[m].status # "cancelled"

Cancellable(m) == market[m].status \notin {"resolved", "cancelled"}

CancelMarket(m) ==
    /\ Exists(m)
    /\ Cancellable(m)
    /\ market' = [market EXCEPT ![m].status = "cancelled"]
    /\ UNCHANGED <<stakes, claimed, paused, now, escrow, received>>
-----------------------------------------------------------------------------
(* FAULT: every winner gets the rounded share, the last one too. *)
GrossRounded(m, stake) ==
    (stake * market[m].total) \div pool[m][market[m].winner]

(* The last winner to claim takes what rounding left of the pool. *)
Gross(m, stake) ==
    IF market[m].claimedStake + stake = pool[m][market[m].winner]
    THEN market[m].total - market[m].claimedGross
    ELSE (stake * market[m].total) \div pool[m][market[m].winner]

(* FAULT: the fee is taken from the stake as well. *)
FeeOnGross(gross, stake) == (gross * FeeBps) \div BpsDenominator

Fee(gross, stake) == ((gross - stake) * FeeBps) \div BpsDenominator

Claim(u, m) ==
    /\ Exists(m)
    /\ market[m].status = "resolved"
    /\ u \notin claimed[m]
    /\ position[m][u][market[m].winner] > 0
    /\ LET stake == position[m][u][market[m].winner]
           gross == Gross(m, stake)
           net == gross - Fee(gross, stake)
       IN  /\ market' = [market EXCEPT ![m].claimedStake = @ + stake,
                                       ![m].claimedGross = @ + gross]
           /\ received' = [received EXCEPT ![m][u] = @ + net]
           /\ escrow' = escrow - Fee(gross, stake) - net
    /\ claimed' = [claimed EXCEPT ![m] = @ \union {u}]
    /\ UNCHANGED <<stakes, paused, now>>

Staked(m, u) == SumFunctionOnSet(position[m][u], Options)

Refund(u, m) ==
    /\ Exists(m)
    /\ market[m].status = "cancelled"
    /\ u \notin claimed[m]
    /\ Staked(m, u) > 0
    /\ claimed' = [claimed EXCEPT ![m] = @ \union {u}]
    /\ received' = [received EXCEPT ![m][u] = @ + Staked(m, u)]
    /\ escrow' = escrow - Staked(m, u)
    /\ UNCHANGED <<market, stakes, paused, now>>
-----------------------------------------------------------------------------
SetPaused ==
    /\ paused' = ~paused
    /\ UNCHANGED <<market, stakes, claimed, now, escrow, received>>

Tick ==
    /\ now < MaxTime
    /\ now' = now + 1
    /\ UNCHANGED <<market, stakes, claimed, paused, escrow, received>>

Next ==
    \/ \E m \in Markets :
            CreateMarket(m) \/ FinalizeResolution(m) \/ CancelMarket(m)
    \/ \E m \in Markets, u \in Users : Claim(u, m) \/ Refund(u, m)
    \/ \E m \in Markets, u \in Users, k \in Options :
            \/ Unstake(u, m, k)
            \/ \E amount \in Amounts : Stake(u, m, k, amount)
    \/ \E m \in Markets, k \in Options : ProposeResolution(m, k)
    \/ SetPaused
    \/ Tick

Spec == Init /\ [][Next]_vars
-----------------------------------------------------------------------------
(* Every variable has its type.  That the fields of a market are natural   *)
(* numbers is more than bookkeeping: unstake and claim only subtract, and  *)
(* the signed amounts of the code would go below zero unnoticed.           *)
TypeOK ==
    /\ market \in [Markets -> MarketInfo \union {None}]
    /\ pool \in [Markets -> [Options -> Nat]]
    /\ position \in [Markets -> [Users -> [Options -> Nat]]]
    /\ claimed \in [Markets -> SUBSET Users]
    /\ paused \in BOOLEAN
    /\ now \in 0..MaxTime
    /\ escrow \in Nat
    /\ received \in [Markets -> [Users -> Nat]]

(* The stakes of a market, by user: on one option, and on all of them. *)
StakesOn(m, k) == [u \in Users |-> position[m][u][k]]
StakesOf(m) == [u \in Users |-> Staked(m, u)]

(* What a market still has to pay. *)
Owed(m) ==
    CASE ~Exists(m) -> 0
      [] Exists(m) /\ market[m].status = "cancelled" ->
            SumFunctionOnSet(StakesOf(m), Users \ claimed[m])
      [] OTHER -> market[m].total - market[m].claimedGross

(* Pools are the sums of the positions, and the total the sum of pools. *)
PoolsMatchPositions(m) ==
    /\ market[m].total = SumFunctionOnSet(pool[m], Options)
    /\ \A k \in Options :
        pool[m][k] = SumFunctionOnSet(StakesOn(m, k), Users)

(* Stake, unstake, claim and refund keep the books of all markets and the  *)
(* one escrow account in step: the pools are what the users staked, and    *)
(* the contract holds exactly what its markets still owe, so none is paid  *)
(* out of the stakes of another.                                           *)
EscrowMatchesBooks ==
    /\ TypeOK
    /\ \A m \in {n \in Markets : Exists(n)} : PoolsMatchPositions(m)
    /\ escrow = SumFunctionOnSet([m \in Markets |-> Owed(m)], Markets)

(* A winner gets at least its stake back from claim, whatever the rounding *)
(* and the order of the claims, and the winners together leave nothing in  *)
(* the market; of a cancelled market refund returns every stake exactly.   *)
WinnersKeepStake ==
    \A m \in {n \in Markets : Exists(n)} :
        CASE market[m].status = "resolved" ->
                LET staked == StakesOn(m, market[m].winner)
                    winners == {u \in Users : staked[u] > 0}
                IN  /\ \A u \in claimed[m] : received[m][u] >= staked[u]
                    /\ \A u \in Users \ claimed[m] : received[m][u] = 0
                    /\ claimed[m] = winners => Owed(m) = 0
          [] market[m].status = "cancelled" ->
                \A u \in Users :
                    received[m][u] =
                        IF u \in claimed[m] THEN Staked(m, u) ELSE 0
          [] OTHER -> claimed[m] = {}

(* Once a market is resolved or cancelled its result, its stakes and who   *)
(* was paid are final: no call of the contract takes any of it back.       *)
ResultIsFinal ==
    [][\A m \in Markets :
        Exists(m) /\ market[m].status \in {"resolved", "cancelled"} =>
            /\ market'[m].status = market[m].status
            /\ market'[m].winner = market[m].winner
            /\ position'[m] = position[m]
            /\ claimed[m] \subseteq claimed'[m]]_vars
=============================================================================
