----------------------- MODULE PredictionContractProofs ----------------------
(***************************************************************************)
(* Proofs about the prediction-market contract (module                     *)
(* PredictionContract), for any markets, users, options and amounts.       *)
(*                                                                         *)
(* The inductive invariant has one part for each market and one for the    *)
(* escrow they share.  Of a market, Books says that pools and total are    *)
(* sums of positions, Stage what its status entails, Claims how far the    *)
(* winners' claims have used up the winning pool, and Paid what each user  *)
(* was paid.  The heart of it is in Claims: the gross amounts paid so far  *)
(* never exceed the claimed stakes' share of the total, which leaves the   *)
(* winner who comes last, and takes the rest, at least its own share.      *)
(***************************************************************************)
EXTENDS PredictionContract, SumTheorems

Winner(m) == market[m].winner
WinningPool(m) == pool[m][Winner(m)]

Empty(m) ==
    /\ pool[m] = [k \in Options |-> 0]
    /\ position[m] = [u \in Users |-> [k \in Options |-> 0]]
    /\ claimed[m] = {}
    /\ received[m] = [u \in Users |-> 0]

Books(m) ==
    /\ PoolsMatchPositions(m)
    /\ market[m].total = SumFunctionOnSet(StakesOf(m), Users)

Stage(m) ==
    /\ market[m].status # "resolved" =>
            market[m].claimedGross = 0 /\ market[m].claimedStake = 0
    /\ market[m].status \in {"open", "pending"} => claimed[m] = {}
    /\ market[m].status \in {"pending", "resolved"} =>
            Winner(m) \in Options /\ WinningPool(m) > 0

Claims(m) ==
    market[m].status = "resolved" =>
        /\ \A u \in claimed[m] : position[m][u][Winner(m)] > 0
        /\ market[m].claimedStake
                = SumFunctionOnSet(StakesOn(m, Winner(m)), claimed[m])
        /\ market[m].claimedGross * WinningPool(m)
                <= market[m].claimedStake * market[m].total
        /\ market[m].claimedStake = WinningPool(m) =>
                market[m].claimedGross = market[m].total

Paid(m) ==
    \A u \in Users :
        IF u \notin claimed[m] THEN received[m][u] = 0
        ELSE CASE market[m].status = "resolved" ->
                    received[m][u] >= position[m][u][Winner(m)]
               [] market[m].status = "cancelled" ->
                    received[m][u] = Staked(m, u)
               [] OTHER -> FALSE

MarketInv(m) ==
    IF Exists(m) THEN Books(m) /\ Stage(m) /\ Claims(m) /\ Paid(m)
                 ELSE Empty(m)

MarketsInv == \A m \in Markets : MarketInv(m)

EscrowIsOwed == escrow = SumFunctionOnSet([m \in Markets |-> Owed(m)], Markets)

ContractInv == TypeOK /\ MarketsInv /\ EscrowIsOwed
-----------------------------------------------------------------------------
(* The share of a stake s in a total t of which the winning pool p is a    *)
(* part is no less than the stake.                                         *)
LEMMA ShareOfTotal ==
  ASSUME NEW s \in Nat, NEW t \in Nat, NEW p \in Nat, 0 < p, p <= t
  PROVE  /\ (s * t) \div p \in Nat
         /\ s <= (s * t) \div p
         /\ ((s * t) \div p) * p <= s * t
<1> DEFINE q == (s * t) \div p
<1>1. s * t \in Nat /\ s * p \in Nat /\ s * p <= s * t
  BY ProductGrows
<1>2. q \in Nat /\ q * p <= s * t /\ s * t < q * p + p
  BY <1>1, Quotient
<1> HIDE DEF q
<1>3. s <= q
  <2>1. q * p + p = (q + 1) * p /\ (q + 1) * p \in Nat
    BY <1>2
  <2>2. CASE q < s
    <3>1. (q + 1) * p <= s * p
      BY <1>2, <2>2, ProductGrows
    <3> QED
      BY <1>1, <1>2, <2>1, <3>1
  <2> QED
    BY <1>2, <2>2
<1> QED
  BY <1>2, <1>3 DEF q

(* What is paid so far, G for stakes S, leaves the last winner its stake.  *)
LEMMA RestOfTotal ==
  ASSUME NEW S \in Nat, NEW s \in Nat, NEW G \in Nat, NEW t \in Nat,
         NEW p \in Nat, 0 < p, p <= t, S + s <= p, G * p <= S * t
  PROVE  /\ G <= t
         /\ S + s = p => s <= t - G
<1>1. S * t \in Nat /\ S * t <= p * t /\ p * t = t * p /\ G * p \in Nat
  BY ProductGrows
<1>2. G <= t
  BY <1>1, ProductCancels
<1>3. ASSUME S + s = p
      PROVE  s <= t - G
  <2>1. p * t = S * t + s * t /\ s * t \in Nat
    BY <1>3
  <2>2. (t - G) * p = t * p - G * p
    OBVIOUS
  <2>3. s * p <= s * t /\ s * p \in Nat
    BY ProductGrows
  <2>4. s * p <= (t - G) * p
    BY <1>1, <2>1, <2>2, <2>3
  <2> QED
    BY <1>2, <2>4, ProductCancels
<1> QED
  BY <1>2, <1>3

LEMMA GrossOfClaim ==
  ASSUME NEW S \in Nat, NEW s \in Nat, NEW G \in Nat, NEW t \in Nat,
         NEW p \in Nat, 0 < p, p <= t, S + s <= p, G * p <= S * t,
         NEW g, g = IF S + s = p THEN t - G ELSE (s * t) \div p
  PROVE  /\ g \in Nat
         /\ s <= g
         /\ (G + g) * p <= (S + s) * t
         /\ S + s = p => G + g = t
<1>1. CASE S + s = p
  <2>1. g = t - G /\ G <= t /\ s <= t - G
    BY <1>1, RestOfTotal
  <2>2. (G + g) * p = t * p /\ (S + s) * t = p * t /\ t * p = p * t
        /\ t * p \in Nat
    BY <1>1, <2>1
  <2> QED
    BY <2>1, <2>2
<1>2. CASE S + s # p
  <2>1. g = (s * t) \div p
    BY <1>2
  <2>2. g \in Nat /\ s <= g /\ g * p <= s * t
    BY <2>1, ShareOfTotal
  <2> HIDE <2>1
  <2>3. /\ (G + g) * p = G * p + g * p
        /\ (S + s) * t = S * t + s * t
        /\ G * p \in Nat /\ g * p \in Nat /\ S * t \in Nat /\ s * t \in Nat
    BY <2>2
  <2> QED
    BY <1>2, <2>2, <2>3
<1> QED
  BY <1>1, <1>2

LEMMA FeeOfProfit ==
  ASSUME NEW g \in Nat, NEW s \in Nat, s <= g
  PROVE  Fee(g, s) \in 0..(g - s)
<1> DEFINE d == g - s
<1>1. d \in Nat /\ FeeBps \in 0..1000
  BY ContractAssumption DEF MaxFeeBps
<1> HIDE DEF d
<1>2. d * FeeBps \in Nat /\ d * FeeBps <= d * 1000
  BY <1>1, ProductGrows
<1>3. (d * FeeBps) \div 10000 \in 0..d
  BY <1>1, <1>2
<1> QED
  BY <1>3 DEF d, Fee, BpsDenominator
-----------------------------------------------------------------------------
(* The types of everything but the escrow, which is a sum and has its type *)
(* from there.                                                             *)
RowTypes ==
    /\ market \in [Markets -> MarketInfo \union {None}]
    /\ pool \in [Markets -> [Options -> Nat]]
    /\ position \in [Markets -> [Users -> [Options -> Nat]]]
    /\ claimed \in [Markets -> SUBSET Users]
    /\ paused \in BOOLEAN
    /\ now \in 0..MaxTime
    /\ received \in [Markets -> [Users -> Nat]]

(* The fields of a market that exists.                                     *)
LEMMA MarketFields ==
  ASSUME RowTypes, NEW m \in Markets, Exists(m)
  PROVE  /\ market[m].status \in Status
         /\ market[m].winner \in Options \union {None}
         /\ market[m].proposedAt \in Nat
         /\ market[m].total \in Nat
         /\ market[m].claimedGross \in Nat
         /\ market[m].claimedStake \in Nat
  BY DEF RowTypes, Exists, MarketInfo

LEMMA StakesAreNumbers ==
  ASSUME RowTypes, NEW m \in Markets, NEW u \in Users
  PROVE  /\ Staked(m, u) \in Nat
         /\ StakesOf(m)[u] = Staked(m, u)
         /\ \A k \in Options : /\ position[m][u][k] \in Nat
                               /\ StakesOn(m, k)[u] = position[m][u][k]
<1>1. \A k \in Options : position[m][u][k] \in Nat
  BY DEF RowTypes
<1>2. Staked(m, u) \in Nat
  BY <1>1, ContractAssumption, SumType DEF Staked
<1> QED
  BY <1>1, <1>2 DEF StakesOf, StakesOn

(* A stake is part of its pool and a pool part of the total, so that none  *)
(* of the subtractions of unstake and claim goes below zero.               *)
LEMMA StakesAreParts ==
  ASSUME RowTypes, NEW m \in Markets, Exists(m), Books(m), NEW k \in Options
  PROVE  /\ pool[m][k] \in Nat
         /\ pool[m][k] <= market[m].total
         /\ \A u \in Users : position[m][u][k] <= pool[m][k]
<1>1. pool[m][k] \in Nat /\ \A l \in Options : pool[m][l] \in Nat
  BY DEF RowTypes
<1>2. pool[m][k] <= market[m].total
  BY <1>1, ContractAssumption, SumOfElement DEF Books, PoolsMatchPositions
<1>3. ASSUME NEW u \in Users
      PROVE  position[m][u][k] <= pool[m][k]
  <2> DEFINE on == StakesOn(m, k)
  <2>1. \A v \in Users : on[v] \in Nat /\ on[v] = position[m][v][k]
    BY StakesAreNumbers
  <2>2. pool[m][k] = SumFunctionOnSet(on, Users)
    BY DEF Books, PoolsMatchPositions
  <2> HIDE DEF on
  <2> QED
    BY <2>1, <2>2, ContractAssumption, SumOfElement
<1> QED
  BY <1>1, <1>2, <1>3

(* Claims take no more than the total.                                     *)
LEMMA GrossWithinTotal ==
  ASSUME RowTypes, NEW m \in Markets, Exists(m), Books(m), Stage(m), Claims(m)
  PROVE  /\ market[m].claimedGross <= market[m].total
         /\ market[m].status = "resolved" =>
                market[m].claimedStake <= WinningPool(m)
<1> USE MarketFields
<1>1. CASE market[m].status # "resolved"
  BY <1>1 DEF Stage
<1>2. CASE market[m].status = "resolved"
  <2> DEFINE on == StakesOn(m, Winner(m))
  <2>1. Winner(m) \in Options /\ WinningPool(m) > 0
    BY <1>2 DEF Stage
  <2>2. /\ WinningPool(m) \in Nat
        /\ WinningPool(m) <= market[m].total
    BY <2>1, StakesAreParts DEF WinningPool
  <2>3. market[m].claimedStake <= WinningPool(m)
    <3>1. \A u \in Users : on[u] \in Nat
      BY <2>1, StakesAreNumbers
    <3>2. claimed[m] \in SUBSET Users
      BY DEF RowTypes
    <3>3. /\ WinningPool(m) = SumFunctionOnSet(on, Users)
          /\ market[m].claimedStake = SumFunctionOnSet(on, claimed[m])
      BY <1>2, <2>1 DEF Books, PoolsMatchPositions, Claims, WinningPool
    <3> HIDE DEF on
    <3> QED
      BY <3>1, <3>2, <3>3, ContractAssumption, SumOfPart
  <2>4. market[m].claimedGross * WinningPool(m)
            <= market[m].claimedStake * market[m].total
    BY <1>2 DEF Claims
  <2> QED
    BY <2>1, <2>2, <2>3, <2>4, RestOfTotal
<1> QED
  BY <1>1, <1>2

LEMMA OwedIsNumber ==
  ASSUME RowTypes, NEW m \in Markets, MarketInv(m)
  PROVE  Owed(m) \in Nat
<1>1. CASE ~Exists(m)
  BY <1>1 DEF Owed
<1>2. CASE Exists(m) /\ market[m].status = "cancelled"
  <2>1. IsFiniteSet(Users \ claimed[m])
    BY ContractAssumption, FS_Subset
  <2>2. \A u \in Users \ claimed[m] : StakesOf(m)[u] \in Nat
    BY StakesAreNumbers
  <2> QED
    BY <1>2, <2>1, <2>2, SumType DEF Owed
<1>3. CASE Exists(m) /\ market[m].status # "cancelled"
  <2>1. Owed(m) = market[m].total - market[m].claimedGross
    BY <1>3 DEF Owed
  <2> QED
    BY <1>3, <2>1, GrossWithinTotal, MarketFields DEF MarketInv
<1> QED
  BY <1>1, <1>2, <1>3

OwedIsNatural == \A m \in Markets : Owed(m) \in Nat

LEMMA OwedAreNumbers == RowTypes /\ MarketsInv => OwedIsNatural
  BY OwedIsNumber DEF MarketsInv, OwedIsNatural
-----------------------------------------------------------------------------
(* A step that leaves a market alone.                                      *)
Same(m) ==
    /\ market'[m] = market[m]
    /\ pool'[m] = pool[m]
    /\ position'[m] = position[m]
    /\ claimed'[m] = claimed[m]
    /\ received'[m] = received[m]

(* Sums of positions change only with positions.                           *)
LEMMA SameStakes ==
  ASSUME NEW m \in Markets, position'[m] = position[m]
  PROVE  /\ \A u \in Users : Staked(m, u)' = Staked(m, u)
         /\ StakesOf(m)' = StakesOf(m)
         /\ \A k \in Options : StakesOn(m, k)' = StakesOn(m, k)
<1>1. \A u \in Users : Staked(m, u)' = Staked(m, u)
  BY DEF Staked
<1>2. StakesOf(m)' = StakesOf(m)
  BY <1>1 DEF StakesOf
<1>3. \A k \in Options : StakesOn(m, k)' = StakesOn(m, k)
  BY DEF StakesOn
<1> QED
  BY <1>1, <1>2, <1>3

LEMMA SameBooks ==
  ASSUME NEW m \in Markets, Books(m), position'[m] = position[m],
         pool'[m] = pool[m], market'[m].total = market[m].total
  PROVE  Books(m)'
  BY SameStakes DEF Books, PoolsMatchPositions

LEMMA SameStays ==
  ASSUME NEW m \in Markets, Same(m), MarketInv(m)
  PROVE  MarketInv(m)' /\ Owed(m)' = Owed(m)
<1> USE DEF Same
<1>1. (Exists(m)' <=> Exists(m)) /\ Winner(m)' = Winner(m)
      /\ WinningPool(m)' = WinningPool(m)
  BY DEF Exists, Winner, WinningPool
<1>2. CASE Exists(m)
  <2>1. Books(m)' /\ Stage(m)'
    BY <1>1, <1>2, SameBooks DEF MarketInv, Stage
  <2>2. Claims(m)'
    BY <1>1, <1>2, SameStakes DEF MarketInv, Claims, Stage
  <2>3. Paid(m)'
    BY <1>1, <1>2, SameStakes DEF MarketInv, Paid
  <2>4. Owed(m)' = Owed(m)
    BY <1>1, <1>2, SameStakes DEF Owed
  <2> QED
    BY <1>1, <1>2, <2>1, <2>2, <2>3, <2>4 DEF MarketInv
<1>3. CASE ~Exists(m)
  BY <1>1, <1>3 DEF MarketInv, Empty, Owed
<1> QED
  BY <1>2, <1>3

(* Nearly every call is about one market, and moves the escrow by what it  *)
(* changes about what that market owes.                                    *)
LEMMA OneMarket ==
  ASSUME ContractInv, RowTypes', NEW m \in Markets,
         \A n \in Markets \ {m} : Same(n),
         MarketInv(m)', escrow' = escrow - Owed(m) + Owed(m)'
  PROVE  ContractInv'
<1> DEFINE owed == [n \in Markets |-> Owed(n)]
           owing == [n \in Markets |-> Owed(n)']
<1>1. RowTypes
  BY DEF ContractInv, TypeOK, RowTypes
<1>2. MarketsInv'
  BY SameStays DEF ContractInv, MarketsInv
<1>3. \A n \in Markets : owed[n] \in Nat /\ owing[n] \in Nat
  <2>1. \A n \in Markets : Owed(n) \in Nat
    BY <1>1, OwedIsNumber DEF ContractInv, MarketsInv
  <2>2. (RowTypes /\ MarketsInv => OwedIsNatural)'
    BY OwedAreNumbers, PTL
  <2>3. \A n \in Markets : Owed(n)' \in Nat
    BY <1>2, <2>2 DEF OwedIsNatural
  <2> QED
    BY <2>1, <2>3
<1>4. \A n \in Markets \ {m} : owing[n] = owed[n]
  BY SameStays DEF ContractInv, MarketsInv
<1>5. /\ escrow = SumFunctionOnSet(owed, Markets)
      /\ escrow' = escrow - owed[m] + owing[m]
  BY DEF ContractInv, EscrowIsOwed
<1> HIDE DEF owed, owing
<1>6. /\ SumFunctionOnSet(owing, Markets) = escrow'
      /\ SumFunctionOnSet(owing, Markets) \in Nat
  BY <1>3, <1>4, <1>5, ContractAssumption, SumUpdate, SumType
<1>7. escrow' \in Nat /\ EscrowIsOwed'
  BY <1>6 DEF owing, EscrowIsOwed
<1> QED
  BY <1>2, <1>7 DEF ContractInv, TypeOK, RowTypes
-----------------------------------------------------------------------------
LEMMA InvHasTypes ==
  ASSUME ContractInv
  PROVE  RowTypes /\ escrow \in Nat
  BY DEF ContractInv, TypeOK, RowTypes

(* create_market starts a market off with nothing in it.                   *)
LEMMA CreateKeeps ==
  ASSUME ContractInv, NEW m \in Markets, CreateMarket(m)
  PROVE  ContractInv'
<1> DEFINE row == [status |-> "open", winner |-> None, proposedAt |-> 0,
                   total |-> 0, claimedGross |-> 0, claimedStake |-> 0]
<1>1. RowTypes /\ escrow \in Nat
  BY InvHasTypes
<1>2. ~Exists(m) /\ Empty(m)
  BY DEF CreateMarket, ContractInv, MarketsInv, MarketInv
<1>3. row \in MarketInfo
  BY DEF MarketInfo, Status
<1>4. /\ market' = [market EXCEPT ![m] = row]
      /\ UNCHANGED <<pool, position, claimed, paused, now, escrow, received>>
  BY DEF CreateMarket, stakes
<1>5. market'[m] = row /\ Exists(m)'
  BY <1>1, <1>3, <1>4, MarketAssumption DEF RowTypes, Exists
<1>6. RowTypes' /\ \A n \in Markets \ {m} : Same(n)
  BY <1>1, <1>3, <1>4 DEF RowTypes, Same
<1>7. Books(m)'
  <2>1. \A k \in Options : pool[m][k] = 0 /\
            \A u \in Users : position[m][u][k] = 0
    BY <1>2 DEF Empty
  <2>2. \A u \in Users : Staked(m, u) = 0
    BY <2>1, ContractAssumption, SumOfZeros DEF Staked
  <2>3. SumFunctionOnSet(StakesOf(m), Users) = 0
    <3>1. \A u \in Users : StakesOf(m)[u] = 0
      BY <2>2 DEF StakesOf
    <3> QED
      BY <3>1, ContractAssumption, SumOfZeros
  <2>4. \A k \in Options : SumFunctionOnSet(StakesOn(m, k), Users) = 0
    <3>1. \A k \in Options : \A u \in Users : StakesOn(m, k)[u] = 0
      BY <2>1 DEF StakesOn
    <3> QED
      BY <3>1, ContractAssumption, SumOfZeros
  <2>5. SumFunctionOnSet(pool[m], Options) = 0
    BY <2>1, ContractAssumption, SumOfZeros
  <2>6. /\ StakesOf(m)' = StakesOf(m)
        /\ \A k \in Options : StakesOn(m, k)' = StakesOn(m, k)
    BY <1>4, SameStakes
  <2>7. market'[m].total = 0
    BY <1>5
  <2> QED
    BY <1>4, <2>1, <2>3, <2>4, <2>5, <2>6, <2>7 DEF Books, PoolsMatchPositions
<1>8. Stage(m)' /\ Claims(m)' /\ Paid(m)'
  BY <1>2, <1>4, <1>5 DEF Stage, Claims, Paid, Empty
<1>9. Owed(m) = 0 /\ Owed(m)' = 0
  BY <1>2, <1>5 DEF Owed
<1> HIDE DEF row
<1> QED
  BY <1>1, <1>4, <1>5, <1>6, <1>7, <1>8, <1>9, OneMarket DEF MarketInv

(* A stake that grows or shrinks by d, with its pool and its total.        *)
LEMMA StakeMoves ==
  ASSUME RowTypes, NEW m \in Markets, Books(m),
         NEW u \in Users, NEW k \in Options, NEW d \in Int,
         position'[m][u][k] = position[m][u][k] + d,
         \A l \in Options \ {k} : position'[m][u][l] = position[m][u][l],
         \A v \in Users \ {u} : position'[m][v] = position[m][v],
         pool'[m][k] = pool[m][k] + d,
         \A l \in Options \ {k} : pool'[m][l] = pool[m][l],
         market'[m].total = market[m].total + d
  PROVE  Books(m)'
<1>1. \A l \in Options : /\ pool[m][l] \in Int
                         /\ \A v \in Users : position[m][v][l] \in Int
  BY DEF RowTypes
<1>2. market'[m].total = SumFunctionOnSet(pool'[m], Options)
  <2>1. pool'[m][k] \in Int
    BY <1>1
  <2>2. SumFunctionOnSet(pool'[m], Options)
            = SumFunctionOnSet(pool[m], Options) - pool[m][k] + pool'[m][k]
        /\ SumFunctionOnSet(pool[m], Options) \in Int
    BY <1>1, <2>1, ContractAssumption, SumUpdate
  <2>3. market[m].total = SumFunctionOnSet(pool[m], Options)
    BY DEF Books, PoolsMatchPositions
  <2> QED
    BY <1>1, <2>2, <2>3
<1>3. ASSUME NEW l \in Options
      PROVE  pool'[m][l] = SumFunctionOnSet(StakesOn(m, l)', Users)
  <2> DEFINE old == StakesOn(m, l)
             new == StakesOn(m, l)'
  <2>1. \A v \in Users : /\ old[v] = position[m][v][l]
                         /\ new[v] = position'[m][v][l]
    BY DEF StakesOn
  <2>2. pool[m][l] = SumFunctionOnSet(old, Users)
    BY DEF Books, PoolsMatchPositions
  <2> HIDE DEF old, new
  <2>3. CASE l = k
    <3>1. SumFunctionOnSet(new, Users)
            = SumFunctionOnSet(old, Users) - old[u] + new[u]
          /\ SumFunctionOnSet(old, Users) \in Int
      <4>1. /\ \A v \in Users : old[v] \in Int
            /\ new[u] \in Int
            /\ \A v \in Users \ {u} : new[v] = old[v]
        BY <1>1, <2>1, <2>3
      <4> QED
        BY <4>1, ContractAssumption, SumUpdate
    <3>2. pool'[m][l] = SumFunctionOnSet(new, Users)
      BY <1>1, <2>1, <2>2, <2>3, <3>1
    <3> QED
      BY <3>2 DEF new
  <2>4. CASE l # k
    <3>1. \A v \in Users : new[v] = old[v]
      BY <2>1, <2>4
    <3>2. SumFunctionOnSet(new, Users) = SumFunctionOnSet(old, Users)
      BY <3>1, ContractAssumption, SumAgree
    <3> QED
      BY <2>2, <2>4, <3>2 DEF new
  <2> QED
    BY <2>3, <2>4
<1>4. /\ Staked(m, u)' = Staked(m, u) + d
      /\ Staked(m, u) \in Int
  <2>1. position'[m][u][k] \in Int
    BY <1>1
  <2>2. /\ SumFunctionOnSet(position'[m][u], Options)
            = SumFunctionOnSet(position[m][u], Options)
                - position[m][u][k] + position'[m][u][k]
        /\ SumFunctionOnSet(position[m][u], Options) \in Int
    BY <1>1, <2>1, ContractAssumption, SumUpdate
  <2> QED
    BY <1>1, <2>2 DEF Staked
<1>5. market'[m].total = SumFunctionOnSet(StakesOf(m)', Users)
  <2> DEFINE old == StakesOf(m)
             new == StakesOf(m)'
  <2>1. \A v \in Users : /\ old[v] = Staked(m, v)
                         /\ old[v] \in Int
                         /\ new[v] = Staked(m, v)'
    BY StakesAreNumbers DEF StakesOf
  <2>2. \A v \in Users \ {u} : new[v] = old[v]
    BY <2>1 DEF Staked
  <2>3. market[m].total = SumFunctionOnSet(old, Users)
    BY DEF Books
  <2> HIDE DEF old, new
  <2>4. SumFunctionOnSet(new, Users)
            = SumFunctionOnSet(old, Users) - old[u] + new[u]
        /\ SumFunctionOnSet(old, Users) \in Int
    <3>1. new[u] \in Int
      BY <1>4, <2>1
    <3> QED
      BY <2>1, <2>2, <3>1, ContractAssumption, SumUpdate
  <2>5. market'[m].total = SumFunctionOnSet(new, Users)
    BY <1>4, <2>1, <2>3, <2>4
  <2> QED
    BY <2>5 DEF new
<1> QED
  BY <1>2, <1>3, <1>5 DEF Books, PoolsMatchPositions

(* While a market is open nobody has claimed, and all that it owes is its  *)
(* total.                                                                  *)
LEMMA OpenMarket ==
  ASSUME RowTypes, NEW m \in Markets, Exists(m), MarketInv(m),
         market[m].status \in {"open", "pending"}
  PROVE  /\ Books(m) /\ Stage(m)
         /\ claimed[m] = {}
         /\ market[m].claimedGross = 0 /\ market[m].claimedStake = 0
         /\ \A u \in Users : received[m][u] = 0
         /\ Owed(m) = market[m].total
<1>1. /\ Books(m) /\ Stage(m)
      /\ claimed[m] = {}
      /\ market[m].claimedGross = 0 /\ market[m].claimedStake = 0
  BY DEF MarketInv, Stage
<1>2. \A u \in Users : received[m][u] = 0
  BY <1>1 DEF MarketInv, Paid
<1>3. Owed(m) = market[m].total
  <2>1. Owed(m) = market[m].total - market[m].claimedGross
    BY DEF Owed
  <2> QED
    BY <1>1, <2>1, MarketFields
<1> QED
  BY <1>1, <1>2, <1>3

(* stake and unstake write one position, its pool, the total of its open   *)
(* market and the escrow.                                                  *)
StakeStep(u, m, k, d) ==
    /\ Staking(m)
    /\ position[m][u][k] + d \in Nat
    /\ pool[m][k] + d \in Nat
    /\ market[m].total + d \in Nat
    /\ position' = [position EXCEPT ![m][u][k] = position[m][u][k] + d]
    /\ pool' = [pool EXCEPT ![m][k] = pool[m][k] + d]
    /\ market' = [market EXCEPT ![m].total = market[m].total + d]
    /\ escrow' = escrow + d
    /\ UNCHANGED <<claimed, paused, now, received>>

LEMMA StakingKeeps ==
  ASSUME ContractInv, NEW m \in Markets, NEW u \in Users, NEW k \in Options,
         NEW d \in Int, StakeStep(u, m, k, d)
  PROVE  ContractInv'
<1> USE DEF StakeStep
<1>1. RowTypes /\ escrow \in Nat /\ MarketInv(m)
  BY InvHasTypes DEF ContractInv, MarketsInv
<1>2. Exists(m) /\ market[m].status = "open"
  BY DEF Staking
<1>3. market[m] \in MarketInfo
  BY <1>1, <1>2 DEF RowTypes, Exists
<1>4. /\ market'[m] \in MarketInfo
      /\ market'[m].status = "open"
      /\ market'[m].total = market[m].total + d
      /\ market'[m].claimedGross = market[m].claimedGross
      /\ market'[m].claimedStake = market[m].claimedStake
  BY <1>1, <1>2, <1>3 DEF MarketInfo, RowTypes
<1>5. Exists(m)'
  BY <1>4, MarketAssumption DEF Exists
<1>6. /\ position'[m][u][k] = position[m][u][k] + d
      /\ \A l \in Options \ {k} : position'[m][u][l] = position[m][u][l]
      /\ \A v \in Users \ {u} : position'[m][v] = position[m][v]
      /\ pool'[m][k] = pool[m][k] + d
      /\ \A l \in Options \ {k} : pool'[m][l] = pool[m][l]
  BY <1>1 DEF RowTypes
<1>7. RowTypes'
  <2>1. market' \in [Markets -> MarketInfo \union {None}]
    BY <1>1, <1>4 DEF RowTypes
  <2>2. pool' \in [Markets -> [Options -> Nat]]
    BY <1>1 DEF RowTypes
  <2>3. position' \in [Markets -> [Users -> [Options -> Nat]]]
    BY <1>1 DEF RowTypes
  <2> QED
    BY <1>1, <2>1, <2>2, <2>3 DEF RowTypes
<1>8. \A n \in Markets \ {m} : Same(n)
  BY <1>1 DEF RowTypes, Same
<1>9. /\ Books(m) /\ Stage(m)
      /\ claimed[m] = {}
      /\ market[m].claimedGross = 0 /\ market[m].claimedStake = 0
      /\ \A v \in Users : received[m][v] = 0
      /\ Owed(m) = market[m].total
  BY <1>1, <1>2, OpenMarket
<1>10. Books(m)'
  BY <1>1, <1>4, <1>6, <1>9, StakeMoves
<1>11. Stage(m)' /\ Claims(m)' /\ Paid(m)'
  BY <1>4, <1>9 DEF Stage, Claims, Paid
<1>12. Owed(m)' = market[m].total + d
  <2>1. Owed(m)' = market'[m].total - market'[m].claimedGross
    BY <1>4, <1>5 DEF Owed
  <2> QED
    BY <1>4, <1>9, <2>1
<1>13. MarketInv(m)'
  BY <1>5, <1>10, <1>11 DEF MarketInv
<1>14. escrow' = escrow - Owed(m) + Owed(m)'
  <2>1. market[m].total \in Nat
    BY <1>1, <1>2, MarketFields
  <2> QED
    BY <1>1, <1>9, <1>12, <2>1
<1> QED
  BY <1>7, <1>8, <1>13, <1>14, OneMarket

LEMMA StakeKeeps ==
  ASSUME ContractInv, NEW m \in Markets, NEW u \in Users, NEW k \in Options,
         NEW amount \in Amounts, Stake(u, m, k, amount)
  PROVE  ContractInv'
<1>1. amount \in Nat /\ Staking(m)
  BY ContractAssumption DEF Stake
<1>2. /\ position[m][u][k] + amount \in Nat
      /\ pool[m][k] + amount \in Nat
      /\ market[m].total + amount \in Nat
  BY <1>1, InvHasTypes, MarketFields DEF Staking, RowTypes
<1>3. /\ position' = [position EXCEPT ![m][u][k] = position[m][u][k] + amount]
      /\ pool' = [pool EXCEPT ![m][k] = pool[m][k] + amount]
      /\ market' = [market EXCEPT ![m].total = market[m].total + amount]
      /\ escrow' = escrow + amount
      /\ UNCHANGED <<claimed, paused, now, received>>
  BY DEF Stake
<1>4. StakeStep(u, m, k, amount)
  BY <1>1, <1>2, <1>3 DEF StakeStep
<1> QED
  BY <1>1, <1>4, StakingKeeps

LEMMA UnstakeKeeps ==
  ASSUME ContractInv, NEW m \in Markets, NEW u \in Users, NEW k \in Options,
         Unstake(u, m, k)
  PROVE  ContractInv'
<1> DEFINE d == 0 - position[m][u][k]
<1>1. Staking(m) /\ Exists(m)
  BY DEF Unstake, Staking
<1>2. /\ RowTypes
      /\ position[m][u][k] \in Nat
      /\ market[m].total \in Nat
      /\ escrow \in Nat
  BY <1>1, InvHasTypes, MarketFields DEF RowTypes
<1>3. Books(m)
  BY <1>1 DEF ContractInv, MarketsInv, MarketInv
<1>4. /\ d \in Int
      /\ position[m][u][k] + d = 0
      /\ position[m][u][k] + d \in Nat
      /\ pool[m][k] + d = pool[m][k] - position[m][u][k]
      /\ pool[m][k] + d \in Nat
      /\ market[m].total + d = market[m].total - position[m][u][k]
      /\ market[m].total + d \in Nat
      /\ escrow + d = escrow - position[m][u][k]
  BY <1>1, <1>2, <1>3, StakesAreParts
<1> HIDE DEF d
<1>5. /\ position' = [position EXCEPT ![m][u][k] = 0]
      /\ pool' = [pool EXCEPT ![m][k] = pool[m][k] - position[m][u][k]]
      /\ market' = [market EXCEPT ![m].total =
                            market[m].total - position[m][u][k]]
      /\ escrow' = escrow - position[m][u][k]
      /\ UNCHANGED <<claimed, paused, now, received>>
  BY DEF Unstake
<1>6. /\ position' = [position EXCEPT ![m][u][k] = position[m][u][k] + d]
      /\ pool' = [pool EXCEPT ![m][k] = pool[m][k] + d]
      /\ market' = [market EXCEPT ![m].total = market[m].total + d]
      /\ escrow' = escrow + d
      /\ UNCHANGED <<claimed, paused, now, received>>
  BY <1>4, <1>5
<1>7. StakeStep(u, m, k, d)
  BY <1>1, <1>4, <1>6, Zenon DEF StakeStep
<1> QED
  BY <1>4, <1>7, StakingKeeps
-----------------------------------------------------------------------------
(* propose_resolution, finalize_resolution and cancel_market write the     *)
(* status of a market that has paid nobody yet, and what goes with it.     *)
StatusStep(m) ==
    /\ market' \in [Markets -> MarketInfo \union {None}]
    /\ market'[m] \in MarketInfo
    /\ market'[m].total = market[m].total
    /\ market'[m].claimedGross = market[m].claimedGross
    /\ market'[m].claimedStake = market[m].claimedStake
    /\ market'[m].status \in {"pending", "resolved"} =>
            /\ market'[m].winner \in Options
            /\ pool[m][market'[m].winner] > 0
    /\ \A n \in Markets \ {m} : market'[n] = market[n]
    /\ UNCHANGED <<stakes, claimed, paused, now, escrow, received>>

LEMMA StatusKeeps ==
  ASSUME ContractInv, NEW m \in Markets, Exists(m),
         market[m].status \in {"open", "pending"}, StatusStep(m)
  PROVE  ContractInv'
<1> USE DEF StatusStep, stakes
<1>1. RowTypes /\ escrow \in Nat /\ MarketInv(m)
  BY InvHasTypes DEF ContractInv, MarketsInv
<1>2. /\ Books(m)
      /\ claimed[m] = {}
      /\ market[m].claimedGross = 0 /\ market[m].claimedStake = 0
      /\ \A u \in Users : received[m][u] = 0
      /\ Owed(m) = market[m].total
      /\ market[m].total \in Nat
  BY <1>1, OpenMarket, MarketFields
<1>3. Exists(m)'
  BY MarketAssumption DEF Exists
<1>4. RowTypes' /\ \A n \in Markets \ {m} : Same(n)
  BY <1>1 DEF RowTypes, Same
<1>5. Books(m)'
  BY <1>2, SameBooks
<1>6. Stage(m)' /\ Paid(m)'
  BY <1>2 DEF Stage, Paid, Winner, WinningPool
<1>7. Claims(m)'
  <2> SUFFICES ASSUME market'[m].status = "resolved"
               PROVE  Claims(m)'
    BY DEF Claims
  <2>1. claimed'[m] = {} /\ market'[m].claimedStake = 0
        /\ market'[m].claimedGross = 0 /\ market'[m].total \in Nat
    BY <1>2
  <2>2. WinningPool(m)' \in Nat /\ WinningPool(m)' > 0
    BY <1>1 DEF WinningPool, Winner, RowTypes
  <2>3. SumFunctionOnSet(StakesOn(m, Winner(m))', {}) = 0
    BY SumEmpty
  <2> QED
    BY <2>1, <2>2, <2>3 DEF Claims
<1>8. Owed(m)' = market[m].total
  <2>1. CASE market'[m].status = "cancelled"
    <3>1. Owed(m)' = SumFunctionOnSet(StakesOf(m)', Users \ claimed'[m])
      BY <1>3, <2>1 DEF Owed
    <3>2. StakesOf(m)' = StakesOf(m) /\ Users \ claimed'[m] = Users
      BY <1>2, SameStakes
    <3> QED
      BY <1>2, <3>1, <3>2 DEF Books
  <2>2. CASE market'[m].status # "cancelled"
    <3>1. Owed(m)' = market'[m].total - market'[m].claimedGross
      BY <1>3, <2>2 DEF Owed
    <3> QED
      BY <1>2, <3>1
  <2> QED
    BY <2>1, <2>2
<1>9. MarketInv(m)'
  BY <1>3, <1>5, <1>6, <1>7 DEF MarketInv
<1>10. escrow' = escrow - Owed(m) + Owed(m)'
  BY <1>1, <1>2, <1>8
<1> QED
  BY <1>4, <1>9, <1>10, OneMarket

LEMMA ProposeKeeps ==
  ASSUME ContractInv, NEW m \in Markets, NEW k \in Options,
         ProposeResolution(m, k)
  PROVE  ContractInv'
<1>1. RowTypes /\ Exists(m) /\ market[m].status = "open"
  BY InvHasTypes DEF ProposeResolution
<1>2. market[m] \in MarketInfo
  BY <1>1 DEF RowTypes, Exists
<1>3. StatusStep(m)
  <2> DEFINE row == [market[m] EXCEPT !.status = "pending", !.winner = k,
                                      !.proposedAt = now]
  <2>1. /\ market' \in [Markets -> MarketInfo \union {None}]
        /\ market'[m] = row
        /\ \A n \in Markets \ {m} : market'[n] = market[n]
        /\ row \in MarketInfo
    <3>1. now \in Nat
      BY <1>1, ContractAssumption DEF RowTypes
    <3>2. row \in MarketInfo
      BY <1>2, <3>1 DEF MarketInfo, Status
    <3>3. market' = [market EXCEPT ![m].status = "pending", ![m].winner = k,
                                   ![m].proposedAt = now]
      BY DEF ProposeResolution
    <3>4. market'[m] = row /\ DOMAIN market' = Markets
      BY <1>1, <3>3 DEF RowTypes
    <3>5. \A n \in Markets \ {m} : market'[n] = market[n]
      BY <1>1, <3>3 DEF RowTypes
    <3>6. market' \in [Markets -> MarketInfo \union {None}]
      <4>1. market' = [n \in Markets |-> market'[n]]
        BY <1>1, <3>3 DEF RowTypes
      <4> QED
        BY <1>1, <3>2, <3>4, <3>5, <4>1 DEF RowTypes
    <3> QED
      BY <3>2, <3>4, <3>5, <3>6
  <2>2. /\ row.total = market[m].total
        /\ row.claimedGross = market[m].claimedGross
        /\ row.claimedStake = market[m].claimedStake
        /\ row.winner = k
    BY <1>2 DEF MarketInfo
  <2> HIDE DEF row
  <2> QED
    BY <2>1, <2>2 DEF StatusStep, ProposeResolution
<1> QED
  BY <1>1, <1>3, StatusKeeps

LEMMA FinalizeKeeps ==
  ASSUME ContractInv, NEW m \in Markets, FinalizeResolution(m)
  PROVE  ContractInv'
<1>1. RowTypes /\ Exists(m) /\ market[m].status = "pending"
  BY InvHasTypes DEF FinalizeResolution
<1>2. market[m] \in MarketInfo
  BY <1>1 DEF RowTypes, Exists
<1>3. market[m].winner \in Options /\ pool[m][market[m].winner] > 0
  BY <1>1 DEF ContractInv, MarketsInv, MarketInv, Stage, Winner, WinningPool
<1>4. StatusStep(m)
  <2>1. /\ market' \in [Markets -> MarketInfo \union {None}]
        /\ market'[m] = [market[m] EXCEPT !.status = "resolved"]
        /\ market'[m] \in MarketInfo
        /\ \A n \in Markets \ {m} : market'[n] = market[n]
    BY <1>1, <1>2 DEF FinalizeResolution, RowTypes, MarketInfo, Status
  <2>2. /\ market'[m].total = market[m].total
        /\ market'[m].claimedGross = market[m].claimedGross
        /\ market'[m].claimedStake = market[m].claimedStake
        /\ market'[m].winner = market[m].winner
    BY <1>2, <2>1 DEF MarketInfo
  <2> QED
    BY <1>3, <2>1, <2>2 DEF StatusStep, FinalizeResolution
<1> QED
  BY <1>1, <1>4, StatusKeeps

LEMMA CancelKeeps ==
  ASSUME ContractInv, NEW m \in Markets, CancelMarket(m)
  PROVE  ContractInv'
<1>1. RowTypes /\ Exists(m) /\ market[m].status \in {"open", "pending"}
  BY InvHasTypes, MarketFields DEF CancelMarket, Cancellable, Status
<1>2. market[m] \in MarketInfo
  BY <1>1 DEF RowTypes, Exists
<1>3. StatusStep(m)
  <2>1. /\ market' \in [Markets -> MarketInfo \union {None}]
        /\ market'[m] = [market[m] EXCEPT !.status = "cancelled"]
        /\ market'[m] \in MarketInfo
        /\ \A n \in Markets \ {m} : market'[n] = market[n]
    BY <1>1, <1>2 DEF CancelMarket, RowTypes, MarketInfo, Status
  <2>2. /\ market'[m].total = market[m].total
        /\ market'[m].claimedGross = market[m].claimedGross
        /\ market'[m].claimedStake = market[m].claimedStake
        /\ market'[m].status = "cancelled"
    BY <1>2, <2>1 DEF MarketInfo
  <2> QED
    BY <2>1, <2>2 DEF StatusStep, CancelMarket
<1> QED
  BY <1>1, <1>3, StatusKeeps
-----------------------------------------------------------------------------
(* refund returns the stakes of one user of a cancelled market.            *)
LEMMA RefundKeeps ==
  ASSUME ContractInv, NEW m \in Markets, NEW u \in Users, Refund(u, m)
  PROVE  ContractInv'
<1> USE DEF stakes
<1>1. RowTypes /\ escrow \in Nat /\ MarketInv(m)
  BY InvHasTypes DEF ContractInv, MarketsInv
<1>2. /\ Exists(m) /\ market[m].status = "cancelled" /\ u \notin claimed[m]
      /\ claimed' = [claimed EXCEPT ![m] = @ \union {u}]
      /\ received' = [received EXCEPT ![m][u] = @ + Staked(m, u)]
      /\ escrow' = escrow - Staked(m, u)
      /\ UNCHANGED <<market, stakes, paused, now>>
  BY DEF Refund
<1>3. Books(m) /\ Stage(m) /\ Paid(m)
  BY <1>1, <1>2 DEF MarketInv
<1>4. /\ claimed'[m] = claimed[m] \union {u}
      /\ received'[m][u] = received[m][u] + Staked(m, u)
      /\ \A v \in Users \ {u} : received'[m][v] = received[m][v]
  BY <1>1, <1>2 DEF RowTypes
<1>5. RowTypes'
  <2>1. received[m][u] + Staked(m, u) \in Nat
    BY <1>1, StakesAreNumbers DEF RowTypes
  <2>2. received' \in [Markets -> [Users -> Nat]]
    BY <1>1, <1>2, <2>1 DEF RowTypes
  <2> QED
    BY <1>1, <1>2, <2>2 DEF RowTypes
<1>6. \A n \in Markets \ {m} : Same(n)
  BY <1>1, <1>2 DEF RowTypes, Same
<1>7. Exists(m)' /\ market'[m] = market[m]
  BY <1>2 DEF Exists
<1>8. Books(m)' /\ Stage(m)' /\ Claims(m)'
  BY <1>2, <1>3, SameBooks DEF Stage, Claims, Winner, WinningPool
<1>9. Paid(m)'
  <2>1. \A v \in Users : Staked(m, v)' = Staked(m, v) /\ Staked(m, v) \in Nat
    BY <1>1, <1>2, SameStakes, StakesAreNumbers
  <2>2. received[m][u] = 0
    BY <1>2, <1>3 DEF Paid
  <2>3. received'[m][u] = Staked(m, u)'
    BY <1>4, <2>1, <2>2
  <2>4. ASSUME NEW v \in Users \ {u}
        PROVE  IF v \notin claimed'[m] THEN received'[m][v] = 0
                                       ELSE received'[m][v] = Staked(m, v)'
    BY <1>2, <1>3, <1>4, <2>1 DEF Paid
  <2> QED
    BY <1>2, <1>4, <1>7, <2>3, <2>4 DEF Paid
<1>10. Owed(m)' = Owed(m) - Staked(m, u) /\ Owed(m) \in Int
       /\ Staked(m, u) \in Int
  <2> DEFINE left == Users \ claimed[m]
             of == StakesOf(m)
  <2>1. IsFiniteSet(left) /\ u \in left /\ \A v \in left : of[v] \in Int
        /\ of[u] = Staked(m, u)
    BY <1>1, <1>2, ContractAssumption, FS_Subset, StakesAreNumbers
  <2>2. Owed(m) = SumFunctionOnSet(of, left)
    BY <1>2 DEF Owed
  <2>3. Owed(m)' = SumFunctionOnSet(of, left \ {u})
    <3>1. Owed(m)' = SumFunctionOnSet(StakesOf(m)', Users \ claimed'[m])
      BY <1>2, <1>7 DEF Owed
    <3>2. Users \ claimed'[m] = left \ {u} /\ StakesOf(m)' = of
      BY <1>2, <1>4, SameStakes
    <3> QED
      BY <3>1, <3>2
  <2> HIDE DEF left, of
  <2>4. /\ SumFunctionOnSet(of, left) = of[u] + SumFunctionOnSet(of, left \ {u})
        /\ SumFunctionOnSet(of, left \ {u}) \in Int
        /\ SumFunctionOnSet(of, left) \in Int
    BY <2>1, FS_Subset, SumRemove, SumType
  <2> QED
    BY <2>1, <2>2, <2>3, <2>4
<1>11. MarketInv(m)'
  BY <1>7, <1>8, <1>9 DEF MarketInv
<1>12. escrow' = escrow - Owed(m) + Owed(m)'
  BY <1>1, <1>2, <1>10
<1> QED
  BY <1>5, <1>6, <1>11, <1>12, OneMarket

(* A winner's stake, what was claimed before it and the winning pool.      *)
LEMMA ClaimedStakes ==
  ASSUME RowTypes, NEW m \in Markets, Exists(m), Books(m), Stage(m), Claims(m),
         market[m].status = "resolved", NEW u \in Users, u \notin claimed[m]
  PROVE  LET stake == position[m][u][Winner(m)]
         IN  /\ stake \in Nat
             /\ market[m].claimedStake + stake <= WinningPool(m)
             /\ market[m].claimedStake + stake =
                    SumFunctionOnSet(StakesOn(m, Winner(m)), claimed[m] \union {u})
<1> DEFINE on == StakesOn(m, Winner(m))
<1>1. Winner(m) \in Options
  BY DEF Stage
<1>2. /\ \A v \in Users : on[v] \in Nat
      /\ on[u] = position[m][u][Winner(m)]
  BY <1>1, StakesAreNumbers
<1>3. /\ claimed[m] \union {u} \in SUBSET Users
      /\ IsFiniteSet(claimed[m])
  BY ContractAssumption, FS_Subset DEF RowTypes
<1>4. /\ WinningPool(m) = SumFunctionOnSet(on, Users)
      /\ market[m].claimedStake = SumFunctionOnSet(on, claimed[m])
  BY <1>1 DEF Books, PoolsMatchPositions, Claims, WinningPool
<1> HIDE DEF on
<1>5. SumFunctionOnSet(on, claimed[m] \union {u})
        = SumFunctionOnSet(on, claimed[m]) + on[u]
  BY <1>2, <1>3, SumAdd
<1>6. SumFunctionOnSet(on, claimed[m] \union {u})
        <= SumFunctionOnSet(on, Users)
  BY <1>2, <1>3, ContractAssumption, SumOfPart
<1> QED
  BY <1>2, <1>4, <1>5, <1>6 DEF on

(* claim pays one winner its share, the last one all that is left.         *)
LEMMA ClaimKeeps ==
  ASSUME ContractInv, NEW m \in Markets, NEW u \in Users, Claim(u, m)
  PROVE  ContractInv'
<1> USE DEF stakes
<1> DEFINE w == Winner(m)
           stake == position[m][u][w]
           gross == Gross(m, stake)
           fee == Fee(gross, stake)
           net == gross - fee
<1>1. RowTypes /\ escrow \in Nat /\ MarketInv(m)
  BY InvHasTypes DEF ContractInv, MarketsInv
<1>2. /\ Exists(m) /\ market[m].status = "resolved" /\ u \notin claimed[m]
      /\ stake > 0
      /\ market' = [market EXCEPT
                ![m].claimedStake = market[m].claimedStake + stake,
                ![m].claimedGross = market[m].claimedGross + gross]
      /\ received' = [received EXCEPT ![m][u] = received[m][u] + net]
      /\ escrow' = escrow - fee - net
      /\ claimed' = [claimed EXCEPT ![m] = claimed[m] \union {u}]
      /\ UNCHANGED <<stakes, paused, now>>
  BY DEF Claim, Winner
<1>3. Books(m) /\ Stage(m) /\ Claims(m) /\ Paid(m)
  BY <1>1, <1>2 DEF MarketInv
<1>4. /\ market[m] \in MarketInfo
      /\ market[m].total \in Nat
      /\ market[m].claimedGross \in Nat
      /\ market[m].claimedStake \in Nat
  BY <1>1, <1>2, MarketFields DEF RowTypes, Exists
<1>5. /\ w \in Options
      /\ WinningPool(m) \in Nat
      /\ 0 < WinningPool(m)
      /\ WinningPool(m) <= market[m].total
  BY <1>1, <1>2, <1>3, StakesAreParts DEF Stage, WinningPool
<1>6. /\ stake \in Nat
      /\ market[m].claimedStake + stake <= WinningPool(m)
      /\ market[m].claimedStake + stake =
            SumFunctionOnSet(StakesOn(m, w), claimed[m] \union {u})
  BY <1>1, <1>2, <1>3, ClaimedStakes
<1>7. gross = IF market[m].claimedStake + stake = WinningPool(m)
              THEN market[m].total - market[m].claimedGross
              ELSE (stake * market[m].total) \div WinningPool(m)
  BY DEF Gross, WinningPool, Winner
<1> HIDE DEF stake, gross, w
<1>8. /\ gross \in Nat
      /\ stake <= gross
      /\ (market[m].claimedGross + gross) * WinningPool(m)
            <= (market[m].claimedStake + stake) * market[m].total
      /\ market[m].claimedStake + stake = WinningPool(m) =>
            market[m].claimedGross + gross = market[m].total
  <2> DEFINE S == market[m].claimedStake
             G == market[m].claimedGross
             t == market[m].total
             p == WinningPool(m)
  <2>1. G * p <= S * t
    BY <1>2, <1>3 DEF Claims
  <2>2. /\ S \in Nat /\ G \in Nat /\ t \in Nat /\ p \in Nat /\ stake \in Nat
        /\ 0 < p /\ p <= t /\ S + stake <= p
        /\ gross = IF S + stake = p THEN t - G ELSE (stake * t) \div p
    BY <1>4, <1>5, <1>6, <1>7
  <2> HIDE DEF S, G, t, p
  <2>3. /\ gross \in Nat
        /\ stake <= gross
        /\ (G + gross) * p <= (S + stake) * t
        /\ S + stake = p => G + gross = t
    BY <2>1, <2>2, GrossOfClaim
  <2> QED
    BY <2>3 DEF S, G, t, p
<1>9. /\ net \in Nat
      /\ stake <= net
      /\ fee + net = gross
      /\ fee \in Nat
  <2>1. fee \in 0..(gross - stake)
    BY <1>6, <1>8, FeeOfProfit
  <2> HIDE DEF fee
  <2> QED
    BY <1>6, <1>8, <2>1
<1> HIDE DEF net, fee
<1>10. /\ market'[m] \in MarketInfo
       /\ market'[m].status = "resolved"
       /\ market'[m].winner = market[m].winner
       /\ market'[m].total = market[m].total
       /\ market'[m].claimedStake = market[m].claimedStake + stake
       /\ market'[m].claimedGross = market[m].claimedGross + gross
       /\ \A n \in Markets \ {m} : market'[n] = market[n]
       /\ market' \in [Markets -> MarketInfo \union {None}]
  <2> DEFINE row == [market[m] EXCEPT
                        !.claimedStake = market[m].claimedStake + stake,
                        !.claimedGross = market[m].claimedGross + gross]
  <2>1. /\ row \in MarketInfo
        /\ row.status = "resolved"
        /\ row.winner = market[m].winner
        /\ row.total = market[m].total
        /\ row.claimedStake = market[m].claimedStake + stake
        /\ row.claimedGross = market[m].claimedGross + gross
    <3>1. /\ market[m].claimedStake + stake \in Nat
          /\ market[m].claimedGross + gross \in Nat
      BY <1>4, <1>6, <1>8
    <3>2. market[m] \in MarketInfo /\ market[m].status = "resolved"
      BY <1>2, <1>4
    <3> QED
      BY <3>1, <3>2 DEF MarketInfo
  <2>2. /\ market'[m] = row
        /\ \A n \in Markets \ {m} : market'[n] = market[n]
        /\ market' = [n \in Markets |-> market'[n]]
    BY <1>1, <1>2 DEF RowTypes
  <2> HIDE DEF row
  <2>3. market' \in [Markets -> MarketInfo \union {None}]
    BY <1>1, <2>1, <2>2 DEF RowTypes
  <2> QED
    BY <2>1, <2>2, <2>3
<1>11. /\ claimed'[m] = claimed[m] \union {u}
       /\ received'[m][u] = received[m][u] + net
       /\ \A v \in Users \ {u} : received'[m][v] = received[m][v]
       /\ received[m][u] \in Nat
  BY <1>1, <1>2 DEF RowTypes
<1>12. RowTypes'
  <2>1. received' \in [Markets -> [Users -> Nat]]
    BY <1>1, <1>2, <1>9, <1>11 DEF RowTypes
  <2>2. claimed' \in [Markets -> SUBSET Users]
    BY <1>1, <1>2 DEF RowTypes
  <2> QED
    BY <1>1, <1>2, <1>10, <2>1, <2>2 DEF RowTypes
<1>13. \A n \in Markets \ {m} : Same(n)
  <2>1. \A n \in Markets \ {m} : /\ claimed'[n] = claimed[n]
                                 /\ received'[n] = received[n]
    BY <1>1, <1>2 DEF RowTypes
  <2> QED
    BY <1>2, <1>10, <2>1 DEF Same
<1>14. /\ Exists(m)'
       /\ Winner(m)' = w
       /\ WinningPool(m)' = WinningPool(m)
       /\ StakesOn(m, Winner(m))' = StakesOn(m, w)
       /\ position'[m][u][w] = stake
  <2>1. Exists(m)'
    BY <1>10, MarketAssumption DEF Exists
  <2>2. Winner(m)' = w
    BY <1>10 DEF Winner, w
  <2>3. UNCHANGED <<pool, position>>
    BY <1>2
  <2>4. WinningPool(m)' = WinningPool(m)
    BY <2>2, <2>3 DEF WinningPool, w
  <2>5. StakesOn(m, Winner(m))' = StakesOn(m, w)
    BY <2>2, <2>3 DEF StakesOn
  <2> QED
    BY <2>1, <2>2, <2>3, <2>4, <2>5 DEF stake
<1>15. Books(m)' /\ Stage(m)'
  BY <1>2, <1>3, <1>5, <1>10, <1>14, SameBooks DEF Stage
<1>16. Claims(m)'
  <2>1. \A v \in claimed'[m] : position'[m][v][w] > 0
    BY <1>2, <1>3, <1>11, <1>14 DEF Claims, w
  <2>2. market'[m].claimedStake
            = SumFunctionOnSet(StakesOn(m, w), claimed'[m])
    BY <1>6, <1>10, <1>11
  <2>3. /\ market'[m].claimedGross * WinningPool(m)
                <= market'[m].claimedStake * market'[m].total
        /\ market'[m].claimedStake = WinningPool(m) =>
                market'[m].claimedGross = market'[m].total
    BY <1>8, <1>10
  <2> QED
    BY <1>14, <2>1, <2>2, <2>3 DEF Claims
<1>17. Paid(m)'
  <2>1. received'[m][u] >= position'[m][u][w]
    BY <1>2, <1>3, <1>6, <1>9, <1>11, <1>14 DEF Paid
  <2>2. ASSUME NEW v \in Users \ {u}
        PROVE  IF v \notin claimed'[m] THEN received'[m][v] = 0
                            ELSE received'[m][v] >= position'[m][v][w]
    BY <1>2, <1>3, <1>11 DEF Paid, w
  <2> QED
    BY <1>10, <1>11, <1>14, <2>1, <2>2 DEF Paid
<1>18. /\ Owed(m) = market[m].total - market[m].claimedGross
       /\ Owed(m)' = market'[m].total - market'[m].claimedGross
  BY <1>2, <1>10, <1>14 DEF Owed
<1>19. escrow' = escrow - Owed(m) + Owed(m)'
  BY <1>1, <1>2, <1>4, <1>8, <1>9, <1>10, <1>18
<1>20. MarketInv(m)'
  BY <1>14, <1>15, <1>16, <1>17 DEF MarketInv
<1> QED
  BY <1>12, <1>13, <1>19, <1>20, OneMarket
-----------------------------------------------------------------------------
(* Pausing and the passage of time are no business of any market.          *)
LEMMA QuietKeeps ==
  ASSUME ContractInv, RowTypes', \A m \in Markets : Same(m), UNCHANGED escrow
  PROVE  ContractInv'
<1>1. MarketsInv' /\ \A m \in Markets : Owed(m)' = Owed(m)
  BY SameStays DEF ContractInv, MarketsInv
<1>2. [m \in Markets |-> Owed(m)'] = [m \in Markets |-> Owed(m)]
  BY <1>1
<1>3. EscrowIsOwed'
  BY <1>2 DEF ContractInv, EscrowIsOwed
<1> QED
  BY <1>1, <1>3 DEF ContractInv, TypeOK, RowTypes

LEMMA ContractInit == Init => ContractInv
<1> SUFFICES ASSUME Init
             PROVE  ContractInv
  OBVIOUS
<1> USE DEF Init
<1>1. TypeOK
  <2>1. now \in 0..MaxTime
    BY ContractAssumption
  <2>2. /\ market \in [Markets -> MarketInfo \union {None}]
        /\ claimed \in [Markets -> SUBSET Users]
    OBVIOUS
  <2>3. pool \in [Markets -> [Options -> Nat]]
    OBVIOUS
  <2>4. position \in [Markets -> [Users -> [Options -> Nat]]]
    OBVIOUS
  <2>5. received \in [Markets -> [Users -> Nat]]
    OBVIOUS
  <2> QED
    BY <2>1, <2>2, <2>3, <2>4, <2>5 DEF TypeOK
<1>2. \A m \in Markets : ~Exists(m)
  BY DEF Exists
<1>3. MarketsInv
  BY <1>2 DEF MarketsInv, MarketInv, Empty
<1>4. EscrowIsOwed
  <2> DEFINE owed == [m \in Markets |-> Owed(m)]
  <2>1. \A m \in Markets : owed[m] = 0
    BY <1>2 DEF Owed
  <2> HIDE DEF owed
  <2>2. SumFunctionOnSet(owed, Markets) = 0
    BY <2>1, ContractAssumption, SumOfZeros
  <2> QED
    BY <2>2 DEF owed, EscrowIsOwed
<1> QED
  BY <1>1, <1>3, <1>4 DEF ContractInv

LEMMA ContractStep == ContractInv /\ [Next]_vars => ContractInv'
<1> SUFFICES ASSUME ContractInv, [Next]_vars
             PROVE  ContractInv'
  OBVIOUS
<1>1. CASE \E m \in Markets :
                CreateMarket(m) \/ FinalizeResolution(m) \/ CancelMarket(m)
  BY <1>1, CreateKeeps, FinalizeKeeps, CancelKeeps
<1>2. CASE \E m \in Markets, u \in Users : Claim(u, m) \/ Refund(u, m)
  BY <1>2, ClaimKeeps, RefundKeeps
<1>3. CASE \E m \in Markets, u \in Users, k \in Options :
                \/ Unstake(u, m, k)
                \/ \E amount \in Amounts : Stake(u, m, k, amount)
  BY <1>3, UnstakeKeeps, StakeKeeps
<1>4. CASE \E m \in Markets, k \in Options : ProposeResolution(m, k)
  BY <1>4, ProposeKeeps
<1>5. CASE SetPaused
  BY <1>5, InvHasTypes, QuietKeeps DEF SetPaused, stakes, RowTypes, Same
<1>6. CASE Tick
  <2>1. RowTypes'
    BY <1>6, InvHasTypes, ContractAssumption DEF Tick, stakes, RowTypes
  <2> QED
    BY <1>6, <2>1, QuietKeeps DEF Tick, stakes, Same
<1>7. CASE UNCHANGED vars
  BY <1>7, InvHasTypes, QuietKeeps DEF vars, RowTypes, Same
<1> QED
  BY <1>1, <1>2, <1>3, <1>4, <1>5, <1>6, <1>7 DEF Next

THEOREM ContractInvariant == Spec => []ContractInv
  BY ContractInit, ContractStep, PTL DEF Spec

(* stake, unstake, claim and refund, on any number of markets that share   *)
(* the escrow, leave in it exactly what the books of all of them say.      *)
THEOREM ContractEscrowMatches == Spec => []EscrowMatchesBooks
<1>1. ContractInv => EscrowMatchesBooks
  BY DEF ContractInv, MarketsInv, MarketInv, Books, EscrowIsOwed,
     EscrowMatchesBooks
<1> QED
  BY <1>1, ContractInvariant, PTL

(* When all winners have claimed, nothing is left of the winning pool.     *)
LEMMA AllClaimedIsNothingOwed ==
  ASSUME RowTypes, NEW m \in Markets, Exists(m), MarketInv(m),
         market[m].status = "resolved",
         claimed[m] = {u \in Users : StakesOn(m, Winner(m))[u] > 0}
  PROVE  Owed(m) = 0
<1> DEFINE on == StakesOn(m, Winner(m))
<1>1. Books(m) /\ Stage(m) /\ Claims(m) /\ Winner(m) \in Options
  BY DEF MarketInv, Stage
<1>2. \A u \in Users : on[u] \in Nat
  BY <1>1, StakesAreNumbers
<1>3. /\ WinningPool(m) = SumFunctionOnSet(on, Users)
      /\ market[m].claimedStake = SumFunctionOnSet(on, claimed[m])
  BY <1>1 DEF Books, PoolsMatchPositions, Claims, WinningPool
<1>4. \A u \in Users \ claimed[m] : on[u] = 0
  BY <1>2
<1> HIDE DEF on
<1>5. SumFunctionOnSet(on, Users \ claimed[m]) = 0
  BY <1>4, ContractAssumption, FS_Subset, SumOfZeros
<1>6. market[m].claimedStake = WinningPool(m)
  <2>1. SumFunctionOnSet(on, Users) = SumFunctionOnSet(on, claimed[m])
            + SumFunctionOnSet(on, Users \ claimed[m])
    BY <1>2, ContractAssumption, SumOfParts
  <2>2. market[m].claimedStake \in Nat
    BY MarketFields
  <2> QED
    BY <1>3, <1>5, <2>1, <2>2
<1>7. market[m].claimedGross = market[m].total
  BY <1>1, <1>6 DEF Claims
<1> QED
  BY <1>7, MarketFields DEF Owed

(* In whatever order the winners call claim, and however the divisions     *)
(* come out, each gets its stake back and the last one empties the market; *)
(* refund returns the stakes of a cancelled market exactly.                *)
THEOREM ContractWinnersKeepStake == Spec => []WinnersKeepStake
<1>1. ASSUME ContractInv
      PROVE  WinnersKeepStake
  <2> SUFFICES ASSUME NEW m \in Markets, Exists(m)
               PROVE  CASE market[m].status = "resolved" ->
                LET staked == StakesOn(m, market[m].winner)
                    winners == {u \in Users : staked[u] > 0}
                IN  /\ \A u \in claimed[m] : received[m][u] >= staked[u]
                    /\ \A u \in Users \ claimed[m] : received[m][u] = 0
                    /\ claimed[m] = winners => Owed(m) = 0
          [] market[m].status = "cancelled" ->
                \A u \in Users :
                    received[m][u] =
                        IF u \in claimed[m] THEN Staked(m, u) ELSE 0
          [] OTHER -> claimed[m] = {}
    BY DEF WinnersKeepStake
  <2>1. RowTypes /\ MarketInv(m) /\ Stage(m) /\ Paid(m)
    BY <1>1, InvHasTypes DEF ContractInv, MarketsInv, MarketInv
  <2>2. CASE market[m].status = "resolved"
    <3>1. \A u \in Users : StakesOn(m, Winner(m))[u] = position[m][u][Winner(m)]
      BY DEF StakesOn
    <3>2. claimed[m] \subseteq Users
      BY <2>1 DEF RowTypes
    <3>3. \A u \in claimed[m] :
                received[m][u] >= StakesOn(m, Winner(m))[u]
      BY <2>1, <2>2, <3>1, <3>2 DEF Paid
    <3>4. \A u \in Users \ claimed[m] : received[m][u] = 0
      BY <2>1 DEF Paid
    <3>5. claimed[m] = {u \in Users : StakesOn(m, Winner(m))[u] > 0}
                => Owed(m) = 0
      BY <2>1, <2>2, AllClaimedIsNothingOwed
    <3> QED
      BY <2>2, <3>3, <3>4, <3>5 DEF Winner
  <2>3. CASE market[m].status = "cancelled"
    BY <2>1, <2>3 DEF Paid
  <2>4. CASE market[m].status \notin {"resolved", "cancelled"}
    BY <2>1, <2>4, MarketFields DEF Stage, Status
  <2> QED
    BY <2>2, <2>3, <2>4
<1> QED
  BY <1>1, ContractInvariant, PTL

(* No call on a resolved or cancelled market takes its result, its stakes  *)
(* or a payment back.                                                      *)
THEOREM ContractResultIsFinal == Spec => ResultIsFinal
<1> DEFINE Final ==
      \A m \in Markets :
        Exists(m) /\ market[m].status \in {"resolved", "cancelled"} =>
            /\ market'[m].status = market[m].status
            /\ market'[m].winner = market[m].winner
            /\ position'[m] = position[m]
            /\ claimed[m] \subseteq claimed'[m]
<1>1. ASSUME ContractInv, [Next]_vars
      PROVE  [Final]_vars
  <2> SUFFICES ASSUME Next, NEW m \in Markets, Exists(m),
                      market[m].status \in {"resolved", "cancelled"}
               PROVE  /\ market'[m].status = market[m].status
                      /\ market'[m].winner = market[m].winner
                      /\ position'[m] = position[m]
                      /\ claimed[m] \subseteq claimed'[m]
    BY <1>1
  <2> USE InvHasTypes, <1>1 DEF RowTypes, stakes
  <2>1. ASSUME NEW n \in Markets,
               \/ CreateMarket(n) \/ FinalizeResolution(n) \/ CancelMarket(n)
               \/ \E k \in Options : ProposeResolution(n, k)
        PROVE  /\ market'[m] = market[m]
               /\ UNCHANGED <<position, claimed>>
    BY <2>1 DEF CreateMarket, FinalizeResolution, CancelMarket, Cancellable,
       ProposeResolution
  <2>2. ASSUME NEW n \in Markets, NEW u \in Users, NEW k \in Options,
               \/ Unstake(u, n, k)
               \/ \E amount \in Amounts : Stake(u, n, k, amount)
        PROVE  /\ market'[m] = market[m]
               /\ position'[m] = position[m]
               /\ UNCHANGED claimed
    <3>1. n # m
      BY <2>2 DEF Unstake, Stake, Staking
    <3> QED
      BY <2>2, <3>1 DEF Unstake, Stake
  <2>3. ASSUME NEW n \in Markets, NEW u \in Users, Claim(u, n)
        PROVE  /\ market'[m].status = market[m].status
               /\ market'[m].winner = market[m].winner
               /\ UNCHANGED position
               /\ claimed[m] \subseteq claimed'[m]
    <3>1. PICK a, b :
            /\ market' = [market EXCEPT ![n].claimedStake = a,
                                        ![n].claimedGross = b]
            /\ claimed' = [claimed EXCEPT ![n] = claimed[n] \union {u}]
            /\ UNCHANGED position
      BY <2>3 DEF Claim
    <3>2. claimed[m] \subseteq claimed'[m]
      BY <3>1
    <3>3. /\ market'[m].status = market[m].status
          /\ market'[m].winner = market[m].winner
      <4>1. CASE n # m
        BY <3>1, <4>1
      <4>2. CASE n = m
        <5>1. market'[m] = [market[m] EXCEPT !.claimedStake = a,
                                             !.claimedGross = b]
          BY <3>1, <4>2
        <5>2. market[m] \in MarketInfo
          BY DEF Exists
        <5> QED
          BY <5>1, <5>2 DEF MarketInfo
      <4> QED
        BY <4>1, <4>2
    <3> QED
      BY <3>1, <3>2, <3>3
  <2>4. ASSUME NEW n \in Markets, NEW u \in Users, Refund(u, n)
        PROVE  /\ UNCHANGED <<market, position>>
               /\ claimed[m] \subseteq claimed'[m]
    BY <2>4 DEF Refund
  <2>5. CASE SetPaused \/ Tick
    BY <2>5 DEF SetPaused, Tick
  <2> QED
    BY <2>1, <2>2, <2>3, <2>4, <2>5 DEF Next
<1> QED
  BY <1>1, ContractInvariant, PTL DEF Spec, ResultIsFinal
=============================================================================
