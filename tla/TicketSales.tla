---------------------------- MODULE TicketSales ----------------------------
(***************************************************************************)
(* The sale of tickets: reservations that expire, and the issuance of the  *)
(* tickets of a paid order (services/api/src/ticketing.rs,                 *)
(* ticket_operations.rs), on top of the checkout of module Payment, whose  *)
(* orders, attempts and intents the buyers of tickets share.               *)
(*                                                                         *)
(* A definition marked FAULT is not part of the model: it is the next      *)
(* definition with a plausible mistake, which a property has to notice.    *)
(*                                                                         *)
(* One ticket product of one event is on sale.  Its stock is the inventory *)
(* of Payment.  create_order does not ask what kind of product it sells,   *)
(* so an order for the ticket product may also come without a reservation. *)
(***************************************************************************)
EXTENDS Payment, FiniteSets, Functions

CONSTANTS
    Buyers,
    PerUserLimit,   \* ticket_products.per_user_limit
    NoBuyer

ASSUME TicketAssumption ==
    /\ PerUserLimit \in Nat
    /\ IsFiniteSet(Orders)
    /\ NoBuyer \notin Buyers

VARIABLES
    sale,           \* whether the event is on sale and within its sale window
    reservation,    \* ticket_reservations.status, by order_id
    buyer,          \* ticket_reservations.buyer_user_id
    due,            \* the reservations whose expires_at has passed
    issued,         \* how many ticket_issuances of the order are 'issued'
    reporting       \* the ownership reports of an order not committed yet

ticketVars == <<sale, reservation, buyer, due, issued, reporting>>
allVars == <<vars, ticketVars>>

ReservationStatus == {"none", "reserved", "converted", "expired"}
(* A report has counted the tickets that remain: there are some, or none.  *)
Count == {"some", "none"}

TicketInit ==
    /\ Init
    /\ sale = "upcoming"
    /\ reservation = [o \in Orders |-> "none"]
    /\ buyer = [o \in Orders |-> NoBuyer]
    /\ due = {}
    /\ issued = [o \in Orders |-> 0]
    /\ reporting = [o \in Orders |-> [some |-> 0, none |-> 0]]

QuantityOf(orders) == SumFunctionOnSet(quantity, orders)
-----------------------------------------------------------------------------
(* ticketing.rs *)

(* FAULT: what was released or converted before is released again. *)
OverdueInAnyStatus == {o \in due : reservation[o] # "none"}

Overdue == {o \in due : reservation[o] = "reserved"}

(* The reservations, orders and reserved stock that                        *)
(* release_expired_for_product leaves behind.                              *)
ReleasedReservations ==
    [o \in Orders |-> IF o \in Overdue THEN "expired" ELSE reservation[o]]

(* FAULT: orders that were paid in time expire too. *)
ReleasedOrdersPaidToo ==
    [o \in Orders |-> IF o \in Overdue THEN "expired" ELSE order[o]]

ReleasedOrders ==
    [o \in Orders |-> IF o \in Overdue /\ order[o] = "awaiting_payment"
                      THEN "expired" ELSE order[o]]

ReleasedStock ==
    LET q == QuantityOf(Overdue)
    IN  IF inventory.reserved > q THEN inventory.reserved - q ELSE 0

HeldBy(b, reservations) ==
    QuantityOf({o \in Orders : /\ buyer[o] = b
                               /\ reservations[o] \in {"reserved", "converted"}})

(* FAULT: the seats asked for are not counted. *)
BelowLimit(b, q) == HeldBy(b, ReleasedReservations) < PerUserLimit

WithinLimit(b, q) == HeldBy(b, ReleasedReservations) + q <= PerUserLimit

(* The release commits only with the new reservation: the handler that     *)
(* finds the limit or the stock exceeded rolls it back.                    *)
CreateReservation(o, b, q) ==
    /\ sale = "open"
    /\ order[o] = "none"
    /\ q > 0
    /\ WithinLimit(b, q)
    /\ ReleasedStock + inventory.fulfilled + q <= SupplyLimit
    /\ order' = [ReleasedOrders EXCEPT ![o] = "awaiting_payment"]
    /\ quantity' = [quantity EXCEPT ![o] = q]
    /\ inventory' = [inventory EXCEPT !.reserved = ReleasedStock + q]
    /\ reservation' = [ReleasedReservations EXCEPT ![o] = "reserved"]
    /\ buyer' = [buyer EXCEPT ![o] = b]
    /\ UNCHANGED <<attemptVars, event, intentVars, chainVars, evidenceVars,
                   sale, due, issued, reporting>>

(* A repeated request is answered with the reservation it made before, and *)
(* that transaction commits the release too.                               *)
RepeatReservation(o) ==
    /\ sale = "open"
    /\ reservation[o] # "none"
    /\ order' = ReleasedOrders
    /\ inventory' = [inventory EXCEPT !.reserved = ReleasedStock]
    /\ reservation' = ReleasedReservations
    /\ UNCHANGED <<quantity, attemptVars, event, intentVars, chainVars,
                   evidenceVars, sale, buyer, due, issued, reporting>>

ReservationFallsDue(o) ==
    /\ reservation[o] = "reserved"
    /\ o \notin due
    /\ due' = due \union {o}
    /\ UNCHANGED <<vars, sale, reservation, buyer, issued, reporting>>

(* put_event_on_sale, and the clock at sale_starts_at and sale_ends_at. *)
SaleMoves ==
    /\ \/ sale = "upcoming" /\ sale' = "open"
       \/ sale = "open" /\ sale' = "ended"
    /\ UNCHANGED <<vars, reservation, buyer, due, issued, reporting>>
-----------------------------------------------------------------------------
(* ticket_operations.rs *)

PaidOnChain(o) == \E h \in Intents : Accepted(h) /\ OrderOf(evidence[h].intent) = o

(* FAULT: the status of the order is trusted. *)
PaidOrder(o) == order[o] = "paid" /\ reservation[o] = "reserved"

ReadyForIssuance(o) ==
    /\ order[o] = "paid"
    /\ reservation[o] = "reserved"
    /\ PaidOnChain(o)

PrepareIssuance(o) ==
    /\ ReadyForIssuance(o)
    /\ inventory.reserved >= quantity[o]
    /\ inventory' = [reserved |-> inventory.reserved - quantity[o],
                     fulfilled |-> inventory.fulfilled + quantity[o]]
    /\ reservation' = [reservation EXCEPT ![o] = "converted"]
    /\ order' = [order EXCEPT ![o] = "fulfilling"]
    /\ UNCHANGED <<quantity, attemptVars, event, intentVars, chainVars,
                   evidenceVars, sale, buyer, due, issued, reporting>>

(* accept_ownership_evidence locks the row of one ticket, marks it issued  *)
(* and counts the others of the order, which it does not lock: of two      *)
(* reports under way neither sees what the other has not committed.  The   *)
(* count decides what becomes of the order when the report commits.        *)
Reports(o) == reporting[o]["some"] + reporting[o]["none"]

CountRemaining(o) ==
    /\ reservation[o] = "converted"
    /\ issued[o] + Reports(o) < quantity[o]
    /\ LET c == IF issued[o] + 1 = quantity[o] THEN "none" ELSE "some"
       IN  reporting' = [reporting EXCEPT ![o][c] = @ + 1]
    /\ UNCHANGED <<vars, sale, reservation, buyer, due, issued>>

ReportEnds(o, c) ==
    /\ reporting[o][c] > 0
    /\ reporting' = [reporting EXCEPT ![o][c] = @ - 1]

AcceptOwnershipEvidence(o, c) ==
    /\ ReportEnds(o, c)
    /\ issued' = [issued EXCEPT ![o] = @ + 1]
    /\ order' = [order EXCEPT ![o] =
            IF c = "none" /\ @ = "fulfilling" THEN "fulfilled" ELSE @]
    /\ UNCHANGED <<quantity, inventory, attemptVars, event, intentVars,
                   chainVars, evidenceVars, sale, reservation, buyer, due>>

(* The connection is lost, or the process dies, before the commit. *)
RollBackReport(o, c) ==
    /\ ReportEnds(o, c)
    /\ UNCHANGED <<vars, sale, reservation, buyer, due, issued>>
-----------------------------------------------------------------------------
TicketNext ==
    \/ Next /\ UNCHANGED ticketVars
    \/ SaleMoves
    \/ \E o \in Orders :
        \/ \E b \in Buyers, q \in 1..MaxQuantity : CreateReservation(o, b, q)
        \/ RepeatReservation(o)
        \/ ReservationFallsDue(o)
        \/ PrepareIssuance(o)
        \/ CountRemaining(o)
        \/ \E c \in Count : AcceptOwnershipEvidence(o, c) \/ RollBackReport(o, c)

TicketSpec == TicketInit /\ [][TicketNext]_allVars
-----------------------------------------------------------------------------
TicketTypeOK ==
    /\ TypeOK
    /\ sale \in {"upcoming", "open", "ended"}
    /\ reservation \in [Orders -> ReservationStatus]
    /\ buyer \in [Orders -> Buyers \union {NoBuyer}]
    /\ due \subseteq Orders
    /\ issued \in [Orders -> 0..MaxQuantity]
    /\ reporting \in [Orders -> [Count -> Nat]]

(* The orders whose seats are set aside in reserved_quantity. *)
Holding == {o \in Orders : \/ reservation[o] = "reserved"
                           \/ reservation[o] = "none" /\ order[o] # "none"}
Converted == {o \in Orders : reservation[o] = "converted"}

(* No seat is lost or counted twice between create_order,                  *)
(* create_reservation, release_expired_for_product and prepare_issuance:   *)
(* the counters of product_inventory are the sums over the orders they     *)
(* stand for, and never exceed the supply.                                 *)
StockConserved ==
    /\ TicketTypeOK
    /\ inventory.reserved = QuantityOf(Holding)
    /\ inventory.fulfilled = QuantityOf(Converted)
    /\ inventory.reserved + inventory.fulfilled <= SupplyLimit

(* Whatever expires and is reserved again, a buyer never holds more seats  *)
(* than per_user_limit (create_reservation).                               *)
PerUserLimitKept ==
    \A b \in Buyers : HeldBy(b, reservation) <= PerUserLimit

(* Tickets are issued for seats that were set aside for an order the chain *)
(* has seen paid: the two checks of prepare_issuance outlive it.  The      *)
(* order is fulfilled only when every ticket of it is issued, although     *)
(* accept_ownership_evidence counts rows it has not locked.                *)
IssuedIsPaidOnChain ==
    \A o \in Orders :
        /\ issued[o] > 0 => o \in Converted
        /\ o \in Converted <=> /\ order[o] \in {"fulfilling", "fulfilled"}
                               /\ PaidOnChain(o)
        /\ order[o] = "fulfilled" => o \in Converted /\ issued[o] = quantity[o]

(* An order with a reservation expires with it, and the seats of an order  *)
(* are let go only by its expiry or, if it was paid meanwhile, under it    *)
(* (release_expired_for_product against record_payment_event and           *)
(* record_chain_evidence).                                                 *)
ReservationFollowsOrder ==
    \A o \in Orders :
        /\ reservation[o] = "reserved" => order[o] \in {"awaiting_payment", "paid"}
        /\ reservation[o] = "expired" => order[o] \in {"expired", "paid"}
        /\ order[o] = "expired" => reservation[o] = "expired" /\ ~PaidOnChain(o)

(* Reservation, expiry and issuance implement the lifecycle of an order on *)
(* top of the checkout.  An attempt whose order has expired may still be   *)
(* confirmed by a provider event, but it does not pay the order any more.  *)
TicketLifecycle == INSTANCE OrderLifecycle WITH
    status <- order,
    Payers <- Attempts,
    payers <- [o \in Orders |-> IF order[o] \in Settled THEN PayersOf(o) ELSE {}]

SellsLifecycle == TicketLifecycle!Spec

(* docs/workstreams/MILESTONE_D_TICKETING.md line 35 names "database-backed *)
(* oversell prevention": the seats of the orders that are paid for fit     *)
(* into the supply.                                                        *)
PaidWithinSupply ==
    QuantityOf({o \in Orders : order[o] \in Settled}) <= SupplyLimit
=============================================================================
