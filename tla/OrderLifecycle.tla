--------------------------- MODULE OrderLifecycle ---------------------------
(***************************************************************************)
(* What an order promises, whatever pays for it and whatever it buys: it   *)
(* is placed, then paid by exactly one payment attempt or left to expire,  *)
(* and a paid order is worked on until it is fulfilled or has failed.      *)
(* The checkout handlers (module Payment), and the handlers that sell and  *)
(* issue tickets (module TicketSales), implement this specification.       *)
(***************************************************************************)
CONSTANTS
    Orders,     \* the orders of an organization
    Payers      \* the things an order can be paid by: its payment attempts

VARIABLES
    status,     \* the status column of each order
    payers      \* the attempts each order has been paid by

vars == <<status, payers>>

Status == {"none", "awaiting_payment", "paid", "fulfilling", "fulfilled",
           "failed", "expired"}
Settled == {"paid", "fulfilling", "fulfilled", "failed"}

Init ==
    /\ status = [o \in Orders |-> "none"]
    /\ payers = [o \in Orders |-> {}]

Move(o, from, to) ==
    /\ status[o] = from
    /\ status' = [status EXCEPT ![o] = to]

(* Orders that are overdue expire on their own, or to make room for an     *)
(* order that is placed.                                                   *)
Expired(overdue) ==
    [o \in Orders |-> IF o \in overdue THEN "expired" ELSE status[o]]

Expire(overdue) ==
    /\ \A o \in overdue : status[o] = "awaiting_payment"
    /\ status' = Expired(overdue)
    /\ UNCHANGED payers

Place(o, overdue) ==
    /\ status[o] = "none"
    /\ \A other \in overdue : status[other] = "awaiting_payment"
    /\ status' = [Expired(overdue) EXCEPT ![o] = "awaiting_payment"]
    /\ UNCHANGED payers

(* An attempt pays one order, once, and only an order that waits for it. *)
Pay(o, a) ==
    /\ Move(o, "awaiting_payment", "paid")
    /\ \A other \in Orders : a \notin payers[other]
    /\ payers' = [payers EXCEPT ![o] = {a}]

Begin(o) ==
    /\ Move(o, "paid", "fulfilling")
    /\ UNCHANGED payers

Finish(o) ==
    /\ \/ Move(o, "fulfilling", "fulfilled")
       \/ Move(o, "fulfilling", "failed")
    /\ UNCHANGED payers

Next ==
    \/ \E overdue \in SUBSET Orders :
        \/ Expire(overdue)
        \/ \E o \in Orders : Place(o, overdue)
    \/ \E o \in Orders :
        \/ \E a \in Payers : Pay(o, a)
        \/ Begin(o)
        \/ Finish(o)

Spec == Init /\ [][Next]_vars
-----------------------------------------------------------------------------
TypeOK ==
    /\ status \in [Orders -> Status]
    /\ payers \in [Orders -> SUBSET Payers]

(* An order has been paid for if and only if some attempt has paid it; one *)
(* attempt at most pays it, and no attempt pays two orders: the promise    *)
(* record_payment_event and confirm_payment_state keep between them.       *)
PaidByOne ==
    /\ \A o \in Orders :
        IF status[o] \in Settled THEN \E a \in Payers : payers[o] = {a}
                                ELSE payers[o] = {}
    /\ \A o, other \in Orders :
        payers[o] \cap payers[other] # {} => o = other
=============================================================================
