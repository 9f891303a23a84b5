------------------------- MODULE LedgerConfirmation -------------------------
(***************************************************************************)
(* What the program promises of every record that waits for the ledger: a  *)
(* mint, an ownership transfer, a payment out, a settlement item, a stake, *)
(* the anchor of a round.  The record says what has to happen, and does    *)
(* not change its mind.  Transactions happen on the ledger, whether or not *)
(* anyone waits for them.  The record is confirmed once, by a transaction  *)
(* that did happen, that did what the record asks for, and that confirms   *)
(* no other record.  Modules Fulfillment, TicketOwnership, Payouts,        *)
(* Voting, Markets, Settlement and Payment implement this specification.   *)
(*                                                                         *)
(* The three variables are functions that grow: they are defined on what   *)
(* there is of records, transactions and confirmations.                    *)
(***************************************************************************)
VARIABLES
    wanted,         \* for every record, the effects that would satisfy it
    applied,        \* for every transaction on the ledger, its effect
    confirmedBy     \* for every confirmed record, its transaction

vars == <<wanted, applied, confirmedBy>>

(* Some records may be there from the start. *)
Init ==
    /\ DOMAIN applied = {}
    /\ DOMAIN confirmedBy = {}

Grows(f, g) ==
    /\ DOMAIN f \subseteq DOMAIN g
    /\ \A k \in DOMAIN f : g[k] = f[k]

Ask ==
    /\ Grows(wanted, wanted')
    /\ UNCHANGED <<applied, confirmedBy>>

(* One transaction may be looked at as several, one per operation. *)
Apply ==
    /\ Grows(applied, applied')
    /\ UNCHANGED <<wanted, confirmedBy>>

Confirm(r, x) ==
    /\ applied[x] \in wanted[r]
    /\ \A s \in DOMAIN confirmedBy : confirmedBy[s] # x
    /\ Grows(confirmedBy, confirmedBy')
    /\ DOMAIN confirmedBy' = DOMAIN confirmedBy \union {r}
    /\ confirmedBy'[r] = x
    /\ UNCHANGED <<wanted, applied>>

Next ==
    \/ Ask
    \/ Apply
    \/ \E r \in DOMAIN wanted \ DOMAIN confirmedBy, x \in DOMAIN applied :
            Confirm(r, x)

Spec == Init /\ [][Next]_vars
=============================================================================
