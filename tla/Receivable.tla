----------------------------- MODULE Receivable -----------------------------
(***************************************************************************)
(* What a booking owes, as one account: no installments, no order among     *)
(* them, no job and no list.  A receipt takes off its amount and a          *)
(* cancellation what the pilgrims need not pay any more, each until nothing *)
(* is left.  InstallmentPlan.tla is shown to implement this module: four    *)
(* rows, filled from one end and relieved from the other, are this account. *)
(***************************************************************************)
EXTENDS Integers

CONSTANTS Group, Prices, ChargePerPilgrim, Amount

VARIABLES price,     \* of one pilgrim
          pilgrims,  \* how many are left
          balance,   \* what is still asked for
          received,  \* gross receipts
          standing,  \* of the booking
          closed     \* the booking is archived

account == <<price, pilgrims, balance, received, standing, closed>>

Less(m, n) == IF n < m THEN m - n ELSE 0

DownPayment == (3 * price * Group + 5) \div 10

Init ==
    /\ price \in Prices
    /\ pilgrims = Group
    /\ balance = price * Group
    /\ received = 0
    /\ standing = "held"
    /\ closed = FALSE

(* The down payment, or nothing left to pay, settles the hold: the seats    *)
(* are confirmed, or the hold had run out.  Without either it stays a hold. *)
Receive(a) ==
    /\ ~closed
    /\ received' = received + a
    /\ balance' = Less(balance, a)
    /\ \/ /\ standing = "held"
          /\ received' >= DownPayment \/ balance' = 0
          /\ standing' \in {"confirmed", "cancelled"}
       \/ /\ standing = "held" => received' < DownPayment
          /\ UNCHANGED standing
    /\ UNCHANGED <<price, pilgrims, closed>>

(* What still comes in for a closed account is only taken down. *)
Note(a) ==
    /\ closed
    /\ received' = received + a
    /\ UNCHANGED <<price, pilgrims, balance, standing, closed>>

Relieve(n, c) ==
    /\ standing # "cancelled" /\ ~closed
    /\ pilgrims' = pilgrims - n
    /\ balance' = Less(balance, Less(price * n, c * n))
    /\ standing' = IF pilgrims' = 0 THEN "cancelled" ELSE standing
    /\ UNCHANGED <<price, received, closed>>

Lapse ==
    /\ standing = "held" /\ ~closed
    /\ standing' = "cancelled"
    /\ UNCHANGED <<price, pilgrims, balance, received, closed>>

Default ==
    /\ standing = "confirmed" /\ balance > 0 /\ ~closed
    /\ standing' = "defaulted"
    /\ UNCHANGED <<price, pilgrims, balance, received, closed>>

Close ==
    /\ ~closed
    /\ closed' = TRUE
    /\ UNCHANGED <<price, pilgrims, balance, received, standing>>

Next ==
    \/ \E a \in Amount : Receive(a) \/ Note(a)
    \/ \E n \in 1 .. pilgrims, c \in ChargePerPilgrim : Relieve(n, c)
    \/ Lapse
    \/ Default
    \/ Close

Spec == Init /\ [][Next]_account
=============================================================================
