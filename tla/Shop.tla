------------------------------- MODULE Shop -------------------------------
(***************************************************************************)
(* What the counter promises about stock and sales: a request key is sold  *)
(* at most once, a sale is refunded at most once, and each happens at one  *)
(* instant, taking what is on the shelf or putting it back.  There are no   *)
(* transactions and no locks here; PointOfSale.tla implements this module. *)
(***************************************************************************)
EXTENDS Integers

CONSTANTS Item,  \* stock items
          Key,   \* request keys of checkouts
          Cart   \* carts: a quantity for every item

VARIABLES quantity,  \* quantity[i]: what is on hand of i
          sale       \* sale[k]: the sale made under key k

NoCart == [i \in Item |-> 0]
NoSale == [state |-> "none", cart |-> NoCart, goods |-> {}]

Init ==
    /\ quantity \in [Item -> Nat]
    /\ sale = [k \in Key |-> NoSale]

(* `goods` are the lines that consume stock. *)
Sell(k, cart, goods) ==
    /\ sale[k].state = "none"
    /\ \A i \in goods : cart[i] <= quantity[i]
    /\ quantity' = [i \in Item |-> IF i \in goods THEN quantity[i] - cart[i] ELSE quantity[i]]
    /\ sale' = [sale EXCEPT ![k] = [state |-> "paid", cart |-> cart, goods |-> goods]]

Refund(k) ==
    /\ sale[k].state = "paid"
    /\ quantity' = [i \in Item |-> IF i \in sale[k].goods THEN quantity[i] + sale[k].cart[i]
                                   ELSE quantity[i]]
    /\ sale' = [sale EXCEPT ![k].state = "refunded"]

(* Staff count the shelf or hand an item out. *)
Adjust(i) ==
    /\ quantity'[i] \in Nat
    /\ quantity' = [quantity EXCEPT ![i] = quantity'[i]]
    /\ UNCHANGED sale

Next ==
    \/ \E k \in Key :
          \/ \E cart \in Cart, goods \in SUBSET Item : Sell(k, cart, goods)
          \/ Refund(k)
    \/ \E i \in Item : Adjust(i)

Spec == Init /\ [][Next]_<<quantity, sale>>
=============================================================================
