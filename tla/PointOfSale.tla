---------------------------- MODULE PointOfSale ----------------------------
(***************************************************************************)
(* The counter of an agency: checkouts and refunds of several terminals,    *)
(* retried with the same request key, against staff who issue, recount,    *)
(* retype and archive stock.  Source: backend/src/accounts.                *)
(*                                                                         *)
(* A checkout or refund is a transaction of several steps, one for each     *)
(* lock it waits for; its writes appear when it commits, and it may fail    *)
(* at any point, which rolls everything back.  Statements that take one    *)
(* row lock are one action, enabled while nobody else holds that row.      *)
(*                                                                         *)
(* Items are numbered in the order in which their ids sort.                *)
(***************************************************************************)
EXTENDS Amounts

CONSTANTS
    Items,   \* number of stock items
    Call,    \* transactions that may run at the same time
    Key,     \* request keys of checkouts
    None,    \* the key of a terminal that is doing nothing
    Cart,    \* carts, lines of the same item added up
    Count    \* quantities staff count or issue

Item == 1 .. Items

ASSUME CounterAssumption ==
    /\ Items \in Nat
    /\ IsFiniteSet(Key)
    /\ Cart \subseteq [Item -> Nat]
    /\ Count \subseteq Nat

VARIABLES
    quantity,  \* quantity on hand, a column of stock_items
    kind,      \* "product" or "service"
    archived,  \* items that are soft-deleted
    supplied,  \* what staff have counted in, less what they issued without a sale
    sale,      \* the sale made under a request key
    issued,    \* per key and item, the sum of its stock_issues rows
    call       \* the transactions under way

stock == <<kind, archived, supplied>>
vars == <<quantity, stock, sale, issued, call>>

NoCart == [i \in Item |-> 0]
NoSale == [state |-> "none", cart |-> NoCart, goods |-> {}]
Idle == [at |-> "idle", key |-> None, cart |-> NoCart, todo |-> {}, got |-> {}, read |-> NoCart]

Stage == {"idle", "key", "selling", "sale", "restocking"}

TypeOK ==
    /\ quantity \in [Item -> Nat]
    /\ kind \in [Item -> {"product", "service"}]
    /\ archived \subseteq Item
    /\ supplied \in [Item -> Int]
    /\ sale \in [Key -> [state : {"none", "paid", "refunded"}, cart : [Item -> Nat], goods : SUBSET Item]]
    /\ issued \in [Key -> [Item -> Nat]]
    /\ call \in [Call -> [at : Stage, key : Key \cup {None}, cart : [Item -> Nat],
                          todo : SUBSET Item, got : SUBSET Item, read : [Item -> Nat]]]

Init ==
    /\ quantity \in [Item -> Count]
    /\ kind \in [Item -> {"product", "service"}]
    /\ archived = {}
    /\ supplied = quantity
    /\ sale = [k \in Key |-> NoSale]
    /\ issued = [k \in Key |-> NoCart]
    /\ call = [c \in Call |-> Idle]

----------------------------------------------------------------------------
(* Locks last to the end of the transaction. *)

HoldsKey(c, k) == call[c].at = "selling" /\ call[c].key = k
HoldsSale(c, k) == call[c].at = "restocking" /\ call[c].key = k
HoldsItem(c, i) == i \in call[c].got

Unlocked(i) == \A c \in Call : ~HoldsItem(c, i)

End(c) == call' = [call EXCEPT ![c] = Idle]

\* Mutant of InOrder: items are locked in the order of the cart.
AnyOrder(c, i) == i \in call[c].todo

InOrder(c, i) == i \in call[c].todo /\ \A j \in call[c].todo : i <= j

----------------------------------------------------------------------------
(* Checkout. *)

BeginCheckout(c, k, cart) ==
    /\ call[c].at = "idle"
    /\ call' = [call EXCEPT ![c] = [Idle EXCEPT !.at = "key", !.key = k, !.cart = cart]]
    /\ UNCHANGED <<quantity, stock, sale, issued>>

\* Mutant of AlreadySold: a retry is not recognised.
NeverSold(k) == FALSE

AlreadySold(k) == sale[k].state # "none"

(* A retry is answered with the sale it finds, or refused if its cart differs. *)
LockKey(c) ==
    /\ call[c].at = "key"
    /\ \A d \in Call : ~HoldsKey(d, call[c].key)
    /\ IF AlreadySold(call[c].key)
       THEN End(c)
       ELSE call' = [call EXCEPT ![c].at = "selling",
                                 ![c].todo = {i \in Item : call[c].cart[i] > 0}]
    /\ UNCHANGED <<quantity, stock, sale, issued>>

\* Mutant of Suffices: stock is not checked.
AlwaysSuffices(c, i) == TRUE

Suffices(c, i) == kind[i] = "product" => quantity[i] >= call[c].cart[i]

Take(c, i) ==
    call' = [call EXCEPT ![c].todo = @ \ {i}, ![c].got = @ \cup {i}, ![c].read[i] = quantity[i]]

(* Archived items are not found. *)
LockToSell(c, i) ==
    /\ call[c].at = "selling" /\ InOrder(c, i) /\ Unlocked(i)
    /\ IF i \notin archived /\ Suffices(c, i) THEN Take(c, i) ELSE End(c)
    /\ UNCHANGED <<quantity, stock, sale, issued>>

(* Writes the quantities computed from what was read under the locks. *)
CommitSale(c) ==
    LET k == call[c].key
        cart == call[c].cart
        goods == {i \in call[c].got : kind[i] = "product"}
    IN  /\ call[c].at = "selling" /\ call[c].todo = {}
        /\ quantity' = [i \in Item |-> IF i \in goods THEN call[c].read[i] - cart[i] ELSE quantity[i]]
        /\ sale' = [sale EXCEPT ![k] = [state |-> "paid", cart |-> cart, goods |-> goods]]
        /\ issued' = [issued EXCEPT ![k] =
                         [i \in Item |-> IF i \in goods THEN issued[k][i] + cart[i] ELSE issued[k][i]]]
        /\ End(c)
        /\ UNCHANGED stock

----------------------------------------------------------------------------
(* Refund of a whole sale. *)

BeginRefund(c, k) ==
    /\ call[c].at = "idle"
    /\ sale[k].state # "none"
    /\ call' = [call EXCEPT ![c] = [Idle EXCEPT !.at = "sale", !.key = k]]
    /\ UNCHANGED <<quantity, stock, sale, issued>>

\* Mutant of AlreadyRefunded: a second refund goes through.
NeverRefunded(k) == FALSE

AlreadyRefunded(k) == sale[k].state = "refunded"

\* Mutant of Returned: what the item is today decides, not what the line says.
ReturnedByKind(k) == {i \in Item : sale[k].cart[i] > 0 /\ kind[i] = "product"}

Returned(k) == sale[k].goods

LockSale(c) ==
    /\ call[c].at = "sale"
    /\ \A d \in Call : ~HoldsSale(d, call[c].key)
    /\ IF AlreadyRefunded(call[c].key)
       THEN End(c)
       ELSE call' = [call EXCEPT ![c].at = "restocking", ![c].todo = Returned(call[c].key)]
    /\ UNCHANGED <<quantity, stock, sale, issued>>

(* Archived items are restocked too. *)
LockToRestock(c, i) ==
    /\ call[c].at = "restocking" /\ InOrder(c, i) /\ Unlocked(i)
    /\ Take(c, i)
    /\ UNCHANGED <<quantity, stock, sale, issued>>

(* The issue row of a line, if it has one, stays and gets a reversal. *)
CommitRefund(c) ==
    LET k == call[c].key
        back == call[c].got
    IN  /\ call[c].at = "restocking" /\ call[c].todo = {}
        /\ quantity' = [i \in Item |-> IF i \in back THEN call[c].read[i] + sale[k].cart[i]
                                       ELSE quantity[i]]
        /\ issued' = [issued EXCEPT ![k] =
                         [i \in Item |-> IF i \in back \cap sale[k].goods
                                         THEN issued[k][i] - sale[k].cart[i] ELSE issued[k][i]]]
        /\ sale' = [sale EXCEPT ![k].state = "refunded"]
        /\ End(c)
        /\ UNCHANGED stock

(* The connection drops, the process dies, or too little money is tendered. *)
Fail(c) ==
    /\ call[c].at # "idle"
    /\ End(c)
    /\ UNCHANGED <<quantity, stock, sale, issued>>

----------------------------------------------------------------------------
(* Staff, one row lock each. *)

SetQuantity(i, q) ==
    /\ Unlocked(i) /\ i \notin archived
    /\ quantity' = [quantity EXCEPT ![i] = q]
    /\ supplied' = [supplied EXCEPT ![i] = @ + q - quantity[i]]
    /\ UNCHANGED <<kind, archived, sale, issued, call>>

(* updateStock takes any column; only the counter's own form refuses the kind. *)
SetKind(i, s) ==
    /\ Unlocked(i) /\ i \notin archived
    /\ kind' = [kind EXCEPT ![i] = s]
    /\ UNCHANGED <<quantity, archived, supplied, sale, issued, call>>

IssueStock(i, q) ==
    /\ Unlocked(i) /\ i \notin archived
    /\ 0 < q /\ q <= quantity[i]
    /\ quantity' = [quantity EXCEPT ![i] = @ - q]
    /\ supplied' = [supplied EXCEPT ![i] = @ - q]
    /\ UNCHANGED <<kind, archived, sale, issued, call>>

RemoveStock(i) ==
    /\ Unlocked(i) /\ i \notin archived
    /\ archived' = archived \cup {i}
    /\ UNCHANGED <<quantity, kind, supplied, sale, issued, call>>

----------------------------------------------------------------------------
Next ==
    \/ \E c \in Call :
          \/ \E k \in Key, cart \in Cart : BeginCheckout(c, k, cart)
          \/ LockKey(c)
          \/ \E k \in Key : BeginRefund(c, k)
          \/ LockSale(c)
          \/ \E i \in Item : LockToSell(c, i) \/ LockToRestock(c, i)
          \/ CommitSale(c)
          \/ CommitRefund(c)
          \/ Fail(c)
    \/ \E i \in Item :
          \/ \E q \in Count : SetQuantity(i, q) \/ IssueStock(i, q)
          \/ \E s \in {"product", "service"} : SetKind(i, s)
          \/ RemoveStock(i)

Spec == Init /\ [][Next]_vars

----------------------------------------------------------------------------
(* Nothing is lost: what is on hand plus what the issue rows of sales say   *)
(* left the shelf is what staff supplied, across concurrent checkouts,      *)
(* refunds, recounts, retyped and archived items and rolled back calls.    *)
StockConserved ==
    \A i \in Item :
        quantity[i] + SumOver([k \in Key |-> issued[k][i]], Key) = supplied[i]

(* However often a key is retried and a sale refunded, a paid sale has      *)
(* issued its products once, and a refunded one has given them back once.   *)
SaleMatchesIssues ==
    \A k \in Key, i \in Item :
        issued[k][i] = IF sale[k].state = "paid" /\ i \in sale[k].goods
                       THEN sale[k].cart[i] ELSE 0

Waits(c, d) ==
    \/ call[c].at = "key" /\ HoldsKey(d, call[c].key)
    \/ call[c].at = "sale" /\ HoldsSale(d, call[c].key)
    \/ \E i \in Item : InOrder(c, i) /\ HoldsItem(d, i)

(* No deadlock: there is no group of transactions each of which waits for   *)
(* a lock held by another of the group.                                    *)
NoWaitCycle ==
    \A S \in (SUBSET Call) \ {{}} : \E c \in S : \A d \in S : ~Waits(c, d)

(* The counter implements the shop, where sales and refunds are instants.   *)
Serial == INSTANCE Shop

ImplementsShop == Serial!Spec
=============================================================================
