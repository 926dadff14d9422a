-------------------------------- MODULE Till --------------------------------
(***************************************************************************)
(* The counter's page: a cart and an amount to collect, each with the key   *)
(* its request is sent under, over lists that are refetched at any time and *)
(* a connection that may break before or after the server has acted.       *)
(* Source: frontend/src/app/dashboard/pos/page.tsx, and collectInstallment  *)
(* of backend/src/accounts/pos.controller.ts.                              *)
(*                                                                         *)
(* For sales the server is the shop of Shop.tla, which PointOfSale.tla      *)
(* implements.  Keys are random; here they are counted.  One booking is in  *)
(* view: its payments are known by their keys.                             *)
(***************************************************************************)
EXTENDS Integers, FiniteSets

CONSTANTS
    Item,      \* what the counter sells
    Product,   \* the items that have stock
    Stock,     \* quantity of each on the shelf
    MaxPiece,  \* bound on the pieces of an item in the cart
    MaxKey,    \* bound on the keys drawn
    Nothing    \* no request

ASSUME TillAssumption ==
    /\ Product \subseteq Item
    /\ Stock \in Nat /\ MaxPiece \in Nat /\ MaxKey \in Nat \ {0, 1}

Key == 1 .. MaxKey
Cart == [Item -> 0 .. MaxPiece]
Empty == [i \in Item |-> 0]

VARIABLES
    quantity, sale,  \* the server: shelf and sales
    archived,        \* the server: items taken out of the catalogue
    payment,         \* the server: keys under which money was collected
    current,         \* the server: the booking is among those it lists
    catalog,         \* the page's copy of the catalogue, 0 for no more pieces
    cart,
    key,             \* requestKey
    listed,          \* the page's list has the booking
    amount,          \* an amount is typed in for the booking
    collection,      \* collectionKey
    drawn,           \* number of keys drawn
    request,         \* the mutation that is pending, or Nothing
    late,            \* requests the page has given up and the server may get
    shown,           \* keys whose receipt was shown
    sent,            \* keys that were sent (history)
    forgotten,       \* keys sent, then replaced on purpose (history)
    shrunk           \* the catalogue lost an item of the cart (history)

server == <<quantity, sale, archived, payment, current>>
retail == <<catalog, cart, key>>
desk == <<listed, amount, collection>>
history == <<sent, forgotten, shrunk>>
vars == <<server, retail, desk, drawn, request, late, shown, history>>

Counter == INSTANCE Shop

Request ==
    [kind : {"sale"}, key : Key, lines : Cart] \cup [kind : {"collection", "refund"}, key : Key]
Mutation == [of : Request, answer : {"none", "done", "conflict", "refused"}]

ASSUME NothingAssumption == Nothing \notin Mutation

TypeOK ==
    /\ quantity \in [Item -> Nat]
    /\ sale \in [Key -> [state : {"none", "paid", "refunded"}, cart : Cart, goods : SUBSET Product]]
    /\ archived \subseteq Item /\ payment \subseteq Key /\ current \in BOOLEAN
    /\ catalog \in [Item -> Nat \cup {-1}]
    /\ cart \in Cart /\ key \in Key
    /\ listed \in BOOLEAN /\ amount \in BOOLEAN /\ collection \in Key
    /\ drawn \in Key
    /\ request \in Mutation \cup {Nothing}
    /\ late \subseteq Request
    /\ shown \subseteq Key /\ sent \subseteq Key /\ forgotten \subseteq Key
    /\ shrunk \in BOOLEAN

(* -1 for an item the catalogue does not list, 1 for a service it lists. *)
Listing == [i \in Item |-> IF i \in archived THEN -1 ELSE IF i \in Product THEN quantity[i] ELSE 1]

Init ==
    /\ quantity = [i \in Item |-> IF i \in Product THEN Stock ELSE 0]
    /\ sale = [k \in Key |-> Counter!NoSale]
    /\ archived = {} /\ payment = {} /\ current = TRUE
    /\ catalog = Listing /\ cart = Empty /\ key = 1
    /\ listed = TRUE /\ amount = FALSE /\ collection = 2
    /\ drawn = 2
    /\ request = Nothing /\ late = {}
    /\ shown = {} /\ sent = {} /\ forgotten = {} /\ shrunk = FALSE

----------------------------------------------------------------------------
(* Keys. *)

Draw(k) == drawn < MaxKey /\ drawn' = drawn + 1 /\ k = drawn + 1

(* After a success; a page that has used up its keys stays as it is. *)
Renew(old, new) ==
    \/ Draw(new)
    \/ drawn = MaxKey /\ new = old /\ UNCHANGED drawn

(* A key that was sent and is now replaced by what the cashier did. *)
Forget(k) == forgotten' = IF k \in sent THEN forgotten \cup {k} ELSE forgotten

Selected == {i \in Item : catalog[i] # -1 /\ cart[i] > 0}

\* Mutant of NewCart: the key survives an edit of the cart.
SameKey == UNCHANGED <<key, drawn, forgotten>>

NewCart == Draw(key') /\ Forget(key)

EditCart(c) ==
    /\ cart' = c
    /\ NewCart
    /\ shrunk' = FALSE
    /\ UNCHANGED <<server, catalog, desk, request, late, shown, sent>>

AddToCart(i) ==
    /\ catalog[i] # -1 /\ cart[i] < MaxPiece
    /\ i \in Product => cart[i] < catalog[i]
    /\ EditCart([cart EXCEPT ![i] = @ + 1])

DecrementCart(i) ==
    /\ cart[i] > 0 /\ catalog[i] # -1
    /\ EditCart([cart EXCEPT ![i] = @ - 1])

RemoveFromCart(i) ==
    /\ cart[i] > 0 /\ catalog[i] # -1
    /\ EditCart([cart EXCEPT ![i] = 0])

ClearCart ==
    /\ Selected # {}
    /\ EditCart(Empty)

(* Typing or clearing the amount renews the key of the collection. *)
TypeAmount(typed) ==
    /\ listed /\ amount # typed
    /\ amount' = typed
    /\ Draw(collection') /\ Forget(collection)
    /\ UNCHANGED <<server, retail, listed, request, late, shown, sent, shrunk>>

----------------------------------------------------------------------------
(* Lists. *)

FetchCatalog ==
    /\ catalog' = Listing
    /\ shrunk' = (shrunk \/ \E i \in Item : cart[i] > 0 /\ catalog[i] # -1 /\ Listing[i] = -1)
    /\ UNCHANGED <<server, cart, key, desk, drawn, request, late, shown, sent, forgotten>>

(* A booking that leaves the list or comes back renews the key, whatever    *)
(* is typed in.                                                            *)
FetchBookings ==
    /\ listed # current
    /\ listed' = current
    /\ Draw(collection') /\ Forget(collection)
    /\ UNCHANGED <<server, retail, amount, request, late, shown, sent, shrunk>>

(* The server lists the newest sixty that are not cancelled. *)
ListingMoves ==
    /\ current' = ~current
    /\ UNCHANGED <<quantity, sale, archived, payment, retail, desk, drawn, request, late, shown, history>>

Archive(i) ==
    /\ i \notin archived
    /\ archived' = archived \cup {i}
    /\ UNCHANGED <<quantity, sale, payment, current, retail, desk, drawn, request, late, shown, history>>

(* Another counter sells, or staff count the shelf. *)
ShelfMoves(i) ==
    /\ i \in Product
    /\ quantity' \in {[quantity EXCEPT ![i] = q] : q \in 0 .. Stock} /\ Counter!Adjust(i)
    /\ UNCHANGED <<archived, payment, current, retail, desk, drawn, request, late, shown, history>>

----------------------------------------------------------------------------
(* The page sends; one mutation is pending at a time. *)

Send(r) ==
    /\ request = Nothing
    /\ request' = [of |-> r, answer |-> "none"]
    /\ UNCHANGED <<server, retail, desk, drawn, late, shown, forgotten, shrunk>>

Lines == [i \in Item |-> IF i \in Selected THEN cart[i] ELSE 0]

Checkout ==
    /\ Selected # {}
    /\ Send([kind |-> "sale", key |-> key, lines |-> Lines])
    /\ sent' = sent \cup {key}

CollectInstallment ==
    /\ listed /\ amount
    /\ Send([kind |-> "collection", key |-> collection])
    /\ sent' = sent \cup {collection}

RefundSale(k) ==
    /\ sale[k].state = "paid"
    /\ Send([kind |-> "refund", key |-> k])
    /\ UNCHANGED sent

----------------------------------------------------------------------------
(* The server acts on a request and answers. *)

Goods(lines) == {i \in Product : lines[i] > 0}

\* Mutant of Fits: services are not among the lines compared.
FitsGoods(r) == \A i \in Item : r.lines[i] = IF i \in sale[r.key].goods THEN sale[r.key].cart[i] ELSE 0

Fits(r) == sale[r.key].cart = r.lines

(* The key of a collection is taken for another's when somebody else has    *)
(* signed in at the counter meanwhile.                                     *)
Acts(r, answer) ==
    \/ /\ r.kind = "sale" /\ sale[r.key].state = "none"
       /\ \/ /\ answer = "done"
             /\ \A i \in archived : r.lines[i] = 0
             /\ Counter!Sell(r.key, r.lines, Goods(r.lines))
          \/ answer = "refused" /\ UNCHANGED <<quantity, sale>>
       /\ UNCHANGED payment
    \/ /\ r.kind = "sale" /\ sale[r.key].state # "none"
       /\ answer = IF Fits(r) THEN "done" ELSE "conflict"
       /\ UNCHANGED <<quantity, sale, payment>>
    \/ /\ r.kind = "refund"
       /\ \/ answer = "done" /\ Counter!Refund(r.key)
          \/ answer = "done" /\ sale[r.key].state = "refunded" /\ UNCHANGED <<quantity, sale>>
       /\ UNCHANGED payment
    \/ /\ r.kind = "collection"
       /\ \/ answer = "done" /\ payment' = payment \cup {r.key}
          \/ answer = "refused" /\ r.key \notin payment /\ UNCHANGED payment
          \/ answer = "conflict" /\ r.key \in payment /\ UNCHANGED payment
       /\ UNCHANGED <<quantity, sale>>

Serve ==
    /\ request # Nothing /\ request.answer = "none"
    /\ \E answer \in {"done", "conflict", "refused"} :
          /\ Acts(request.of, answer)
          /\ request' = [request EXCEPT !.answer = answer]
    /\ UNCHANGED <<archived, current, retail, desk, drawn, late, shown, history>>

ServeLate(r) ==
    /\ r \in late
    /\ \E answer \in {"done", "conflict", "refused"} : Acts(r, answer)
    /\ late' = late \ {r}
    /\ UNCHANGED <<archived, current, retail, desk, drawn, request, shown, history>>

----------------------------------------------------------------------------
(* The page gets the answer, or not. *)

(* handleClearCart: whatever has been put in the cart meanwhile goes too. *)
SaleDone ==
    /\ request # Nothing /\ request.answer = "done" /\ request.of.kind = "sale"
    /\ shown' = shown \cup {request.of.key}
    /\ cart' = Empty
    /\ Renew(key, key')
    /\ shrunk' = FALSE
    /\ request' = Nothing
    /\ UNCHANGED <<server, catalog, desk, late, sent, forgotten>>

CollectionDone ==
    /\ request # Nothing /\ request.answer = "done" /\ request.of.kind = "collection"
    /\ shown' = shown \cup {request.of.key}
    /\ amount' = FALSE
    /\ Renew(collection, collection')
    /\ request' = Nothing
    /\ UNCHANGED <<server, retail, listed, late, history>>

RefundDone ==
    /\ request # Nothing /\ request.answer = "done" /\ request.of.kind = "refund"
    /\ request' = Nothing
    /\ UNCHANGED <<server, retail, desk, drawn, late, shown, history>>

\* Mutant of AfterFailure: a new key for another try.
FreshKey == Draw(key') /\ UNCHANGED collection

(* The same key, so that another try finds what was done. *)
AfterFailure == UNCHANGED <<key, collection, drawn>>

Fail ==
    /\ AfterFailure
    /\ request' = Nothing
    /\ UNCHANGED <<server, catalog, cart, listed, amount, shown, history>>

ErrorShown ==
    /\ request # Nothing /\ request.answer \in {"conflict", "refused"}
    /\ Fail /\ UNCHANGED late

(* The connection breaks; a request under way may still arrive. *)
Lose ==
    /\ request # Nothing
    /\ late' \in IF request.answer = "none" THEN {late, late \cup {request.of}} ELSE {late}
    /\ Fail

(* The page is loaded again: cart, amount and keys are gone. *)
Reload ==
    /\ drawn + 2 <= MaxKey /\ drawn' = drawn + 2
    /\ key' = drawn + 1 /\ collection' = drawn + 2
    /\ forgotten' = forgotten \cup ({key, collection} \cap sent)
    /\ late' \in IF request # Nothing /\ request.answer = "none"
                 THEN {late, late \cup {request.of}} ELSE {late}
    /\ request' = Nothing
    /\ catalog' = Listing /\ cart' = Empty /\ listed' = current /\ amount' = FALSE
    /\ shrunk' = FALSE
    /\ UNCHANGED <<server, shown, sent>>

----------------------------------------------------------------------------
Next ==
    \/ \E i \in Item :
          \/ AddToCart(i) \/ DecrementCart(i) \/ RemoveFromCart(i)
          \/ Archive(i) \/ ShelfMoves(i)
    \/ ClearCart
    \/ \E typed \in BOOLEAN : TypeAmount(typed)
    \/ FetchCatalog
    \/ FetchBookings
    \/ ListingMoves
    \/ Checkout
    \/ CollectInstallment
    \/ \E k \in Key : RefundSale(k)
    \/ Serve
    \/ \E r \in late : ServeLate(r)
    \/ SaleDone
    \/ CollectionDone
    \/ RefundDone
    \/ ErrorShown
    \/ Lose
    \/ Reload

Spec == Init /\ [][Next]_vars

Pending(kind) == request # Nothing /\ request.of.kind = kind

(* The server answers and the page takes the answer; and a cashier who tries *)
(* again and again gets through with a sale.                               *)
FairSpec ==
    /\ Spec
    /\ WF_vars(Serve)
    /\ SF_vars(Checkout)
    /\ SF_vars(Pending("sale") /\ Serve)
    /\ SF_vars(SaleDone)
    /\ WF_vars(RefundDone \/ CollectionDone \/ ErrorShown)

----------------------------------------------------------------------------
(* Money and goods do not change hands unnoticed: what the server has done  *)
(* under a key was shown, or the key is still the one another try uses; or *)
(* the cashier gave it up by editing the cart or the amount, by loading the *)
(* page, or because the list lost the booking.                             *)
NothingUnseen ==
    \A k \in Key :
        sale[k].state # "none" \/ k \in payment => k \in shown \cup forgotten \cup {key, collection}

(* A cart is never refused as another cart's unless the catalogue dropped   *)
(* one of its items between two tries.                                     *)
RetriesAgree ==
    Pending("sale") /\ request.answer = "conflict" /\ request.of.key = key => shrunk

(* A page whose cart has been sold without its knowing does not stay so:    *)
(* one more try shows the sale, unless the catalogue dropped an item of it. *)
RetryShowsTheSale == []<>(sale[key].state # "none" => key \in shown \/ shrunk)
=============================================================================
