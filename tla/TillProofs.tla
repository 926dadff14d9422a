----------------------------- MODULE TillProofs -----------------------------
(* Proofs about Till, for any items and any number of keys. *)
EXTENDS Till, TLAPS

(* The two keys are the page's own, and everything under way bears a key    *)
(* that was sent.                                                          *)
Outstanding == late \cup IF request = Nothing THEN {} ELSE {request.of}

Sent(r) == IF r.kind = "refund" THEN sale[r.key].state # "none" ELSE r.key \in sent

Numbered == key # collection /\ key <= drawn /\ collection <= drawn /\ \A k \in sent : k <= drawn

KnownKeys ==
    /\ \A r \in Outstanding : Sent(r)
    /\ \A k \in Key : sale[k].state # "none" \/ k \in payment => k \in sent
    /\ sent \subseteq shown \cup forgotten \cup {key, collection}

(* A key drawn while a request is pending is not sent before its answer. *)
OneAtATime ==
    request # Nothing =>
        /\ request.of.kind = "sale" /\ request.of.key # key => key \notin sent
        /\ request.of.kind = "collection" /\ request.of.key # collection => collection \notin sent

(* What was sent or sold under the present key is what the cart still says. *)
Same(lines) == lines = Lines \/ shrunk

OneCart ==
    cart # Empty =>
        /\ \A r \in Outstanding : r.kind = "sale" /\ r.key = key => Same(r.lines)
        /\ sale[key].state # "none" => Same(sale[key].cart)

PendingCart == request # Nothing /\ request.of.kind = "sale" /\ request.of.key = key => cart # Empty

Delisted == \A i \in Item : catalog[i] = -1 => i \in archived

KeysInv == Numbered /\ KnownKeys /\ OneAtATime
CartInv == OneCart /\ PendingCart /\ Delisted /\ RetriesAgree

----------------------------------------------------------------------------
(* Types. *)

SaleRecord == [state : {"none", "paid", "refunded"}, cart : Cart, goods : SUBSET Product]

LEMMA Bounds ==
  /\ 1 \in Key /\ 2 \in Key /\ Empty \in Cart /\ 0 \in 0 .. MaxPiece
  /\ "sale" # "collection" /\ MaxPiece \in Nat /\ MaxKey \in Nat
  BY TillAssumption DEF Key, Empty, Cart

LEMMA ListingType ==
  ASSUME quantity \in [Item -> Nat]
  PROVE  Listing \in [Item -> Nat \cup {-1}]
  BY DEF Listing

LEMMA TypeInit == Init => TypeOK
<1> SUFFICES ASSUME Init PROVE TypeOK
  OBVIOUS
<1> USE DEF Init
<1>1. quantity \in [Item -> Nat]
  BY TillAssumption
<1>2. sale \in [Key -> SaleRecord]
  <2>1. Counter!NoSale \in SaleRecord
    BY Bounds DEF Counter!NoSale, Counter!NoCart, SaleRecord, Empty
  <2> QED
    BY <2>1
<1>3. cart \in Cart /\ key \in Key /\ collection \in Key /\ drawn \in Key
  BY Bounds
<1>4. catalog \in [Item -> Nat \cup {-1}]
  BY <1>1, ListingType
<1> QED
  BY <1>1, <1>2, <1>3, <1>4 DEF TypeOK, SaleRecord

LEMMA DrawType == ASSUME drawn \in Key, NEW k, Draw(k) PROVE k \in Key /\ drawn' \in Key /\ k = drawn' /\ drawn' = drawn + 1
  BY TillAssumption DEF Draw, Key

LEMMA RenewType == ASSUME drawn \in Key, NEW k \in Key, NEW l, Renew(k, l) PROVE l \in Key /\ drawn' \in Key
  BY DrawType DEF Renew

LEMMA EditType == ASSUME TypeOK, NEW c \in Cart, EditCart(c) PROVE TypeOK'
<1>1. key' \in Key /\ drawn' \in Key /\ forgotten' \subseteq Key
  BY DrawType DEF TypeOK, EditCart, NewCart, Forget
<1> QED
  BY <1>1 DEF TypeOK, EditCart, server, desk

LEMMA CartType ==
  ASSUME TypeOK, NEW i \in Item, AddToCart(i) \/ DecrementCart(i) \/ RemoveFromCart(i) \/ ClearCart
  PROVE  \E c \in Cart : EditCart(c)
<1>1. CASE AddToCart(i)
  <2>1. [cart EXCEPT ![i] = @ + 1] \in Cart
    BY <1>1, Bounds DEF AddToCart, TypeOK, Cart
  <2> QED
    BY <1>1, <2>1 DEF AddToCart
<1>2. CASE DecrementCart(i)
  <2>1. [cart EXCEPT ![i] = @ - 1] \in Cart
    BY <1>2, Bounds DEF DecrementCart, TypeOK, Cart
  <2> QED
    BY <1>2, <2>1 DEF DecrementCart
<1>3. CASE RemoveFromCart(i)
  <2>1. [cart EXCEPT ![i] = 0] \in Cart
    BY Bounds DEF TypeOK, Cart
  <2> QED
    BY <1>3, <2>1 DEF RemoveFromCart
<1>4. CASE ClearCart
  BY <1>4, Bounds DEF ClearCart
<1> QED
  BY <1>1, <1>2, <1>3, <1>4

LEMMA LinesType == ASSUME TypeOK PROVE Lines \in Cart
  BY Bounds DEF TypeOK, Lines, Cart

LEMMA SendType == ASSUME TypeOK, NEW r \in Request, Send(r) PROVE request' \in Mutation
  BY DEF Send, Mutation

(* What the server does keeps the shelf natural and the sales records. *)
LEMMA ActsType ==
  ASSUME TypeOK, NEW r \in Request, NEW answer, Acts(r, answer)
  PROVE  quantity' \in [Item -> Nat] /\ sale' \in [Key -> SaleRecord] /\ payment' \subseteq Key
<1> r.key \in Key
  BY DEF Request
<1> quantity \in [Item -> Nat] /\ sale \in [Key -> SaleRecord] /\ payment \subseteq Key
  BY DEF TypeOK, SaleRecord
<1>1. CASE Counter!Sell(r.key, r.lines, Goods(r.lines)) /\ r.kind = "sale" /\ UNCHANGED payment
  <2>1. r.lines \in Cart /\ Goods(r.lines) \subseteq Product /\ Product \subseteq Item
    BY <1>1, TillAssumption DEF Request, Goods
  <2>2. [state |-> "paid", cart |-> r.lines, goods |-> Goods(r.lines)] \in SaleRecord
    BY <2>1 DEF SaleRecord
  <2>3. sale' \in [Key -> SaleRecord]
    BY <1>1, <2>2 DEF Counter!Sell
  <2>4. \A i \in Goods(r.lines) : quantity[i] - r.lines[i] \in Nat
    BY <1>1, <2>1, Bounds DEF Counter!Sell, Cart
  <2>5. quantity' \in [Item -> Nat]
    BY <1>1, <2>4 DEF Counter!Sell
  <2> QED
    BY <1>1, <2>3, <2>5
<1>2. CASE Counter!Refund(r.key) /\ UNCHANGED payment
  <2>1. [sale[r.key] EXCEPT !.state = "refunded"] \in SaleRecord
    BY DEF SaleRecord
  <2>2. sale' \in [Key -> SaleRecord]
    BY <1>2, <2>1 DEF Counter!Refund
  <2>3. \A i \in sale[r.key].goods : i \in Item /\ sale[r.key].cart[i] \in Nat
    BY TillAssumption, Bounds DEF SaleRecord, Cart
  <2>4. quantity' \in [Item -> Nat]
    BY <1>2, <2>3 DEF Counter!Refund
  <2> QED
    BY <1>2, <2>2, <2>4
<1>3. CASE UNCHANGED <<quantity, sale>> /\ (payment' = payment \/ payment' = payment \cup {r.key})
  BY <1>3
<1> QED
  BY <1>1, <1>2, <1>3 DEF Acts

LEMMA FailType == ASSUME TypeOK, Fail, late' \subseteq Request PROVE TypeOK'
  BY DEF TypeOK, Fail, AfterFailure, server, history

LEMMA LostType == ASSUME TypeOK, request # Nothing PROVE late \cup {request.of} \subseteq Request
  BY DEF TypeOK, Mutation

LEMMA TypeNext == TypeOK /\ [Next]_vars => TypeOK'
<1> SUFFICES ASSUME TypeOK, [Next]_vars PROVE TypeOK'
  OBVIOUS
<1>1. CASE UNCHANGED vars
  BY <1>1 DEF vars, server, retail, desk, history, TypeOK
<1>2. ASSUME NEW i \in Item, AddToCart(i) \/ DecrementCart(i) \/ RemoveFromCart(i) PROVE TypeOK'
  BY <1>2, CartType, EditType
<1>3. CASE ClearCart
  <2>1. Item # {}
    BY <1>3 DEF ClearCart, Selected
  <2> QED
    BY <1>3, <2>1, CartType, EditType
<1>4. ASSUME NEW i \in Item, Archive(i) PROVE TypeOK'
  BY <1>4 DEF Archive, retail, desk, history, TypeOK
<1>5. ASSUME NEW i \in Item, ShelfMoves(i) PROVE TypeOK'
  <2>1. quantity' \in [Item -> Nat] /\ UNCHANGED sale
    BY <1>5 DEF ShelfMoves, Counter!Adjust, TypeOK
  <2> QED
    BY <1>5, <2>1 DEF ShelfMoves, retail, desk, history, TypeOK
<1>6. ASSUME NEW typed \in BOOLEAN, TypeAmount(typed) PROVE TypeOK'
  <2>1. collection' \in Key /\ drawn' \in Key /\ forgotten' \subseteq Key
    BY <1>6, DrawType DEF TypeAmount, Forget, TypeOK
  <2> QED
    BY <1>6, <2>1 DEF TypeAmount, server, retail, TypeOK
<1>7. CASE FetchCatalog
  <2>1. catalog' \in [Item -> Nat \cup {-1}]
    BY <1>7, ListingType DEF FetchCatalog, TypeOK
  <2>2. shrunk' \in BOOLEAN
    BY <1>7 DEF FetchCatalog, TypeOK
  <2> QED
    BY <1>7, <2>1, <2>2 DEF FetchCatalog, server, desk, TypeOK
<1>8. CASE FetchBookings
  <2>1. collection' \in Key /\ drawn' \in Key /\ forgotten' \subseteq Key
    BY <1>8, DrawType DEF FetchBookings, Forget, TypeOK
  <2> QED
    BY <1>8, <2>1 DEF FetchBookings, server, retail, TypeOK
<1>9. CASE ListingMoves
  BY <1>9 DEF ListingMoves, retail, desk, history, TypeOK
<1>10. ASSUME NEW r \in Request, Send(r), sent' \subseteq Key PROVE TypeOK'
  BY <1>10, SendType DEF Send, server, retail, desk, TypeOK
<1>11. CASE Checkout
  <2>1. [kind |-> "sale", key |-> key, lines |-> Lines] \in Request
    BY LinesType DEF Request, TypeOK
  <2>2. sent' \subseteq Key
    BY <1>11 DEF Checkout, TypeOK
  <2> QED
    BY <1>10, <1>11, <2>1, <2>2 DEF Checkout
<1>12. CASE CollectInstallment
  <2>1. [kind |-> "collection", key |-> collection] \in Request
    BY DEF Request, TypeOK
  <2>2. sent' \subseteq Key
    BY <1>12 DEF CollectInstallment, TypeOK
  <2> QED
    BY <1>10, <1>12, <2>1, <2>2 DEF CollectInstallment
<1>13. ASSUME NEW k \in Key, RefundSale(k) PROVE TypeOK'
  <2>1. [kind |-> "refund", key |-> k] \in Request
    BY DEF Request
  <2>2. sent' \subseteq Key
    BY <1>13 DEF RefundSale, TypeOK
  <2> QED
    BY <1>10, <1>13, <2>1, <2>2 DEF RefundSale
<1>14. CASE Serve
  <2>1. PICK answer \in {"done", "conflict", "refused"} :
           Acts(request.of, answer) /\ request' = [request EXCEPT !.answer = answer]
    BY <1>14 DEF Serve
  <2>2. request \in Mutation
    BY <1>14 DEF Serve, TypeOK
  <2>3. request' \in Mutation
    BY <2>1, <2>2 DEF Mutation
  <2>4. request.of \in Request
    BY <2>2 DEF Mutation
  <2>5. quantity' \in [Item -> Nat] /\ sale' \in [Key -> SaleRecord] /\ payment' \subseteq Key
    BY <2>1, <2>4, ActsType
  <2> QED
    BY <1>14, <2>3, <2>5 DEF Serve, retail, desk, history, TypeOK, SaleRecord
<1>15. ASSUME NEW r \in late, ServeLate(r) PROVE TypeOK'
  <2>1. r \in Request
    BY DEF TypeOK
  <2>2. quantity' \in [Item -> Nat] /\ sale' \in [Key -> SaleRecord] /\ payment' \subseteq Key
    BY <1>15, <2>1, ActsType DEF ServeLate
  <2> QED
    BY <1>15, <2>2 DEF ServeLate, retail, desk, history, TypeOK, SaleRecord
<1>16. CASE SaleDone
  <2>1. key' \in Key /\ drawn' \in Key
    BY <1>16, RenewType DEF SaleDone, TypeOK
  <2>2. request.of.key \in Key
    BY <1>16 DEF SaleDone, TypeOK, Mutation, Request
  <2> QED
    BY <1>16, <2>1, <2>2, Bounds DEF SaleDone, server, desk, TypeOK
<1>17. CASE CollectionDone
  <2>1. collection' \in Key /\ drawn' \in Key
    BY <1>17, RenewType DEF CollectionDone, TypeOK
  <2>2. request.of.key \in Key
    BY <1>17 DEF CollectionDone, TypeOK, Mutation, Request
  <2> QED
    BY <1>17, <2>1, <2>2 DEF CollectionDone, server, retail, history, TypeOK
<1>18. CASE RefundDone
  BY <1>18 DEF RefundDone, server, retail, desk, history, TypeOK
<1>19. CASE ErrorShown
  <2>1. late' \subseteq Request /\ Fail
    BY <1>19 DEF ErrorShown, TypeOK
  <2> QED
    BY <2>1, FailType
<1>20. CASE Lose
  <2>1. late' \subseteq Request /\ Fail
    BY <1>20, LostType DEF Lose, TypeOK
  <2> QED
    BY <2>1, FailType
<1>21. CASE Reload
  <2>1. key' \in Key /\ collection' \in Key /\ drawn' \in Key
    BY <1>21, TillAssumption DEF Reload, TypeOK, Key
  <2>2. late' \subseteq Request
    BY <1>21, LostType DEF Reload, TypeOK
  <2>3. catalog' \in [Item -> Nat \cup {-1}] /\ cart' \in Cart /\ forgotten' \subseteq Key
    BY <1>21, ListingType, Bounds DEF Reload, TypeOK
  <2> QED
    BY <1>21, <2>1, <2>2, <2>3 DEF Reload, server, TypeOK
<1> QED
  BY <1>1, <1>2, <1>3, <1>4, <1>5, <1>6, <1>7, <1>8, <1>9, <1>11, <1>12, <1>13, <1>14, <1>15, <1>16,
     <1>17, <1>18, <1>19, <1>20, <1>21 DEF Next

(* The page, its requests and the shop keep their shapes; no sale takes     *)
(* more than is on the shelf.                                              *)
THEOREM TypeCorrect == Spec => []TypeOK
<1> QED
  BY TypeInit, TypeNext, PTL DEF Spec

----------------------------------------------------------------------------
(* Nothing unseen. *)

(* What the server does under a key that was sent. *)
LEMMA ActsKeys ==
  ASSUME TypeOK, KnownKeys, NEW r \in Request, Sent(r), NEW answer, Acts(r, answer), NEW k \in Key
  PROVE  /\ sale[k].state # "none" => sale'[k].state # "none"
         /\ sale'[k].state # "none" \/ k \in payment' => k \in sent
<1> r.key \in Key
  BY DEF Request
<1>1. CASE Counter!Sell(r.key, r.lines, Goods(r.lines)) /\ r.kind = "sale" /\ UNCHANGED payment
  BY <1>1 DEF Counter!Sell, Sent, KnownKeys, TypeOK
<1>2. CASE Counter!Refund(r.key) /\ UNCHANGED payment
  BY <1>2 DEF Counter!Refund, KnownKeys, TypeOK
<1>3. CASE UNCHANGED <<quantity, sale>> /\ (payment' = payment \/ (payment' = payment \cup {r.key} /\ r.kind = "collection"))
  BY <1>3 DEF Sent, KnownKeys
<1> QED
  BY <1>1, <1>2, <1>3 DEF Acts

LEMMA OutstandingType == ASSUME TypeOK PROVE Outstanding \subseteq Request
  BY DEF TypeOK, Outstanding, Mutation

LEMMA KeysStay ==
  ASSUME KeysInv, Outstanding \subseteq Request,
         UNCHANGED <<key, collection, drawn, shown, sent, forgotten>>,
         Outstanding' \subseteq Outstanding,
         request' = Nothing \/ (request # Nothing /\ request'.of = request.of),
         \A k \in Key : /\ sale[k].state # "none" => sale'[k].state # "none"
                        /\ sale'[k].state # "none" \/ k \in payment' => k \in sent
  PROVE  KeysInv'
<1>1. Numbered'
  BY DEF KeysInv, Numbered
<1>2. ASSUME NEW r \in Outstanding' PROVE Sent(r)'
  <2>1. r \in Outstanding /\ r \in Request
    OBVIOUS
  <2>2. Sent(r)
    BY <2>1 DEF KeysInv, KnownKeys
  <2>3. r.key \in Key
    BY <2>1 DEF Request
  <2> QED
    BY <2>2, <2>3 DEF Sent
<1>3. KnownKeys'
  BY <1>2 DEF KeysInv, KnownKeys
<1>4. OneAtATime'
  BY DEF KeysInv, OneAtATime
<1> QED
  BY <1>1, <1>3, <1>4 DEF KeysInv

(* A key drawn for the cart or for the amount. *)
LEMMA KeysDraw ==
  ASSUME TypeOK, KeysInv, UNCHANGED <<sale, payment, request, late, shown, sent>>,
         \/ NewCart /\ UNCHANGED collection
         \/ Draw(collection') /\ Forget(collection) /\ UNCHANGED key
  PROVE  KeysInv'
<1> USE DEF KeysInv
<1>0. drawn \in Nat /\ key \in Nat /\ collection \in Nat /\ sent \subseteq Nat
  BY TillAssumption DEF TypeOK, Key
<1>1. Numbered'
  BY <1>0 DEF Numbered, NewCart, Draw
<1>2. Outstanding' = Outstanding
  BY DEF Outstanding
<1>3. KnownKeys'
  BY <1>2 DEF KnownKeys, Sent, NewCart, Forget
<1>4. key' # key => key' \notin sent
  BY <1>0 DEF Numbered, NewCart, Draw
<1>5. collection' # collection => collection' \notin sent
  BY <1>0 DEF Numbered, NewCart, Draw
<1>6. OneAtATime'
  BY <1>4, <1>5 DEF OneAtATime
<1> QED
  BY <1>1, <1>3, <1>6

LEMMA KeysSend ==
  ASSUME TypeOK, KeysInv, NEW r \in Request, Send(r), UNCHANGED <<key, collection>>,
         \/ r.kind = "sale" /\ r.key = key /\ sent' = sent \cup {key}
         \/ r.kind = "collection" /\ r.key = collection /\ sent' = sent \cup {collection}
         \/ r.kind = "refund" /\ sale[r.key].state # "none" /\ UNCHANGED sent
  PROVE  KeysInv'
<1> USE DEF KeysInv
<1>1. Outstanding' = late \cup {r} /\ Outstanding = late /\ request'.of = r
  BY SendType, NothingAssumption DEF Outstanding, Send
<1>2. UNCHANGED <<sale, payment, drawn, shown, forgotten>>
  BY DEF Send, server
<1>3. Numbered'
  BY <1>2 DEF Numbered
<1>4. KnownKeys'
  BY <1>1, <1>2 DEF KnownKeys, Sent
<1>5. OneAtATime'
  BY <1>1, <1>2 DEF OneAtATime
<1> QED
  BY <1>3, <1>4, <1>5

LEMMA KeysDone ==
  ASSUME TypeOK, KeysInv, SaleDone \/ CollectionDone
  PROVE  KeysInv'
<1> USE DEF KeysInv
<1>0. drawn \in Nat /\ key \in Nat /\ collection \in Nat /\ sent \subseteq Nat
  BY TillAssumption DEF TypeOK, Key
<1>1. /\ request' = Nothing /\ UNCHANGED <<sale, payment, late, sent, forgotten>>
      /\ shown' = shown \cup {request.of.key}
  BY DEF SaleDone, CollectionDone, server, history
<1>2. \/ Renew(key, key') /\ UNCHANGED collection /\ request.of.kind = "sale"
      \/ Renew(collection, collection') /\ UNCHANGED key /\ request.of.kind = "collection"
  BY DEF SaleDone, CollectionDone, desk, retail
<1>3. Numbered'
  BY <1>0, <1>1, <1>2 DEF Numbered, Renew, Draw
<1>4. request # Nothing
  BY DEF SaleDone, CollectionDone
<1>5. sent' \subseteq shown' \cup forgotten' \cup {key', collection'}
  BY <1>1, <1>2, <1>4 DEF KnownKeys, OneAtATime
<1>6. Outstanding' \subseteq Outstanding
  BY <1>1 DEF Outstanding
<1>7. KnownKeys'
  BY <1>1, <1>5, <1>6 DEF KnownKeys, Sent
<1>8. OneAtATime'
  BY <1>1 DEF OneAtATime
<1> QED
  BY <1>3, <1>7, <1>8

LEMMA KeysReload ==
  ASSUME TypeOK, KeysInv, Reload
  PROVE  KeysInv'
<1> USE DEF KeysInv
<1>0. drawn \in Nat /\ key \in Nat /\ collection \in Nat /\ sent \subseteq Nat
  BY TillAssumption DEF TypeOK, Key
<1>1. /\ request' = Nothing /\ UNCHANGED <<sale, payment, sent, shown>>
      /\ key' = drawn + 1 /\ collection' = drawn + 2 /\ drawn' = drawn + 2
  BY DEF Reload, server
<1>2. Numbered'
  BY <1>0, <1>1 DEF Numbered
<1>3. Outstanding' \subseteq Outstanding
  BY <1>1 DEF Reload, Outstanding
<1>4. KnownKeys'
  BY <1>1, <1>3 DEF KnownKeys, Sent, Reload
<1> QED
  BY <1>1, <1>2, <1>4 DEF OneAtATime

(* Steps that send nothing and show nothing. *)
LEMMA KeysOthers ==
  ASSUME TypeOK, KeysInv,
         \/ Serve \/ RefundDone \/ ErrorShown \/ Lose \/ \E r \in late : ServeLate(r)
         \/ FetchCatalog \/ ListingMoves \/ UNCHANGED vars
         \/ \E i \in Item : Archive(i) \/ ShelfMoves(i)
  PROVE  KeysInv'
<1> USE DEF KeysInv
<1>1. Outstanding \subseteq Request
  BY OutstandingType
<1>2. UNCHANGED <<key, collection, drawn, shown, sent, forgotten>>
  BY DEF Serve, RefundDone, ErrorShown, Lose, Fail, AfterFailure, ServeLate, FetchCatalog, ListingMoves, vars,
         Archive, ShelfMoves, retail, desk, history
<1> DEFINE Rest ==
      \A k \in Key : /\ sale[k].state # "none" => sale'[k].state # "none"
                     /\ sale'[k].state # "none" \/ k \in payment' => k \in sent
<1>3. ASSUME UNCHANGED <<sale, payment>> PROVE Rest
  BY <1>3 DEF KnownKeys
<1>4. CASE Serve
  <2>1. request # Nothing /\ request \in Mutation /\ late' = late
    BY <1>4 DEF Serve, TypeOK
  <2>2. PICK answer \in {"done", "conflict", "refused"} :
           Acts(request.of, answer) /\ request' = [request EXCEPT !.answer = answer]
    BY <1>4 DEF Serve
  <2>3. request' \in Mutation /\ request'.of = request.of /\ request.of \in Request
    BY <2>1, <2>2 DEF Mutation
  <2>4. Outstanding' = Outstanding /\ request.of \in Outstanding
    BY <2>1, <2>3, NothingAssumption DEF Outstanding
  <2>5. Rest
    BY <2>2, <2>3, <2>4, ActsKeys DEF KnownKeys
  <2> QED
    BY <1>1, <1>2, <2>1, <2>3, <2>4, <2>5, KeysStay
<1>5. ASSUME NEW r \in late, ServeLate(r) PROVE KeysInv'
  <2>1. r \in Request /\ r \in Outstanding /\ request' = request /\ Outstanding' \subseteq Outstanding
    BY <1>5 DEF ServeLate, TypeOK, Outstanding
  <2>2. Rest
    BY <1>5, <2>1, ActsKeys DEF ServeLate, KnownKeys
  <2> QED
    BY <1>1, <1>2, <2>1, <2>2, KeysStay
<1>6. CASE RefundDone \/ ErrorShown \/ Lose
  <2>1. request' = Nothing /\ Outstanding' \subseteq Outstanding
    BY <1>6 DEF RefundDone, ErrorShown, Lose, Fail, Outstanding
  <2>2. Rest
    BY <1>3, <1>6 DEF RefundDone, ErrorShown, Lose, Fail, server
  <2> QED
    BY <1>1, <1>2, <2>1, <2>2, KeysStay
<1>7. CASE \/ FetchCatalog \/ ListingMoves \/ UNCHANGED vars
           \/ \E i \in Item : Archive(i) \/ ShelfMoves(i)
  <2>1. UNCHANGED <<request, late>> /\ UNCHANGED <<sale, payment>>
    BY <1>7 DEF FetchCatalog, ListingMoves, vars, server, Archive, ShelfMoves, Counter!Adjust
  <2>2. Outstanding' = Outstanding
    BY <2>1 DEF Outstanding
  <2> QED
    BY <1>1, <1>2, <1>3, <2>1, <2>2, KeysStay
<1> QED
  BY <1>4, <1>5, <1>6, <1>7

LEMMA KeysNext == TypeOK /\ KeysInv /\ [Next]_vars => KeysInv'
<1> SUFFICES ASSUME TypeOK, KeysInv, [Next]_vars PROVE KeysInv'
  OBVIOUS
<1>1. ASSUME NEW c, EditCart(c) PROVE KeysInv'
  BY <1>1, KeysDraw DEF EditCart, server, desk
<1>2. CASE ClearCart \/ \E i \in Item : AddToCart(i) \/ DecrementCart(i) \/ RemoveFromCart(i)
  BY <1>1, <1>2 DEF ClearCart, AddToCart, DecrementCart, RemoveFromCart
<1>3. CASE FetchBookings \/ \E typed \in BOOLEAN : TypeAmount(typed)
  BY <1>3, KeysDraw DEF FetchBookings, TypeAmount, server, retail
<1>4. CASE Checkout
  <2>1. [kind |-> "sale", key |-> key, lines |-> Lines] \in Request
    BY LinesType DEF Request, TypeOK
  <2> QED
    BY <1>4, <2>1, KeysSend DEF Checkout, Send, retail, desk
<1>5. CASE CollectInstallment
  <2>1. [kind |-> "collection", key |-> collection] \in Request
    BY DEF Request, TypeOK
  <2> QED
    BY <1>5, <2>1, KeysSend DEF CollectInstallment, Send, retail, desk
<1>6. ASSUME NEW k \in Key, RefundSale(k) PROVE KeysInv'
  <2>1. [kind |-> "refund", key |-> k] \in Request
    BY DEF Request
  <2> QED
    BY <1>6, <2>1, KeysSend DEF RefundSale, Send, retail, desk
<1> QED
  BY <1>2, <1>3, <1>4, <1>5, <1>6, KeysDone, KeysReload, KeysOthers DEF Next

LEMMA KeysInit == Init => KeysInv
<1> SUFFICES ASSUME Init PROVE KeysInv
  OBVIOUS
<1>1. Numbered
  BY DEF Init, Numbered
<1>2. \A k \in Key : sale[k].state = "none"
  BY DEF Init, Counter!NoSale
<1>3. KnownKeys
  BY <1>2 DEF Init, KnownKeys, Outstanding
<1>4. OneAtATime
  BY DEF Init, OneAtATime
<1> QED
  BY <1>1, <1>3, <1>4 DEF KeysInv

(* Whatever breaks and whatever is tried again, what the server did under a *)
(* key of pos/page.tsx was shown, can still be found, or was given up.      *)
THEOREM AllSeen == Spec => []NothingUnseen
<1>1. KeysInv => NothingUnseen
  BY DEF KeysInv, KnownKeys, NothingUnseen
<1> QED
  BY <1>1, KeysInit, KeysNext, TypeCorrect, PTL DEF Spec

----------------------------------------------------------------------------
(* Retries agree. *)

LEMMA CartStay ==
  ASSUME CartInv, UNCHANGED <<cart, catalog, key, shrunk, sale>>, archived \subseteq archived',
         Outstanding' \subseteq Outstanding, request' = Nothing \/ request' = request
  PROVE  CartInv'
<1> USE DEF CartInv
<1>1. Lines' = Lines
  BY DEF Lines, Selected
<1>2. OneCart'
  BY <1>1 DEF OneCart, Same
<1>3. PendingCart' /\ RetriesAgree'
  BY DEF PendingCart, RetriesAgree, Pending
<1>4. Delisted'
  BY DEF Delisted
<1> QED
  BY <1>2, <1>3, <1>4

(* A cart under a key that was never sent. *)
LEMMA CartFresh ==
  ASSUME TypeOK', KnownKeys', key' \notin sent', Delisted'
  PROVE  CartInv'
<1>1. \A r \in Outstanding' : r.kind = "sale" => r.key # key'
  BY DEF KnownKeys, Sent
<1>2. sale'[key'].state = "none"
  BY DEF KnownKeys, TypeOK
<1>3. OneCart'
  BY <1>1, <1>2 DEF OneCart
<1>4. request' # Nothing => request'.of \in Outstanding'
  BY DEF Outstanding
<1>5. PendingCart' /\ RetriesAgree'
  BY <1>1, <1>4 DEF PendingCart, RetriesAgree, Pending
<1> QED
  BY <1>3, <1>5 DEF CartInv

(* A page with an empty cart and nothing pending. *)
LEMMA CartEmpty == ASSUME cart' = Empty, request' = Nothing, Delisted' PROVE CartInv'
  BY DEF CartInv, OneCart, PendingCart, RetriesAgree, Pending, Empty

LEMMA ListingDelisted == ASSUME TypeOK PROVE \A i \in Item : Listing[i] = -1 <=> i \in archived
  BY DEF TypeOK, Listing

LEMMA CartEdit == ASSUME TypeOK, TypeOK', KeysInv, KeysInv', CartInv, NEW c, EditCart(c) PROVE CartInv'
<1>1. key' \notin sent'
  <2>1. drawn \in Nat /\ sent \subseteq Nat
    BY TillAssumption DEF TypeOK, Key
  <2> QED
    BY <2>1 DEF EditCart, NewCart, Draw, KeysInv, Numbered
<1>2. Delisted'
  BY DEF EditCart, server, CartInv, Delisted
<1> QED
  BY <1>1, <1>2, CartFresh DEF KeysInv

LEMMA CartFetch == ASSUME TypeOK, CartInv, FetchCatalog PROVE CartInv'
<1> USE DEF CartInv
<1>1. UNCHANGED <<cart, key, sale, archived, request>> /\ Outstanding' = Outstanding /\ catalog' = Listing
  BY DEF FetchCatalog, server, Outstanding
<1>2. Delisted'
  BY <1>1, ListingDelisted DEF Delisted
<1>3. Lines' = Lines \/ shrunk'
  <2> SUFFICES ASSUME ~shrunk' PROVE Lines' = Lines
    OBVIOUS
  <2>1. \A i \in Item : cart[i] > 0 /\ catalog[i] # -1 => catalog'[i] # -1
    BY <1>1 DEF FetchCatalog
  <2>2. \A i \in Item : catalog[i] = -1 => catalog'[i] = -1
    BY <1>1, ListingDelisted DEF Delisted
  <2>3. Selected' = Selected
    BY <1>1, <2>1, <2>2 DEF Selected
  <2> QED
    BY <1>1, <2>3 DEF Lines
<1>4. shrunk => shrunk'
  BY DEF FetchCatalog
<1>5. OneCart'
  BY <1>1, <1>3, <1>4 DEF OneCart, Same
<1>6. PendingCart' /\ RetriesAgree'
  BY <1>1, <1>4 DEF PendingCart, RetriesAgree, Pending
<1> QED
  BY <1>2, <1>5, <1>6

LEMMA CartSend ==
  ASSUME TypeOK, CartInv, NEW r \in Request, Send(r),
         r.kind = "sale" => r.lines = Lines /\ Selected # {}
  PROVE  CartInv'
<1> USE DEF CartInv
<1>1. Outstanding' = late \cup {r} /\ Outstanding = late /\ request'.of = r /\ request'.answer = "none"
  BY SendType, NothingAssumption DEF Outstanding, Send
<1>2. UNCHANGED <<sale, archived, cart, key, catalog, shrunk>> /\ Lines' = Lines
  BY DEF Send, server, retail, Lines, Selected
<1>3. Selected # {} => cart # Empty
  BY DEF Selected, Empty
<1>4. OneCart'
  BY <1>1, <1>2 DEF OneCart, Same
<1>5. PendingCart' /\ RetriesAgree' /\ Delisted'
  BY <1>1, <1>2, <1>3 DEF PendingCart, RetriesAgree, Pending, Delisted
<1> QED
  BY <1>4, <1>5

(* A sale takes the lines that were sent; a refund keeps them. *)
LEMMA ActsCart ==
  ASSUME TypeOK, OneCart, NEW r \in Outstanding, NEW answer, Acts(r, answer), cart # Empty,
         sale'[key].state # "none"
  PROVE  Same(sale'[key].cart)
<1> r \in Request /\ r.key \in Key /\ key \in Key
  BY OutstandingType DEF Request, TypeOK
<1>1. CASE Counter!Sell(r.key, r.lines, Goods(r.lines)) /\ r.kind = "sale"
  BY <1>1 DEF Counter!Sell, OneCart, TypeOK
<1>2. CASE Counter!Refund(r.key)
  BY <1>2 DEF Counter!Refund, OneCart, TypeOK
<1>3. CASE UNCHANGED sale
  BY <1>3 DEF OneCart
<1> QED
  BY <1>1, <1>2, <1>3 DEF Acts

LEMMA CartServed ==
  ASSUME TypeOK, CartInv, NEW r \in Outstanding, NEW answer, Acts(r, answer),
         UNCHANGED <<cart, catalog, key, shrunk, archived>>, Outstanding' \subseteq Outstanding
  PROVE  OneCart' /\ Delisted'
<1> USE DEF CartInv
<1>1. Lines' = Lines
  BY DEF Lines, Selected
<1>2. Delisted'
  BY DEF Delisted
<1>3. OneCart'
  BY <1>1, ActsCart DEF OneCart, Same
<1> QED
  BY <1>2, <1>3

LEMMA CartServe == ASSUME TypeOK, CartInv, Serve PROVE CartInv'
<1> USE DEF CartInv
<1>1. request # Nothing /\ request \in Mutation /\ late' = late
  BY DEF Serve, TypeOK
<1>2. PICK answer \in {"done", "conflict", "refused"} :
         Acts(request.of, answer) /\ request' = [request EXCEPT !.answer = answer]
  BY DEF Serve
<1>3. request' \in Mutation /\ request'.of = request.of /\ request'.answer = answer /\ request.of \in Request
  BY <1>1, <1>2 DEF Mutation
<1>4. Outstanding' = Outstanding /\ request.of \in Outstanding
  BY <1>1, <1>3, NothingAssumption DEF Outstanding
<1>5. UNCHANGED <<cart, catalog, key, shrunk, archived>>
  BY DEF Serve, retail, history
<1>6. OneCart' /\ Delisted'
  BY <1>2, <1>4, <1>5, CartServed
<1>7. ASSUME answer = "conflict", request.of.kind = "sale"
      PROVE  sale[request.of.key].state # "none"
             /\ sale[request.of.key].cart # request.of.lines
  BY <1>2, <1>7 DEF Acts, Fits
<1>8. PendingCart'
  BY <1>1, <1>3, <1>5 DEF PendingCart
<1>9. RetriesAgree'
  <2> SUFFICES ASSUME answer = "conflict", request.of.kind = "sale", request.of.key = key PROVE shrunk
    BY <1>3, <1>5 DEF RetriesAgree, Pending
  <2>1. cart # Empty
    BY <1>1 DEF PendingCart
  <2> QED
    BY <1>4, <1>7, <2>1 DEF OneCart, Same
<1> QED
  BY <1>6, <1>8, <1>9

LEMMA CartServeLate == ASSUME TypeOK, CartInv, NEW r \in late, ServeLate(r) PROVE CartInv'
<1> USE DEF CartInv
<1>1. r \in Outstanding /\ request' = request /\ Outstanding' \subseteq Outstanding
  BY DEF ServeLate, Outstanding
<1>2. UNCHANGED <<cart, catalog, key, shrunk, archived>>
  BY DEF ServeLate, retail, history
<1>3. OneCart' /\ Delisted'
  BY <1>1, <1>2, CartServed DEF ServeLate
<1>4. PendingCart' /\ RetriesAgree'
  BY <1>1, <1>2 DEF PendingCart, RetriesAgree, Pending
<1> QED
  BY <1>3, <1>4

LEMMA CartNext == TypeOK /\ TypeOK' /\ KeysInv /\ KeysInv' /\ CartInv /\ [Next]_vars => CartInv'
<1> SUFFICES ASSUME TypeOK, TypeOK', KeysInv, KeysInv', CartInv, [Next]_vars PROVE CartInv'
  OBVIOUS
<1>1. CASE ClearCart \/ \E i \in Item : AddToCart(i) \/ DecrementCart(i) \/ RemoveFromCart(i)
  BY <1>1, CartEdit DEF ClearCart, AddToCart, DecrementCart, RemoveFromCart
<1>2. CASE \/ UNCHANGED vars \/ FetchBookings \/ ListingMoves
           \/ \E typed \in BOOLEAN : TypeAmount(typed)
           \/ \E i \in Item : Archive(i) \/ ShelfMoves(i)
  <2>1. UNCHANGED <<cart, catalog, key, shrunk, sale, late, request>> /\ archived \subseteq archived'
    BY <1>2 DEF vars, FetchBookings, ListingMoves, TypeAmount, Archive, ShelfMoves, Counter!Adjust,
                server, retail, history
  <2>2. Outstanding' = Outstanding
    BY <2>1 DEF Outstanding
  <2> QED
    BY <2>1, <2>2, CartStay
<1>3. CASE CollectionDone \/ RefundDone \/ ErrorShown \/ Lose
  <2>1. UNCHANGED <<cart, catalog, key, shrunk, sale, archived>> /\ request' = Nothing /\ Outstanding' \subseteq Outstanding
    BY <1>3 DEF CollectionDone, RefundDone, ErrorShown, Lose, Fail, AfterFailure, server, retail, history, Outstanding
  <2> QED
    BY <2>1, CartStay
<1>4. CASE SaleDone \/ Reload
  <2>1. cart' = Empty /\ request' = Nothing
    BY <1>4 DEF SaleDone, Reload
  <2>2. Delisted'
    BY <1>4, ListingDelisted DEF SaleDone, Reload, server, CartInv, Delisted
  <2> QED
    BY <2>1, <2>2, CartEmpty
<1>5. CASE Checkout
  <2>1. [kind |-> "sale", key |-> key, lines |-> Lines] \in Request
    BY LinesType DEF Request, TypeOK
  <2> QED
    BY <1>5, <2>1, CartSend DEF Checkout
<1>6. CASE CollectInstallment
  <2>1. [kind |-> "collection", key |-> collection] \in Request
    BY DEF Request, TypeOK
  <2> QED
    BY <1>6, <2>1, CartSend DEF CollectInstallment
<1>7. ASSUME NEW k \in Key, RefundSale(k) PROVE CartInv'
  <2>1. [kind |-> "refund", key |-> k] \in Request
    BY DEF Request
  <2> QED
    BY <1>7, <2>1, CartSend DEF RefundSale
<1> QED
  BY <1>1, <1>2, <1>3, <1>4, <1>5, <1>6, <1>7, CartFetch, CartServe, CartServeLate DEF Next

(* Another try with an untouched cart is never refused as another cart's,   *)
(* whatever is fetched meanwhile, unless an item left the catalogue.        *)
THEOREM TriesAgree == Spec => []RetriesAgree
<1>1. Init => CartInv
  <2>1. Init => Delisted
    BY TypeInit, ListingDelisted DEF Init, Delisted
  <2> QED
    BY <2>1 DEF Init, CartInv, OneCart, PendingCart, RetriesAgree, Pending
<1>2. CartInv => RetriesAgree
  BY DEF CartInv
<1> QED
  BY <1>1, <1>2, KeysInit, KeysNext, CartNext, TypeCorrect, PTL DEF Spec
=============================================================================
