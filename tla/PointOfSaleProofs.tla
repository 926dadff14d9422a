------------------------- MODULE PointOfSaleProofs -------------------------
(***************************************************************************)
(* Proofs about the counter.  The inductive invariant says what a           *)
(* transaction knows at each stage: while it holds a row lock the quantity  *)
(* it read is the quantity there is, the key or sale it holds is still      *)
(* unsold or unrefunded, and every item it still waits for sorts after     *)
(* every item it holds.  The last part makes deadlock impossible; the      *)
(* others make a commit look like one instant.                             *)
(***************************************************************************)
EXTENDS PointOfSale, AmountsProofs, WellFoundedInduction

(* What one transaction knows. *)
Waiting(c) ==
    call[c].at \in {"idle", "key", "sale"} => call[c].got = {} /\ call[c].todo = {}

Ordered(c) == \A i \in call[c].got, j \in call[c].todo : i < j

Fresh(c) == \A i \in call[c].got : call[c].read[i] = quantity[i]

Selling(c) ==
    /\ call[c].at \in {"key", "selling"} => call[c].key \in Key /\ call[c].cart \in Cart
    /\ call[c].at = "selling" =>
          /\ sale[call[c].key].state = "none"
          /\ \A i \in call[c].got : kind[i] = "product" => call[c].cart[i] <= quantity[i]

Restocking(c) ==
    /\ call[c].at \in {"sale", "restocking"} =>
          call[c].key \in Key /\ sale[call[c].key].state # "none"
    /\ call[c].at = "restocking" =>
          /\ sale[call[c].key].state = "paid"
          /\ call[c].got \cup call[c].todo = sale[call[c].key].goods

(* No two transactions hold the same lock. *)
Exclusive ==
    \A c, d \in Call :
        c # d => /\ call[c].got \cap call[d].got = {}
                 /\ call[c].at = "selling" /\ call[d].at = "selling" => call[c].key # call[d].key
                 /\ call[c].at = "restocking" /\ call[d].at = "restocking"
                       => call[c].key # call[d].key

CallsOK ==
    \A c \in Call : Waiting(c) /\ Ordered(c) /\ Fresh(c) /\ Selling(c) /\ Restocking(c)

IInv == TypeOK /\ CallsOK /\ Exclusive /\ SaleMatchesIssues

CallRecord ==
    [at : Stage, key : Key \cup {None}, cart : [Item -> Nat],
     todo : SUBSET Item, got : SUBSET Item, read : [Item -> Nat]]

LEMMA IdleIsCall == Idle \in CallRecord
  BY DEF Idle, CallRecord, Stage, NoCart

LEMMA InitInvariant == Init => IInv
  <1> SUFFICES ASSUME Init PROVE IInv
    OBVIOUS
  <1>1. TypeOK
    <2>1. quantity \in [Item -> Nat] /\ supplied \in [Item -> Int]
      <3>1. quantity \in [Item -> Count] /\ supplied = quantity
        BY DEF Init
      <3>2. Count \subseteq Nat /\ Count \subseteq Int
        BY CounterAssumption
      <3>3. \A n \in Item : quantity[n] \in Count
        BY <3>1
      <3>4. QED
        BY <3>1, <3>2, <3>3
    <2>2. NoCart \in [Item -> Nat] /\ NoCart \in [Item -> Int]
      BY DEF NoCart
    <2>3. call \in [Call -> CallRecord]
      BY IdleIsCall DEF Init
    <2>4. QED
      BY <2>1, <2>2, <2>3 DEF Init, TypeOK, NoSale, CallRecord
  <1>2. CallsOK
    BY DEF Init, CallsOK, Waiting, Ordered, Fresh, Selling, Restocking, Idle
  <1>3. Exclusive
    BY DEF Init, Exclusive, Idle
  <1>4. SaleMatchesIssues
    BY DEF Init, SaleMatchesIssues, NoSale, NoCart
  <1>5. QED
    BY <1>1, <1>2, <1>3, <1>4 DEF IInv

(* A transaction that ends gives up what it held and changes nothing else. *)
LEMMA EndKeeps ==
  ASSUME IInv, NEW c \in Call, End(c), UNCHANGED <<quantity, stock, sale, issued>>
  PROVE  IInv'
  <1>1. call' \in [Call -> CallRecord]
    BY IdleIsCall DEF IInv, TypeOK, End, CallRecord
  <1>2. TypeOK'
    BY <1>1 DEF IInv, TypeOK, stock, CallRecord
  <1>3. CallsOK'
    BY DEF IInv, TypeOK, CallsOK, Waiting, Ordered, Fresh, Selling, Restocking, End, Idle, stock
  <1>4. Exclusive'
    BY DEF IInv, TypeOK, Exclusive, End, Idle
  <1>5. SaleMatchesIssues'
    BY DEF IInv, SaleMatchesIssues
  <1>6. QED
    BY <1>2, <1>3, <1>4, <1>5 DEF IInv

(* A row lock taken in order keeps every transaction's knowledge. *)
LEMMA TakeKeeps ==
  ASSUME IInv, NEW c \in Call, NEW i \in Item, InOrder(c, i), Unlocked(i), Take(c, i),
         call[c].at \in {"selling", "restocking"},
         call[c].at = "selling" => Suffices(c, i),
         UNCHANGED <<quantity, stock, sale, issued>>
  PROVE  IInv'
  <1> USE DEF IInv, Take
  <1>0. /\ i \in call[c].todo /\ \A j \in call[c].todo : i <= j /\ j \in Nat
        /\ i \in Nat /\ call[c] \in CallRecord /\ call \in [Call -> CallRecord]
    BY CounterAssumption DEF InOrder, TypeOK, CallRecord, Item
  <1>1. call'[c] = [call[c] EXCEPT !.todo = @ \ {i}, !.got = @ \cup {i}, !.read = [@ EXCEPT ![i] = quantity[i]]]
    BY <1>0
  <1>2. \A d \in Call \ {c} : call'[d] = call[d]
    BY <1>0
  <1>3. call'[c] \in CallRecord
    BY <1>0, <1>1 DEF CallRecord, TypeOK
  <1>4. TypeOK'
    <2>1. call' \in [Call -> CallRecord]
      BY <1>0, <1>2, <1>3
    <2>2. QED
      BY <2>1 DEF TypeOK, stock, CallRecord
  <1>5. /\ call'[c].at = call[c].at /\ call'[c].key = call[c].key /\ call'[c].cart = call[c].cart
        /\ call'[c].todo = call[c].todo \ {i} /\ call'[c].got = call[c].got \cup {i}
        /\ call'[c].read = [call[c].read EXCEPT ![i] = quantity[i]]
    BY <1>0, <1>1 DEF CallRecord
  <1> HIDE DEF Take
  <1>6. CallsOK'
    <2> SUFFICES ASSUME NEW d \in Call
                 PROVE  (Waiting(d) /\ Ordered(d) /\ Fresh(d) /\ Selling(d) /\ Restocking(d))'
      BY DEF CallsOK
    <2>1. CASE d # c
      <3>1. /\ Waiting(d) /\ Ordered(d) /\ Fresh(d) /\ Selling(d) /\ Restocking(d)
            /\ call'[d] = call[d]
        BY <2>1, <1>2 DEF CallsOK
      <3>2. (Waiting(d) /\ Ordered(d) /\ Fresh(d))'
        BY <3>1 DEF Waiting, Ordered, Fresh
      <3>3. (Selling(d) /\ Restocking(d))'
        BY <3>1 DEF Selling, Restocking, stock
      <3>4. QED
        BY <3>2, <3>3
    <2>2. CASE d = c
      <3>1. Waiting(c)'
        BY <1>5 DEF Waiting
      <3>2. Ordered(c)'
        <4> SUFFICES ASSUME NEW g \in call[c].got \cup {i}, NEW j \in call[c].todo \ {i} PROVE g < j
          BY <1>5 DEF Ordered
        <4>1. i < j
          BY <1>0
        <4>2. QED
          BY <4>1 DEF CallsOK, Ordered
      <3>3. Fresh(c)'
        <4>1. \A g \in call[c].got : call[c].read[g] = quantity[g]
          BY DEF CallsOK, Fresh
        <4>2. call[c].read \in [Item -> Nat] /\ call[c].got \subseteq Item
          BY <1>0 DEF CallRecord
        <4>3. \A g \in call[c].got \cup {i} : call'[c].read[g] = quantity[g]
          BY <4>1, <4>2, <1>5
        <4>4. quantity' = quantity
          OBVIOUS
        <4>5. QED
          BY <4>3, <4>4, <1>5 DEF Fresh
      <3>4. Selling(c)'
        BY <1>5, <1>0 DEF CallsOK, Selling, Suffices, stock, TypeOK, CallRecord
      <3>5. Restocking(c)'
        BY <1>5, <1>0 DEF CallsOK, Restocking
      <3>6. QED
        BY <2>2, <3>1, <3>2, <3>3, <3>4, <3>5
    <2>3. QED
      BY <2>1, <2>2
  <1>7. Exclusive'
    BY <1>2, <1>5 DEF Exclusive, Unlocked, HoldsItem
  <1>8. SaleMatchesIssues'
    BY DEF SaleMatchesIssues
  <1>9. QED
    BY <1>4, <1>6, <1>7, <1>8

LEMMA SaleCommits ==
  ASSUME IInv, NEW c \in Call, CommitSale(c)
  PROVE  IInv'
  <1> DEFINE k == call[c].key
             cart == call[c].cart
             goods == {i \in call[c].got : kind[i] = "product"}
  <1>0. /\ k \in Key /\ cart \in [Item -> Nat] /\ goods \subseteq Item
        /\ call[c].at = "selling" /\ sale[k].state = "none"
        /\ \A i \in goods : call[c].read[i] = quantity[i] /\ cart[i] <= quantity[i]
    BY DEF IInv, TypeOK, CallsOK, Selling, Fresh, CommitSale
  <1>1. /\ quantity' = [i \in Item |-> IF i \in goods THEN quantity[i] - cart[i] ELSE quantity[i]]
        /\ sale' = [sale EXCEPT ![k] = [state |-> "paid", cart |-> cart, goods |-> goods]]
        /\ issued' = [issued EXCEPT ![k] =
                         [i \in Item |-> IF i \in goods THEN issued[k][i] + cart[i] ELSE issued[k][i]]]
        /\ End(c)
        /\ UNCHANGED stock
    BY <1>0 DEF CommitSale
  <1> HIDE DEF k, cart, goods
  <1>2. TypeOK'
    <2>1. quantity' \in [Item -> Nat]
      BY <1>0, <1>1 DEF IInv, TypeOK
    <2>2. sale' \in [Key -> [state : {"none", "paid", "refunded"}, cart : [Item -> Nat], goods : SUBSET Item]]
      BY <1>0, <1>1 DEF IInv, TypeOK
    <2>3. issued' \in [Key -> [Item -> Nat]]
      BY <1>0, <1>1 DEF IInv, TypeOK
    <2>4. call' \in [Call -> CallRecord]
      BY <1>1, IdleIsCall DEF IInv, TypeOK, End, CallRecord
    <2>5. QED
      BY <1>1, <2>1, <2>2, <2>3, <2>4 DEF IInv, TypeOK, CallRecord, stock
  <1>3. call'[c] = Idle /\ \A d \in Call \ {c} : call'[d] = call[d]
    BY <1>1 DEF IInv, TypeOK, End
  <1>4. /\ \A j \in Key \ {k} : sale'[j] = sale[j]
        /\ sale'[k] = [state |-> "paid", cart |-> cart, goods |-> goods]
    BY <1>0, <1>1 DEF IInv, TypeOK
  <1>5. \A d \in Call \ {c} : \A i \in call[d].got : quantity'[i] = quantity[i]
    BY <1>0, <1>1 DEF IInv, TypeOK, Exclusive, goods
  <1>6. \A d \in Call \ {c} : call[d].at = "selling" => call[d].key # k
    BY <1>0 DEF IInv, Exclusive, k
  <1>7. CallsOK'
    <2> SUFFICES ASSUME NEW d \in Call
                 PROVE  (Waiting(d) /\ Ordered(d) /\ Fresh(d) /\ Selling(d) /\ Restocking(d))'
      BY DEF CallsOK
    <2>1. CASE d = c
      BY <2>1, <1>3 DEF Waiting, Ordered, Fresh, Selling, Restocking, Idle
    <2>2. CASE d # c
      <3>1. /\ Waiting(d) /\ Ordered(d) /\ Fresh(d) /\ Selling(d) /\ Restocking(d)
            /\ call'[d] = call[d]
        BY <2>2, <1>3 DEF IInv, CallsOK
      <3>2. (Waiting(d) /\ Ordered(d) /\ Fresh(d))'
        BY <2>2, <3>1, <1>5 DEF Waiting, Ordered, Fresh
      <3>3. Selling(d)'
        BY <2>2, <3>1, <1>1, <1>4, <1>5, <1>6 DEF Selling, stock
      <3>4. Restocking(d)'
        BY <2>2, <3>1, <1>0, <1>4 DEF Restocking
      <3>5. QED
        BY <3>2, <3>3, <3>4
    <2>3. QED
      BY <2>1, <2>2
  <1>8. Exclusive'
    BY <1>3 DEF IInv, Exclusive, Idle
  <1>9. SaleMatchesIssues'
    <2> SUFFICES ASSUME NEW j \in Key, NEW i \in Item
                 PROVE  issued'[j][i] = IF sale'[j].state = "paid" /\ i \in sale'[j].goods
                                        THEN sale'[j].cart[i] ELSE 0
      BY DEF SaleMatchesIssues
    <2>1. CASE j # k
      BY <2>1, <1>1, <1>4 DEF IInv, TypeOK, SaleMatchesIssues
    <2>2. CASE j = k
      <3>1. issued[k][i] = 0
        BY <1>0 DEF IInv, SaleMatchesIssues
      <3>2. issued'[k][i] = IF i \in goods THEN cart[i] ELSE 0
        BY <1>0, <1>1, <3>1 DEF IInv, TypeOK
      <3>3. QED
        BY <2>2, <3>2, <1>4
    <2>3. QED
      BY <2>1, <2>2
  <1>10. QED
    BY <1>2, <1>7, <1>8, <1>9 DEF IInv

LEMMA RefundCommits ==
  ASSUME IInv, NEW c \in Call, CommitRefund(c)
  PROVE  IInv'
  <1> DEFINE k == call[c].key
             back == call[c].got
  <1>0. /\ k \in Key /\ back \subseteq Item
        /\ call[c].at = "restocking" /\ sale[k].state = "paid" /\ back = sale[k].goods
        /\ sale[k].cart \in [Item -> Nat]
        /\ \A i \in back : call[c].read[i] = quantity[i]
    <2>1. call[c].at = "restocking" /\ call[c].todo = {}
      BY DEF CommitRefund
    <2>2. Restocking(c) /\ Fresh(c)
      BY DEF IInv, CallsOK
    <2>3. k \in Key /\ sale[k].state = "paid" /\ back = sale[k].goods
      BY <2>1, <2>2 DEF Restocking
    <2>4. back \subseteq Item /\ sale[k].cart \in [Item -> Nat]
      BY <2>3 DEF IInv, TypeOK
    <2>5. QED
      BY <2>1, <2>2, <2>3, <2>4 DEF Fresh
  <1>1. /\ quantity' = [i \in Item |-> IF i \in back THEN quantity[i] + sale[k].cart[i] ELSE quantity[i]]
        /\ issued' = [issued EXCEPT ![k] =
                         [i \in Item |-> IF i \in back THEN issued[k][i] - sale[k].cart[i]
                                         ELSE issued[k][i]]]
        /\ sale' = [sale EXCEPT ![k].state = "refunded"]
        /\ End(c)
        /\ UNCHANGED stock
    BY <1>0 DEF CommitRefund
  <1> HIDE DEF k, back
  <1>2. TypeOK'
    <2>1. quantity' \in [Item -> Nat]
      BY <1>0, <1>1 DEF IInv, TypeOK
    <2>2. sale' \in [Key -> [state : {"none", "paid", "refunded"}, cart : [Item -> Nat], goods : SUBSET Item]]
      <3> DEFINE R == [state : {"none", "paid", "refunded"}, cart : [Item -> Nat], goods : SUBSET Item]
      <3>1. sale \in [Key -> R] /\ sale[k] \in R
        BY <1>0 DEF IInv, TypeOK
      <3>2. [sale[k] EXCEPT !.state = "refunded"] \in R
        BY <3>1
      <3>3. sale' = [sale EXCEPT ![k] = [sale[k] EXCEPT !.state = "refunded"]]
        BY <1>1
      <3>4. QED
        BY ONLY <3>1, <3>2, <3>3, <1>0
    <2>3. issued' \in [Key -> [Item -> Nat]]
      <3>1. \A i \in back : issued[k][i] = sale[k].cart[i]
        BY <1>0 DEF IInv, SaleMatchesIssues
      <3>2. QED
        BY <1>0, <1>1, <3>1 DEF IInv, TypeOK
    <2>4. call' \in [Call -> CallRecord]
      BY <1>1, IdleIsCall DEF IInv, TypeOK, End, CallRecord
    <2>5. QED
      BY <1>1, <2>1, <2>2, <2>3, <2>4 DEF IInv, TypeOK, CallRecord, stock
  <1>3. call'[c] = Idle /\ \A d \in Call \ {c} : call'[d] = call[d]
    BY <1>1 DEF IInv, TypeOK, End
  <1>4. /\ \A j \in Key \ {k} : sale'[j] = sale[j]
        /\ sale'[k].state = "refunded"
    BY <1>0, <1>1 DEF IInv, TypeOK
  <1>5. \A d \in Call \ {c} : \A i \in call[d].got : quantity'[i] = quantity[i]
    BY <1>0, <1>1 DEF IInv, TypeOK, Exclusive, back
  <1>6. \A d \in Call \ {c} : call[d].at = "restocking" => call[d].key # k
    BY <1>0 DEF IInv, Exclusive, k
  <1>7. CallsOK'
    <2> SUFFICES ASSUME NEW d \in Call
                 PROVE  (Waiting(d) /\ Ordered(d) /\ Fresh(d) /\ Selling(d) /\ Restocking(d))'
      BY DEF CallsOK
    <2>1. CASE d = c
      BY <2>1, <1>3 DEF Waiting, Ordered, Fresh, Selling, Restocking, Idle
    <2>2. CASE d # c
      <3>1. /\ Waiting(d) /\ Ordered(d) /\ Fresh(d) /\ Selling(d) /\ Restocking(d)
            /\ call'[d] = call[d]
        BY <2>2, <1>3 DEF IInv, CallsOK
      <3>2. (Waiting(d) /\ Ordered(d) /\ Fresh(d))'
        BY <2>2, <3>1, <1>5 DEF Waiting, Ordered, Fresh
      <3>3. Selling(d)'
        BY <2>2, <3>1, <1>0, <1>1, <1>4, <1>5 DEF Selling, stock
      <3>4. Restocking(d)'
        BY <2>2, <3>1, <1>4, <1>6 DEF Restocking
      <3>5. QED
        BY <3>2, <3>3, <3>4
    <2>3. QED
      BY <2>1, <2>2
  <1>8. Exclusive'
    BY <1>3 DEF IInv, Exclusive, Idle
  <1>9. SaleMatchesIssues'
    <2> SUFFICES ASSUME NEW j \in Key, NEW i \in Item
                 PROVE  issued'[j][i] = IF sale'[j].state = "paid" /\ i \in sale'[j].goods
                                        THEN sale'[j].cart[i] ELSE 0
      BY DEF SaleMatchesIssues
    <2>1. CASE j # k
      BY <2>1, <1>1, <1>4 DEF IInv, TypeOK, SaleMatchesIssues
    <2>2. CASE j = k
      <3>1. issued[k][i] = IF i \in back THEN sale[k].cart[i] ELSE 0
        BY <1>0 DEF IInv, SaleMatchesIssues
      <3>2. issued'[k][i] = 0
        BY <1>0, <1>1, <3>1 DEF IInv, TypeOK
      <3>3. QED
        BY <2>2, <3>2, <1>4
    <2>3. QED
      BY <2>1, <2>2
  <1>10. QED
    BY <1>2, <1>7, <1>8, <1>9 DEF IInv

(* A terminal moves on to its next stage, holding no item yet. *)
LEMMA StageKeeps ==
  ASSUME IInv, NEW c \in Call, NEW r \in CallRecord,
         call' = [call EXCEPT ![c] = r],
         UNCHANGED <<quantity, stock, sale, issued>>,
         r.got = {}, r.at \in {"key", "sale"} => r.todo = {}, r.at # "idle",
         r.key \in Key, r.at \in {"key", "selling"} => r.cart \in Cart,
         r.at = "selling" => sale[r.key].state = "none" /\ \A d \in Call : ~HoldsKey(d, r.key),
         r.at = "sale" => sale[r.key].state # "none",
         r.at = "restocking" => /\ sale[r.key].state = "paid" /\ r.todo = sale[r.key].goods
                                /\ \A d \in Call : ~HoldsSale(d, r.key)
  PROVE  IInv'
  <1>1. call'[c] = r /\ \A d \in Call \ {c} : call'[d] = call[d]
    BY DEF IInv, TypeOK
  <1>2. TypeOK'
    <2>1. call \in [Call -> CallRecord]
      BY DEF IInv, TypeOK, CallRecord
    <2>2. call' \in [Call -> CallRecord]
      BY <2>1
    <2>3. QED
      BY <2>2 DEF IInv, TypeOK, stock, CallRecord
  <1>3. CallsOK'
    <2> SUFFICES ASSUME NEW d \in Call
                 PROVE  (Waiting(d) /\ Ordered(d) /\ Fresh(d) /\ Selling(d) /\ Restocking(d))'
      BY DEF CallsOK
    <2>1. CASE d = c
      <3>1. (Waiting(c) /\ Ordered(c) /\ Fresh(c))'
        <4>1. r.at \in Stage \ {"idle"}
          BY DEF CallRecord
        <4>2. QED
          BY <4>1, <1>1 DEF Waiting, Ordered, Fresh, Stage
      <3>2. (Selling(c) /\ Restocking(c))'
        BY <1>1 DEF Selling, Restocking
      <3>3. QED
        BY <2>1, <3>1, <3>2
    <2>2. CASE d # c
      <3>1. /\ Waiting(d) /\ Ordered(d) /\ Fresh(d) /\ Selling(d) /\ Restocking(d)
            /\ call'[d] = call[d]
        BY <2>2, <1>1 DEF IInv, CallsOK
      <3>2. (Waiting(d) /\ Ordered(d) /\ Fresh(d))'
        BY <3>1 DEF Waiting, Ordered, Fresh
      <3>3. (Selling(d) /\ Restocking(d))'
        BY <3>1 DEF Selling, Restocking, stock
      <3>4. QED
        BY <3>2, <3>3
    <2>3. QED
      BY <2>1, <2>2
  <1>4. Exclusive'
    BY <1>1 DEF IInv, Exclusive, HoldsKey, HoldsSale
  <1>5. SaleMatchesIssues'
    BY DEF IInv, SaleMatchesIssues
  <1>6. QED
    BY <1>2, <1>3, <1>4, <1>5 DEF IInv

(* Staff change rows that no transaction holds. *)
LEMMA StaffKeep ==
  ASSUME IInv, NEW i \in Item, Unlocked(i), TypeOK', UNCHANGED <<sale, issued, call>>,
         \A j \in Item \ {i} : quantity'[j] = quantity[j] /\ kind'[j] = kind[j]
  PROVE  IInv'
  <1>1. CallsOK'
    <2> SUFFICES ASSUME NEW d \in Call
                 PROVE  (Waiting(d) /\ Ordered(d) /\ Fresh(d) /\ Selling(d) /\ Restocking(d))'
      BY DEF CallsOK
    <2>1. /\ Waiting(d) /\ Ordered(d) /\ Fresh(d) /\ Selling(d) /\ Restocking(d)
          /\ call'[d] = call[d] /\ call[d].got \subseteq Item /\ i \notin call[d].got
      BY DEF IInv, CallsOK, TypeOK, Unlocked, HoldsItem
    <2>2. (Waiting(d) /\ Ordered(d) /\ Fresh(d))'
      BY <2>1 DEF Waiting, Ordered, Fresh
    <2>3. (Selling(d) /\ Restocking(d))'
      BY <2>1 DEF Selling, Restocking
    <2>4. QED
      BY <2>2, <2>3
  <1>2. Exclusive' /\ SaleMatchesIssues'
    BY DEF IInv, Exclusive, SaleMatchesIssues
  <1>3. QED
    BY <1>1, <1>2 DEF IInv

LEMMA NextInvariant == IInv /\ [Next]_vars => IInv'
  <1> SUFFICES ASSUME IInv, [Next]_vars PROVE IInv'
    OBVIOUS
  <1>1. ASSUME NEW c \in Call, NEW k \in Key, NEW cart \in Cart, BeginCheckout(c, k, cart)
        PROVE  IInv'
    <2> DEFINE r == [Idle EXCEPT !.at = "key", !.key = k, !.cart = cart]
    <2>1. cart \in [Item -> Nat]
      BY CounterAssumption
    <2>2. r \in CallRecord /\ r.at = "key" /\ r.key = k /\ r.cart = cart /\ r.todo = {} /\ r.got = {}
      BY <2>1, IdleIsCall DEF CallRecord, Idle, Stage
    <2>3. call' = [call EXCEPT ![c] = r] /\ UNCHANGED <<quantity, stock, sale, issued>>
      BY <1>1 DEF BeginCheckout
    <2> HIDE DEF r
    <2>4. QED
      BY <2>2, <2>3, StageKeeps
  <1>2. ASSUME NEW c \in Call, LockKey(c) PROVE IInv'
    <2>1. CASE AlreadySold(call[c].key)
      BY <1>2, <2>1, EndKeeps DEF LockKey
    <2>2. CASE ~AlreadySold(call[c].key)
      <3> DEFINE r == [call[c] EXCEPT !.at = "selling", !.todo = {i \in Item : call[c].cart[i] > 0}]
      <3>1. /\ call[c] \in CallRecord /\ call[c].got = {} /\ call[c].key \in Key
            /\ call[c].cart \in Cart /\ call[c].at = "key"
        BY <1>2 DEF LockKey, IInv, TypeOK, CallsOK, Waiting, Selling, CallRecord
      <3>2. /\ r \in CallRecord /\ r.at = "selling" /\ r.key = call[c].key /\ r.cart = call[c].cart
            /\ r.got = {}
        BY <3>1 DEF CallRecord, Stage
      <3>3. call' = [call EXCEPT ![c] = r] /\ UNCHANGED <<quantity, stock, sale, issued>>
        BY <1>2, <2>2 DEF LockKey, IInv, TypeOK
      <3>4. sale[r.key].state = "none" /\ \A d \in Call : ~HoldsKey(d, r.key)
        BY <1>2, <2>2, <3>2 DEF LockKey, AlreadySold
      <3> HIDE DEF r
      <3>5. QED
        BY <3>1, <3>2, <3>3, <3>4, StageKeeps
    <2>3. QED
      BY <2>1, <2>2
  <1>3. ASSUME NEW c \in Call, NEW k \in Key, BeginRefund(c, k) PROVE IInv'
    <2> DEFINE r == [Idle EXCEPT !.at = "sale", !.key = k]
    <2>1. r \in CallRecord /\ r.at = "sale" /\ r.key = k /\ r.todo = {} /\ r.got = {}
      BY IdleIsCall DEF CallRecord, Idle, Stage
    <2>2. /\ call' = [call EXCEPT ![c] = r] /\ UNCHANGED <<quantity, stock, sale, issued>>
          /\ sale[k].state # "none"
      BY <1>3 DEF BeginRefund
    <2> HIDE DEF r
    <2>3. QED
      BY <2>1, <2>2, StageKeeps
  <1>4. ASSUME NEW c \in Call, LockSale(c) PROVE IInv'
    <2>1. CASE AlreadyRefunded(call[c].key)
      BY <1>4, <2>1, EndKeeps DEF LockSale
    <2>2. CASE ~AlreadyRefunded(call[c].key)
      <3> DEFINE r == [call[c] EXCEPT !.at = "restocking", !.todo = Returned(call[c].key)]
      <3>1. /\ call[c] \in CallRecord /\ call[c].got = {} /\ call[c].key \in Key
            /\ sale[call[c].key].state # "none" /\ call[c].at = "sale"
        BY <1>4 DEF LockSale, IInv, TypeOK, CallsOK, Waiting, Restocking, CallRecord
      <3>2. /\ sale[call[c].key].goods \in SUBSET Item
            /\ sale[call[c].key].state \in {"none", "paid", "refunded"}
        BY <3>1 DEF IInv, TypeOK
      <3>3. /\ r \in CallRecord /\ r.at = "restocking" /\ r.key = call[c].key /\ r.got = {}
            /\ r.todo = sale[call[c].key].goods
        BY <3>1, <3>2 DEF CallRecord, Stage, Returned
      <3>4. call' = [call EXCEPT ![c] = r] /\ UNCHANGED <<quantity, stock, sale, issued>>
        BY <1>4, <2>2 DEF LockSale, IInv, TypeOK
      <3>5. sale[r.key].state = "paid" /\ \A d \in Call : ~HoldsSale(d, r.key)
        BY <1>4, <2>2, <3>1, <3>2, <3>3 DEF LockSale, AlreadyRefunded
      <3> HIDE DEF r
      <3>6. QED
        BY <3>1, <3>3, <3>4, <3>5, StageKeeps
    <2>3. QED
      BY <2>1, <2>2
  <1>5. ASSUME NEW c \in Call, NEW i \in Item, LockToSell(c, i) PROVE IInv'
    <2>1. CASE i \notin archived /\ Suffices(c, i)
      BY <1>5, <2>1, TakeKeeps DEF LockToSell
    <2>2. CASE ~(i \notin archived /\ Suffices(c, i))
      BY <1>5, <2>2, EndKeeps DEF LockToSell
    <2>3. QED
      BY <2>1, <2>2
  <1>6. ASSUME NEW c \in Call, NEW i \in Item, LockToRestock(c, i) PROVE IInv'
    BY <1>6, TakeKeeps DEF LockToRestock
  <1>7. ASSUME NEW c \in Call, CommitSale(c) PROVE IInv'
    BY <1>7, SaleCommits
  <1>8. ASSUME NEW c \in Call, CommitRefund(c) PROVE IInv'
    BY <1>8, RefundCommits
  <1>9. ASSUME NEW c \in Call, Fail(c) PROVE IInv'
    BY <1>9, EndKeeps DEF Fail
  <1>10. ASSUME NEW i \in Item, NEW q \in Count, SetQuantity(i, q) PROVE IInv'
    <2>1. q \in Nat
      BY CounterAssumption
    <2>2. TypeOK'
      BY <1>10, <2>1 DEF SetQuantity, IInv, TypeOK
    <2>3. QED
      BY <1>10, <2>2, StaffKeep DEF SetQuantity, IInv, TypeOK
  <1>11. ASSUME NEW i \in Item, NEW q \in Count, IssueStock(i, q) PROVE IInv'
    <2>1. q \in Nat
      BY CounterAssumption
    <2>2. TypeOK'
      BY <1>11, <2>1 DEF IssueStock, IInv, TypeOK
    <2>3. QED
      BY <1>11, <2>2, StaffKeep DEF IssueStock, IInv, TypeOK
  <1>12. ASSUME NEW i \in Item, NEW s \in {"product", "service"}, SetKind(i, s) PROVE IInv'
    <2>1. TypeOK'
      BY <1>12 DEF SetKind, IInv, TypeOK
    <2>2. QED
      BY <1>12, <2>1, StaffKeep DEF SetKind, IInv, TypeOK
  <1>13. ASSUME NEW i \in Item, RemoveStock(i) PROVE IInv'
    <2>1. TypeOK'
      BY <1>13 DEF RemoveStock, IInv, TypeOK
    <2>2. QED
      BY <1>13, <2>1, StaffKeep DEF RemoveStock
  <1>14. CASE UNCHANGED vars
    BY <1>14 DEF IInv, TypeOK, CallsOK, Waiting, Ordered, Fresh, Selling, Restocking, Exclusive,
                 SaleMatchesIssues, vars, stock
  <1>15. QED
    BY <1>1, <1>2, <1>3, <1>4, <1>5, <1>6, <1>7, <1>8, <1>9, <1>10, <1>11, <1>12, <1>13, <1>14 DEF Next

(* The inductive invariant holds of every behaviour. *)
THEOREM InvariantHolds == Spec => []IInv
  BY InitInvariant, NextInvariant, PTL DEF Spec

(* Types: no quantity, read or written, is ever negative. *)
THEOREM TypeCorrect == Spec => []TypeOK
  <1>1. IInv => TypeOK
    BY DEF IInv
  <1>2. QED
    BY <1>1, InvariantHolds, PTL

(* Retries and repeated refunds: a key issues its products once and gives   *)
(* them back once.                                                         *)
THEOREM SalesIssueOnce == Spec => []SaleMatchesIssues
  <1>1. IInv => SaleMatchesIssues
    BY DEF IInv
  <1>2. QED
    BY <1>1, InvariantHolds, PTL

----------------------------------------------------------------------------
(* The stock account. *)

IssuedOf(i) == SumOver([k \in Key |-> issued[k][i]], Key)

(* Only the rows of one key move: the sum moves by as much. *)
LEMMA OneKeyMoves ==
  ASSUME IInv, IInv', NEW k \in Key, \A j \in Key \ {k} : issued'[j] = issued[j], NEW i \in Item
  PROVE  /\ IssuedOf(i) \in Nat /\ issued[k][i] \in Nat /\ issued'[k][i] \in Nat
         /\ IssuedOf(i)' = IssuedOf(i) + (issued'[k][i] - issued[k][i])
  <1> DEFINE f == [j \in Key |-> issued[j][i]]
             g == [j \in Key |-> issued'[j][i]]
  <1>1. IsFiniteSet(Key)
    BY CounterAssumption
  <1>2. \A j \in Key : f[j] \in Nat /\ g[j] \in Nat
    BY DEF IInv, TypeOK
  <1>3. \A j \in Key \ {k} : g[j] = f[j]
    OBVIOUS
  <1>4. f[k] = issued[k][i] /\ g[k] = issued'[k][i] /\ IssuedOf(i) = SumOver(f, Key)
        /\ IssuedOf(i)' = SumOver(g, Key)
    BY DEF IssuedOf
  <1> HIDE DEF f, g
  <1>5. SumOver(g, Key) = SumOver(f, Key) + (g[k] - f[k])
    BY <1>1, <1>2, <1>3, SumChange
  <1>6. SumOver(f, Key) \in Nat
    BY <1>1, <1>2, SumType
  <1>7. QED
    BY <1>2, <1>4, <1>5, <1>6

LEMMA SaleBalances ==
  ASSUME IInv, IInv', StockConserved, NEW c \in Call, CommitSale(c)
  PROVE  StockConserved'
  <1> DEFINE k == call[c].key
             cart == call[c].cart
             goods == {i \in call[c].got : kind[i] = "product"}
  <1>1. /\ k \in Key /\ cart \in [Item -> Nat] /\ goods \subseteq Item /\ sale[k].state = "none"
        /\ \A i \in goods : call[c].read[i] = quantity[i]
    BY DEF IInv, TypeOK, CallsOK, Selling, Fresh, CommitSale
  <1>2. /\ \A i \in Item : quantity'[i] = IF i \in goods THEN quantity[i] - cart[i] ELSE quantity[i]
        /\ \A i \in Item : issued'[k][i] = IF i \in goods THEN issued[k][i] + cart[i] ELSE issued[k][i]
        /\ \A j \in Key \ {k} : issued'[j] = issued[j]
        /\ supplied' = supplied
    BY <1>1 DEF CommitSale, stock, IInv, TypeOK
  <1> HIDE DEF k, cart, goods
  <1>3. ASSUME NEW i \in Item PROVE quantity'[i] + IssuedOf(i)' = supplied'[i]
    <2>1. /\ IssuedOf(i) \in Nat /\ issued[k][i] \in Nat
          /\ IssuedOf(i)' = IssuedOf(i) + (issued'[k][i] - issued[k][i])
      BY <1>1, <1>2, OneKeyMoves
    <2>2. quantity[i] + IssuedOf(i) = supplied[i]
      BY DEF StockConserved, IssuedOf
    <2>3. quantity[i] \in Nat /\ cart[i] \in Nat
      BY <1>1 DEF IInv, TypeOK
    <2>4. QED
      BY <1>2, <2>1, <2>2, <2>3
  <1>4. QED
    BY <1>3 DEF StockConserved, IssuedOf

LEMMA RefundBalances ==
  ASSUME IInv, IInv', StockConserved, NEW c \in Call, CommitRefund(c)
  PROVE  StockConserved'
  <1> DEFINE k == call[c].key
             back == call[c].got
             cart == sale[k].cart
  <1>1. /\ k \in Key /\ back \subseteq Item /\ back = sale[k].goods /\ cart \in [Item -> Nat]
        /\ \A i \in back : call[c].read[i] = quantity[i]
    <2>1. call[c].at = "restocking" /\ call[c].todo = {}
      BY DEF CommitRefund
    <2>2. Restocking(c) /\ Fresh(c)
      BY DEF IInv, CallsOK
    <2>3. k \in Key /\ back = sale[k].goods
      BY <2>1, <2>2 DEF Restocking
    <2>4. back \subseteq Item /\ cart \in [Item -> Nat]
      BY <2>3 DEF IInv, TypeOK
    <2>5. QED
      BY <2>2, <2>3, <2>4 DEF Fresh
  <1>2. /\ \A i \in Item : quantity'[i] = IF i \in back THEN quantity[i] + cart[i] ELSE quantity[i]
        /\ \A i \in Item : issued'[k][i] = IF i \in back THEN issued[k][i] - cart[i] ELSE issued[k][i]
        /\ \A j \in Key \ {k} : issued'[j] = issued[j]
        /\ supplied' = supplied
    BY <1>1 DEF CommitRefund, stock, IInv, TypeOK
  <1> HIDE DEF k, back, cart
  <1>3. ASSUME NEW i \in Item PROVE quantity'[i] + IssuedOf(i)' = supplied'[i]
    <2>1. /\ IssuedOf(i) \in Nat /\ issued[k][i] \in Nat
          /\ IssuedOf(i)' = IssuedOf(i) + (issued'[k][i] - issued[k][i])
      BY <1>1, <1>2, OneKeyMoves
    <2>2. quantity[i] + IssuedOf(i) = supplied[i]
      BY DEF StockConserved, IssuedOf
    <2>3. quantity[i] \in Nat /\ cart[i] \in Nat
      BY <1>1 DEF IInv, TypeOK
    <2>4. QED
      BY <1>2, <2>1, <2>2, <2>3
  <1>4. QED
    BY <1>3 DEF StockConserved, IssuedOf

(* A step that issues nothing moves the shelf and the supply together. *)
LEMMA StaffBalance ==
  ASSUME IInv, StockConserved, UNCHANGED issued,
         \A i \in Item : quantity'[i] - quantity[i] = supplied'[i] - supplied[i],
         quantity' \in [Item -> Nat], supplied' \in [Item -> Int]
  PROVE  StockConserved'
  <1>1. ASSUME NEW i \in Item PROVE quantity'[i] + IssuedOf(i)' = supplied'[i]
    <2>1. IssuedOf(i)' = IssuedOf(i)
      BY DEF IssuedOf
    <2>2. IssuedOf(i) \in Nat
      BY CounterAssumption, SumType DEF IssuedOf, IInv, TypeOK
    <2>3. quantity[i] + IssuedOf(i) = supplied[i]
      BY DEF StockConserved, IssuedOf
    <2>4. /\ quantity[i] \in Nat /\ supplied[i] \in Int /\ quantity'[i] \in Nat /\ supplied'[i] \in Int
          /\ quantity'[i] - quantity[i] = supplied'[i] - supplied[i]
      BY DEF IInv, TypeOK
    <2>5. QED
      BY <2>1, <2>2, <2>3, <2>4
  <1>2. QED
    BY <1>1 DEF StockConserved, IssuedOf

LEMMA StepBalances ==
  ASSUME IInv, IInv', StockConserved, [Next]_vars
  PROVE  StockConserved'
  <1>1. /\ quantity \in [Item -> Nat] /\ supplied \in [Item -> Int]
        /\ quantity' \in [Item -> Nat] /\ supplied' \in [Item -> Int]
    BY DEF IInv, TypeOK
  <1>2. CASE UNCHANGED <<quantity, supplied, issued>>
    BY <1>1, <1>2, StaffBalance
  <1>3. ASSUME NEW c \in Call, CommitSale(c) PROVE StockConserved'
    BY <1>3, SaleBalances
  <1>4. ASSUME NEW c \in Call, CommitRefund(c) PROVE StockConserved'
    BY <1>4, RefundBalances
  <1>5. ASSUME NEW i \in Item, NEW q \in Count, SetQuantity(i, q) PROVE StockConserved'
    <2>1. q \in Nat
      BY CounterAssumption
    <2>2. \A j \in Item : quantity'[j] - quantity[j] = supplied'[j] - supplied[j]
      BY <1>1, <1>5, <2>1 DEF SetQuantity
    <2>3. QED
      BY <1>1, <1>5, <2>2, StaffBalance DEF SetQuantity
  <1>6. ASSUME NEW i \in Item, NEW q \in Count, IssueStock(i, q) PROVE StockConserved'
    <2>1. q \in Nat
      BY CounterAssumption
    <2>2. \A j \in Item : quantity'[j] - quantity[j] = supplied'[j] - supplied[j]
      BY <1>1, <1>6, <2>1 DEF IssueStock
    <2>3. QED
      BY <1>1, <1>6, <2>2, StaffBalance DEF IssueStock
  <1>7. QED
    BY <1>2, <1>3, <1>4, <1>5, <1>6
    DEF Next, BeginCheckout, LockKey, BeginRefund, LockSale, LockToSell, LockToRestock, Fail,
        SetKind, RemoveStock, vars, stock

(* Nothing is lost on the shelf: what is on hand and what the issue rows of *)
(* the sales carry add up to what staff supplied, for any number of keys,   *)
(* terminals and items.                                                    *)
THEOREM StockBalances == Spec => []StockConserved
  <1>1. Init => StockConserved
    <2> SUFFICES ASSUME Init, NEW i \in Item PROVE quantity[i] + IssuedOf(i) = supplied[i]
      BY DEF StockConserved, IssuedOf
    <2>1. \A k \in Key : issued[k][i] = 0
      BY DEF Init, NoCart
    <2>2. Units([k \in Key |-> issued[k][i]], Key) = {}
      BY <2>1 DEF Units
    <2>3. IssuedOf(i) = 0
      BY <2>2, FS_EmptySet DEF IssuedOf, SumOver
    <2>4. quantity[i] \in Nat /\ supplied[i] = quantity[i]
      BY InitInvariant DEF Init, IInv, TypeOK
    <2>5. QED
      BY <2>3, <2>4
  <1>2. IInv /\ IInv' /\ StockConserved /\ [Next]_vars => StockConserved'
    BY StepBalances
  <1>3. QED
    BY <1>1, <1>2, InvariantHolds, PTL DEF Spec

----------------------------------------------------------------------------
(* Deadlock freedom. *)

LEMMA Greatest ==
  ASSUME NEW n \in Nat, NEW W \in SUBSET (1 .. n), W # {}
  PROVE  \E i \in W : \A j \in W : j <= i
  <1> DEFINE R == OpToRel(<, Nat)
             T == {m \in Nat : n - m \in W}
  <1>1. T \subseteq Nat /\ T # {}
    <2>1. PICK i \in W : TRUE
      OBVIOUS
    <2>2. n - i \in Nat /\ n - (n - i) = i
      OBVIOUS
    <2>3. QED
      BY <2>1, <2>2
  <1>2. IsWellFoundedOn(R, Nat)
    BY NatLessThanWellFounded
  <1> HIDE DEF T
  <1>3. PICK m \in T : \A k \in T : ~(<<k, m>> \in R)
    BY <1>1, <1>2, WFMin, Zenon
  <1>4. \A k \in T : ~(k < m)
    BY <1>1, <1>3 DEF OpToRel
  <1>5. n - m \in W /\ m \in Nat
    BY DEF T
  <1>6. ASSUME NEW j \in W PROVE j <= n - m
    <2>1. n - j \in Nat /\ n - (n - j) = j
      OBVIOUS
    <2>2. n - j \in T
      BY <2>1 DEF T
    <2>3. ~(n - j < m)
      BY <2>2, <1>4
    <2>4. QED
      BY <2>1, <2>3, <1>5
  <1>7. QED
    BY <1>5, <1>6

LEMMA NoCycle == IInv => NoWaitCycle
  <1> SUFFICES ASSUME IInv, NEW S \in (SUBSET Call) \ {{}},
                      \A c \in S : \E d \in S : Waits(c, d)
               PROVE  FALSE
    BY DEF NoWaitCycle
  <1> DEFINE W == {i \in Item : \E c \in S : InOrder(c, i)}
  (* Whoever holds something waits for an item. *)
  <1>1. ASSUME NEW d \in S, call[d].at \in {"selling", "restocking"}
        PROVE  \E j \in Item : InOrder(d, j) /\ \E e \in S : HoldsItem(e, j)
    BY <1>1 DEF Waits
  <1>2. ASSUME NEW d \in S, NEW i \in Item, HoldsItem(d, i)
        PROVE  \E j \in W : i < j
    <2>1. Waiting(d) /\ Ordered(d) /\ call[d].at \in Stage
      BY DEF IInv, CallsOK, TypeOK
    <2>2. call[d].at \in {"selling", "restocking"}
      BY <2>1, <1>2 DEF Waiting, Stage, HoldsItem
    <2>3. PICK j \in Item : InOrder(d, j)
      BY <1>1, <2>2
    <2>4. i < j
      BY <2>1, <2>3, <1>2 DEF Ordered, InOrder, HoldsItem
    <2>5. QED
      BY <2>3, <2>4
  <1>3. ASSUME NEW i \in W PROVE \E j \in W : i < j
    <2>1. PICK c \in S : InOrder(c, i)
      OBVIOUS
    <2>2. Waiting(c) /\ call[c].at \in Stage
      BY DEF IInv, CallsOK, TypeOK
    <2>3. call[c].at \in {"selling", "restocking"}
      BY <2>1, <2>2 DEF Waiting, InOrder, Stage
    <2>4. PICK j \in Item, e \in S : InOrder(c, j) /\ HoldsItem(e, j)
      BY <1>1, <2>3
    <2>5. j = i
      BY <2>1, <2>4, CounterAssumption DEF InOrder, Item
    <2>6. QED
      BY <2>4, <2>5, <1>2
  <1>4. W # {}
    <2>1. \E c \in S : \E d \in S : Waits(c, d)
      OBVIOUS
    <2>2. PICK c \in S, d \in S : Waits(c, d)
      BY <2>1
    <2>3. CASE call[d].at \in {"selling", "restocking"}
      BY <2>3, <1>1
    <2>4. CASE \E i \in Item : InOrder(c, i)
      BY <2>4
    <2>5. QED
      BY <2>2, <2>3, <2>4 DEF Waits, HoldsKey, HoldsSale
  <1>5. W \in SUBSET (1 .. Items) /\ Items \in Nat
    BY CounterAssumption DEF Item
  <1> HIDE DEF W
  <1>6. PICK i \in W : \A j \in W : j <= i
    BY <1>4, <1>5, Greatest
  <1>7. PICK j \in W : i < j
    BY <1>3
  <1>8. QED
    BY <1>5, <1>6, <1>7

(* Checkouts and refunds never wait for each other in a circle, whatever    *)
(* items their carts hold and however many terminals there are.            *)
THEOREM DeadlockFree == Spec => []NoWaitCycle
  BY NoCycle, InvariantHolds, PTL

----------------------------------------------------------------------------
(* The counter implements the shop. *)

LEMMA InitMaps == Init => Serial!Init
  <1> SUFFICES ASSUME Init PROVE Serial!Init
    OBVIOUS
  <1>1. TypeOK
    BY InitInvariant DEF IInv
  <1>2. QED
    BY <1>1 DEF Init, TypeOK, Serial!Init, Serial!NoSale, Serial!NoCart, NoSale, NoCart

LEMMA NextMaps == IInv /\ [Next]_vars => [Serial!Next]_<<quantity, sale>>
  <1> SUFFICES ASSUME IInv, [Next]_vars PROVE Serial!Next \/ UNCHANGED <<quantity, sale>>
    OBVIOUS
  <1>1. ASSUME NEW c \in Call, CommitSale(c) PROVE Serial!Next
    <2> DEFINE k == call[c].key
               cart == call[c].cart
               goods == {i \in call[c].got : kind[i] = "product"}
    <2>1. /\ k \in Key /\ cart \in Cart /\ goods \in SUBSET Item /\ sale[k].state = "none"
          /\ \A i \in goods : call[c].read[i] = quantity[i] /\ cart[i] <= quantity[i]
      BY <1>1 DEF IInv, TypeOK, CallsOK, Selling, Fresh, CommitSale
    <2>2. Serial!Sell(k, cart, goods)
      BY <1>1, <2>1 DEF CommitSale, Serial!Sell
    <2> HIDE DEF k, cart, goods
    <2>3. QED
      BY <2>1, <2>2 DEF Serial!Next
  <1>2. ASSUME NEW c \in Call, CommitRefund(c) PROVE Serial!Next
    <2> DEFINE k == call[c].key
    <2>1. /\ k \in Key /\ sale[k].state = "paid" /\ call[c].got = sale[k].goods
          /\ \A i \in sale[k].goods : call[c].read[i] = quantity[i]
      <3>1. call[c].at = "restocking" /\ call[c].todo = {}
        BY <1>2 DEF CommitRefund
      <3>2. Restocking(c) /\ Fresh(c)
        BY DEF IInv, CallsOK
      <3>3. QED
        BY <3>1, <3>2 DEF Restocking, Fresh
    <2>2. Serial!Refund(k)
      BY <1>2, <2>1 DEF CommitRefund, Serial!Refund
    <2> HIDE DEF k
    <2>3. QED
      BY <2>1, <2>2 DEF Serial!Next
  <1>3. ASSUME NEW i \in Item, NEW q \in Count, SetQuantity(i, q) \/ IssueStock(i, q)
        PROVE  Serial!Next
    <2>1. TypeOK'
      BY <1>3, NextInvariant DEF IInv, Next
    <2>2. PICK n : quantity' = [quantity EXCEPT ![i] = n]
      BY <1>3 DEF SetQuantity, IssueStock
    <2>3. quantity'[i] = n /\ n \in Nat /\ UNCHANGED sale
      BY <1>3, <2>1, <2>2 DEF SetQuantity, IssueStock, IInv, TypeOK
    <2>4. Serial!Adjust(i)
      BY <2>2, <2>3 DEF Serial!Adjust
    <2>5. QED
      BY <2>4 DEF Serial!Next
  <1>4. QED
    BY <1>1, <1>2, <1>3
    DEF Next, BeginCheckout, LockKey, BeginRefund, LockSale, LockToSell, LockToRestock, Fail,
        SetKind, RemoveStock, vars

(* Seen from stock and sales, every checkout and refund is one atomic step, *)
(* whatever locks, retries and failures lie behind it.                     *)
THEOREM Refinement == Spec => ImplementsShop
  BY InvariantHolds, InitMaps, NextMaps, PTL DEF Spec, ImplementsShop, Serial!Spec
=============================================================================
