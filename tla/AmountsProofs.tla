--------------------------- MODULE AmountsProofs ---------------------------
(***************************************************************************)
(* SumOver is the sum: it is zero over no rows, one row more adds its       *)
(* amount, and a change of one row changes it by as much.                  *)
(***************************************************************************)
EXTENDS Amounts, FiniteSetTheorems, TLAPS

(* The units of one row. *)
Pile(amount, r) == {r} \X (1 .. amount[r])

(* A row has as many units as its amount says. *)
LEMMA PileSize ==
    ASSUME NEW amount, NEW r, amount[r] \in Nat
    PROVE  IsFiniteSet(Pile(amount, r)) /\ Cardinality(Pile(amount, r)) = amount[r]
<1>1. IsFiniteSet(1 .. amount[r]) /\ Cardinality(1 .. amount[r]) = amount[r]
    BY FS_Interval
<1>2. IsFiniteSet({r}) /\ Cardinality({r}) = 1
    BY FS_Singleton
<1>3. /\ IsFiniteSet({r} \X (1 .. amount[r]))
      /\ Cardinality({r} \X (1 .. amount[r])) = 1 * amount[r]
    BY <1>1, <1>2, FS_Product
<1>4. QED  BY <1>3 DEF Pile

(* No rows, nothing. *)
LEMMA SumEmpty == \A amount : Units(amount, {}) = {} /\ SumOver(amount, {}) = 0
BY FS_EmptySet DEF Units, SumOver

(* Rows do not share units. *)
LEMMA UnitsAdd ==
    ASSUME NEW amount, NEW S, NEW r, r \notin S
    PROVE  /\ Units(amount, S \cup {r}) = Units(amount, S) \cup Pile(amount, r)
           /\ Units(amount, S) \cap Pile(amount, r) = {}
BY DEF Units, Pile

(* A sum depends on the amounts of its rows only. *)
LEMMA UnitsSame ==
    ASSUME NEW f, NEW g, NEW S, \A r \in S : f[r] = g[r]
    PROVE  Units(f, S) = Units(g, S) /\ SumOver(f, S) = SumOver(g, S)
BY DEF Units, SumOver

(* Finitely many rows have a sum. *)
LEMMA SumType ==
    ASSUME NEW amount, NEW S, IsFiniteSet(S), \A r \in S : amount[r] \in Nat
    PROVE  IsFiniteSet(Units(amount, S)) /\ SumOver(amount, S) \in Nat
<1> DEFINE piles == {Pile(amount, r) : r \in S}
<1>1. IsFiniteSet(piles)
    <2>1. PICK f : f = [r \in S |-> Pile(amount, r)]
        OBVIOUS
    <2>2. f \in Surjection(S, piles)
        BY <2>1 DEF Surjection
    <2>3. QED  BY <2>2, FS_Surjection
<1>2. \A T \in piles : IsFiniteSet(T)
    BY PileSize
<1>3. IsFiniteSet(UNION piles)
    BY <1>1, <1>2, FS_UNION
<1>4. UNION piles = Units(amount, S)
    BY DEF Units, Pile
<1>5. QED  BY <1>3, <1>4, FS_CardinalityType DEF SumOver

(* One row more. *)
LEMMA SumAdd ==
    ASSUME NEW amount, NEW S, IsFiniteSet(S), NEW r, r \notin S,
           \A x \in S \cup {r} : amount[x] \in Nat
    PROVE  SumOver(amount, S \cup {r}) = SumOver(amount, S) + amount[r]
<1> DEFINE U == Units(amount, S)
           P == Pile(amount, r)
<1>1. /\ IsFiniteSet(U) /\ Cardinality(U) \in Nat
      /\ IsFiniteSet(P) /\ Cardinality(P) = amount[r] /\ amount[r] \in Nat
    BY SumType, PileSize DEF SumOver
<1>2. Units(amount, S \cup {r}) = U \cup P /\ U \cap P = {}
    BY UnitsAdd
<1> HIDE DEF U, P
<1>3. Cardinality(U \cup P) = Cardinality(U) + Cardinality(P) - Cardinality(U \cap P)
    BY <1>1, FS_Union
<1>4. Cardinality(U \cap P) = 0
    BY <1>2, FS_EmptySet
<1>5. Cardinality(U \cup P) = Cardinality(U) + amount[r]
    BY <1>1, <1>3, <1>4
<1>6. QED  BY <1>2, <1>5 DEF SumOver, U

(* One row less. *)
LEMMA SumRemove ==
    ASSUME NEW amount, NEW S, IsFiniteSet(S), NEW r \in S, \A x \in S : amount[x] \in Nat
    PROVE  SumOver(amount, S) = SumOver(amount, S \ {r}) + amount[r]
<1>1. IsFiniteSet(S \ {r}) /\ (S \ {r}) \cup {r} = S
    BY FS_RemoveElement
<1>2. SumOver(amount, (S \ {r}) \cup {r}) = SumOver(amount, S \ {r}) + amount[r]
    BY <1>1, SumAdd
<1>3. QED  BY <1>1, <1>2

(* One row's amount changes. *)
LEMMA SumChange ==
    ASSUME NEW f, NEW g, NEW S, IsFiniteSet(S), NEW r \in S,
           \A x \in S : f[x] \in Nat /\ g[x] \in Nat,
           \A x \in S \ {r} : g[x] = f[x]
    PROVE  SumOver(g, S) = SumOver(f, S) + (g[r] - f[r])
<1>1. SumOver(f, S) = SumOver(f, S \ {r}) + f[r] /\ SumOver(g, S) = SumOver(g, S \ {r}) + g[r]
    BY SumRemove
<1>2. SumOver(g, S \ {r}) = SumOver(f, S \ {r})
    BY UnitsSame
<1>3. SumOver(f, S \ {r}) \in Nat
    BY FS_RemoveElement, SumType
<1>4. f[r] \in Nat /\ g[r] \in Nat
    OBVIOUS
<1>5. QED  BY <1>1, <1>2, <1>3, <1>4

(* Fewer rows do not add up to more. *)
LEMMA SumMonotonic ==
    ASSUME NEW amount, NEW S, IsFiniteSet(S), NEW T \in SUBSET S, \A x \in S : amount[x] \in Nat
    PROVE  SumOver(amount, T) <= SumOver(amount, S)
<1>1. IsFiniteSet(Units(amount, S))
    BY SumType
<1>2. Units(amount, T) \subseteq Units(amount, S)
    BY DEF Units
<1>3. QED  BY <1>1, <1>2, FS_Subset DEF SumOver
=============================================================================
