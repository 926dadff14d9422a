--------------------------- MODULE BookingProofs ---------------------------
(***************************************************************************)
(* Proofs about Booking, for every set of tiers, bookings and pilgrims and *)
(* every price, quota and amount.                                          *)
(***************************************************************************)
EXTENDS Booking, AmountsProofs

(* What the rows of a booking always look like. *)
Rows ==
    /\ \A b \in Booking : active[b] \subseteq pilgrims[b]
    /\ \A b, c \in Booking : b # c => pilgrims[b] \cap pilgrims[c] = {}
    /\ \A b \in Booking : status[b] = "none" => pilgrims[b] = {}
    /\ \A b \in Booking : status[b] # "none" => tierOf[b] \in Tier
    /\ \A b \in openHolds : holdSeats[b] = Cardinality(active[b])

PaymentRows == \A p \in Payment : payment[p].state # "none" => payment[p].booking \in Booking

QuotaKept == \A t \in Tier : seatsHeld[t] + seatsConfirmed[t] <= seatsTotal[t]

(* The inductive invariant. SeatLedger alone is not inductive: that a      *)
(* counter loses the right number when a hold closes needs the hold to     *)
(* carry one seat per active pilgrim, to be open exactly while the booking *)
(* is held, and the pilgrims of two bookings to be different rows.         *)
IInv == TypeOK /\ Rows /\ PaymentRows /\ HoldMatchesStatus /\ SeatLedger /\ QuotaKept

----------------------------------------------------------------------------
(* Counting pilgrims. *)

LEMMA CardinalityOfPilgrims ==
    ASSUME NEW S \in SUBSET Pilgrim
    PROVE  IsFiniteSet(S) /\ Cardinality(S) \in Nat
BY PilgrimAssumption, FS_Subset, FS_CardinalityType

LEMMA CardinalityWithout ==
    ASSUME NEW S \in SUBSET Pilgrim, NEW T \in SUBSET S
    PROVE  /\ Cardinality(S \ T) = Cardinality(S) - Cardinality(T)
           /\ Cardinality(T) <= Cardinality(S)
<1>1. IsFiniteSet(S)  BY CardinalityOfPilgrims
<1>2. S \cap T = T  OBVIOUS
<1>3. QED  BY <1>1, <1>2, FS_Difference, FS_Subset

LEMMA CardinalityWith ==
    ASSUME NEW S \in SUBSET Pilgrim, NEW T \in SUBSET Pilgrim, S \cap T = {}
    PROVE  Cardinality(S \cup T) = Cardinality(S) + Cardinality(T)
<1>1. IsFiniteSet(S) /\ IsFiniteSet(T) /\ Cardinality(S) \in Nat /\ Cardinality(T) \in Nat
    BY CardinalityOfPilgrims
<1>2. Cardinality(S \cap T) = 0  BY FS_EmptySet
<1>3. Cardinality(S \cup T) = Cardinality(S) + Cardinality(T) - Cardinality(S \cap T)
    BY <1>1, FS_Union
<1>4. QED  BY <1>1, <1>2, <1>3
----------------------------------------------------------------------------
(* The seats a booking accounts for, on hold and confirmed. *)

HeldOf(b) == IF b \in openHolds THEN active[b] ELSE {}

ConfirmedOf(b) == IF status[b] \in {"confirmed", "defaulted"} THEN active[b] ELSE {}

(* A step that touches the seats of one booking b, of tier t, and no other. *)
OnlyBooking(b, t) ==
    /\ status[b] = "none" \/ tierOf[b] = t
    /\ tierOf'[b] = t
    /\ openHolds' \subseteq Booking
    /\ active' \in [Booking -> SUBSET Pilgrim]
    /\ Rows' /\ HoldMatchesStatus'
    /\ \A c \in Booking \ {b} :
          /\ active'[c] = active[c] /\ tierOf'[c] = tierOf[c] /\ status'[c] = status[c]
          /\ pilgrims'[c] = pilgrims[c]
          /\ c \in openHolds' <=> c \in openHolds

LEMMA SeatSetsType ==
    ASSUME NEW t \in Tier
    PROVE  HeldPilgrims(t) \in SUBSET Pilgrim /\ ConfirmedPilgrims(t) \in SUBSET Pilgrim
BY DEF HeldPilgrims, ConfirmedPilgrims

(* The pilgrims seated on a tier change by those of the one booking. *)
LEMMA OneBookingSets ==
    ASSUME IInv, NEW b \in Booking, NEW t \in Tier, OnlyBooking(b, t)
    PROVE  /\ \A u \in Tier \ {t} : /\ HeldPilgrims(u)' = HeldPilgrims(u)
                                  /\ ConfirmedPilgrims(u)' = ConfirmedPilgrims(u)
           /\ HeldPilgrims(t)' = (HeldPilgrims(t) \ HeldOf(b)) \cup HeldOf(b)'
           /\ ConfirmedPilgrims(t)' = (ConfirmedPilgrims(t) \ ConfirmedOf(b)) \cup ConfirmedOf(b)'
           /\ HeldOf(b) \subseteq HeldPilgrims(t)
           /\ ConfirmedOf(b) \subseteq ConfirmedPilgrims(t)
           /\ (HeldPilgrims(t) \ HeldOf(b)) \cap HeldOf(b)' = {}
           /\ (ConfirmedPilgrims(t) \ ConfirmedOf(b)) \cap ConfirmedOf(b)' = {}
           /\ HeldOf(b)' \in SUBSET Pilgrim /\ ConfirmedOf(b)' \in SUBSET Pilgrim
<1> USE DEF IInv, TypeOK, HoldMatchesStatus, OnlyBooking, Rows
<1>1. openHolds \subseteq Booking /\ Confirmed \subseteq Booking /\ Confirmed' \subseteq Booking
    BY DEF Confirmed
<1>2. status[b] = "none" => b \notin openHolds /\ b \notin Confirmed
    BY DEF Confirmed
<1>3. \A c \in Booking \ {b} : c \in Confirmed' <=> c \in Confirmed
    BY DEF Confirmed
<1>4. \A c \in Booking \ {b} : active[c] \cap active[b] = {} /\ active[c] \cap active'[b] = {}
    OBVIOUS
<1>5. \A u \in Tier \ {t} : HeldPilgrims(u)' = HeldPilgrims(u)
    BY <1>1, <1>2 DEF HeldPilgrims
<1>6. \A u \in Tier \ {t} : ConfirmedPilgrims(u)' = ConfirmedPilgrims(u)
    BY <1>1, <1>2, <1>3 DEF ConfirmedPilgrims
<1>7. b \in Confirmed <=> status[b] \in {"confirmed", "defaulted"}
    BY DEF Confirmed
<1>8. b \in Confirmed' <=> status'[b] \in {"confirmed", "defaulted"}
    BY DEF Confirmed
<1>9. HeldPilgrims(t)' = (HeldPilgrims(t) \ HeldOf(b)) \cup HeldOf(b)'
    <2>1. ASSUME NEW p \in Pilgrim
          PROVE  p \in HeldPilgrims(t)' <=> p \in (HeldPilgrims(t) \ HeldOf(b)) \cup HeldOf(b)'
        <3>1. p \in HeldOf(b)' => p \in HeldPilgrims(t)'
            BY <1>8 DEF HeldPilgrims, HeldOf
        <3>2. ASSUME p \in HeldPilgrims(t), p \notin HeldOf(b)  PROVE p \in HeldPilgrims(t)'
            <4>1. PICK c \in openHolds : tierOf[c] = t /\ p \in active[c]
                BY <3>2 DEF HeldPilgrims
            <4>2. c # b
                BY <3>2, <4>1, <1>7 DEF HeldOf
            <4>3. c \in openHolds' /\ tierOf'[c] = t /\ p \in active'[c]
                BY <4>1, <4>2, <1>1, <1>3
            <4>4. QED  BY <4>3 DEF HeldPilgrims
        <3>3. ASSUME p \in HeldPilgrims(t)'
              PROVE  p \in (HeldPilgrims(t) \ HeldOf(b)) \cup HeldOf(b)'
            <4>1. PICK c \in openHolds' : tierOf'[c] = t /\ p \in active'[c]
                BY <3>3 DEF HeldPilgrims
            <4>2. CASE c = b
                BY <4>1, <4>2, <1>8 DEF HeldOf
            <4>3. CASE c # b
                <5>1. c \in openHolds /\ tierOf[c] = t /\ p \in active[c] /\ c \in Booking
                    BY <4>1, <4>3, <1>1, <1>3
                <5>2. p \in HeldPilgrims(t)
                    BY <5>1 DEF HeldPilgrims
                <5>3. p \notin HeldOf(b)
                    BY <5>1, <4>3, <1>4 DEF HeldOf
                <5>4. QED  BY <5>2, <5>3
            <4>4. QED  BY <4>2, <4>3
        <3>4. QED  BY <3>1, <3>2, <3>3
    <2>2. HeldPilgrims(t)' \subseteq Pilgrim /\ HeldPilgrims(t) \subseteq Pilgrim /\ HeldOf(b)' \subseteq Pilgrim
        BY DEF HeldPilgrims, HeldOf
    <2>3. QED  BY <2>1, <2>2
<1>10. ConfirmedPilgrims(t)' = (ConfirmedPilgrims(t) \ ConfirmedOf(b)) \cup ConfirmedOf(b)'
    <2>1. ASSUME NEW p \in Pilgrim
          PROVE  p \in ConfirmedPilgrims(t)' <=> p \in (ConfirmedPilgrims(t) \ ConfirmedOf(b)) \cup ConfirmedOf(b)'
        <3>1. p \in ConfirmedOf(b)' => p \in ConfirmedPilgrims(t)'
            BY <1>8 DEF ConfirmedPilgrims, ConfirmedOf
        <3>2. ASSUME p \in ConfirmedPilgrims(t), p \notin ConfirmedOf(b)  PROVE p \in ConfirmedPilgrims(t)'
            <4>1. PICK c \in Confirmed : tierOf[c] = t /\ p \in active[c]
                BY <3>2 DEF ConfirmedPilgrims
            <4>2. c # b
                BY <3>2, <4>1, <1>7 DEF ConfirmedOf
            <4>3. c \in Confirmed' /\ tierOf'[c] = t /\ p \in active'[c]
                BY <4>1, <4>2, <1>1, <1>3
            <4>4. QED  BY <4>3 DEF ConfirmedPilgrims
        <3>3. ASSUME p \in ConfirmedPilgrims(t)'
              PROVE  p \in (ConfirmedPilgrims(t) \ ConfirmedOf(b)) \cup ConfirmedOf(b)'
            <4>1. PICK c \in Confirmed' : tierOf'[c] = t /\ p \in active'[c]
                BY <3>3 DEF ConfirmedPilgrims
            <4>2. CASE c = b
                BY <4>1, <4>2, <1>8 DEF ConfirmedOf
            <4>3. CASE c # b
                <5>1. c \in Confirmed /\ tierOf[c] = t /\ p \in active[c] /\ c \in Booking
                    BY <4>1, <4>3, <1>1, <1>3
                <5>2. p \in ConfirmedPilgrims(t)
                    BY <5>1 DEF ConfirmedPilgrims
                <5>3. p \notin ConfirmedOf(b)
                    BY <5>1, <4>3, <1>4 DEF ConfirmedOf
                <5>4. QED  BY <5>2, <5>3
            <4>4. QED  BY <4>2, <4>3
        <3>4. QED  BY <3>1, <3>2, <3>3
    <2>2. ConfirmedPilgrims(t)' \subseteq Pilgrim /\ ConfirmedPilgrims(t) \subseteq Pilgrim /\ ConfirmedOf(b)' \subseteq Pilgrim
        BY DEF ConfirmedPilgrims, ConfirmedOf
    <2>3. QED  BY <2>1, <2>2
<1>11. HeldOf(b) \subseteq HeldPilgrims(t)
    BY <1>2 DEF HeldPilgrims, HeldOf
<1>12. ConfirmedOf(b) \subseteq ConfirmedPilgrims(t)
    BY <1>2, <1>7 DEF ConfirmedPilgrims, ConfirmedOf
<1>13. (HeldPilgrims(t) \ HeldOf(b)) \cap HeldOf(b)' = {}
    BY <1>1, <1>4 DEF HeldPilgrims, HeldOf
<1>14. (ConfirmedPilgrims(t) \ ConfirmedOf(b)) \cap ConfirmedOf(b)' = {}
    BY <1>1, <1>4, <1>7 DEF ConfirmedPilgrims, ConfirmedOf
<1>15. HeldOf(b)' \in SUBSET Pilgrim /\ ConfirmedOf(b)' \in SUBSET Pilgrim
    BY DEF HeldOf, ConfirmedOf
<1>16. QED
    BY <1>5, <1>6, <1>9, <1>10, <1>11, <1>12, <1>13, <1>14, <1>15

(* The counters of t move by what the booking accounts for. *)
CountersFollow(b, t) ==
    /\ seatsHeld' \in [Tier -> Int] /\ seatsConfirmed' \in [Tier -> Int]
    /\ \A u \in Tier \ {t} : seatsHeld'[u] = seatsHeld[u] /\ seatsConfirmed'[u] = seatsConfirmed[u]
    /\ seatsHeld'[t] = seatsHeld[t] + (Cardinality(HeldOf(b)') - Cardinality(HeldOf(b)))
    /\ seatsConfirmed'[t] =
           seatsConfirmed[t] + (Cardinality(ConfirmedOf(b)') - Cardinality(ConfirmedOf(b)))

(* Then they still count the seated pilgrims. *)
LEMMA OneBookingLedger ==
    ASSUME IInv, NEW b \in Booking, NEW t \in Tier, OnlyBooking(b, t), CountersFollow(b, t)
    PROVE  /\ seatsHeld' \in [Tier -> Nat] /\ seatsConfirmed' \in [Tier -> Nat]
           /\ SeatLedger'
<1> DEFINE dh == Cardinality(HeldOf(b)') - Cardinality(HeldOf(b))
           dc == Cardinality(ConfirmedOf(b)') - Cardinality(ConfirmedOf(b))
<1>1. \A u \in Tier \ {t} : seatsHeld'[u] = seatsHeld[u] /\ seatsConfirmed'[u] = seatsConfirmed[u]
    BY DEF CountersFollow
<1>2. seatsHeld'[t] = seatsHeld[t] + dh /\ seatsConfirmed'[t] = seatsConfirmed[t] + dc
    BY DEF CountersFollow
<1>3. seatsHeld[t] = Cardinality(HeldPilgrims(t)) /\ seatsConfirmed[t] = Cardinality(ConfirmedPilgrims(t))
    BY DEF IInv, SeatLedger
<1>4. /\ HeldPilgrims(t) \in SUBSET Pilgrim /\ ConfirmedPilgrims(t) \in SUBSET Pilgrim
      /\ HeldOf(b) \in SUBSET HeldPilgrims(t) /\ ConfirmedOf(b) \in SUBSET ConfirmedPilgrims(t)
      /\ HeldOf(b)' \in SUBSET Pilgrim /\ ConfirmedOf(b)' \in SUBSET Pilgrim
    BY OneBookingSets, SeatSetsType
<1>5. Cardinality(HeldPilgrims(t)') = Cardinality(HeldPilgrims(t)) + dh
    <2> DEFINE rest == HeldPilgrims(t) \ HeldOf(b)
    <2>1. rest \in SUBSET Pilgrim  BY <1>4
    <2>2. Cardinality(rest) = Cardinality(HeldPilgrims(t)) - Cardinality(HeldOf(b))
        BY <1>4, CardinalityWithout
    <2>3. HeldPilgrims(t)' = rest \cup HeldOf(b)' /\ rest \cap HeldOf(b)' = {}
        BY OneBookingSets
    <2> HIDE DEF rest
    <2>4. Cardinality(rest \cup HeldOf(b)') = Cardinality(rest) + Cardinality(HeldOf(b)')
        BY <2>1, <2>3, <1>4, CardinalityWith
    <2>5. /\ Cardinality(HeldPilgrims(t)) \in Nat /\ Cardinality(HeldOf(b)) \in Nat
          /\ Cardinality(HeldOf(b)') \in Nat
        BY <1>4, CardinalityOfPilgrims
    <2>6. QED  BY <2>2, <2>3, <2>4, <2>5
<1>6. Cardinality(ConfirmedPilgrims(t)') = Cardinality(ConfirmedPilgrims(t)) + dc
    <2> DEFINE rest == ConfirmedPilgrims(t) \ ConfirmedOf(b)
    <2>1. rest \in SUBSET Pilgrim  BY <1>4
    <2>2. Cardinality(rest) = Cardinality(ConfirmedPilgrims(t)) - Cardinality(ConfirmedOf(b))
        BY <1>4, CardinalityWithout
    <2>3. ConfirmedPilgrims(t)' = rest \cup ConfirmedOf(b)' /\ rest \cap ConfirmedOf(b)' = {}
        BY OneBookingSets
    <2> HIDE DEF rest
    <2>4. Cardinality(rest \cup ConfirmedOf(b)') = Cardinality(rest) + Cardinality(ConfirmedOf(b)')
        BY <2>1, <2>3, <1>4, CardinalityWith
    <2>5. /\ Cardinality(ConfirmedPilgrims(t)) \in Nat /\ Cardinality(ConfirmedOf(b)) \in Nat
          /\ Cardinality(ConfirmedOf(b)') \in Nat
        BY <1>4, CardinalityOfPilgrims
    <2>6. QED  BY <2>2, <2>3, <2>4, <2>5
<1>7. /\ Cardinality(HeldPilgrims(t)') \in Nat
      /\ Cardinality(ConfirmedPilgrims(t)') \in Nat
    BY <1>4, OneBookingSets, CardinalityOfPilgrims
<1>8. SeatLedger'
    BY <1>1, <1>2, <1>3, <1>5, <1>6, OneBookingSets DEF IInv, SeatLedger
<1>9. seatsHeld'[t] \in Nat /\ seatsConfirmed'[t] \in Nat
    BY <1>2, <1>3, <1>5, <1>6, <1>7
<1>10. seatsHeld' \in [Tier -> Nat] /\ seatsConfirmed' \in [Tier -> Nat]
    BY <1>1, <1>9 DEF IInv, TypeOK, CountersFollow
<1>11. QED  BY <1>8, <1>10

----------------------------------------------------------------------------
(* The steps that move seats keep rows, holds, ledger and quota. *)

SeatsOK ==
    /\ seatsHeld \in [Tier -> Nat] /\ seatsConfirmed \in [Tier -> Nat]
    /\ Rows /\ HoldMatchesStatus /\ SeatLedger /\ QuotaKept

LEMMA CreateBookingSeats ==
    ASSUME IInv, NEW b \in Booking, NEW t \in Tier, NEW S \in SUBSET Pilgrim, NEW plan \in BOOLEAN,
           CreateBooking(b, t, S, plan)
    PROVE  /\ OnlyBooking(b, t) /\ SeatsOK'
           /\ HeldOf(b) = {} /\ HeldOf(b)' = S /\ ConfirmedOf(b) = {} /\ ConfirmedOf(b)' = {}
<1> USE DEF CreateBooking
<1>1. \A c \in Booking : pilgrims[c] \cap S = {}
    BY DEF FreshPilgrims, IInv, TypeOK
<1>2. Rows'
    BY <1>1 DEF IInv, TypeOK, Rows
<1>3. HoldMatchesStatus'
    BY DEF IInv, TypeOK, HoldMatchesStatus
<1>4. OnlyBooking(b, t)
    BY <1>2, <1>3 DEF OnlyBooking, IInv, TypeOK
<1>5. HeldOf(b) = {} /\ HeldOf(b)' = S /\ ConfirmedOf(b) = {} /\ ConfirmedOf(b)' = {}
    BY DEF HeldOf, ConfirmedOf, IInv, TypeOK, HoldMatchesStatus
<1>6. Cardinality(S) \in Nat /\ Cardinality({}) = 0
    BY CardinalityOfPilgrims, FS_EmptySet
<1>7. CountersFollow(b, t)
    BY <1>5, <1>6 DEF CountersFollow, IInv, TypeOK
<1>8. /\ seatsHeld' \in [Tier -> Nat] /\ seatsConfirmed' \in [Tier -> Nat] /\ SeatLedger'
    BY <1>4, <1>7, OneBookingLedger
<1>9. QuotaKept'
    BY <1>6 DEF QuotaKept, SeatsAvailable, IInv, TypeOK, tierVars
<1>10. QED
    BY <1>2, <1>3, <1>4, <1>5, <1>8, <1>9 DEF SeatsOK

(* Both ways a hold ends with its booking cancelled: a release and a late receipt. *)
LEMMA CloseHoldSeats ==
    ASSUME IInv, NEW b \in Booking, b \in openHolds, CloseHold(b),
           status' = [status EXCEPT ![b] = "cancelled"],
           UNCHANGED <<seatsTotal, seatsConfirmed, active, holdSeats, rowVars>>
    PROVE  /\ tierOf[b] \in Tier /\ OnlyBooking(b, tierOf[b]) /\ SeatsOK'
           /\ HeldOf(b) = active[b] /\ HeldOf(b)' = {} /\ ConfirmedOf(b) = {} /\ ConfirmedOf(b)' = {}
<1> USE DEF CloseHold, rowVars
<1>1. status[b] = "held" /\ tierOf[b] \in Tier
    BY DEF IInv, Rows, HoldMatchesStatus
<1>2. Rows'
    BY <1>1 DEF IInv, TypeOK, Rows
<1>3. HoldMatchesStatus'
    BY DEF IInv, TypeOK, HoldMatchesStatus
<1>4. OnlyBooking(b, tierOf[b])
    BY <1>2, <1>3 DEF OnlyBooking, IInv, TypeOK
<1>5. HeldOf(b) = active[b] /\ HeldOf(b)' = {} /\ ConfirmedOf(b) = {} /\ ConfirmedOf(b)' = {}
    BY <1>1 DEF HeldOf, ConfirmedOf, IInv, TypeOK
<1>6. /\ holdSeats[b] = Cardinality(active[b]) /\ holdSeats[b] \in Nat /\ Cardinality({}) = 0
    BY FS_EmptySet DEF IInv, Rows, TypeOK
<1>7. CountersFollow(b, tierOf[b])
    BY <1>1, <1>5, <1>6 DEF CountersFollow, IInv, TypeOK
<1>8. /\ seatsHeld' \in [Tier -> Nat] /\ seatsConfirmed' \in [Tier -> Nat] /\ SeatLedger'
    BY <1>1, <1>4, <1>7, OneBookingLedger
<1>9. QuotaKept'
    BY <1>1, <1>6 DEF QuotaKept, IInv, TypeOK
<1>10. QED
    BY <1>1, <1>2, <1>3, <1>4, <1>5, <1>8, <1>9 DEF SeatsOK

LEMMA ConfirmSeats ==
    ASSUME IInv, NEW b \in Booking, b \in openHolds, CloseHold(b),
           seatsConfirmed' = [seatsConfirmed EXCEPT ![tierOf[b]] = @ + holdSeats[b]],
           status' = [status EXCEPT ![b] = "confirmed"],
           UNCHANGED <<seatsTotal, active, holdSeats, rowVars>>
    PROVE  /\ tierOf[b] \in Tier /\ OnlyBooking(b, tierOf[b]) /\ SeatsOK'
           /\ HeldOf(b) = active[b] /\ HeldOf(b)' = {}
           /\ ConfirmedOf(b) = {} /\ ConfirmedOf(b)' = active[b]
<1> USE DEF CloseHold, rowVars
<1>1. status[b] = "held" /\ tierOf[b] \in Tier
    BY DEF IInv, Rows, HoldMatchesStatus
<1>2. Rows'
    BY <1>1 DEF IInv, TypeOK, Rows
<1>3. HoldMatchesStatus'
    BY DEF IInv, TypeOK, HoldMatchesStatus
<1>4. OnlyBooking(b, tierOf[b])
    BY <1>2, <1>3 DEF OnlyBooking, IInv, TypeOK
<1>5. /\ HeldOf(b) = active[b] /\ HeldOf(b)' = {}
      /\ ConfirmedOf(b) = {} /\ ConfirmedOf(b)' = active[b]
    BY <1>1 DEF HeldOf, ConfirmedOf, IInv, TypeOK
<1>6. /\ holdSeats[b] = Cardinality(active[b]) /\ holdSeats[b] \in Nat /\ Cardinality({}) = 0
    BY FS_EmptySet DEF IInv, Rows, TypeOK
<1>7. CountersFollow(b, tierOf[b])
    BY <1>1, <1>5, <1>6 DEF CountersFollow, IInv, TypeOK
<1>8. /\ seatsHeld' \in [Tier -> Nat] /\ seatsConfirmed' \in [Tier -> Nat] /\ SeatLedger'
    BY <1>1, <1>4, <1>7, OneBookingLedger
<1>9. QuotaKept'
    BY <1>1, <1>6 DEF QuotaKept, IInv, TypeOK
<1>10. QED
    BY <1>1, <1>2, <1>3, <1>4, <1>5, <1>8, <1>9 DEF SeatsOK

LEMMA CancelSeats ==
    ASSUME IInv, NEW b \in Booking, NEW S \in SUBSET Pilgrim, NEW c \in ChargePerPilgrim,
           Cancel(b, S, c)
    PROVE  /\ tierOf[b] \in Tier /\ OnlyBooking(b, tierOf[b]) /\ SeatsOK'
           /\ HeldOf(b)' = HeldOf(b) \ S /\ ConfirmedOf(b)' = ConfirmedOf(b) \ S
           /\ S \subseteq HeldOf(b) \cup ConfirmedOf(b)
<1> USE DEF Cancel, EmptiedHold, rowVars, tierVars
<1>1. /\ tierOf[b] \in Tier /\ S \in SUBSET active[b] /\ active[b] \in SUBSET Pilgrim
      /\ active' = [active EXCEPT ![b] = @ \ S]
    BY DEF IInv, Rows, TypeOK
<1>2. /\ Cardinality(S) \in Nat /\ Cardinality(active[b]) \in Nat /\ Cardinality({}) = 0
      /\ Cardinality(active[b] \ S) = Cardinality(active[b]) - Cardinality(S)
      /\ Cardinality(S) <= Cardinality(active[b])
    BY <1>1, CardinalityOfPilgrims, CardinalityWithout, FS_EmptySet
<1>3. Cardinality(S) = Cardinality(active[b]) => S = active[b]
    BY <1>1, CardinalityOfPilgrims, FS_Subset
<1>4. b \in openHolds <=> status[b] = "held"
    BY DEF IInv, HoldMatchesStatus
<1>5. b \in openHolds => holdSeats[b] = Cardinality(active[b])
    BY DEF IInv, Rows
<1>6. status'[b] = "held" <=> status[b] = "held" /\ S # active[b]
    BY DEF IInv, TypeOK
<1>7. b \in openHolds' <=> b \in openHolds /\ S # active[b]
    BY <1>3, <1>5 DEF IInv, TypeOK
<1>8. b \in openHolds => holdSeats' = [holdSeats EXCEPT ![b] = @ - Cardinality(S)]
    OBVIOUS
<1>9. b \in openHolds' => holdSeats'[b] = Cardinality(active'[b])
    BY <1>1, <1>2, <1>5, <1>7, <1>8 DEF IInv, TypeOK
<1>10. \A d \in Booking \ {b} :
          /\ active'[d] = active[d] /\ status'[d] = status[d] /\ holdSeats'[d] = holdSeats[d]
          /\ d \in openHolds' <=> d \in openHolds
    BY DEF IInv, TypeOK
<1>11. openHolds' \subseteq Booking
    BY DEF IInv, TypeOK
<1>12. Rows'
    BY <1>1, <1>9, <1>10, <1>11 DEF IInv, Rows, TypeOK
<1>13. HoldMatchesStatus'
    BY <1>4, <1>6, <1>7, <1>10 DEF IInv, HoldMatchesStatus
<1>14. OnlyBooking(b, tierOf[b])
    BY <1>1, <1>10, <1>11, <1>12, <1>13 DEF OnlyBooking, IInv, TypeOK
<1>15. active'[b] = active[b] \ S
    BY <1>1 DEF IInv, TypeOK
<1>16. CASE b \in openHolds
    <2>1. /\ HeldOf(b) = active[b] /\ HeldOf(b)' = active[b] \ S
          /\ ConfirmedOf(b) = {} /\ ConfirmedOf(b)' = {}
        BY <1>16, <1>4, <1>7, <1>15 DEF HeldOf, ConfirmedOf, IInv, TypeOK
    <2>2. CountersFollow(b, tierOf[b])
        BY <1>16, <1>1, <1>2, <2>1 DEF CountersFollow, IInv, TypeOK
    <2>3. QuotaKept'
        BY <1>16, <1>1, <1>2 DEF QuotaKept, IInv, TypeOK
    <2>4. QED
        BY <1>1, <1>12, <1>13, <1>14, <2>1, <2>2, <2>3, OneBookingLedger DEF SeatsOK
<1>17. CASE b \notin openHolds
    <2>1. status[b] \in {"confirmed", "defaulted"}
        BY <1>17, <1>4 DEF IInv, TypeOK, Status
    <2>2. /\ HeldOf(b) = {} /\ HeldOf(b)' = {} /\ ConfirmedOf(b) = active[b]
        BY <1>17, <1>7, <2>1 DEF HeldOf, ConfirmedOf
    <2>3. ConfirmedOf(b)' = active[b] \ S
        BY <2>1, <1>15 DEF ConfirmedOf, IInv, TypeOK
    <2>4. CountersFollow(b, tierOf[b])
        BY <1>17, <1>1, <1>2, <2>1, <2>2, <2>3 DEF CountersFollow, IInv, TypeOK
    <2>5. QuotaKept'
        BY <1>17, <1>1, <1>2, <2>1 DEF QuotaKept, IInv, TypeOK
    <2>6. QED
        BY <1>1, <1>12, <1>13, <1>14, <2>2, <2>3, <2>4, <2>5, OneBookingLedger DEF SeatsOK
<1>18. QED  BY <1>16, <1>17

LEMMA MarkOverdueSeats ==
    ASSUME IInv, NEW b \in Booking, MarkOverdue(b)
    PROVE  /\ tierOf[b] \in Tier /\ OnlyBooking(b, tierOf[b]) /\ SeatsOK'
           /\ HeldOf(b)' = HeldOf(b) /\ ConfirmedOf(b)' = ConfirmedOf(b)
<1> USE DEF MarkOverdue, rowVars, tierVars
<1>1. tierOf[b] \in Tier
    BY DEF IInv, Rows
<1>2. Rows'
    BY DEF IInv, TypeOK, Rows
<1>3. HoldMatchesStatus'
    BY DEF IInv, TypeOK, HoldMatchesStatus
<1>4. OnlyBooking(b, tierOf[b])
    BY <1>2, <1>3 DEF OnlyBooking, IInv, TypeOK
<1>5. HeldOf(b)' = HeldOf(b) /\ ConfirmedOf(b)' = ConfirmedOf(b)
    BY DEF HeldOf, ConfirmedOf, IInv, TypeOK
<1>6. HeldOf(b) \in SUBSET Pilgrim /\ ConfirmedOf(b) \in SUBSET Pilgrim
    BY DEF HeldOf, ConfirmedOf, IInv, TypeOK
<1>7. Cardinality(HeldOf(b)) \in Nat /\ Cardinality(ConfirmedOf(b)) \in Nat
    BY <1>6, CardinalityOfPilgrims
<1>8. CountersFollow(b, tierOf[b])
    BY <1>1, <1>5, <1>7 DEF CountersFollow, IInv, TypeOK
<1>9. QuotaKept'
    BY DEF QuotaKept, IInv
<1>10. QED
    BY <1>1, <1>2, <1>3, <1>4, <1>5, <1>8, <1>9, OneBookingLedger DEF SeatsOK

(* Every other step leaves the seats alone. *)
LEMMA OtherSeats ==
    ASSUME IInv, UNCHANGED <<rowVars, seatVars>>
    PROVE  /\ \A t \in Tier : /\ HeldPilgrims(t)' = HeldPilgrims(t)
                              /\ ConfirmedPilgrims(t)' = ConfirmedPilgrims(t)
           /\ (seatsTotal' = seatsTotal => SeatsOK')
           /\ (QuotaKept' => SeatsOK')
<1> USE DEF rowVars, seatVars
<1>1. Confirmed' = Confirmed
    BY DEF Confirmed
<1>2. \A t \in Tier : /\ HeldPilgrims(t)' = HeldPilgrims(t)
                      /\ ConfirmedPilgrims(t)' = ConfirmedPilgrims(t)
    BY <1>1 DEF HeldPilgrims, ConfirmedPilgrims
<1>3. SeatLedger'
    BY <1>2 DEF IInv, SeatLedger
<1>4. Rows' /\ HoldMatchesStatus'
    BY DEF IInv, Rows, HoldMatchesStatus
<1>5. seatsTotal' = seatsTotal => QuotaKept'
    BY DEF IInv, QuotaKept
<1>6. QED
    BY <1>2, <1>3, <1>4, <1>5 DEF SeatsOK, IInv, TypeOK

----------------------------------------------------------------------------
(* The invariant is inductive. *)

(* Crediting a receipt confirms, cancels or leaves the booking. *)
LEMMA CreditCases ==
    ASSUME IInv, NEW p \in Payment, NEW s \in {"approved", "success"}, Credit(p, s),
           payment[p].state # "none"
    PROVE  LET b == payment[p].booking
           IN  /\ b \in Booking
               /\ UNCHANGED <<seatsTotal, active, holdSeats, rowVars>>
               /\ \/ UNCHANGED seatVars
                  \/ /\ b \in openHolds /\ CloseHold(b)
                     /\ status' = [status EXCEPT ![b] = "cancelled"]
                     /\ UNCHANGED seatsConfirmed
                  \/ /\ b \in openHolds /\ b \notin expired /\ CloseHold(b)
                     /\ status' = [status EXCEPT ![b] = "confirmed"]
                     /\ seatsConfirmed' = [seatsConfirmed EXCEPT ![tierOf[b]] = @ + holdSeats[b]]
BY DEF Credit, ReceivePayment, MoveSeats, Settles, Late, IInv, PaymentRows, seatVars, tierVars, rowVars

LEMMA CreditSeats ==
    ASSUME IInv, NEW p \in Payment, NEW s \in {"approved", "success"}, Credit(p, s),
           payment[p].state # "none"
    PROVE  SeatsOK'
BY CreditCases, OtherSeats, CloseHoldSeats, ConfirmSeats DEF tierVars

LEMMA ReleaseSeats ==
    ASSUME IInv, NEW b \in Booking, ReleaseExpiredHold(b)
    PROVE  SeatsOK'
<1> USE DEF ReleaseExpiredHold
<1>1. CASE b \notin openHolds
    BY <1>1, OtherSeats DEF HoldStillOpen, tierVars
<1>2. CASE b \in openHolds
    <2>1. status[b] = "held"
        BY <1>2 DEF IInv, HoldMatchesStatus
    <2>2. CloseHold(b) /\ status' = [status EXCEPT ![b] = "cancelled"]
        BY <1>2, <2>1 DEF CloseHold, HoldStillOpen, SeatsToRelease
    <2>3. QED
        BY <1>2, <2>2, CloseHoldSeats DEF HoldStillOpen, tierVars, rowVars
<1>3. QED  BY <1>1, <1>2

(* A row the job cannot find ends its run and changes nothing else. *)
RunEnds == \E b \in Booking, S \in SUBSET Booking : ReleaseFails(b, S)

LEMMA SeatsStep ==
    ASSUME IInv, Next
    PROVE  SeatsOK'
<1>1. ASSUME NEW t \in Tier, NEW q \in Quota, UpdateTier(t, q)  PROVE SeatsOK'
    <2>1. QuotaKept'
        BY <1>1, AmountAssumption DEF UpdateTier, QuotaFloor, QuotaKept, IInv, TypeOK, seatVars
    <2>2. QED  BY <1>1, <2>1, OtherSeats DEF UpdateTier
<1>2. ASSUME NEW t \in Tier, CheckRemoveTier(t) \/ CommitRemoveTier(t)  PROVE SeatsOK'
    BY <1>2, OtherSeats DEF CheckRemoveTier, CommitRemoveTier
<1>3. ASSUME NEW b \in Booking, NEW t \in Tier, NEW S \in SUBSET Pilgrim, NEW plan \in BOOLEAN,
             CreateBooking(b, t, S, plan)
      PROVE  SeatsOK'
    BY <1>3, CreateBookingSeats
<1>4. ASSUME NEW b \in Booking, NEW S \in SUBSET Pilgrim, NEW c \in ChargePerPilgrim, Cancel(b, S, c)
      PROVE  SeatsOK'
    BY <1>4, CancelSeats
<1>5. ASSUME NEW b \in Booking, RemoveBooking(b) \/ HoldExpires(b)  PROVE SeatsOK'
    BY <1>5, OtherSeats DEF RemoveBooking, HoldExpires, tierVars
<1>6. ASSUME NEW b \in Booking, MarkOverdue(b)  PROVE SeatsOK'
    BY <1>6, MarkOverdueSeats
<1>7. ASSUME NEW b \in Booking, ReleaseExpiredHold(b)  PROVE SeatsOK'
    BY <1>7, ReleaseSeats
<1>8. CASE ListExpiredHolds \/ RunEnds
    BY <1>8, OtherSeats DEF ListExpiredHolds, RunEnds, ReleaseFails, tierVars
<1>9. ASSUME NEW p \in Payment, NEW b \in Booking, NEW a \in PaymentAmount,
             RecordManual(p, b, a) \/ Initiate(p, b, a)
      PROVE  SeatsOK'
    BY <1>9, OtherSeats DEF RecordManual, Initiate, NewPayment, tierVars
<1>10. ASSUME NEW p \in Payment, ApproveManual(p) \/ MarkSourcePaid(p)  PROVE SeatsOK'
    BY <1>10, CreditSeats DEF ApproveManual, MarkSourcePaid, AwaitsApproval, AwaitsGateway
<1>11. ASSUME NEW p \in Payment, RejectManual(p)  PROVE SeatsOK'
    BY <1>11, OtherSeats DEF RejectManual, tierVars
<1>12. ASSUME NEW r \in Refund, NEW b \in Booking, NEW a \in RefundAmount, RequestRefund(r, b, a)
       PROVE  SeatsOK'
    BY <1>12, OtherSeats DEF RequestRefund, tierVars
<1>13. ASSUME NEW r \in Refund, NEW s \in RefundState, ProcessRefund(r, s)  PROVE SeatsOK'
    BY <1>13, OtherSeats DEF ProcessRefund, tierVars
<1>14. QED
    BY <1>1, <1>2, <1>3, <1>4, <1>5, <1>6, <1>7, <1>8, <1>9, <1>10, <1>11, <1>12, <1>13
    DEF Next, WorkOffList, RunEnds

(* What TypeOK says of the variables other than the seat counters. *)
LEMMA TypeStep ==
    ASSUME IInv, Next, SeatsOK'
    PROVE  TypeOK' /\ PaymentRows'
<1> USE DEF IInv, TypeOK, PaymentRows, SeatsOK
<1>1. ASSUME NEW t \in Tier, NEW q \in Quota, UpdateTier(t, q)  PROVE TypeOK' /\ PaymentRows'
    BY <1>1, AmountAssumption DEF UpdateTier, rowVars, seatVars, moneyVars, jobVars
<1>2. ASSUME NEW t \in Tier, CheckRemoveTier(t) \/ CommitRemoveTier(t)
      PROVE  TypeOK' /\ PaymentRows'
    BY <1>2 DEF CheckRemoveTier, CommitRemoveTier, rowVars, seatVars, moneyVars, jobVars
<1>3. ASSUME NEW b \in Booking, NEW t \in Tier, NEW S \in SUBSET Pilgrim, NEW plan \in BOOLEAN,
             CreateBooking(b, t, S, plan)
      PROVE  TypeOK' /\ PaymentRows'
    <2>1. Cardinality(S) \in Nat
        BY CardinalityOfPilgrims
    <2>2. QED
        BY <1>3, <2>1 DEF CreateBooking, tierVars, moneyVars, jobVars, Status
<1>4. ASSUME NEW b \in Booking, NEW S \in SUBSET Pilgrim, NEW c \in ChargePerPilgrim, Cancel(b, S, c)
      PROVE  TypeOK' /\ PaymentRows'
    <2>1. Cardinality(S) \in Nat /\ c \in Nat /\ c * Cardinality(S) \in Nat
        BY CardinalityOfPilgrims, AmountAssumption
    <2>2. charges' \in [Booking -> Nat]
        BY <1>4, <2>1 DEF Cancel
    <2>3. holdSeats' \in [Booking -> Nat]
        <3>1. CASE b \in openHolds
            <4>1. holdSeats[b] - Cardinality(S) \in Nat
                <5>1. holdSeats[b] = Cardinality(active[b])
                    BY <3>1 DEF Rows
                <5>2. S \in SUBSET active[b] /\ active[b] \in SUBSET Pilgrim
                    BY <1>4 DEF Cancel
                <5>3. Cardinality(S) <= Cardinality(active[b]) /\ Cardinality(active[b]) \in Nat
                    BY <5>2, CardinalityOfPilgrims, CardinalityWithout
                <5>4. QED  BY <5>1, <5>3, <2>1
            <4>2. QED  BY <1>4, <3>1, <4>1 DEF Cancel
        <3>2. CASE b \notin openHolds
            BY <1>4, <3>2 DEF Cancel
        <3>3. QED  BY <3>1, <3>2
    <2>4. QED
        BY <1>4, <2>2, <2>3 DEF Cancel, tierVars, rowVars, jobVars, Status
<1>5. ASSUME NEW b \in Booking, RemoveBooking(b) \/ HoldExpires(b)  PROVE TypeOK' /\ PaymentRows'
    BY <1>5 DEF RemoveBooking, HoldExpires, tierVars, rowVars, seatVars, moneyVars, jobVars
<1>6. ASSUME NEW b \in Booking, MarkOverdue(b)  PROVE TypeOK' /\ PaymentRows'
    BY <1>6 DEF MarkOverdue, tierVars, rowVars, moneyVars, jobVars, Status
<1>7. ASSUME NEW b \in Booking, ReleaseExpiredHold(b)  PROVE TypeOK' /\ PaymentRows'
    BY <1>7 DEF ReleaseExpiredHold, tierVars, rowVars, seatVars, moneyVars, Status
<1>8. CASE ListExpiredHolds \/ RunEnds
    BY <1>8 DEF ListExpiredHolds, RunEnds, ReleaseFails, tierVars, rowVars, seatVars, moneyVars
<1>9. ASSUME NEW p \in Payment, NEW b \in Booking, NEW a \in PaymentAmount,
             RecordManual(p, b, a) \/ Initiate(p, b, a)
      PROVE  TypeOK' /\ PaymentRows'
    <2>1. PICK s \in {"pending", "checkout"} : NewPayment(p, b, a, s)
        BY <1>9 DEF RecordManual, Initiate
    <2>2. a \in Nat /\ s \in PaymentState
        BY AmountAssumption DEF PaymentState
    <2>3. payment' \in [Payment -> [state : PaymentState, booking : Booking \cup {None}, amount : Nat]]
        BY <2>1, <2>2 DEF NewPayment
    <2>4. PaymentRows'
        BY <2>1 DEF NewPayment
    <2>5. QED
        BY <2>1, <2>3, <2>4 DEF NewPayment, tierVars, rowVars, seatVars, jobVars
<1>10. ASSUME NEW p \in Payment, NEW s \in {"approved", "success"}, Credit(p, s),
              payment[p].state # "none"
       PROVE  TypeOK' /\ PaymentRows'
    <2> DEFINE b == payment[p].booking
    <2>1. b \in Booking /\ payment[p].amount \in Nat /\ s \in PaymentState
        BY <1>10 DEF PaymentState
    <2>2. payment' = [payment EXCEPT ![p].state = s]
        BY <1>10 DEF Credit
    <2>3. payment' \in [Payment -> [state : PaymentState, booking : Booking \cup {None}, amount : Nat]]
        BY <2>1, <2>2
    <2>4. PaymentRows'
        BY <1>10, <2>2
    <2>5. amountReceived' \in [Booking -> Nat]
        BY <1>10, <2>1 DEF Credit, ReceivePayment
    <2>6. status' \in [Booking -> Status] /\ openHolds' \subseteq Booking
        BY <1>10, <2>1, CreditCases DEF CloseHold, Status, seatVars
    <2>7. UNCHANGED <<active, holdSeats>>
        BY <1>10, CreditCases
    <2>8. QED
        BY <1>10, <2>3, <2>4, <2>5, <2>6, <2>7
        DEF Credit, ReceivePayment, tierVars, rowVars, jobVars
<1>11. ASSUME NEW p \in Payment, RejectManual(p)  PROVE TypeOK' /\ PaymentRows'
    <2>1. payment' = [payment EXCEPT ![p].state = "rejected"] /\ payment[p].state = "pending"
        BY <1>11 DEF RejectManual, AwaitsApproval
    <2>2. payment' \in [Payment -> [state : PaymentState, booking : Booking \cup {None}, amount : Nat]]
        BY <2>1 DEF PaymentState
    <2>3. QED
        BY <1>11, <2>1, <2>2 DEF RejectManual, tierVars, rowVars, seatVars, jobVars
<1>12. ASSUME NEW r \in Refund, NEW b \in Booking, NEW a \in RefundAmount, RequestRefund(r, b, a)
       PROVE  TypeOK' /\ PaymentRows'
    <2>1. a \in Nat
        BY AmountAssumption
    <2>2. refund' \in [Refund -> [state : RefundState, booking : Booking \cup {None}, amount : Nat]]
        BY <1>12, <2>1 DEF RequestRefund, RefundState
    <2>3. QED
        BY <1>12, <2>2 DEF RequestRefund, tierVars, rowVars, seatVars, jobVars
<1>13. ASSUME NEW r \in Refund, NEW s \in RefundState, ProcessRefund(r, s)
       PROVE  TypeOK' /\ PaymentRows'
    <2>1. refund' \in [Refund -> [state : RefundState, booking : Booking \cup {None}, amount : Nat]]
        BY <1>13 DEF ProcessRefund
    <2>2. QED
        BY <1>13, <2>1 DEF ProcessRefund, tierVars, rowVars, seatVars, jobVars
<1>14. ASSUME NEW p \in Payment, ApproveManual(p) \/ MarkSourcePaid(p)
       PROVE  TypeOK' /\ PaymentRows'
    BY <1>10, <1>14 DEF ApproveManual, MarkSourcePaid, AwaitsApproval, AwaitsGateway
<1> HIDE DEF IInv, TypeOK, PaymentRows, SeatsOK
<1>15. QED
    BY <1>1, <1>2, <1>3, <1>4, <1>5, <1>6, <1>7, <1>8, <1>9, <1>11, <1>12, <1>13, <1>14
    DEF Next, WorkOffList, RunEnds

LEMMA InitIInv ==
    ASSUME Init
    PROVE  IInv
<1> USE DEF Init
<1>1. TypeOK
    <2>1. /\ NoPayment \in [state : PaymentState, booking : Booking \cup {None}, amount : Nat]
          /\ NoRefund \in [state : RefundState, booking : Booking \cup {None}, amount : Nat]
        BY DEF NoPayment, NoRefund, PaymentState, RefundState
    <2>2. /\ payment \in [Payment -> [state : PaymentState, booking : Booking \cup {None}, amount : Nat]]
          /\ refund \in [Refund -> [state : RefundState, booking : Booking \cup {None}, amount : Nat]]
        BY <2>1
    <2>3. seatsTotal \in [Tier -> Nat] /\ status \in [Booking -> Status]
        BY AmountAssumption DEF Status
    <2>4. QED  BY <2>2, <2>3 DEF TypeOK
<1>2. Rows /\ PaymentRows /\ HoldMatchesStatus
    BY DEF Rows, PaymentRows, HoldMatchesStatus, NoPayment
<1>3. \A t \in Tier : HeldPilgrims(t) = {} /\ ConfirmedPilgrims(t) = {}
    BY DEF HeldPilgrims, ConfirmedPilgrims, Confirmed
<1>4. SeatLedger
    BY <1>3, FS_EmptySet DEF SeatLedger
<1>5. QuotaKept
    <2>1. \A t \in Tier : seatsHeld[t] = 0 /\ seatsConfirmed[t] = 0
        OBVIOUS
    <2>2. \A t \in Tier : seatsTotal[t] \in Nat
        BY <1>1 DEF TypeOK
    <2> HIDE DEF Init
    <2>3. QED  BY <2>1, <2>2 DEF QuotaKept
<1>6. QED  BY <1>1, <1>2, <1>4, <1>5 DEF IInv

LEMMA StepIInv ==
    ASSUME IInv, [Next]_vars
    PROVE  IInv'
<1>1. CASE Next
    <2>1. SeatsOK'
        BY <1>1, SeatsStep
    <2>2. TypeOK' /\ PaymentRows'
        BY <1>1, <2>1, TypeStep
    <2>3. QED  BY <2>1, <2>2 DEF SeatsOK, IInv
<1>2. CASE UNCHANGED vars
    <2>1. SeatsOK'
        BY <1>2, OtherSeats DEF vars, tierVars
    <2>2. TypeOK' /\ PaymentRows'
        BY <1>2
        DEF IInv, TypeOK, PaymentRows, vars, tierVars, rowVars, seatVars, moneyVars, jobVars
    <2>3. QED  BY <2>1, <2>2 DEF SeatsOK, IInv
<1>3. QED  BY <1>1, <1>2

(* The inductive invariant holds of every reachable state. *)
THEOREM InvariantHolds == Spec => []IInv
BY InitIInv, StepIInv, PTL DEF Spec

(* Every variable keeps its type; in particular no seat counter ever goes  *)
(* below zero, whatever the release job, cancellations and receipts do.    *)
THEOREM TypeCorrect == Spec => []TypeOK
<1>1. IInv => TypeOK  BY DEF IInv
<1>2. QED  BY <1>1, InvariantHolds, PTL

(* The seat counters of a tier always count the pilgrims on hold and the   *)
(* pilgrims confirmed.                                                     *)
THEOREM LedgerCorrect == Spec => []SeatLedger
<1>1. IInv => SeatLedger  BY DEF IInv
<1>2. QED  BY <1>1, InvariantHolds, PTL

(* No tier ever seats more pilgrims than its quota.                        *)
THEOREM QuotaNeverExceeded == Spec => []NoOversell
<1>1. IInv => NoOversell
    BY DEF IInv, SeatLedger, QuotaKept, NoOversell
<1>2. QED  BY <1>1, InvariantHolds, PTL

(* A hold is open exactly while its booking is held.                       *)
THEOREM HoldsMatchStatus == Spec => []HoldMatchesStatus
<1>1. IInv => HoldMatchesStatus  BY DEF IInv
<1>2. QED  BY <1>1, InvariantHolds, PTL

----------------------------------------------------------------------------
(* What a confirmed booking has paid. *)

(* The threshold the code compares with is the due of the property. *)
LEMMA DueIsThreshold ==
    ASSUME TypeOK, NEW b \in Booking
    PROVE  /\ Obligation(b) \in Nat /\ DownPayment(b) \in Nat
           /\ Due(b) = Threshold(b)
<1>1. active[b] \in SUBSET Pilgrim /\ pilgrims[b] \in SUBSET Pilgrim /\ charges[b] \in Nat
    BY DEF TypeOK
<1>2. Cardinality(active[b]) \in Nat /\ Cardinality(pilgrims[b]) \in Nat
    BY <1>1, CardinalityOfPilgrims
<1>3. Price * Cardinality(active[b]) \in Nat
    BY <1>2, AmountAssumption
<1>4. Obligation(b) \in Nat
    BY <1>1, <1>3 DEF Obligation
<1>5. DownPayment(b) \in Nat
    <2>1. 3 * Price * Cardinality(pilgrims[b]) \in Nat
        BY <1>2, AmountAssumption
    <2>2. QED  BY <2>1 DEF DownPayment
<1>6. ASSUME NEW m \in Nat, NEW n \in Nat  PROVE Min({m, n}) = IF n < m THEN n ELSE m
    BY DEF Min
<1>7. Due(b) = IF b \in hasPlan THEN Min({Obligation(b), DownPayment(b)}) ELSE Obligation(b)
    BY DEF Due, Obligation
<1>8. QED  BY <1>4, <1>5, <1>6, <1>7 DEF Threshold

PaidUp(b) == amountReceived[b] >= Threshold(b)

(* Receipts only grow: a booking whose rows stay has still paid.           *)
LEMMA StillPaidUp ==
    ASSUME IInv, NEW b \in Booking, PaidUp(b),
           amountReceived'[b] \in Nat, amountReceived'[b] >= amountReceived[b],
           active'[b] = active[b], charges'[b] = charges[b], pilgrims'[b] = pilgrims[b],
           b \in hasPlan' <=> b \in hasPlan
    PROVE  PaidUp(b)'
<1>1. Threshold(b)' = Threshold(b)
    BY DEF Threshold, Obligation, DownPayment
<1>2. Threshold(b) \in Nat /\ amountReceived[b] \in Nat
    BY DueIsThreshold DEF Threshold, IInv, TypeOK
<1>3. QED  BY <1>1, <1>2 DEF PaidUp

(* A charge of at most the price of the seat asks for no more money.       *)
LEMMA CancelPaidUp ==
    ASSUME IInv, NEW b \in Booking, NEW S \in SUBSET Pilgrim, NEW c \in ChargePerPilgrim,
           Cancel(b, S, c), PaidUp(b), c <= Price
    PROVE  PaidUp(b)'
<1> DEFINE n == Cardinality(active[b])
           k == Cardinality(S)
<1>1. /\ active'[b] = active[b] \ S /\ S \in SUBSET active[b] /\ active[b] \in SUBSET Pilgrim
      /\ charges'[b] = charges[b] + c * k
      /\ UNCHANGED <<hasPlan, pilgrims, amountReceived>>
    BY DEF Cancel, rowVars, IInv, TypeOK
<1>2. /\ n \in Nat /\ k \in Nat /\ Cardinality(active'[b]) = n - k
      /\ charges[b] \in Nat /\ Price \in Nat /\ c \in Nat
    BY <1>1, CardinalityOfPilgrims, CardinalityWithout, AmountAssumption DEF IInv, TypeOK
<1>3. Price * (n - k) + (charges[b] + c * k) <= Price * n + charges[b]
    <2>1. c * k <= Price * k /\ Price * (n - k) = Price * n - Price * k
        BY <1>2
    <2>2. c * k \in Nat /\ Price * k \in Nat /\ Price * n \in Nat
        BY <1>2
    <2>3. QED  BY <1>2, <2>1, <2>2
<1>4. Obligation(b)' <= Obligation(b) /\ Obligation(b)' \in Int /\ DownPayment(b)' = DownPayment(b)
    BY <1>1, <1>2, <1>3 DEF Obligation, DownPayment
<1>5. Obligation(b) \in Nat /\ DownPayment(b) \in Nat /\ amountReceived[b] \in Nat
    BY DueIsThreshold DEF IInv, TypeOK
<1>6. QED  BY <1>1, <1>4, <1>5 DEF PaidUp, Threshold

(* A receipt confirms a booking only at its threshold.                     *)
LEMMA CreditPaidUp ==
    ASSUME IInv, NEW p \in Payment, NEW s \in {"approved", "success"}, Credit(p, s),
           payment[p].state # "none", NEW b \in Booking,
           status'[b] \in {"confirmed", "defaulted"},
           status[b] \in {"confirmed", "defaulted"} => PaidUp(b)
    PROVE  PaidUp(b)'
<1> DEFINE q == payment[p].booking
           amount == payment[p].amount
<1>1. /\ q \in Booking /\ amount \in Nat /\ amountReceived \in [Booking -> Nat]
      /\ amountReceived' = [amountReceived EXCEPT ![q] = @ + amount]
      /\ MoveSeats(q, amountReceived[q] + amount)
      /\ UNCHANGED <<active, charges, hasPlan, pilgrims>>
    BY CreditCases DEF Credit, ReceivePayment, MoveSeats, IInv, TypeOK, rowVars
<1>2. amountReceived'[b] \in Nat /\ amountReceived'[b] >= amountReceived[b]
    BY <1>1
<1>3. CASE status[b] \in {"confirmed", "defaulted"}
    BY <1>1, <1>2, <1>3, StillPaidUp
<1>4. CASE status[b] \notin {"confirmed", "defaulted"}
    <2>1. b = q /\ Settles(q, amountReceived[q] + amount)
        BY <1>1, <1>4 DEF MoveSeats, IInv, TypeOK
    <2>2. Threshold(b)' = Threshold(b)
        BY <1>1 DEF Threshold, Obligation, DownPayment
    <2>3. QED  BY <1>1, <2>1, <2>2 DEF PaidUp, Settles
<1>5. QED  BY <1>3, <1>4

LEMMA StepPaidUp ==
    ASSUME IInv, IInv', [Next]_vars, \A c \in ChargePerPilgrim : c <= Price,
           NEW b \in Booking, status'[b] \in {"confirmed", "defaulted"},
           status[b] \in {"confirmed", "defaulted"} => PaidUp(b)
    PROVE  PaidUp(b)'
<1>1. ASSUME NEW p \in Payment, ApproveManual(p) \/ MarkSourcePaid(p)  PROVE PaidUp(b)'
    BY <1>1, CreditPaidUp DEF ApproveManual, MarkSourcePaid, AwaitsApproval, AwaitsGateway
<1>2. ASSUME status[b] \in {"confirmed", "defaulted"},
             UNCHANGED <<amountReceived, active, charges, pilgrims, hasPlan>>
      PROVE  PaidUp(b)'
    BY <1>2, StillPaidUp DEF IInv, TypeOK
<1>3. ASSUME NEW d \in Booking, NEW S \in SUBSET Pilgrim, NEW c \in ChargePerPilgrim, Cancel(d, S, c)
      PROVE  PaidUp(b)'
    <2>1. status[b] \in {"confirmed", "defaulted"}
        BY <1>3 DEF Cancel, IInv, TypeOK
    <2>2. CASE d = b
        BY <1>3, <2>1, <2>2, CancelPaidUp
    <2>3. CASE d # b
        <3>1. /\ active'[b] = active[b] /\ charges'[b] = charges[b]
              /\ UNCHANGED <<amountReceived, pilgrims, hasPlan>>
            BY <1>3, <2>3 DEF Cancel, rowVars, IInv, TypeOK
        <3>2. QED  BY <2>1, <3>1, StillPaidUp DEF IInv, TypeOK
    <2>4. QED  BY <2>2, <2>3
<1>4. ASSUME NEW d \in Booking, NEW t \in Tier, NEW S \in SUBSET Pilgrim, NEW plan \in BOOLEAN,
             CreateBooking(d, t, S, plan)
      PROVE  PaidUp(b)'
    <2>1. d # b /\ status[b] \in {"confirmed", "defaulted"}
        BY <1>4 DEF CreateBooking, IInv, TypeOK
    <2>2. /\ active'[b] = active[b] /\ pilgrims'[b] = pilgrims[b]
          /\ b \in hasPlan' <=> b \in hasPlan
          /\ UNCHANGED <<amountReceived, charges>>
        BY <1>4, <2>1 DEF CreateBooking, moneyVars, IInv, TypeOK
    <2>3. QED  BY <2>1, <2>2, StillPaidUp DEF IInv, TypeOK
<1>5. ASSUME NEW d \in Booking, ReleaseExpiredHold(d)  PROVE PaidUp(b)'
    <2>1. status[b] \in {"confirmed", "defaulted"}
        BY <1>5 DEF ReleaseExpiredHold, seatVars, IInv, TypeOK
    <2>2. QED  BY <1>2, <1>5, <2>1 DEF ReleaseExpiredHold, seatVars, rowVars, moneyVars
<1>6. ASSUME NEW d \in Booking, MarkOverdue(d)  PROVE PaidUp(b)'
    <2>1. status[b] \in {"confirmed", "defaulted"}
        BY <1>6 DEF MarkOverdue, IInv, TypeOK
    <2>2. QED  BY <1>2, <1>6, <2>1 DEF MarkOverdue, rowVars, moneyVars
<1>7. CASE UNCHANGED <<status, amountReceived, active, charges, rowVars>>
    BY <1>2, <1>7 DEF rowVars
<1>8. ASSUME NEW t \in Tier, (\E q \in Quota : UpdateTier(t, q)) \/ CheckRemoveTier(t) \/ CommitRemoveTier(t)
      PROVE  PaidUp(b)'
    BY <1>7, <1>8 DEF UpdateTier, CheckRemoveTier, CommitRemoveTier, seatVars, moneyVars
<1>9. ASSUME NEW d \in Booking, RemoveBooking(d) \/ HoldExpires(d)  PROVE PaidUp(b)'
    BY <1>7, <1>9 DEF RemoveBooking, HoldExpires, seatVars, moneyVars
<1>10. CASE ListExpiredHolds \/ RunEnds
    BY <1>7, <1>10 DEF ListExpiredHolds, RunEnds, ReleaseFails, seatVars, moneyVars
<1>11. ASSUME NEW p \in Payment, NEW d \in Booking, NEW a \in PaymentAmount,
              RecordManual(p, d, a) \/ Initiate(p, d, a)
       PROVE  PaidUp(b)'
    BY <1>7, <1>11 DEF RecordManual, Initiate, NewPayment, seatVars
<1>12. ASSUME NEW p \in Payment, RejectManual(p)  PROVE PaidUp(b)'
    BY <1>7, <1>12 DEF RejectManual, seatVars
<1>13. ASSUME NEW r \in Refund,
              \/ \E d \in Booking, a \in RefundAmount : RequestRefund(r, d, a)
              \/ \E s \in RefundState : ProcessRefund(r, s)
       PROVE  PaidUp(b)'
    BY <1>7, <1>13 DEF RequestRefund, ProcessRefund, seatVars
<1>14. CASE UNCHANGED vars
    BY <1>7, <1>14 DEF vars, seatVars, moneyVars
<1>15. QED
    BY <1>1, <1>3, <1>4, <1>5, <1>6, <1>8, <1>9, <1>10, <1>11, <1>12, <1>13, <1>14
    DEF Next, WorkOffList, RunEnds

(* As long as no charge exceeds the price of its seat, every confirmed or  *)
(* defaulted booking has paid its threshold: the full obligation, or the   *)
(* down payment of a plan, also after partial cancellations.               *)
THEOREM ConfirmedHavePaid == Spec => []ConfirmedIsPaidFor
<1>1. IInv => (ConfirmedIsPaidFor <=> ((\A c \in ChargePerPilgrim : c <= Price) =>
                                          \A b \in Confirmed : PaidUp(b)))
    BY DueIsThreshold DEF IInv, ConfirmedIsPaidFor, PaidUp, Confirmed
<1>2. Init => ConfirmedIsPaidFor
    BY DEF Init, ConfirmedIsPaidFor, Confirmed
<1>3. IInv' => (\A b \in Booking : Due(b) = Threshold(b))'
    <2>1. IInv => \A b \in Booking : Due(b) = Threshold(b)
        BY DueIsThreshold DEF IInv
    <2>2. QED  BY <2>1, PTL
<1>4. IInv /\ IInv' /\ ConfirmedIsPaidFor /\ [Next]_vars => ConfirmedIsPaidFor'
    <2>1. ASSUME IInv, IInv', ConfirmedIsPaidFor, [Next]_vars, \A c \in ChargePerPilgrim : c <= Price,
                 NEW b \in Confirmed'
          PROVE  amountReceived'[b] >= Due(b)'
        <3>1. b \in Booking /\ status'[b] \in {"confirmed", "defaulted"}
            BY <2>1 DEF Confirmed
        <3>2. status[b] \in {"confirmed", "defaulted"} => PaidUp(b)
            BY <1>1, <2>1, <3>1 DEF Confirmed
        <3>3. PaidUp(b)'
            BY <2>1, <3>1, <3>2, StepPaidUp
        <3>4. Due(b)' = Threshold(b)'
            BY <1>3, <2>1, <3>1
        <3>5. QED  BY <3>3, <3>4 DEF PaidUp
    <2>2. QED  BY <2>1 DEF ConfirmedIsPaidFor
<1>5. QED  BY <1>2, <1>4, InvariantHolds, PTL DEF Spec

----------------------------------------------------------------------------
(* Receipts and claims added up. *)

PaymentAmounts == [p \in Payment |-> payment[p].amount]

ReceiptsOf(b) == SumOver(PaymentAmounts, Settled(b))

LEMMA ReceiptsType ==
    ASSUME TypeOK, NEW b \in Booking
    PROVE  IsFiniteSet(Settled(b)) /\ ReceiptsOf(b) \in Nat
<1>1. Settled(b) \in SUBSET Payment
    BY DEF Settled
<1>2. IsFiniteSet(Settled(b))
    BY <1>1, RowAssumption, FS_Subset
<1>3. \A p \in Settled(b) : PaymentAmounts[p] \in Nat
    BY <1>1 DEF PaymentAmounts, TypeOK
<1> HIDE DEF PaymentAmounts
<1>4. QED  BY <1>2, <1>3, SumType DEF ReceiptsOf

(* Rows that are not settled may change without changing a sum. *)
LEMMA ReceiptsSame ==
    ASSUME ReceiptsMatchPayments, UNCHANGED amountReceived,
           \A p \in Payment : payment[p].state \in {"approved", "success"}
                                  => payment'[p] = payment[p],
           \A p \in Payment : payment'[p].state \in {"approved", "success"}
                                  => payment'[p] = payment[p]
    PROVE  ReceiptsMatchPayments'
<1>1. ASSUME NEW b \in Booking  PROVE amountReceived'[b] = ReceiptsOf(b)'
    <2>1. Settled(b)' = Settled(b)
        BY DEF Settled
    <2>2. \A p \in Settled(b) : PaymentAmounts'[p] = PaymentAmounts[p]
        BY DEF Settled, PaymentAmounts
    <2>3. SumOver(PaymentAmounts', Settled(b)) = SumOver(PaymentAmounts, Settled(b))
        BY <2>2, UnitsSame
    <2>4. amountReceived[b] = SumOver(PaymentAmounts, Settled(b))
        BY DEF ReceiptsMatchPayments, PaymentAmounts
    <2>5. QED  BY <2>1, <2>3, <2>4 DEF ReceiptsOf
<1>2. QED  BY <1>1 DEF ReceiptsMatchPayments, ReceiptsOf, PaymentAmounts

(* A credited row becomes one of the settled rows of its own booking. *)
LEMMA CreditReceipts ==
    ASSUME IInv, ReceiptsMatchPayments, NEW p \in Payment, NEW s \in {"approved", "success"},
           Credit(p, s), payment[p].state \in {"pending", "checkout"}
    PROVE  ReceiptsMatchPayments'
<1>0. PICK q \in Booking, amount \in Nat : q = payment[p].booking /\ amount = payment[p].amount
    BY DEF IInv, TypeOK, PaymentRows
<1>1. /\ q \in Booking /\ amount \in Nat /\ amountReceived \in [Booking -> Nat]
      /\ amountReceived' = [amountReceived EXCEPT ![q] = @ + amount]
      /\ payment' = [payment EXCEPT ![p].state = s]
    BY <1>0 DEF Credit, ReceivePayment, IInv, TypeOK
<1>2. PaymentAmounts' = PaymentAmounts /\ \A x \in Payment : PaymentAmounts[x] \in Nat
    BY <1>1 DEF PaymentAmounts, IInv, TypeOK
<1>3. p \notin Settled(q) /\ PaymentAmounts[p] = amount
    BY <1>0 DEF Settled, PaymentAmounts
<1>4. /\ payment'[p].booking = q /\ payment'[p].state = s
      /\ \A x \in Payment \ {p} : payment'[x] = payment[x]
    BY <1>0, <1>1 DEF IInv, TypeOK
<1>5. Settled(q)' = Settled(q) \cup {p}
    BY <1>4 DEF Settled
<1>6. \A b \in Booking \ {q} : Settled(b)' = Settled(b)
    BY <1>0, <1>4 DEF Settled
<1>7. ASSUME NEW b \in Booking  PROVE amountReceived[b] = SumOver(PaymentAmounts, Settled(b))
    BY DEF ReceiptsMatchPayments, PaymentAmounts
<1> HIDE DEF PaymentAmounts
<1>8. IsFiniteSet(Settled(q)) /\ Settled(q) \subseteq Payment
    BY <1>1, ReceiptsType DEF IInv, Settled
<1>9. SumOver(PaymentAmounts, Settled(q) \cup {p}) = SumOver(PaymentAmounts, Settled(q)) + amount
    BY <1>2, <1>3, <1>8, SumAdd
<1>10. ASSUME NEW b \in Booking  PROVE amountReceived'[b] = ReceiptsOf(b)'
    <2>1. CASE b = q
        BY <2>1, <1>1, <1>2, <1>5, <1>7, <1>9 DEF ReceiptsOf
    <2>2. CASE b # q
        BY <2>2, <1>1, <1>2, <1>6, <1>7 DEF ReceiptsOf
    <2>3. QED  BY <2>1, <2>2
<1>11. QED  BY <1>10 DEF ReceiptsMatchPayments, ReceiptsOf, PaymentAmounts

LEMMA StepReceipts ==
    ASSUME IInv, ReceiptsMatchPayments, [Next]_vars
    PROVE  ReceiptsMatchPayments'
<1>1. CASE UNCHANGED <<amountReceived, payment>>
    BY <1>1, ReceiptsSame
<1>2. ASSUME NEW p \in Payment, NEW b \in Booking, NEW a \in PaymentAmount,
             RecordManual(p, b, a) \/ Initiate(p, b, a)
      PROVE  ReceiptsMatchPayments'
    <2>1. PICK s \in {"pending", "checkout"} : NewPayment(p, b, a, s)
        BY <1>2 DEF RecordManual, Initiate
    <2>2. QED  BY <2>1, ReceiptsSame DEF NewPayment, IInv, TypeOK
<1>3. ASSUME NEW p \in Payment, ApproveManual(p) \/ MarkSourcePaid(p)
      PROVE  ReceiptsMatchPayments'
    BY <1>3, CreditReceipts DEF ApproveManual, MarkSourcePaid, AwaitsApproval, AwaitsGateway
<1>4. ASSUME NEW p \in Payment, RejectManual(p)  PROVE ReceiptsMatchPayments'
    BY <1>4, ReceiptsSame DEF RejectManual, AwaitsApproval, IInv, TypeOK
<1>5. ASSUME NEW b \in Booking,
             \/ RemoveBooking(b) \/ MarkOverdue(b) \/ HoldExpires(b) \/ ReleaseExpiredHold(b)
             \/ \E t \in Tier, S \in SUBSET Pilgrim, plan \in BOOLEAN : CreateBooking(b, t, S, plan)
             \/ \E S \in SUBSET Pilgrim, c \in ChargePerPilgrim : Cancel(b, S, c)
      PROVE  ReceiptsMatchPayments'
    BY <1>1, <1>5
    DEF RemoveBooking, MarkOverdue, HoldExpires, ReleaseExpiredHold, CreateBooking, Cancel, moneyVars
<1>6. ASSUME NEW t \in Tier,
             (\E q \in Quota : UpdateTier(t, q)) \/ CheckRemoveTier(t) \/ CommitRemoveTier(t)
      PROVE  ReceiptsMatchPayments'
    BY <1>1, <1>6 DEF UpdateTier, CheckRemoveTier, CommitRemoveTier, moneyVars
<1>7. CASE ListExpiredHolds \/ RunEnds \/ UNCHANGED vars
    BY <1>1, <1>7 DEF ListExpiredHolds, RunEnds, ReleaseFails, vars, moneyVars
<1>8. ASSUME NEW r \in Refund,
             \/ \E b \in Booking, a \in RefundAmount : RequestRefund(r, b, a)
             \/ \E s \in RefundState : ProcessRefund(r, s)
      PROVE  ReceiptsMatchPayments'
    BY <1>1, <1>8 DEF RequestRefund, ProcessRefund
<1>9. QED
    BY <1>2, <1>3, <1>4, <1>5, <1>6, <1>7, <1>8 DEF Next, WorkOffList, RunEnds

(* What a booking has received is what its approved payments and successful *)
(* attempts add up to, for any number of them: none is credited twice, and  *)
(* none is credited to another booking.                                    *)
THEOREM ReceiptsAddUp == Spec => []ReceiptsMatchPayments
<1>1. Init => ReceiptsMatchPayments
    <2> SUFFICES ASSUME Init, NEW b \in Booking  PROVE amountReceived[b] = ReceiptsOf(b)
        BY DEF ReceiptsMatchPayments, ReceiptsOf, PaymentAmounts
    <2>1. Settled(b) = {}
        BY DEF Init, Settled, NoPayment
    <2>2. QED  BY <2>1, SumEmpty DEF Init, ReceiptsOf
<1>2. IInv /\ ReceiptsMatchPayments /\ [Next]_vars => ReceiptsMatchPayments'
    BY StepReceipts
<1>3. QED  BY <1>1, <1>2, InvariantHolds, PTL DEF Spec

----------------------------------------------------------------------------
(* Refund claims against receipts. *)

LEMMA ClaimsType ==
    ASSUME TypeOK, NEW b \in Booking
    PROVE  /\ IsFiniteSet(Claims(b)) /\ Claims(b) \subseteq Refund
           /\ \A r \in Refund : Claim[r] \in Nat
           /\ Claimed(b) \in Nat
<1>1. Claims(b) \in SUBSET Refund
    BY DEF Claims
<1>2. IsFiniteSet(Claims(b))
    BY <1>1, RowAssumption, FS_Subset
<1>3. \A r \in Refund : Claim[r] \in Nat
    BY DEF Claim, TypeOK
<1>4. Claimed(b) \in Nat
    BY <1>1, <1>2, <1>3, SumType DEF Claimed
<1>5. QED  BY <1>1, <1>2, <1>3, <1>4

LEMMA ClaimsWithin ==
    ClaimsWithinReceipts <=> \A b \in Booking : Claimed(b) <= amountReceived[b]
BY DEF ClaimsWithinReceipts, Claimed, Claims, Claim

(* Receipts never shrink, so claims that stay remain within them. *)
LEMMA ClaimsSame ==
    ASSUME IInv, IInv', ClaimsWithinReceipts, UNCHANGED refund,
           \A b \in Booking : amountReceived'[b] >= amountReceived[b]
    PROVE  ClaimsWithinReceipts'
<1>1. ASSUME NEW b \in Booking  PROVE (Claimed(b) <= amountReceived[b])'
    <2>1. Claimed(b)' = Claimed(b)
        BY DEF Claimed, Claims, Claim
    <2>2. Claimed(b) \in Nat /\ Claimed(b) <= amountReceived[b]
        BY ClaimsType, ClaimsWithin DEF IInv
    <2>3. amountReceived[b] \in Nat /\ amountReceived'[b] \in Nat
        BY DEF IInv, TypeOK
    <2>4. QED  BY <2>1, <2>2, <2>3
<1>2. QED  BY <1>1 DEF ClaimsWithinReceipts, Claimed, Claims, Claim

(* A new row is not yet among the claims of any booking. *)
UnusedRefunds == \A r \in Refund : refund[r].state = "none" => refund[r].booking = None

(* A claim is let in only with room for it and for the charges. *)
LEMMA RequestWithin ==
    ASSUME IInv, ClaimsWithinReceipts, UnusedRefunds,
           NEW r \in Refund, NEW q \in Booking, NEW a \in RefundAmount, RequestRefund(r, q, a)
    PROVE  ClaimsWithinReceipts'
<1>1. /\ refund' = [refund EXCEPT ![r] = [state |-> "requested", booking |-> q, amount |-> a]]
      /\ a + Claimed(q) + charges[q] <= amountReceived[q]
      /\ UNCHANGED amountReceived
      /\ refund[r].booking = None
    BY DEF RequestRefund, UnusedRefunds
<1>2. a \in Nat /\ charges[q] \in Nat /\ amountReceived[q] \in Nat /\ Claimed(q) \in Nat
    BY AmountAssumption, ClaimsType DEF IInv, TypeOK
<1>3. /\ refund'[r].booking = q /\ refund'[r].state = "requested" /\ Claim'[r] = a
      /\ \A x \in Refund \ {r} : refund'[x] = refund[x] /\ Claim'[x] = Claim[x]
    BY <1>1 DEF Claim, IInv, TypeOK
<1>4. \A b \in Booking : r \notin Claims(b)
    BY <1>1, NoneAssumption DEF Claims
<1>5. Claims(q)' = Claims(q) \cup {r} /\ \A b \in Booking \ {q} : Claims(b)' = Claims(b)
    BY <1>1, <1>3, NoneAssumption DEF Claims
<1>6. \A b \in Booking : SumOver(Claim', Claims(b)) = Claimed(b)
    <2> SUFFICES ASSUME NEW b \in Booking  PROVE SumOver(Claim', Claims(b)) = SumOver(Claim, Claims(b))
        BY DEF Claimed
    <2>1. \A x \in Claims(b) : Claim'[x] = Claim[x]
        BY <1>3, <1>4 DEF Claims
    <2>2. QED  BY <2>1, UnitsSame
<1>7. Claimed(q)' = Claimed(q) + a
    <2>1. IsFiniteSet(Claims(q)) /\ \A x \in Claims(q) \cup {r} : Claim'[x] \in Nat
        BY <1>2, <1>3, <1>4, ClaimsType DEF IInv
    <2>2. SumOver(Claim', Claims(q) \cup {r}) = SumOver(Claim', Claims(q)) + Claim'[r]
        BY <1>4, <2>1, SumAdd
    <2>3. QED  BY <1>3, <1>5, <1>6, <2>2 DEF Claimed
<1>8. ASSUME NEW b \in Booking  PROVE (Claimed(b) <= amountReceived[b])'
    <2>1. CASE b = q
        BY <2>1, <1>1, <1>2, <1>7
    <2>2. CASE b # q
        <3>1. Claimed(b)' = Claimed(b)
            BY <2>2, <1>5, <1>6 DEF Claimed
        <3>2. QED  BY <3>1, <1>1, ClaimsWithin
    <2>3. QED  BY <2>1, <2>2
<1>9. QED  BY <1>8 DEF ClaimsWithinReceipts, Claimed, Claims, Claim

(* Processing a claim keeps it, or rejects it. *)
LEMMA ProcessWithin ==
    ASSUME IInv, ClaimsWithinReceipts, NEW r \in Refund, NEW s \in RefundState, ProcessRefund(r, s)
    PROVE  ClaimsWithinReceipts'
<1>1. /\ refund[r].state \in {"requested", "approved", "processing"}
      /\ refund' = [refund EXCEPT ![r].state = s]
      /\ UNCHANGED amountReceived
    BY DEF ProcessRefund, Transitions
<1>2. Claim' = Claim /\ \A x \in Refund : refund'[x].booking = refund[x].booking
    BY <1>1 DEF Claim, IInv, TypeOK
<1>3. \A x \in Refund \ {r} : refund'[x].state = refund[x].state
    BY <1>1 DEF IInv, TypeOK
<1>4. ASSUME NEW b \in Booking  PROVE (Claimed(b) <= amountReceived[b])'
    <2>1. Claims(b)' \in SUBSET Claims(b)
        BY <1>1, <1>2, <1>3 DEF Claims
    <2>2. /\ IsFiniteSet(Claims(b)) /\ \A x \in Claims(b) : Claim[x] \in Nat
          /\ Claimed(b) \in Nat
        BY ClaimsType DEF IInv
    <2>3. SumOver(Claim, Claims(b)') <= SumOver(Claim, Claims(b))
        BY <2>1, <2>2, SumMonotonic
    <2>4. Claimed(b)' <= Claimed(b)
        BY <1>2, <2>3 DEF Claimed
    <2>5. Claimed(b)' \in Nat
        <3>1. IsFiniteSet(Claims(b)') /\ \A x \in Claims(b)' : Claim[x] \in Nat
            BY <2>1, <2>2, FS_Subset
        <3>2. SumOver(Claim, Claims(b)') \in Nat
            BY <3>1, SumType
        <3>3. QED  BY <1>2, <3>2 DEF Claimed
    <2>6. Claimed(b) <= amountReceived[b] /\ amountReceived[b] \in Nat
        BY ClaimsWithin DEF IInv, TypeOK
    <2>7. QED  BY <1>1, <2>2, <2>4, <2>5, <2>6
<1>5. QED  BY <1>4 DEF ClaimsWithinReceipts, Claimed, Claims, Claim

LEMMA StepUnused ==
    ASSUME IInv, UnusedRefunds, [Next]_vars
    PROVE  UnusedRefunds'
<1>1. CASE UNCHANGED refund
    BY <1>1 DEF UnusedRefunds
<1>2. ASSUME NEW r \in Refund, NEW b \in Booking, NEW a \in RefundAmount, RequestRefund(r, b, a)
      PROVE  UnusedRefunds'
    BY <1>2 DEF RequestRefund, UnusedRefunds, IInv, TypeOK
<1>3. ASSUME NEW r \in Refund, NEW s \in RefundState, ProcessRefund(r, s)  PROVE UnusedRefunds'
    BY <1>3 DEF ProcessRefund, Transitions, UnusedRefunds, IInv, TypeOK
<1>4. QED
    BY <1>1, <1>2, <1>3
    DEF Next, WorkOffList, ReleaseFails,
        UpdateTier, CheckRemoveTier, CommitRemoveTier, CreateBooking, RemoveBooking, Cancel,
        MarkOverdue, HoldExpires, ReleaseExpiredHold, ListExpiredHolds, RecordManual, Initiate,
        NewPayment, ApproveManual, MarkSourcePaid, Credit, ReceivePayment, RejectManual,
        vars, moneyVars

LEMMA StepWithin ==
    ASSUME IInv, IInv', ClaimsWithinReceipts, UnusedRefunds, [Next]_vars
    PROVE  ClaimsWithinReceipts'
<1>1. CASE UNCHANGED <<amountReceived, refund>>
    BY <1>1, ClaimsSame DEF IInv, TypeOK
<1>2. ASSUME NEW p \in Payment, ApproveManual(p) \/ MarkSourcePaid(p)
      PROVE  ClaimsWithinReceipts'
    <2>1. /\ UNCHANGED refund /\ payment[p].booking \in Booking /\ payment[p].amount \in Nat
          /\ amountReceived' = [amountReceived EXCEPT ![payment[p].booking] = @ + payment[p].amount]
        BY <1>2
        DEF ApproveManual, MarkSourcePaid, AwaitsApproval, AwaitsGateway, Credit, ReceivePayment,
            IInv, TypeOK, PaymentRows
    <2>2. \A b \in Booking : amountReceived'[b] >= amountReceived[b]
        BY <2>1 DEF IInv, TypeOK
    <2>3. QED  BY <2>1, <2>2, ClaimsSame
<1>3. ASSUME NEW r \in Refund, NEW b \in Booking, NEW a \in RefundAmount, RequestRefund(r, b, a)
      PROVE  ClaimsWithinReceipts'
    BY <1>3, RequestWithin
<1>4. ASSUME NEW r \in Refund, NEW s \in RefundState, ProcessRefund(r, s)
      PROVE  ClaimsWithinReceipts'
    BY <1>4, ProcessWithin
<1>5. QED
    BY <1>1, <1>2, <1>3, <1>4
    DEF Next, WorkOffList, ReleaseFails,
        UpdateTier, CheckRemoveTier, CommitRemoveTier, CreateBooking, RemoveBooking, Cancel,
        MarkOverdue, HoldExpires, ReleaseExpiredHold, ListExpiredHolds, RecordManual, Initiate,
        NewPayment, RejectManual, vars, moneyVars

(* The claims of a booking that were not rejected never add up to more than *)
(* it received, for any number of claims in any state of processing.       *)
THEOREM ClaimsStayWithin == Spec => []ClaimsWithinReceipts
<1>1. Init => ClaimsWithinReceipts /\ UnusedRefunds
    <2> SUFFICES ASSUME Init  PROVE ClaimsWithinReceipts /\ UnusedRefunds
        OBVIOUS
    <2>1. \A b \in Booking : Claims(b) = {}
        BY NoneAssumption DEF Init, Claims, NoRefund
    <2>2. \A b \in Booking : Claimed(b) <= amountReceived[b]
        BY <2>1, SumEmpty DEF Init, Claimed
    <2>3. QED  BY <2>2, ClaimsWithin DEF Init, UnusedRefunds, NoRefund
<1>2. IInv /\ IInv' /\ ClaimsWithinReceipts /\ UnusedRefunds /\ [Next]_vars
          => ClaimsWithinReceipts' /\ UnusedRefunds'
    BY StepWithin, StepUnused
<1>3. QED  BY <1>1, <1>2, InvariantHolds, PTL DEF Spec

----------------------------------------------------------------------------
(* Late receipts. *)

LateStep ==
    \A b \in Booking :
        /\ status[b] = "cancelled" => status'[b] = "cancelled" /\ b \notin openHolds'
        /\ b \in expired /\ status[b] = "held" => status'[b] \in {"held", "cancelled"}

(* A receipt never revives a cancelled booking nor confirms a late one. *)
LEMMA LateCredit ==
    ASSUME IInv, NEW p \in Payment, NEW s \in {"approved", "success"}, Credit(p, s),
           payment[p].state # "none"
    PROVE  LateStep
<1> DEFINE b == payment[p].booking
<1>1. \A c \in Booking : c \in openHolds <=> status[c] = "held"
    BY DEF IInv, HoldMatchesStatus
<1>2. status \in [Booking -> Status]
    BY DEF IInv, TypeOK
<1>3. CASE UNCHANGED seatVars
    BY <1>1, <1>3 DEF LateStep, seatVars
<1>4. CASE b \in openHolds /\ CloseHold(b) /\ status' = [status EXCEPT ![b] = "cancelled"]
    BY <1>1, <1>2, <1>4 DEF LateStep, CloseHold
<1>5. CASE /\ b \in openHolds /\ b \notin expired /\ CloseHold(b)
           /\ status' = [status EXCEPT ![b] = "confirmed"]
    BY <1>1, <1>2, <1>5 DEF LateStep, CloseHold
<1>6. QED  BY <1>3, <1>4, <1>5, CreditCases

LEMMA LateNext ==
    ASSUME IInv, Next
    PROVE  LateStep
<1>1. \A c \in Booking : c \in openHolds <=> status[c] = "held"
    BY DEF IInv, HoldMatchesStatus
<1>2. status \in [Booking -> Status]
    BY DEF IInv, TypeOK
<1>3. UNCHANGED seatVars => LateStep
    BY <1>1 DEF LateStep, seatVars
<1>4. ASSUME NEW b \in Booking, NEW t \in Tier, NEW S \in SUBSET Pilgrim, NEW plan \in BOOLEAN,
             CreateBooking(b, t, S, plan)
      PROVE  LateStep
    BY <1>1, <1>2, <1>4 DEF CreateBooking, LateStep
<1>5. ASSUME NEW b \in Booking, NEW S \in SUBSET Pilgrim, NEW c \in ChargePerPilgrim, Cancel(b, S, c)
      PROVE  LateStep
    BY <1>1, <1>2, <1>5 DEF Cancel, LateStep
<1>6. ASSUME NEW b \in Booking, MarkOverdue(b)  PROVE LateStep
    BY <1>1, <1>2, <1>6 DEF MarkOverdue, LateStep
<1>7. ASSUME NEW b \in Booking, ReleaseExpiredHold(b)  PROVE LateStep
    <2>1. CASE UNCHANGED seatVars
        BY <2>1, <1>3
    <2>2. CASE /\ openHolds' = openHolds \ {b}
               /\ status' = IF status[b] = "held" THEN [status EXCEPT ![b] = "cancelled"] ELSE status
        BY <2>2, <1>1, <1>2 DEF LateStep
    <2>3. QED  BY <1>7, <2>1, <2>2 DEF ReleaseExpiredHold
<1>8. ASSUME NEW p \in Payment, ApproveManual(p) \/ MarkSourcePaid(p)  PROVE LateStep
    BY <1>8, LateCredit DEF ApproveManual, MarkSourcePaid, AwaitsApproval, AwaitsGateway
<1>9. CASE UNCHANGED seatVars
    BY <1>9, <1>3
<1> HIDE DEF LateStep
<1>10. QED
    BY <1>4, <1>5, <1>6, <1>7, <1>8, <1>9
    DEF Next, WorkOffList, ReleaseFails,
        UpdateTier, CheckRemoveTier, CommitRemoveTier, RemoveBooking, HoldExpires,
        ListExpiredHolds, RecordManual, Initiate, NewPayment, RejectManual, RequestRefund, ProcessRefund

(* No receipt, whenever it arrives, seats a booking that is cancelled or   *)
(* whose hold has run out, for any number of bookings and any amounts.     *)
THEOREM LateReceipts == Spec => NoLateConfirmation
<1>1. IInv /\ [Next]_vars => [LateStep]_vars
    BY LateNext
<1>2. Spec => [][LateStep]_vars
    BY <1>1, InvariantHolds, PTL DEF Spec
<1>3. QED  BY <1>2 DEF NoLateConfirmation, LateStep

----------------------------------------------------------------------------
(* The seat inventory. *)

heldMap == [t \in Tier |-> HeldPilgrims(t)]
soldMap == [t \in Tier |-> ConfirmedPilgrims(t)]
seenSet == UNION {pilgrims[b] : b \in Booking}

(* An active pilgrim of a booking is seated nowhere but by that booking. *)
LEMMA SeatedOnce ==
    ASSUME IInv, NEW b \in Booking, NEW t \in Tier, NEW S \in SUBSET active[b]
    PROVE  /\ (HeldPilgrims(t) \ HeldOf(b)) \cap S = {}
           /\ (ConfirmedPilgrims(t) \ ConfirmedOf(b)) \cap S = {}
<1>1. \A c \in Booking \ {b} : active[c] \cap active[b] = {}
    BY DEF IInv, Rows
<1>2. (HeldPilgrims(t) \ HeldOf(b)) \cap S = {}
    BY <1>1 DEF HeldPilgrims, HeldOf, IInv, TypeOK
<1>3. (ConfirmedPilgrims(t) \ ConfirmedOf(b)) \cap S = {}
    BY <1>1 DEF ConfirmedPilgrims, Confirmed, ConfirmedOf
<1>4. QED  BY <1>2, <1>3

(* The mapped variables when one booking's seats of tier t move. *)
LEMMA MappedStep ==
    ASSUME IInv, NEW b \in Booking, NEW t \in Tier, OnlyBooking(b, t)
    PROVE  /\ heldMap' = [heldMap EXCEPT ![t] = (@ \ HeldOf(b)) \cup HeldOf(b)']
           /\ soldMap' = [soldMap EXCEPT ![t] = (@ \ ConfirmedOf(b)) \cup ConfirmedOf(b)']
BY OneBookingSets DEF heldMap, soldMap

(* The inventory counts with the same operator. *)
LEMMA SameCardinality == ASSUME NEW S PROVE Inventory!Cardinality(S) = Cardinality(S)
BY DEF Inventory!Cardinality, Cardinality, Inventory!IsFiniteSet, IsFiniteSet

LEMMA MappedInit ==
    ASSUME Init
    PROVE  Inventory!Init
<1>1. seatsTotal \in [Tier -> Nat]
    BY InitIInv DEF IInv, TypeOK
<1>2. \A t \in Tier : HeldPilgrims(t) = {} /\ ConfirmedPilgrims(t) = {}
    BY DEF Init, HeldPilgrims, ConfirmedPilgrims, Confirmed
<1>3. seenSet = {}
    BY DEF Init, seenSet
<1>4. QED  BY <1>1, <1>2, <1>3 DEF Inventory!Init, seenSet

(* A new booking reserves its pilgrims, none of whom was seated before. *)
LEMMA CreateReserves ==
    ASSUME IInv, NEW b \in Booking, NEW t \in Tier, NEW S \in SUBSET Pilgrim, NEW plan \in BOOLEAN,
           CreateBooking(b, t, S, plan)
    PROVE  Inventory!Reserve(t, S)
<1>1. /\ heldMap' = [heldMap EXCEPT ![t] = @ \cup S]
      /\ soldMap' = soldMap
    <2>1. /\ OnlyBooking(b, t) /\ HeldOf(b) = {} /\ HeldOf(b)' = S
          /\ ConfirmedOf(b) = {} /\ ConfirmedOf(b)' = {}
        BY CreateBookingSeats
    <2>2. /\ heldMap' = [heldMap EXCEPT ![t] = (@ \ {}) \cup S]
          /\ soldMap' = [soldMap EXCEPT ![t] = (@ \ {}) \cup {}]
        BY <2>1, MappedStep
    <2>3. heldMap[t] \ {} = heldMap[t] /\ (soldMap[t] \ {}) \cup {} = soldMap[t]
        OBVIOUS
    <2>4. QED  BY <2>2, <2>3 DEF heldMap, soldMap
<1>2. S # {} /\ S \cap seenSet = {} /\ seenSet' = seenSet \cup S
    <2>1. status[b] = "none" /\ pilgrims[b] = {} /\ pilgrims' = [pilgrims EXCEPT ![b] = S]
        BY DEF CreateBooking, IInv, Rows
    <2>2. seenSet' = seenSet \cup S
        BY <2>1 DEF seenSet, IInv, TypeOK
    <2>3. QED  BY <2>2 DEF CreateBooking, FreshPilgrims, seenSet
<1>3. Cardinality(heldMap[t]) + Cardinality(soldMap[t]) + Cardinality(S) <= seatsTotal[t]
    <2>1. heldMap[t] = HeldPilgrims(t) /\ soldMap[t] = ConfirmedPilgrims(t)
        BY DEF heldMap, soldMap
    <2>2. /\ seatsHeld[t] = Cardinality(HeldPilgrims(t)) /\ seatsHeld[t] \in Nat
          /\ seatsConfirmed[t] = Cardinality(ConfirmedPilgrims(t)) /\ seatsConfirmed[t] \in Nat
          /\ seatsTotal[t] \in Nat /\ Cardinality(S) \in Nat
        BY CardinalityOfPilgrims DEF IInv, SeatLedger, TypeOK
    <2>3. seatsTotal[t] - seatsConfirmed[t] - seatsHeld[t] >= Cardinality(S)
        BY DEF CreateBooking, SeatsAvailable
    <2>4. QED  BY <2>1, <2>2, <2>3
<1>4. seatsTotal' = seatsTotal
    BY DEF CreateBooking, tierVars
<1>5. QED
    BY <1>1, <1>2, <1>3, <1>4, SameCardinality
    DEF Inventory!Reserve, Inventory!Seated, heldMap, soldMap, seenSet

(* Pilgrims of one booking lose their seats, or there were none to lose. *)
LEMMA GivesBack ==
    ASSUME IInv, NEW b \in Booking, NEW t \in Tier, OnlyBooking(b, t),
           NEW S \in SUBSET Pilgrim, S \subseteq HeldOf(b) \cup ConfirmedOf(b),
           HeldOf(b)' = HeldOf(b) \ S, ConfirmedOf(b)' = ConfirmedOf(b) \ S,
           UNCHANGED <<seatsTotal, pilgrims>>
    PROVE  Inventory!GiveBack(t, S) \/ UNCHANGED <<seatsTotal, heldMap, soldMap, seenSet>>
<1>1. S \in SUBSET active[b]
    BY DEF HeldOf, ConfirmedOf
<1>2. /\ HeldOf(b) \subseteq HeldPilgrims(t) /\ ConfirmedOf(b) \subseteq ConfirmedPilgrims(t)
      /\ (HeldPilgrims(t) \ HeldOf(b)) \cap S = {}
      /\ (ConfirmedPilgrims(t) \ ConfirmedOf(b)) \cap S = {}
    BY <1>1, SeatedOnce, OneBookingSets
<1>3. /\ (HeldPilgrims(t) \ HeldOf(b)) \cup (HeldOf(b) \ S) = HeldPilgrims(t) \ S
      /\ (ConfirmedPilgrims(t) \ ConfirmedOf(b)) \cup (ConfirmedOf(b) \ S) = ConfirmedPilgrims(t) \ S
      /\ S \subseteq HeldPilgrims(t) \cup ConfirmedPilgrims(t)
    BY <1>2
<1>4. heldMap[t] = HeldPilgrims(t) /\ soldMap[t] = ConfirmedPilgrims(t)
    BY DEF heldMap, soldMap
<1>5. /\ heldMap' = [heldMap EXCEPT ![t] = @ \ S]
      /\ soldMap' = [soldMap EXCEPT ![t] = @ \ S]
    BY <1>3, <1>4, MappedStep
<1>6. seenSet' = seenSet
    BY DEF seenSet
<1>7. CASE S = {}
    <2>1. heldMap[t] \ S = heldMap[t] /\ soldMap[t] \ S = soldMap[t]
        BY <1>7
    <2>2. heldMap' = heldMap /\ soldMap' = soldMap
        BY <1>5, <2>1 DEF heldMap, soldMap
    <2>3. QED  BY <2>2, <1>6
<1>8. CASE S # {}
    BY <1>3, <1>5, <1>6, <1>8 DEF Inventory!GiveBack, heldMap, soldMap, seenSet
<1>9. QED  BY <1>7, <1>8

(* Confirming a booking sells the seats of its hold. *)
LEMMA ConfirmSells ==
    ASSUME IInv, NEW b \in Booking, b \in openHolds, CloseHold(b),
           seatsConfirmed' = [seatsConfirmed EXCEPT ![tierOf[b]] = @ + holdSeats[b]],
           status' = [status EXCEPT ![b] = "confirmed"],
           UNCHANGED <<seatsTotal, active, holdSeats, rowVars>>
    PROVE  \/ Inventory!Sell(tierOf[b], active[b])
           \/ UNCHANGED <<seatsTotal, heldMap, soldMap, seenSet>>
<1> DEFINE t == tierOf[b]
           S == active[b]
<1>1. /\ t \in Tier /\ OnlyBooking(b, t)
      /\ HeldOf(b) = S /\ HeldOf(b)' = {} /\ ConfirmedOf(b) = {} /\ ConfirmedOf(b)' = S
    BY ConfirmSeats
<1> HIDE DEF t
<1>2. /\ heldMap' = [heldMap EXCEPT ![t] = (@ \ S) \cup {}]
      /\ soldMap' = [soldMap EXCEPT ![t] = (@ \ {}) \cup S]
    BY <1>1, MappedStep
<1>3. S \subseteq HeldPilgrims(t)
    BY <1>1, OneBookingSets
<1>4. heldMap[t] = HeldPilgrims(t) /\ soldMap[t] = ConfirmedPilgrims(t)
    BY <1>1 DEF heldMap, soldMap
<1>5. /\ (heldMap[t] \ S) \cup {} = heldMap[t] \ S
      /\ (soldMap[t] \ {}) \cup S = soldMap[t] \cup S
    OBVIOUS
<1>6. /\ heldMap' = [heldMap EXCEPT ![t] = @ \ S]
      /\ soldMap' = [soldMap EXCEPT ![t] = @ \cup S]
    BY <1>2, <1>5
<1>7. seenSet' = seenSet
    BY DEF seenSet, rowVars
<1>8. CASE S = {}
    <2>1. heldMap[t] \ S = heldMap[t] /\ soldMap[t] \cup S = soldMap[t]
        BY <1>8
    <2>2. heldMap' = heldMap /\ soldMap' = soldMap
        BY <1>6, <2>1 DEF heldMap, soldMap
    <2>3. QED  BY <2>2, <1>7
<1>9. CASE S # {}
    <2>1. Inventory!Sell(t, S)
        BY <1>1, <1>3, <1>6, <1>7, <1>9 DEF Inventory!Sell, heldMap, soldMap, seenSet
    <2>2. QED  BY <2>1 DEF t
<1>10. QED  BY <1>8, <1>9

(* A quota edit leaves room for the pilgrims already seated. *)
LEMMA UpdateResizes ==
    ASSUME IInv, NEW t \in Tier, NEW q \in Quota, UpdateTier(t, q)
    PROVE  Inventory!Resize(t)
<1>1. /\ \A u \in Tier : /\ HeldPilgrims(u)' = HeldPilgrims(u)
                         /\ ConfirmedPilgrims(u)' = ConfirmedPilgrims(u)
    BY OtherSeats DEF UpdateTier
<1>2. heldMap' = heldMap /\ soldMap' = soldMap
    BY <1>1 DEF heldMap, soldMap
<1>3. seenSet' = seenSet
    BY DEF UpdateTier, rowVars, seenSet
<1>4. seatsTotal' = [seatsTotal EXCEPT ![t] = q] /\ q \in Nat /\ seatsTotal \in [Tier -> Nat]
    BY AmountAssumption DEF UpdateTier, IInv, TypeOK
<1>5. heldMap[t] = HeldPilgrims(t) /\ soldMap[t] = ConfirmedPilgrims(t)
    BY DEF heldMap, soldMap
<1>6. q >= Cardinality(heldMap[t]) + Cardinality(soldMap[t])
    <2>1. /\ seatsHeld[t] = Cardinality(HeldPilgrims(t)) /\ seatsHeld[t] \in Nat
          /\ seatsConfirmed[t] = Cardinality(ConfirmedPilgrims(t)) /\ seatsConfirmed[t] \in Nat
        BY DEF IInv, SeatLedger, TypeOK
    <2>2. q >= seatsConfirmed[t] + seatsHeld[t]
        BY DEF UpdateTier, QuotaFloor
    <2>3. QED  BY <2>1, <2>2, <1>4, <1>5
<1>7. /\ seatsTotal' \in [Tier -> Nat] /\ seatsTotal'[t] = q
      /\ \A u \in Tier \ {t} : seatsTotal'[u] = seatsTotal[u]
    BY <1>4
<1>8. QED
    BY <1>2, <1>3, <1>6, <1>7, SameCardinality
    DEF Inventory!Resize, Inventory!Seated, heldMap, soldMap, seenSet

mapped == <<seatsTotal, heldMap, soldMap, seenSet>>

InventoryStep == Inventory!Next \/ UNCHANGED mapped

LEMMA SeatsAloneStutter ==
    ASSUME IInv, UNCHANGED <<seatsTotal, rowVars, seatVars>>
    PROVE  UNCHANGED mapped
BY OtherSeats DEF mapped, heldMap, soldMap, seenSet, rowVars

(* Both ways a hold ends with its booking cancelled give its seats back. *)
LEMMA CloseHoldGivesBack ==
    ASSUME IInv, NEW b \in Booking, b \in openHolds, CloseHold(b),
           status' = [status EXCEPT ![b] = "cancelled"],
           UNCHANGED <<seatsTotal, seatsConfirmed, active, holdSeats, rowVars>>
    PROVE  InventoryStep
<1>1. /\ tierOf[b] \in Tier /\ OnlyBooking(b, tierOf[b])
      /\ HeldOf(b) = active[b] /\ HeldOf(b)' = {} /\ ConfirmedOf(b) = {} /\ ConfirmedOf(b)' = {}
    BY CloseHoldSeats
<1>2. active[b] \in SUBSET Pilgrim
    BY DEF IInv, TypeOK
<1>3. Inventory!GiveBack(tierOf[b], active[b]) \/ UNCHANGED <<seatsTotal, heldMap, soldMap, seenSet>>
    BY <1>1, <1>2, GivesBack DEF rowVars
<1>4. QED
    BY <1>1, <1>2, <1>3 DEF InventoryStep, Inventory!Next, mapped

LEMMA CreditMaps ==
    ASSUME IInv, NEW p \in Payment, NEW s \in {"approved", "success"}, Credit(p, s),
           payment[p].state # "none"
    PROVE  InventoryStep
<1> DEFINE b == payment[p].booking
<1>1. b \in Booking /\ UNCHANGED <<seatsTotal, active, holdSeats, rowVars>>
    BY CreditCases
<1>2. CASE UNCHANGED seatVars
    BY <1>1, <1>2, SeatsAloneStutter DEF InventoryStep
<1>3. CASE /\ b \in openHolds /\ CloseHold(b) /\ status' = [status EXCEPT ![b] = "cancelled"]
           /\ UNCHANGED seatsConfirmed
    BY <1>1, <1>3, CloseHoldGivesBack
<1>4. CASE /\ b \in openHolds /\ CloseHold(b) /\ status' = [status EXCEPT ![b] = "confirmed"]
           /\ seatsConfirmed' = [seatsConfirmed EXCEPT ![tierOf[b]] = @ + holdSeats[b]]
    <2>1. Inventory!Sell(tierOf[b], active[b]) \/ UNCHANGED <<seatsTotal, heldMap, soldMap, seenSet>>
        BY <1>1, <1>4, ConfirmSells
    <2>2. tierOf[b] \in Tier /\ active[b] \in SUBSET Pilgrim
        BY <1>1, <1>4, ConfirmSeats DEF IInv, TypeOK
    <2>3. QED
        BY <2>1, <2>2 DEF InventoryStep, Inventory!Next, mapped
<1>5. QED  BY <1>2, <1>3, <1>4, CreditCases

LEMMA ReleaseMaps ==
    ASSUME IInv, NEW b \in Booking, ReleaseExpiredHold(b)
    PROVE  InventoryStep
<1>1. CASE b \notin openHolds
    BY <1>1, SeatsAloneStutter DEF ReleaseExpiredHold, HoldStillOpen, tierVars, InventoryStep
<1>2. CASE b \in openHolds
    <2>1. status[b] = "held"
        BY <1>2 DEF IInv, HoldMatchesStatus
    <2>2. CloseHold(b) /\ status' = [status EXCEPT ![b] = "cancelled"]
        BY <1>2, <2>1 DEF ReleaseExpiredHold, CloseHold, HoldStillOpen, SeatsToRelease
    <2>3. QED
        BY <1>2, <2>2, CloseHoldGivesBack DEF ReleaseExpiredHold, HoldStillOpen, tierVars, rowVars
<1>3. QED  BY <1>1, <1>2

LEMMA CancelMaps ==
    ASSUME IInv, NEW b \in Booking, NEW S \in SUBSET Pilgrim, NEW c \in ChargePerPilgrim,
           Cancel(b, S, c)
    PROVE  InventoryStep
<1>1. /\ tierOf[b] \in Tier /\ OnlyBooking(b, tierOf[b])
      /\ HeldOf(b)' = HeldOf(b) \ S /\ ConfirmedOf(b)' = ConfirmedOf(b) \ S
      /\ S \subseteq HeldOf(b) \cup ConfirmedOf(b)
    BY CancelSeats
<1>2. UNCHANGED <<seatsTotal, pilgrims>>
    BY DEF Cancel, tierVars, rowVars
<1>3. Inventory!GiveBack(tierOf[b], S) \/ UNCHANGED <<seatsTotal, heldMap, soldMap, seenSet>>
    BY <1>1, <1>2, GivesBack
<1>4. QED
    BY <1>1, <1>3 DEF InventoryStep, Inventory!Next, mapped

(* Falling behind with installments moves no seat. *)
LEMMA MarkOverdueMaps ==
    ASSUME IInv, NEW b \in Booking, MarkOverdue(b)
    PROVE  InventoryStep
<1>1. /\ tierOf[b] \in Tier /\ OnlyBooking(b, tierOf[b])
      /\ HeldOf(b)' = HeldOf(b) \ {} /\ ConfirmedOf(b)' = ConfirmedOf(b) \ {}
    BY MarkOverdueSeats
<1>2. UNCHANGED <<seatsTotal, pilgrims>>
    BY DEF MarkOverdue, tierVars, rowVars
<1>3. Inventory!GiveBack(tierOf[b], {}) \/ UNCHANGED <<seatsTotal, heldMap, soldMap, seenSet>>
    BY <1>1, <1>2, GivesBack
<1>4. QED
    BY <1>1, <1>3 DEF InventoryStep, Inventory!Next, mapped

LEMMA MappedNext ==
    ASSUME IInv, Next
    PROVE  InventoryStep
<1>1. ASSUME NEW t \in Tier, NEW q \in Quota, UpdateTier(t, q)  PROVE InventoryStep
    BY <1>1, UpdateResizes DEF InventoryStep, Inventory!Next
<1>2. ASSUME NEW b \in Booking, NEW t \in Tier, NEW S \in SUBSET Pilgrim, NEW plan \in BOOLEAN,
             CreateBooking(b, t, S, plan)
      PROVE  InventoryStep
    BY <1>2, CreateReserves DEF InventoryStep, Inventory!Next
<1>3. CASE UNCHANGED <<seatsTotal, rowVars, seatVars>>
    BY <1>3, SeatsAloneStutter DEF InventoryStep
<1>4. ASSUME NEW b \in Booking, NEW S \in SUBSET Pilgrim, NEW c \in ChargePerPilgrim, Cancel(b, S, c)
      PROVE  InventoryStep
    BY <1>4, CancelMaps
<1>5. ASSUME NEW b \in Booking, MarkOverdue(b)  PROVE InventoryStep
    BY <1>5, MarkOverdueMaps
<1>6. ASSUME NEW b \in Booking, ReleaseExpiredHold(b)  PROVE InventoryStep
    BY <1>6, ReleaseMaps
<1>7. ASSUME NEW p \in Payment, ApproveManual(p) \/ MarkSourcePaid(p)  PROVE InventoryStep
    BY <1>7, CreditMaps DEF ApproveManual, MarkSourcePaid, AwaitsApproval, AwaitsGateway
<1>8. QED
    BY <1>1, <1>2, <1>3, <1>4, <1>5, <1>6, <1>7
    DEF Next, WorkOffList, ReleaseFails,
        CheckRemoveTier, CommitRemoveTier, RemoveBooking, HoldExpires, ListExpiredHolds,
        RecordManual, Initiate, NewPayment, RejectManual, RequestRefund, ProcessRefund, tierVars

(* The booking service implements the seat inventory: with the counters,   *)
(* holds, bookings and receipts left out, it only ever reserves fresh      *)
(* pilgrims within the quota, sells from holds, gives seats back and       *)
(* resizes a tier to no less than it has seated.                           *)
THEOREM Refinement == Spec => ImplementsInventory
<1>1. Init => Inventory!Init
    BY MappedInit
<1>2. IInv /\ [Next]_vars => [Inventory!Next]_Inventory!inventory
    <2>1. CASE IInv /\ Next
        BY <2>1, MappedNext DEF InventoryStep, Inventory!inventory, mapped, heldMap, soldMap, seenSet
    <2>2. CASE IInv /\ UNCHANGED vars
        BY <2>2, SeatsAloneStutter
        DEF vars, tierVars, Inventory!inventory, mapped, heldMap, soldMap, seenSet
    <2>3. QED  BY <2>1, <2>2
<1>3. QED
    BY <1>1, <1>2, InvariantHolds, PTL DEF Spec, ImplementsInventory, Inventory!Spec
=============================================================================
