--------------------------- MODULE SeatInventory ---------------------------
(***************************************************************************)
(* What the booking service promises about the seats of a package tier,    *)
(* with no bookings, holds, payments or counters in sight.  A pilgrim is    *)
(* seated at most once in a lifetime: held first, sold only from a hold,   *)
(* and gone for good once given back.  A tier never seats more pilgrims    *)
(* than its quota.  Booking.tla is shown to implement this module.         *)
(***************************************************************************)
EXTENDS Integers, FiniteSets

CONSTANTS Tier,      \* package tiers
          Pilgrim    \* pilgrim rows

VARIABLES capacity,  \* capacity[t]: the quota of t
          heldFor,   \* heldFor[t]: pilgrims with a seat of t on hold
          soldTo,    \* soldTo[t]: pilgrims with a confirmed seat of t
          seen       \* pilgrims that were ever given a seat

inventory == <<capacity, heldFor, soldTo, seen>>

Seated(t) == Cardinality(heldFor[t]) + Cardinality(soldTo[t])

Init ==
    /\ capacity \in [Tier -> Nat]
    /\ heldFor = [t \in Tier |-> {}]
    /\ soldTo = [t \in Tier |-> {}]
    /\ seen = {}

Reserve(t, S) ==
    /\ S # {} /\ S \cap seen = {}
    /\ Seated(t) + Cardinality(S) <= capacity[t]
    /\ heldFor' = [heldFor EXCEPT ![t] = @ \cup S]
    /\ seen' = seen \cup S
    /\ UNCHANGED <<capacity, soldTo>>

Sell(t, S) ==
    /\ S # {} /\ S \subseteq heldFor[t]
    /\ heldFor' = [heldFor EXCEPT ![t] = @ \ S]
    /\ soldTo' = [soldTo EXCEPT ![t] = @ \cup S]
    /\ UNCHANGED <<capacity, seen>>

GiveBack(t, S) ==
    /\ S # {} /\ S \subseteq heldFor[t] \cup soldTo[t]
    /\ heldFor' = [heldFor EXCEPT ![t] = @ \ S]
    /\ soldTo' = [soldTo EXCEPT ![t] = @ \ S]
    /\ UNCHANGED <<capacity, seen>>

Resize(t) ==
    /\ capacity' \in [Tier -> Nat]
    /\ capacity'[t] >= Seated(t)
    /\ \A u \in Tier \ {t} : capacity'[u] = capacity[u]
    /\ UNCHANGED <<heldFor, soldTo, seen>>

Next ==
    \E t \in Tier :
        \/ \E S \in SUBSET Pilgrim : Reserve(t, S) \/ Sell(t, S) \/ GiveBack(t, S)
        \/ Resize(t)

Spec == Init /\ [][Next]_inventory
=============================================================================
