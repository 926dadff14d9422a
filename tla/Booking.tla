------------------------------ MODULE Booking ------------------------------
(***************************************************************************)
(* Bookings of one agency (one tenant schema): seats of package tiers,     *)
(* holds and their expiry, receipts, cancellation, refund claims and the   *)
(* removal of tiers and bookings.  Source: backend/src/booking and the      *)
(* payment approval of backend/src/accounts.                               *)
(*                                                                         *)
(* A service method that runs in one transaction is one action: each takes *)
(* the row lock of its booking (or, for a new booking, of its tier) before  *)
(* it reads anything it decides on, in the order booking, then tier.  What *)
(* the code reads outside a lock is a step of its own: the list of expired *)
(* holds (ListExpiredHolds) and the seat check of removeTier.               *)
(*                                                                         *)
(* A pilgrim row is an element of Pilgrim, so the counters of the code can *)
(* be compared with sets.  Amounts are whole cents.                        *)
(***************************************************************************)
EXTENDS Amounts, FiniteSetsExt

CONSTANTS
    Tier, Booking, Pilgrim,  \* rows of package_tiers, bookings, booking_pilgrims
    Payment,                 \* rows of manual_payments and payment_attempts
    Refund,                  \* rows of refund_requests
    None,                    \* the reference of a row that does not exist yet
    Price,                   \* price of one pilgrim, frozen when the booking is made
    ChargePerPilgrim,        \* cancellation charges per pilgrim: rule percentage plus vendor cost
    Quota,                   \* quotas staff may set
    PaymentAmount,           \* amounts of a receipt
    RefundAmount,            \* amounts of a refund claim
    MaxPilgrims              \* the package's limit of pilgrims per booking

ASSUME NoneAssumption == None \notin Tier /\ None \notin Booking
ASSUME PilgrimAssumption == IsFiniteSet(Pilgrim)
ASSUME RowAssumption == IsFiniteSet(Payment) /\ IsFiniteSet(Refund)
ASSUME AmountAssumption ==
    /\ Price \in Nat \ {0} /\ MaxPilgrims \in Nat \ {0}
    /\ ChargePerPilgrim \subseteq Nat /\ Quota \subseteq Nat
    /\ PaymentAmount \subseteq Nat \ {0} /\ RefundAmount \subseteq Nat \ {0}

VARIABLES
    seatsTotal, seatsHeld, seatsConfirmed,  \* the counters of a tier
    deletedTiers,      \* tiers that are soft-deleted
    removing,          \* tiers whose removal has passed its check and not yet been written
    status,            \* booking status, "none" before the row exists
    tierOf,            \* the tier a booking belongs to
    pilgrims,          \* the pilgrim rows of a booking
    active,            \* those of them not cancelled
    hasPlan,           \* bookings with an installment plan
    amountReceived,    \* gross receipts of a booking
    charges,           \* sum of its cancellation charges
    archived,          \* bookings that are soft-deleted
    openHolds,         \* bookings whose hold is open
    holdSeats,         \* seats of the hold, kept after it closes
    expired,           \* bookings whose hold is past expiresAt
    listed,            \* seats of a hold as the release job's list read them, 0 if not listed
    payment,           \* receipts on their way
    refund             \* refund claims

tierVars == <<seatsTotal, deletedTiers, removing>>
rowVars == <<tierOf, pilgrims, hasPlan>>
seatVars == <<seatsHeld, seatsConfirmed, status, active, openHolds, holdSeats>>
moneyVars == <<amountReceived, charges, payment, refund>>
jobVars == <<expired, listed>>
vars == <<tierVars, rowVars, seatVars, moneyVars, jobVars, archived>>

Status == {"none", "held", "confirmed", "defaulted", "cancelled"}
PaymentState == {"none", "pending", "approved", "rejected", "checkout", "success"}
RefundState == {"none", "requested", "approved", "processing", "paid", "rejected"}
NoPayment == [state |-> "none", booking |-> None, amount |-> 0]
NoRefund == [state |-> "none", booking |-> None, amount |-> 0]

TypeOK ==
    /\ seatsTotal \in [Tier -> Nat]
    /\ seatsHeld \in [Tier -> Nat]
    /\ seatsConfirmed \in [Tier -> Nat]
    /\ deletedTiers \subseteq Tier
    /\ removing \subseteq Tier
    /\ status \in [Booking -> Status]
    /\ tierOf \in [Booking -> Tier \cup {None}]
    /\ pilgrims \in [Booking -> SUBSET Pilgrim]
    /\ active \in [Booking -> SUBSET Pilgrim]
    /\ hasPlan \subseteq Booking
    /\ amountReceived \in [Booking -> Nat]
    /\ charges \in [Booking -> Nat]
    /\ archived \subseteq Booking
    /\ openHolds \subseteq Booking
    /\ holdSeats \in [Booking -> Nat]
    /\ expired \subseteq Booking
    /\ listed \in [Booking -> Nat]
    /\ payment \in [Payment -> [state : PaymentState, booking : Booking \cup {None}, amount : Nat]]
    /\ refund \in [Refund -> [state : RefundState, booking : Booking \cup {None}, amount : Nat]]

Init ==
    /\ seatsTotal \in [Tier -> Quota]
    /\ seatsHeld = [t \in Tier |-> 0]
    /\ seatsConfirmed = [t \in Tier |-> 0]
    /\ deletedTiers = {}
    /\ removing = {}
    /\ status = [b \in Booking |-> "none"]
    /\ tierOf = [b \in Booking |-> None]
    /\ pilgrims = [b \in Booking |-> {}]
    /\ active = [b \in Booking |-> {}]
    /\ hasPlan = {}
    /\ amountReceived = [b \in Booking |-> 0]
    /\ charges = [b \in Booking |-> 0]
    /\ archived = {}
    /\ openHolds = {}
    /\ holdSeats = [b \in Booking |-> 0]
    /\ expired = {}
    /\ listed = [b \in Booking |-> 0]
    /\ payment = [p \in Payment |-> NoPayment]
    /\ refund = [r \in Refund |-> NoRefund]

----------------------------------------------------------------------------
(* Staff edit tiers. *)

\* Mutant of QuotaFloor: seats on hold are forgotten.
QuotaFloorWithoutHolds(t) == seatsConfirmed[t]

QuotaFloor(t) == seatsConfirmed[t] + seatsHeld[t]

UpdateTier(t, q) ==
    /\ t \notin deletedTiers
    /\ q >= QuotaFloor(t)
    /\ seatsTotal' = [seatsTotal EXCEPT ![t] = q]
    /\ UNCHANGED <<deletedTiers, removing, rowVars, seatVars, moneyVars, jobVars, archived>>

(* removeTier reads the counters without a lock ... *)
CheckRemoveTier(t) ==
    /\ t \notin deletedTiers
    /\ seatsConfirmed[t] = 0 /\ seatsHeld[t] = 0
    /\ removing' = removing \cup {t}
    /\ UNCHANGED <<seatsTotal, deletedTiers, rowVars, seatVars, moneyVars, jobVars, archived>>

(* ... and writes the deletion whatever has happened since. *)
CommitRemoveTier(t) ==
    /\ t \in removing
    /\ removing' = removing \ {t}
    /\ deletedTiers' = deletedTiers \cup {t}
    /\ UNCHANGED <<seatsTotal, rowVars, seatVars, moneyVars, jobVars, archived>>

----------------------------------------------------------------------------
(* With the soft-delete filter on, a query that reaches a booking, or a row *)
(* of a booking and its tier such as the hold, finds nothing if one of them *)
(* is deleted: findOne answers null and findOneOrFail throws, which rolls   *)
(* the transaction back.                                                   *)
Findable(b) == b \notin archived /\ tierOf[b] \notin deletedTiers

----------------------------------------------------------------------------
(* Bookings are made. *)

\* Mutant of SeatsAvailable: only confirmed seats count against the quota.
SeatsAvailableWithoutHolds(t) == seatsTotal[t] - seatsConfirmed[t]

SeatsAvailable(t) == seatsTotal[t] - seatsConfirmed[t] - seatsHeld[t]

FreshPilgrims == Pilgrim \ UNION {pilgrims[b] : b \in Booking}

(* The package is in its booking window; `plan` is the installment mode. *)
CreateBooking(b, t, S, plan) ==
    /\ status[b] = "none"
    /\ t \notin deletedTiers
    /\ S # {} /\ S \subseteq FreshPilgrims
    /\ Cardinality(S) <= MaxPilgrims
    /\ SeatsAvailable(t) >= Cardinality(S)
    /\ status' = [status EXCEPT ![b] = "held"]
    /\ tierOf' = [tierOf EXCEPT ![b] = t]
    /\ pilgrims' = [pilgrims EXCEPT ![b] = S]
    /\ active' = [active EXCEPT ![b] = S]
    /\ hasPlan' = IF plan THEN hasPlan \cup {b} ELSE hasPlan
    /\ openHolds' = openHolds \cup {b}
    /\ holdSeats' = [holdSeats EXCEPT ![b] = Cardinality(S)]
    /\ seatsHeld' = [seatsHeld EXCEPT ![t] = @ + Cardinality(S)]
    /\ UNCHANGED <<tierVars, seatsConfirmed, moneyVars, jobVars, archived>>

(* removeBooking: no check of status, no seat released. *)
RemoveBooking(b) ==
    /\ status[b] # "none" /\ Findable(b)
    /\ archived' = archived \cup {b}
    /\ UNCHANGED <<tierVars, rowVars, seatVars, moneyVars, jobVars>>

----------------------------------------------------------------------------
(* Money comes in. *)

\* Mutant of Obligation: cancellation charges are not owed.
ObligationWithoutCharges(b) == Price * Cardinality(active[b])

Obligation(b) == Price * Cardinality(active[b]) + charges[b]

(* 30% of the frozen price, rounded to the cent *)
DownPayment(b) == (3 * Price * Cardinality(pilgrims[b]) + 5) \div 10

Threshold(b) ==
    IF b \in hasPlan /\ DownPayment(b) < Obligation(b) THEN DownPayment(b) ELSE Obligation(b)

\* Mutant of Late: the expiry is left to the release job.
NeverLate(b) == FALSE

(* hold.expiresAt has passed when the receipt arrives *)
Late(b) == b \in expired

(* The hold is looked for with the filter on: a receipt of an archived      *)
(* booking, or for a deleted tier, is credited and moves no seat.          *)
Settles(b, received) ==
    /\ status[b] = "held" /\ received >= Threshold(b)
    /\ b \in openHolds /\ Findable(b)

CloseHold(b) ==
    /\ seatsHeld' = [seatsHeld EXCEPT ![tierOf[b]] = @ - holdSeats[b]]
    /\ openHolds' = openHolds \ {b}

(* The part of receivePayment that moves seats, given the new receipts. *)
MoveSeats(b, received) ==
    /\ UNCHANGED <<active, holdSeats>>
    /\ \/ /\ ~Settles(b, received)
          /\ UNCHANGED <<seatsHeld, seatsConfirmed, status, openHolds>>
       \/ /\ Settles(b, received) /\ Late(b)
          /\ CloseHold(b)
          /\ status' = [status EXCEPT ![b] = "cancelled"]
          /\ UNCHANGED seatsConfirmed
       \/ /\ Settles(b, received) /\ ~Late(b)
          /\ CloseHold(b)
          /\ seatsConfirmed' = [seatsConfirmed EXCEPT ![tierOf[b]] = @ + holdSeats[b]]
          /\ status' = [status EXCEPT ![b] = "confirmed"]

ReceivePayment(b, amount) ==
    /\ amountReceived' = [amountReceived EXCEPT ![b] = @ + amount]
    /\ MoveSeats(b, amountReceived[b] + amount)
    /\ UNCHANGED <<tierVars, rowVars, charges, refund, jobVars, archived>>

NewPayment(p, b, amount, state) ==
    /\ payment[p].state = "none"
    /\ status[b] # "none" /\ Findable(b)
    /\ payment' = [payment EXCEPT ![p] = [state |-> state, booking |-> b, amount |-> amount]]
    /\ UNCHANGED <<tierVars, rowVars, seatVars, amountReceived, charges, refund, jobVars, archived>>

RecordManual(p, b, amount) == NewPayment(p, b, amount, "pending")

Initiate(p, b, amount) == status[b] # "cancelled" /\ NewPayment(p, b, amount, "checkout")

\* Mutant of AwaitsApproval: a second approval of the same row goes through.
AwaitsApprovalOrApproved(p) == payment[p].state \in {"pending", "approved"}

(* What the locked row must say before its amount is credited. *)
AwaitsApproval(p) == payment[p].state = "pending"
AwaitsGateway(p) == payment[p].state = "checkout"

Credit(p, state) ==
    /\ payment' = [payment EXCEPT ![p].state = state]
    /\ ReceivePayment(payment[p].booking, payment[p].amount)

(* By a member of staff other than the one who recorded it; the payment is  *)
(* looked for with the filter on, its booking without.                     *)
ApproveManual(p) ==
    /\ AwaitsApproval(p) /\ payment[p].booking \notin archived
    /\ Credit(p, "approved")

(* A verified callback; failed and cancelled callbacks leave the attempt creditable. *)
MarkSourcePaid(p) == AwaitsGateway(p) /\ Credit(p, "success")

RejectManual(p) ==
    /\ AwaitsApproval(p) /\ payment[p].booking \notin archived
    /\ payment' = [payment EXCEPT ![p].state = "rejected"]
    /\ UNCHANGED <<tierVars, rowVars, seatVars, amountReceived, charges, refund, jobVars, archived>>

----------------------------------------------------------------------------
(* Bookings are cancelled, in part or whole; `c` is the charge per pilgrim. *)

\* Mutant of EmptiedHold: a hold with no seats left stays open.
HoldNeverEmptied(b, S) == FALSE

EmptiedHold(b, S) == holdSeats[b] = Cardinality(S)

Cancel(b, S, c) ==
    /\ status[b] \notin {"none", "cancelled"}
    /\ Findable(b)
    /\ S # {} /\ S \subseteq active[b]
    /\ \/ /\ b \in openHolds
          /\ seatsHeld' = [seatsHeld EXCEPT ![tierOf[b]] = @ - Cardinality(S)]
          /\ holdSeats' = [holdSeats EXCEPT ![b] = @ - Cardinality(S)]
          /\ openHolds' = IF EmptiedHold(b, S) THEN openHolds \ {b} ELSE openHolds
          /\ UNCHANGED seatsConfirmed
       \/ /\ b \notin openHolds
          /\ seatsConfirmed' = IF status[b] \in {"confirmed", "defaulted"}
                               THEN [seatsConfirmed EXCEPT ![tierOf[b]] = @ - Cardinality(S)]
                               ELSE seatsConfirmed
          /\ UNCHANGED <<seatsHeld, holdSeats, openHolds>>
    /\ active' = [active EXCEPT ![b] = @ \ S]
    /\ charges' = [charges EXCEPT ![b] = @ + c * Cardinality(S)]
    /\ status' = IF S = active[b] THEN [status EXCEPT ![b] = "cancelled"] ELSE status
    /\ UNCHANGED <<tierVars, rowVars, amountReceived, payment, refund, jobVars, archived>>

(* An installment is unpaid past its grace period. *)
MarkOverdue(b) ==
    /\ status[b] = "confirmed" /\ b \in hasPlan /\ Findable(b)
    /\ status' = [status EXCEPT ![b] = "defaulted"]
    /\ UNCHANGED <<tierVars, rowVars, seatsHeld, seatsConfirmed, active, openHolds, holdSeats,
                   moneyVars, jobVars, archived>>

----------------------------------------------------------------------------
(* Refund claims. *)

\* Mutant of Claims: a refund that was paid out is no longer counted.
UnpaidClaims(b) ==
    {r \in Refund : refund[r].booking = b /\ refund[r].state \notin {"rejected", "paid"}}

Claims(b) == {r \in Refund : refund[r].booking = b /\ refund[r].state # "rejected"}

Claim == [r \in Refund |-> refund[r].amount]

Claimed(b) == SumOver(Claim, Claims(b))

RequestRefund(r, b, amount) ==
    /\ refund[r].state = "none"
    /\ status[b] # "none" /\ Findable(b)
    /\ amount + Claimed(b) + charges[b] <= amountReceived[b]
    /\ refund' = [refund EXCEPT ![r] = [state |-> "requested", booking |-> b, amount |-> amount]]
    /\ UNCHANGED <<tierVars, rowVars, seatVars, amountReceived, charges, payment, jobVars, archived>>

Transitions ==
    {<<"requested", "approved">>, <<"requested", "rejected">>, <<"approved", "processing">>,
     <<"approved", "rejected">>, <<"processing", "paid">>}

ProcessRefund(r, state) ==
    /\ <<refund[r].state, state>> \in Transitions
    /\ Findable(refund[r].booking)
    /\ refund' = [refund EXCEPT ![r].state = state]
    /\ UNCHANGED <<tierVars, rowVars, seatVars, amountReceived, charges, payment, jobVars, archived>>

----------------------------------------------------------------------------
(* Holds expire, and a job run lists and releases them. *)

HoldExpires(b) ==
    /\ b \in openHolds /\ b \notin expired
    /\ expired' = expired \cup {b}
    /\ UNCHANGED <<tierVars, rowVars, seatVars, moneyVars, listed, archived>>

\* Mutant of ExpiredHolds: a booking that has paid something is left to staff.
ExpiredUnpaidHolds == {b \in openHolds \cap expired : amountReceived[b] = 0}

ExpiredHolds == openHolds \cap expired

(* The query is not locked, and the soft-delete filter is off. *)
ListExpiredHolds ==
    /\ listed' = [b \in Booking |-> IF b \in ExpiredHolds THEN holdSeats[b] ELSE listed[b]]
    /\ UNCHANGED <<tierVars, rowVars, seatVars, moneyVars, expired, archived>>

\* Mutants: the job trusts its list.
HoldWasOpen(b) == TRUE
SeatsAsListed(b) == listed[b]

(* Of the refreshed hold and not of the list. *)
HoldStillOpen(b) == b \in openHolds
SeatsToRelease(b) == holdSeats[b]

(* Booking and tier are locked with the filter off, but the hold is read    *)
(* again with the filter on.                                               *)
ReleaseExpiredHold(b) ==
    /\ listed[b] # 0 /\ Findable(b)
    /\ listed' = [listed EXCEPT ![b] = 0]
    /\ \/ /\ ~HoldStillOpen(b)
          /\ UNCHANGED seatVars
       \/ /\ HoldStillOpen(b)
          /\ openHolds' = openHolds \ {b}
          /\ seatsHeld' = [seatsHeld EXCEPT ![tierOf[b]] = @ - SeatsToRelease(b)]
          /\ status' = IF status[b] = "held" THEN [status EXCEPT ![b] = "cancelled"] ELSE status
          /\ UNCHANGED <<seatsConfirmed, active, holdSeats>>
    /\ UNCHANGED <<tierVars, rowVars, moneyVars, expired, archived>>

(* Where that read throws, the loop ends: the rows after it in the list are *)
(* not reached.  S are this row and those after it.                        *)
ReleaseFails(b, S) ==
    /\ listed[b] # 0 /\ ~Findable(b)
    /\ b \in S
    /\ listed' = [x \in Booking |-> IF x \in S THEN 0 ELSE listed[x]]
    /\ UNCHANGED <<tierVars, rowVars, seatVars, moneyVars, expired, archived>>

(* A run takes the next row of its list, in no particular order. *)
WorkOffList ==
    \E b \in Booking : ReleaseExpiredHold(b) \/ \E S \in SUBSET Booking : ReleaseFails(b, S)

----------------------------------------------------------------------------
Next ==
    \/ \E t \in Tier :
          \/ \E q \in Quota : UpdateTier(t, q)
          \/ CheckRemoveTier(t)
          \/ CommitRemoveTier(t)
    \/ \E b \in Booking :
          \/ \E t \in Tier, S \in SUBSET Pilgrim, plan \in BOOLEAN : CreateBooking(b, t, S, plan)
          \/ RemoveBooking(b)
          \/ \E S \in SUBSET Pilgrim, c \in ChargePerPilgrim : Cancel(b, S, c)
          \/ MarkOverdue(b)
          \/ HoldExpires(b)
    \/ ListExpiredHolds
    \/ WorkOffList
    \/ \E p \in Payment :
          \/ \E b \in Booking, a \in PaymentAmount : RecordManual(p, b, a) \/ Initiate(p, b, a)
          \/ ApproveManual(p)
          \/ RejectManual(p)
          \/ MarkSourcePaid(p)
    \/ \E r \in Refund :
          \/ \E b \in Booking, a \in RefundAmount : RequestRefund(r, b, a)
          \/ \E s \in RefundState : ProcessRefund(r, s)

Spec == Init /\ [][Next]_vars

(* The queue repeats the release job every minute, and a run goes on with   *)
(* its list while it has one: with some next row, not with every row.      *)
FairSpec == Spec /\ WF_vars(ListExpiredHolds) /\ WF_vars(WorkOffList)

----------------------------------------------------------------------------
(* Safety. *)

HeldPilgrims(t) == {p \in Pilgrim : \E b \in openHolds : tierOf[b] = t /\ p \in active[b]}

Confirmed == {b \in Booking : status[b] \in {"confirmed", "defaulted"}}

ConfirmedPilgrims(t) == {p \in Pilgrim : \E b \in Confirmed : tierOf[b] = t /\ p \in active[b]}

(* The counters of a tier are the seats of its open holds and the pilgrims *)
(* of its confirmed and defaulted bookings: what repair-seat-counters      *)
(* would rebuild, it never has to.                                         *)
SeatLedger ==
    \A t \in Tier : /\ seatsHeld[t] = Cardinality(HeldPilgrims(t))
                    /\ seatsConfirmed[t] = Cardinality(ConfirmedPilgrims(t))

(* No tier has more pilgrims seated than its quota, whatever quota edits,  *)
(* expiries and receipts run against each other; the pilgrims are counted, *)
(* not the counters the code compares.                                     *)
NoOversell ==
    \A t \in Tier :
        Cardinality(HeldPilgrims(t)) + Cardinality(ConfirmedPilgrims(t)) <= seatsTotal[t]

(* A hold is open exactly while its booking is held: of the five paths that *)
(* end the one or the other, none ends one without the other.              *)
HoldMatchesStatus == \A b \in Booking : b \in openHolds <=> status[b] = "held"

Settled(b) == {p \in Payment : payment[p].booking = b /\ payment[p].state \in {"approved", "success"}}

(* Gross receipts are the approved manual payments and successful attempts *)
(* of the booking, each counted once, late ones included.                  *)
ReceiptsMatchPayments ==
    \A b \in Booking :
        amountReceived[b] = SumOver([p \in Payment |-> payment[p].amount], Settled(b))

(* Refund claims that were not rejected, paid ones included, never add up  *)
(* to more than the booking received.                                      *)
ClaimsWithinReceipts ==
    \A b \in Booking :
        SumOver([r \in Refund |-> refund[r].amount],
                {r \in Refund : refund[r].booking = b /\ refund[r].state # "rejected"})
            <= amountReceived[b]

(* What a booking must have received to be confirmed, from the rows alone. *)
Due(b) ==
    LET owed == Price * Cardinality(active[b]) + charges[b]
    IN  IF b \in hasPlan THEN Min({owed, DownPayment(b)}) ELSE owed

(* As long as no charge exceeds the price of the seat it is for, a         *)
(* confirmed booking has paid what confirmation asks of it, also after     *)
(* later partial cancellations have charged it.                            *)
ConfirmedIsPaidFor ==
    (\A c \in ChargePerPilgrim : c <= Price) =>
        \A b \in Confirmed : amountReceived[b] >= Due(b)

----------------------------------------------------------------------------
(* What a step may never do. *)

(* A cancelled booking, or one whose hold has run out, never gets a seat   *)
(* from a receipt that arrives late.                                       *)
NoLateConfirmation ==
    [][\A b \in Booking :
         /\ status[b] = "cancelled" => status'[b] = "cancelled" /\ b \notin openHolds'
         /\ b \in expired /\ status[b] = "held" => status'[b] \in {"held", "cancelled"}]_vars

(* The service implements the seat inventory: a pilgrim is seated from a   *)
(* hold, within the quota, and never again once unseated.                  *)
Inventory == INSTANCE SeatInventory WITH
    capacity <- seatsTotal,
    heldFor <- [t \in Tier |-> HeldPilgrims(t)],
    soldTo <- [t \in Tier |-> ConfirmedPilgrims(t)],
    seen <- UNION {pilgrims[b] : b \in Booking}

ImplementsInventory == Inventory!Spec

----------------------------------------------------------------------------
(* Liveness. *)

(* An expired hold gives its seats back, whatever receipts, cancellations,  *)
(* archived bookings that have no hold any more and overlapping runs do to  *)
(* the list of the job, unless some expired hold of the agency is out of    *)
(* the job's reach: every run then ends at that one.                       *)
OutOfReach == {b \in openHolds \cap expired : b \in archived \/ tierOf[b] \in deletedTiers}

ExpiredHoldReleased ==
    \A b \in Booking :
        (b \in openHolds /\ b \in expired) ~> (b \notin openHolds \/ OutOfReach # {})

----------------------------------------------------------------------------
(* Statements of the documentation that the code does not keep. *)

(* BUSINESS_RULES.md: full-payment bookings confirm when their obligation  *)
(* is paid, installment bookings after the down payment.                   *)
PaidBookingIsNotHeld ==
    \A b \in Booking : status[b] = "held" => amountReceived[b] < Threshold(b)

(* BUSINESS_RULES.md: all non-rejected claims plus cancellation charges    *)
(* are capped against gross receipts.                                      *)
ClaimsAndChargesCapped ==
    \A b \in Booking :
        Claims(b) # {} => Claimed(b) + charges[b] <= amountReceived[b]

(* removeTier: a tier with active seats cannot be deleted.                 *)
DeletedTierHasNoSeats ==
    \A t \in deletedTiers : HeldPilgrims(t) = {} /\ ConfirmedPilgrims(t) = {}
=============================================================================
