--------------------------- MODULE InstallmentPlan ---------------------------
(***************************************************************************)
(* The installment plan of one booking: the schedule made with it, receipts *)
(* applied to the oldest installment, cancellation credits to the newest,  *)
(* and the hourly job that marks installments overdue and the booking       *)
(* defaulted.  Booking.tla has the seats and holds; here the plan's detail. *)
(*                                                                         *)
(* Receipts, cancellations and each installment of a job run are one        *)
(* transaction under the lock of the booking.  The job's list is read       *)
(* before, without a lock, with the time of the run.  Amounts are cents.    *)
(***************************************************************************)
EXTENDS Integers

CONSTANTS
    Group,            \* pilgrims of the booking
    Prices,           \* prices of one pilgrim to check, frozen when the booking is made
    ChargePerPilgrim, \* cancellation charges per pilgrim
    Amount,           \* amounts of a receipt
    MaxReceived       \* bound on the receipts of the booking

(* With a total under 5 cents an installment would be zero. *)
ASSUME PlanAssumption ==
    /\ Group \in Nat \ {0} /\ MaxReceived \in Nat
    /\ Prices \subseteq Nat /\ \A p \in Prices : p * Group >= 5
    /\ ChargePerPilgrim \subseteq Nat /\ Amount \subseteq Nat \ {0}

VARIABLES
    price,      \* frozen price per pilgrim
    booking,    \* status of the booking
    cancelled,  \* number of its pilgrims cancelled
    charges,    \* sum of its cancellation charges
    received,   \* gross receipts
    paid, waived, state,  \* amountPaid, amountWaived and status of each installment
    dueUpTo,    \* installments below this number are past their due date
    graceUpTo,  \* and below this number, past the grace period too
    listed,     \* what a job run has read and not yet worked off
    archived    \* soft-deleted: this booking, some other one with overdue installments

plan == <<paid, waived, state>>
vars == <<price, booking, cancelled, charges, received, plan, dueUpTo, graceUpTo, listed, archived>>

Last == 3
Seq == 0 .. Last

Max0(n) == IF n > 0 THEN n ELSE 0
MinOf(m, n) == IF m < n THEN m ELSE n
Total(f) == f[0] + f[1] + f[2] + f[3]

----------------------------------------------------------------------------
(* 30% down and the rest in three, each rounded to the cent; the last one   *)
(* takes what rounding leaves.                                             *)

LastInstallment(rest, each) == rest - (Last - 1) * each

Schedule(total) ==
    LET down == (3 * total + 5) \div 10
        rest == total - down
        each == (2 * rest + Last) \div (2 * Last)
    IN  [i \in Seq |-> IF i = 0 THEN down
                       ELSE IF i < Last THEN each ELSE LastInstallment(rest, each)]

Due == Schedule(price * Group)

TypeOK ==
    /\ price \in Prices
    /\ booking \in {"held", "confirmed", "defaulted", "cancelled"}
    /\ cancelled \in 0 .. Group
    /\ charges \in Nat
    /\ received \in Nat
    /\ paid \in [Seq -> Nat]
    /\ waived \in [Seq -> Nat]
    /\ state \in [Seq -> {"open", "overdue", "defaulted", "paid"}]
    /\ dueUpTo \in 0 .. Last + 1
    /\ graceUpTo \in 0 .. dueUpTo
    /\ listed \in [Seq -> {"no", "due", "grace"}]
    /\ archived \subseteq {"this", "other"}

Init ==
    /\ price \in Prices
    /\ booking = "held"
    /\ cancelled = 0
    /\ charges = 0
    /\ received = 0
    /\ paid = [i \in Seq |-> 0]
    /\ waived = [i \in Seq |-> 0]
    /\ state = [i \in Seq |-> "open"]
    /\ dueUpTo = 0
    /\ graceUpTo = 0
    /\ listed = [i \in Seq |-> "no"]
    /\ archived = {}

Left(i) == Max0(Due[i] - paid[i] - waived[i])

LeftIn(S) == Total([i \in Seq |-> IF i \in S THEN Left(i) ELSE 0])

Obligation == price * (Group - cancelled) + charges

(* A query with the soft-delete filter on finds the booking and its plan. *)
Findable == "this" \notin archived

----------------------------------------------------------------------------
(* Receipts. *)

Before(i) == 0 .. i - 1

\* Mutant of Remaining: what an installment takes stays available to the next.
RemainingUndiminished(i, amount) == amount

(* What is left of a receipt when the older installments have had theirs. *)
Remaining(i, amount) == Max0(amount - LeftIn({j \in Before(i) : state[j] # "paid"}))

Visited(i, amount) == state[i] # "paid" /\ Remaining(i, amount) > 0

ApplyPayment(amount) ==
    /\ paid' = [i \in Seq |->
                  IF Visited(i, amount) THEN paid[i] + MinOf(Left(i), Remaining(i, amount))
                  ELSE paid[i]]
    /\ state' = [i \in Seq |->
                  IF Visited(i, amount) /\ paid'[i] + waived[i] >= Due[i] THEN "paid"
                  ELSE state[i]]
    /\ UNCHANGED waived

(* Confirms a held booking that has reached its threshold, or cancels it if *)
(* its hold has run out.  A receipt after that only pays installments.  Of  *)
(* an archived booking neither plan nor hold is found: the receipt is       *)
(* added to what it received, and that is all.                             *)
Receive(amount) ==
    /\ received + amount <= MaxReceived
    /\ received' = received + amount
    /\ IF Findable THEN ApplyPayment(amount) ELSE UNCHANGED plan
    /\ IF Findable /\ booking = "held" /\ received' >= MinOf(Due[0], Obligation)
       THEN booking' \in {"confirmed", "cancelled"}
       ELSE UNCHANGED booking
    /\ UNCHANGED <<price, cancelled, charges, dueUpTo, graceUpTo, listed, archived>>

----------------------------------------------------------------------------
(* Cancellation of n pilgrims: what they need not pay any more is credited. *)

\* Mutant of Credit: the charge is not taken off the credit.
CreditWithoutCharge(n, charge) == price * n

Credit(n, charge) == Max0(price * n - charge)

\* Mutant of After: credits go to the oldest installment first.
OlderThan(i) == 0 .. i - 1

After(i) == i + 1 .. Last

\* Mutant of Waived: what is left of the credit goes below zero on the way.
WaivedOverrun(i, credit) == MinOf(Left(i), credit - LeftIn(After(i)))

Waived(i, credit) == MinOf(Left(i), Max0(credit - LeftIn(After(i))))

Cancel(n, c) ==
    /\ booking # "cancelled" /\ Findable
    /\ n \in 1 .. Group - cancelled
    /\ waived' = [i \in Seq |-> waived[i] + Waived(i, Credit(n, c * n))]
    /\ state' = [i \in Seq |-> IF paid[i] + waived'[i] >= Due[i] THEN "paid" ELSE state[i]]
    /\ cancelled' = cancelled + n
    /\ charges' = charges + c * n
    /\ booking' = IF cancelled' = Group THEN "cancelled" ELSE booking
    /\ UNCHANGED <<price, received, paid, dueUpTo, graceUpTo, listed, archived>>

(* The hold runs out and is released. *)
ReleaseHold ==
    /\ booking = "held" /\ Findable
    /\ booking' = "cancelled"
    /\ UNCHANGED <<price, cancelled, charges, received, plan, dueUpTo, graceUpTo, listed, archived>>

(* removeBooking: this booking, or another whose installments the job lists. *)
RemoveBooking(b) ==
    /\ b \in {"this", "other"} \ archived
    /\ archived' = archived \cup {b}
    /\ UNCHANGED <<price, booking, cancelled, charges, received, plan, dueUpTo, graceUpTo, listed>>

----------------------------------------------------------------------------
(* Time and the hourly job. *)

FallDue ==
    /\ dueUpTo <= Last
    /\ dueUpTo' = dueUpTo + 1
    /\ UNCHANGED <<price, booking, cancelled, charges, received, plan, graceUpTo, listed, archived>>

GraceEnds ==
    /\ graceUpTo < dueUpTo
    /\ graceUpTo' = graceUpTo + 1
    /\ UNCHANGED <<price, booking, cancelled, charges, received, plan, dueUpTo, listed, archived>>


Listable(i) == state[i] \in {"open", "overdue", "defaulted"}

(* A run begins: it lists what is due now, past grace or not. *)
ListDue ==
    /\ \A i \in Seq : listed[i] = "no"
    /\ listed' = [i \in Seq |->
                    IF Listable(i) /\ i < dueUpTo
                    THEN IF i < graceUpTo THEN "grace" ELSE "due"
                    ELSE "no"]
    /\ UNCHANGED <<price, booking, cancelled, charges, received, plan, dueUpTo, graceUpTo, archived>>

\* Mutant of StillUnpaid: the run trusts its list.
WasUnpaid(i) == TRUE

(* Of the row as it is read again under the lock. *)
StillUnpaid(i) == state[i] # "paid"

MarkOverdue(i) ==
    /\ listed[i] # "no" /\ Findable
    /\ listed' = [listed EXCEPT ![i] = "no"]
    /\ \/ /\ booking = "cancelled" \/ ~StillUnpaid(i)
          /\ UNCHANGED <<booking, state>>
       \/ /\ booking # "cancelled" /\ StillUnpaid(i) /\ listed[i] = "due"
          /\ state' = IF state[i] = "open" THEN [state EXCEPT ![i] = "overdue"] ELSE state
          /\ UNCHANGED booking
       \/ /\ booking # "cancelled" /\ StillUnpaid(i) /\ listed[i] = "grace"
          /\ state' = [state EXCEPT ![i] = "defaulted"]
          /\ booking' = IF booking = "confirmed" THEN "defaulted" ELSE booking
    /\ UNCHANGED <<price, cancelled, charges, received, paid, waived, dueUpTo, graceUpTo, archived>>

(* The run comes to a row whose booking it does not find, this one or       *)
(* another: findOneOrFail throws and the rest of the list is dropped.      *)
RunFails ==
    /\ \E i \in Seq : listed[i] # "no"
    /\ archived # {}
    /\ listed' = [i \in Seq |-> "no"]
    /\ UNCHANGED <<price, booking, cancelled, charges, received, plan, dueUpTo, graceUpTo, archived>>

(* A run takes the next row of its list, in no particular order. *)
WorkOffList == (\E i \in Seq : MarkOverdue(i)) \/ RunFails

Next ==
    \/ \E a \in Amount : Receive(a)
    \/ \E n \in 1 .. Group, c \in ChargePerPilgrim : Cancel(n, c)
    \/ ReleaseHold
    \/ \E b \in {"this", "other"} : RemoveBooking(b)
    \/ FallDue
    \/ GraceEnds
    \/ ListDue
    \/ WorkOffList

Spec == Init /\ [][Next]_vars

(* The queue repeats the job, and a run goes on with its list while it has  *)
(* one: with some next row, not with every row.                            *)
FairSpec == Spec /\ WF_vars(ListDue) /\ WF_vars(WorkOffList)

----------------------------------------------------------------------------
(* The plan asks for exactly what the booking still owes: price of the      *)
(* pilgrims left plus charges, less receipts, in whatever order receipts,   *)
(* partial cancellations and excess payments came.  The two are computed   *)
(* apart, installment by installment and from the booking.  A charge above  *)
(* the price of a seat is owed but never put on the plan, which then asks   *)
(* for less, never for more.  Receipts of an archived booking do not reach  *)
(* its plan, which then asks for more, never for less.                     *)
PlanAsksForWhatIsOwed ==
    /\ Findable => LeftIn(Seq) <= Max0(Obligation - received)
    /\ (\A c \in ChargePerPilgrim : c <= price) => LeftIn(Seq) >= Max0(Obligation - received)

(* While an installment is unpaid every cent received is on the plan, and   *)
(* no installment is paid or waived beyond its amount; what is received     *)
(* after the booking was archived is on no installment.                    *)
ReceiptsAreOnThePlan ==
    /\ \A i \in Seq : paid[i] + waived[i] <= Due[i]
    /\ LeftIn(Seq) > 0 /\ Findable => Total(paid) = received

(* Money goes to the oldest installment, credits to the newest.             *)
OldestPaidNewestWaived ==
    \A i, j \in Seq : i < j => /\ paid[j] > 0 => Left(i) = 0
                               /\ waived[i] > 0 => Left(j) = 0

(* The status of an installment is "paid" exactly when nothing is left of   *)
(* it, whether by receipts or by credits, and however often a run with an   *)
(* old list has looked at it.                                              *)
PaidMeansNothingLeft == \A i \in Seq : state[i] = "paid" <=> Left(i) = 0

(* A booking is defaulted only by an installment past its grace period on   *)
(* which something is owed at that moment, not when the run was listed.     *)
DefaultsOnlyWhenOwing ==
    [][booking' = "defaulted" /\ booking # "defaulted" =>
          \E i \in Seq : i < graceUpTo /\ Left(i) > 0]_vars


(* The rows of the plan, with their order, their credits and the job that   *)
(* works from a stale list, are to the booking one account: a receipt or a  *)
(* cancellation changes what is asked for by its whole amount or settles    *)
(* it, a hold ends with the down payment or with nothing left to pay, and   *)
(* only a booking that owes something defaults.  Archiving the booking      *)
(* closes the account.                                                     *)
Account == INSTANCE Receivable WITH
    pilgrims <- Group - cancelled,
    balance <- LeftIn(Seq),
    standing <- booking,
    closed <- ~Findable

ImplementsReceivable == Account!Spec
=============================================================================
