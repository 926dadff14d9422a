----------------------------- MODULE MCBooking -----------------------------
(* Booking for TLC: symmetric row identities.                              *)
EXTENDS Booking, TLC

RowSymmetry ==
    Permutations(Booking) \cup Permutations(Pilgrim) \cup Permutations(Payment)
        \cup Permutations(Refund)
=============================================================================
