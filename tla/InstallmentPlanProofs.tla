----------------------- MODULE InstallmentPlanProofs -----------------------
(***************************************************************************)
(* Proofs about InstallmentPlan, for any price, group, receipts and         *)
(* charges: the plan and the booking agree on what is owed, to the cent.    *)
(* The invariants the runs check are inductive only together: that a        *)
(* receipt spreads over the plan without loss needs the installments marked *)
(* paid to be the ones nothing is left of.                                 *)
(***************************************************************************)
EXTENDS InstallmentPlan, TLAPS

IInv ==
    /\ TypeOK
    /\ ReceiptsAreOnThePlan
    /\ OldestPaidNewestWaived
    /\ PaidMeansNothingLeft
    /\ PlanAsksForWhatIsOwed

----------------------------------------------------------------------------
(* Arithmetic. *)

LEMMA SeqValues == Seq = {0, 1, 2, 3} /\ Last = 3
  BY DEF Seq, Last

(* Rounding to cents: four positive installments that add up to the total. *)
LEMMA ScheduleAddsUp ==
  ASSUME NEW t \in Nat, t >= 5
  PROVE  /\ Schedule(t) \in [Seq -> Nat]
         /\ \A i \in Seq : Schedule(t)[i] > 0
         /\ Total(Schedule(t)) = t
<1> DEFINE down == (3 * t + 5) \div 10
           rest == t - down
           each == (2 * rest + 3) \div 6
           last == rest - 2 * each
<1>1. down \in Nat /\ down > 0 /\ rest \in Nat /\ rest >= 3
  OBVIOUS
<1>2. each \in Nat /\ each > 0 /\ last \in Nat /\ last > 0
  <2> HIDE DEF rest
  <2> QED
    BY <1>1
<1>3. Schedule(t) = [i \in Seq |-> IF i = 0 THEN down ELSE IF i < 3 THEN each ELSE last]
  BY SeqValues DEF Schedule, LastInstallment
<1> HIDE DEF down, each, last
<1>4. /\ Schedule(t)[0] = down /\ Schedule(t)[1] = each
      /\ Schedule(t)[2] = each /\ Schedule(t)[3] = last
  BY <1>3, SeqValues
<1>5. down + each + each + last = t
  BY <1>1, <1>2 DEF last
<1> QED
  BY <1>1, <1>2, <1>3, <1>4, <1>5, SeqValues DEF Total

LEMMA Products ==
  ASSUME NEW p \in Nat, NEW c \in Nat, NEW g \in Int, NEW n \in Nat
  PROVE  /\ p * n \in Nat /\ c * n \in Nat
         /\ p * (g - n) = p * g - p * n
         /\ c <= p => c * n <= p * n
  OBVIOUS

(* An amount that goes to a first, then to b, c and d. *)
Share(left, before, amount) == MinOf(left, Max0(amount - before))

----------------------------------------------------------------------------
(* What is left of the plan. *)

LEMMA DueType ==
  ASSUME TypeOK
  PROVE  /\ price \in Nat /\ price * Group \in Nat
         /\ Due \in [Seq -> Nat]
         /\ \A i \in Seq : Due[i] > 0
         /\ Total(Due) = price * Group
<1>1. price \in Nat /\ Group \in Nat /\ price * Group \in Nat /\ price * Group >= 5
  BY PlanAssumption DEF TypeOK
<1> QED
  BY <1>1, ScheduleAddsUp DEF Due

LEMMA LeftType ==
  ASSUME TypeOK
  PROVE  \A i \in Seq : Left(i) \in Nat
  BY DueType DEF Left, Max0, TypeOK

LEMMA LeftInAll == LeftIn(Seq) = Left(0) + Left(1) + Left(2) + Left(3)
  BY SeqValues DEF LeftIn, Total

LEMMA LeftInType ==
  ASSUME TypeOK, NEW S
  PROVE  LeftIn(S) \in Nat
<1>1. \A i \in Seq : (IF i \in S THEN Left(i) ELSE 0) \in Nat
  BY LeftType
<1> DEFINE f == [i \in Seq |-> IF i \in S THEN Left(i) ELSE 0]
<1>2. f[0] \in Nat /\ f[1] \in Nat /\ f[2] \in Nat /\ f[3] \in Nat
  BY <1>1, SeqValues
<1> QED
  BY <1>2 DEF LeftIn, Total

LEMMA LeftWithin ==
  ASSUME IInv, NEW i \in Seq
  PROVE  Left(i) = Due[i] - paid[i] - waived[i]
  BY DueType DEF IInv, TypeOK, ReceiptsAreOnThePlan, Left, Max0

(* Before and after an installment. *)
LEMMA LeftBefore ==
  ASSUME IInv
  PROVE  LET older(i) == LeftIn({j \in Before(i) : state[j] # "paid"})
         IN  /\ older(0) = 0 /\ older(1) = Left(0)
             /\ older(2) = Left(0) + Left(1) /\ older(3) = Left(0) + Left(1) + Left(2)
<1>1. \A i \in Seq : Left(i) \in Nat /\ (state[i] = "paid" <=> Left(i) = 0)
  BY LeftType DEF IInv, PaidMeansNothingLeft
<1>2. Before(0) = {} /\ Before(1) = {0} /\ Before(2) = {0, 1} /\ Before(3) = {0, 1, 2}
  BY DEF Before
<1> QED
  BY <1>1, <1>2, SeqValues DEF LeftIn, Total

LEMMA LeftAfter ==
  ASSUME TypeOK
  PROVE  /\ LeftIn(After(3)) = 0 /\ LeftIn(After(2)) = Left(3)
         /\ LeftIn(After(1)) = Left(3) + Left(2) /\ LeftIn(After(0)) = Left(3) + Left(2) + Left(1)
<1>1. \A i \in Seq : Left(i) \in Nat
  BY LeftType
<1>2. After(3) = {} /\ After(2) = {3} /\ After(1) = {2, 3} /\ After(0) = {1, 2, 3}
  BY SeqValues DEF After
<1> QED
  BY <1>1, <1>2, SeqValues DEF LeftIn, Total

----------------------------------------------------------------------------
(* A step that pays or waives a share of every installment. *)
LEMMA Settling ==
  ASSUME IInv, price' = price,
         NEW pay \in [Seq -> Nat], NEW forgo \in [Seq -> Nat],
         \A i \in Seq : pay[i] + forgo[i] <= Left(i),
         paid' = [i \in Seq |-> paid[i] + pay[i]],
         waived' = [i \in Seq |-> waived[i] + forgo[i]]
  PROVE  /\ Due' = Due
         /\ paid' \in [Seq -> Nat] /\ waived' \in [Seq -> Nat]
         /\ \A i \in Seq : /\ paid'[i] + waived'[i] <= Due[i]
                           /\ Left(i)' = Left(i) - pay[i] - forgo[i]
                           /\ Left(i)' = 0 <=> paid'[i] + waived'[i] >= Due[i]
<1>1. Due' = Due
  BY DEF Due
<1>2. paid' \in [Seq -> Nat] /\ waived' \in [Seq -> Nat]
  BY DEF IInv, TypeOK
<1>3. ASSUME NEW i \in Seq
      PROVE  /\ paid'[i] + waived'[i] <= Due[i]
             /\ Left(i)' = Left(i) - pay[i] - forgo[i]
             /\ Left(i)' = 0 <=> paid'[i] + waived'[i] >= Due[i]
  <2>1. /\ Due[i] \in Nat /\ paid[i] \in Nat /\ waived[i] \in Nat
        /\ pay[i] \in Nat /\ forgo[i] \in Nat
        /\ paid'[i] = paid[i] + pay[i] /\ waived'[i] = waived[i] + forgo[i]
    BY DueType DEF IInv, TypeOK
  <2>2. Left(i) = Due[i] - paid[i] - waived[i] /\ pay[i] + forgo[i] <= Left(i)
    BY LeftWithin
  <2>3. Left(i)' = Max0(Due[i] - paid'[i] - waived'[i])
    BY <1>1 DEF Left
  <2> QED
    BY <2>1, <2>2, <2>3 DEF Max0
<1> QED
  BY <1>1, <1>2, <1>3

(* The order is kept if receipts went to the oldest and credits to the newest. *)
LEMMA OrderKept ==
  ASSUME IInv,
         NEW pay \in [Seq -> Nat], NEW forgo \in [Seq -> Nat],
         \A i \in Seq : pay[i] + forgo[i] <= Left(i),
         paid' = [i \in Seq |-> paid[i] + pay[i]],
         waived' = [i \in Seq |-> waived[i] + forgo[i]],
         \A i \in Seq : Left(i)' = Left(i) - pay[i] - forgo[i],
         \A i, j \in Seq : i < j => /\ pay[j] > 0 => pay[i] = Left(i)
                                    /\ forgo[i] > 0 => forgo[j] = Left(j)
  PROVE  OldestPaidNewestWaived'
<1>1. SUFFICES ASSUME NEW i \in Seq, NEW j \in Seq, i < j
               PROVE  /\ paid'[j] > 0 => Left(i)' = 0
                      /\ waived'[i] > 0 => Left(j)' = 0
  BY DEF OldestPaidNewestWaived
<1>2. /\ paid[j] > 0 => Left(i) = 0
      /\ waived[i] > 0 => Left(j) = 0
  BY <1>1 DEF IInv, OldestPaidNewestWaived
<1>3. /\ paid[j] \in Nat /\ waived[i] \in Nat
      /\ pay[i] \in Nat /\ pay[j] \in Nat /\ forgo[i] \in Nat /\ forgo[j] \in Nat
      /\ Left(i) \in Nat /\ Left(j) \in Nat
  BY LeftType DEF IInv, TypeOK
<1>4. paid'[j] = paid[j] + pay[j] /\ waived'[i] = waived[i] + forgo[i]
  OBVIOUS
<1>5. pay[i] + forgo[i] <= Left(i) /\ pay[j] + forgo[j] <= Left(j)
  OBVIOUS
<1>6. Left(i)' = Left(i) - pay[i] - forgo[i] /\ Left(j)' = Left(j) - pay[j] - forgo[j]
  OBVIOUS
<1>7. /\ pay[j] > 0 => pay[i] = Left(i)
      /\ forgo[i] > 0 => forgo[j] = Left(j)
  BY <1>1
<1>8. paid'[j] > 0 => Left(i)' = 0
  BY <1>2, <1>3, <1>4, <1>5, <1>6, <1>7
<1>9. waived'[i] > 0 => Left(j)' = 0
  BY <1>2, <1>3, <1>4, <1>5, <1>6, <1>7
<1> QED
  BY <1>8, <1>9

----------------------------------------------------------------------------
(* Receipts. *)

LEMMA ReceiptShares ==
  ASSUME IInv, NEW a \in Nat, a > 0, ApplyPayment(a)
  PROVE  \E pay \in [Seq -> Nat] :
            /\ \A i \in Seq : pay[i] <= Left(i)
            /\ paid' = [i \in Seq |-> paid[i] + pay[i]]
            /\ pay[0] + pay[1] + pay[2] + pay[3] = MinOf(LeftIn(Seq), a)
            /\ \A i, j \in Seq : i < j /\ pay[j] > 0 => pay[i] = Left(i)
            /\ \A i \in Seq : ~Visited(i, a) => pay[i] = 0
<1>0. a \in Nat /\ a > 0
  OBVIOUS
<1> DEFINE pay == [i \in Seq |-> MinOf(Left(i), Remaining(i, a))]
<1>1. \A i \in Seq : Left(i) \in Nat /\ Remaining(i, a) \in Nat
  BY LeftType, LeftInType DEF IInv, Remaining, Max0
<1>2. \A i \in Seq : pay[i] \in Nat /\ pay[i] <= Left(i)
  BY <1>1 DEF MinOf
<1>3. \A i \in Seq : ~Visited(i, a) => pay[i] = 0
  BY <1>1 DEF Visited, MinOf, IInv, PaidMeansNothingLeft
<1>4. paid' = [i \in Seq |-> paid[i] + pay[i]]
  <2>1. \A i \in Seq : paid[i] = paid[i] + 0
    BY DEF IInv, TypeOK
  <2>2. \A i \in Seq : (IF Visited(i, a) THEN paid[i] + MinOf(Left(i), Remaining(i, a)) ELSE paid[i])
                       = paid[i] + pay[i]
    BY <1>3, <2>1
  <2> QED
    BY <2>2 DEF ApplyPayment
<1>5. /\ pay[0] = Share(Left(0), 0, a) /\ pay[1] = Share(Left(1), Left(0), a)
      /\ pay[2] = Share(Left(2), Left(0) + Left(1), a)
      /\ pay[3] = Share(Left(3), Left(0) + Left(1) + Left(2), a)
  BY LeftBefore, SeqValues DEF Remaining, Share
<1>6. Left(0) \in Nat /\ Left(1) \in Nat /\ Left(2) \in Nat /\ Left(3) \in Nat
  BY <1>1, SeqValues
<1> HIDE DEF pay
<1>7. /\ pay[0] + pay[1] + pay[2] + pay[3] = MinOf(LeftIn(Seq), a)
      /\ pay[1] > 0 => pay[0] = Left(0)
      /\ pay[2] > 0 => pay[0] = Left(0) /\ pay[1] = Left(1)
      /\ pay[3] > 0 => pay[0] = Left(0) /\ pay[1] = Left(1) /\ pay[2] = Left(2)
  BY <1>0, <1>5, <1>6, LeftInAll DEF Share, MinOf, Max0
<1>8. \A i, j \in Seq : i < j /\ pay[j] > 0 => pay[i] = Left(i)
  BY <1>7, SeqValues
<1>9. pay \in [Seq -> Nat]
  BY <1>2 DEF pay
<1> QED
  BY <1>2, <1>3, <1>4, <1>7, <1>8, <1>9

(* To the booking a receipt takes off its amount, or all that is left. *)
LEMMA ReceiveSteps ==
  ASSUME IInv, NEW a \in Amount, Receive(a), Findable
  PROVE  IInv' /\ LeftIn(Seq)' = LeftIn(Seq) - MinOf(LeftIn(Seq), a)
<1>0. /\ a \in Nat /\ a > 0 /\ ApplyPayment(a) /\ waived' = waived
      /\ received \in Nat /\ received' = received + a
      /\ UNCHANGED <<price, cancelled, charges, dueUpTo, graceUpTo, listed, archived>>
      /\ Findable' = Findable
  BY PlanAssumption DEF Receive, ApplyPayment, IInv, TypeOK, Findable
<1>1. PICK pay \in [Seq -> Nat] :
            /\ \A i \in Seq : pay[i] <= Left(i)
            /\ paid' = [i \in Seq |-> paid[i] + pay[i]]
            /\ pay[0] + pay[1] + pay[2] + pay[3] = MinOf(LeftIn(Seq), a)
            /\ \A i, j \in Seq : i < j /\ pay[j] > 0 => pay[i] = Left(i)
            /\ \A i \in Seq : ~Visited(i, a) => pay[i] = 0
  BY <1>0, ReceiptShares
<1> DEFINE forgo == [i \in Seq |-> 0]
<1>2. /\ forgo \in [Seq -> Nat]
      /\ waived' = [i \in Seq |-> waived[i] + forgo[i]]
      /\ \A i \in Seq : pay[i] + forgo[i] <= Left(i)
  BY <1>0, <1>1 DEF IInv, TypeOK
<1>3. /\ Due' = Due
      /\ paid' \in [Seq -> Nat] /\ waived' \in [Seq -> Nat]
      /\ \A i \in Seq : /\ paid'[i] + waived'[i] <= Due[i]
                        /\ Left(i)' = Left(i) - pay[i]
                        /\ Left(i)' = 0 <=> paid'[i] + waived'[i] >= Due[i]
  <2>1. \A i \in Seq : Left(i) - pay[i] - forgo[i] = Left(i) - pay[i]
    BY LeftType DEF IInv
  <2> HIDE DEF forgo
  <2> QED
    BY <1>0, <1>1, <1>2, <2>1, Settling
<1>4. LeftIn(Seq)' = LeftIn(Seq) - MinOf(LeftIn(Seq), a) /\ LeftIn(Seq) \in Nat
  <2>1. /\ Left(0)' = Left(0) - pay[0] /\ Left(1)' = Left(1) - pay[1]
        /\ Left(2)' = Left(2) - pay[2] /\ Left(3)' = Left(3) - pay[3]
        /\ pay[0] \in Nat /\ pay[1] \in Nat /\ pay[2] \in Nat /\ pay[3] \in Nat
        /\ Left(0) \in Nat /\ Left(1) \in Nat /\ Left(2) \in Nat /\ Left(3) \in Nat
    BY <1>3, SeqValues, LeftType DEF IInv
  <2>2. LeftIn(Seq)' = Left(0)' + Left(1)' + Left(2)' + Left(3)'
    BY SeqValues DEF LeftIn, Total
  <2> QED
    BY <1>1, <2>1, <2>2, LeftInAll
<1>5. TypeOK'
  <2>1. booking' \in {"held", "confirmed", "defaulted", "cancelled"}
    BY DEF Receive, IInv, TypeOK
  <2>2. state' \in [Seq -> {"open", "overdue", "defaulted", "paid"}]
    BY <1>0 DEF ApplyPayment, IInv, TypeOK
  <2> QED
    BY <1>0, <1>3, <2>1, <2>2 DEF IInv, TypeOK
<1>6. ReceiptsAreOnThePlan'
  <2>1. ASSUME LeftIn(Seq)' > 0 PROVE Total(paid)' = received'
    <3>1. MinOf(LeftIn(Seq), a) = a /\ LeftIn(Seq) > 0
      BY <1>0, <1>4, <2>1 DEF MinOf
    <3>2. Total(paid) = received
      BY <3>1 DEF IInv, ReceiptsAreOnThePlan
    <3>3. Total(paid)' = Total(paid) + (pay[0] + pay[1] + pay[2] + pay[3])
      BY <1>1, SeqValues DEF Total, IInv, TypeOK
    <3> QED
      BY <1>0, <1>1, <3>1, <3>2, <3>3
  <2> QED
    BY <1>3, <2>1 DEF ReceiptsAreOnThePlan
<1>7. OldestPaidNewestWaived'
  <2>1. \A i \in Seq : Left(i)' = Left(i) - pay[i] - forgo[i]
    BY <1>3, LeftType DEF IInv
  <2>2. \A i, j \in Seq : i < j => /\ pay[j] > 0 => pay[i] = Left(i)
                                   /\ forgo[i] > 0 => forgo[j] = Left(j)
    BY <1>1
  <2> HIDE DEF forgo
  <2> QED
    BY <1>1, <1>2, <2>1, <2>2, OrderKept
<1>8. PaidMeansNothingLeft'
  <2>1. ASSUME NEW i \in Seq PROVE state'[i] = "paid" <=> Left(i)' = 0
    <3>1. state'[i] = IF Visited(i, a) /\ paid'[i] + waived[i] >= Due[i] THEN "paid" ELSE state[i]
      BY <1>0 DEF ApplyPayment
    <3>2. state[i] = "paid" <=> Left(i) = 0
      BY DEF IInv, PaidMeansNothingLeft
    <3>3. Left(i) \in Nat /\ pay[i] \in Nat /\ pay[i] <= Left(i)
      BY <1>1, LeftType DEF IInv
    <3>4. CASE Visited(i, a)
      BY <1>0, <1>3, <3>1, <3>2, <3>4 DEF Visited
    <3>5. CASE ~Visited(i, a)
      BY <1>1, <1>3, <3>1, <3>2, <3>3, <3>5
    <3> QED
      BY <3>4, <3>5
  <2> QED
    BY <2>1 DEF PaidMeansNothingLeft
<1>9. PlanAsksForWhatIsOwed'
  <2>1. Obligation \in Int /\ Obligation' = Obligation
    <3>1. price \in Nat /\ Group - cancelled \in Int /\ charges \in Nat
      BY DueType, PlanAssumption DEF IInv, TypeOK
    <3> QED
      BY <1>0, <3>1 DEF Obligation
  <2>2. LeftIn(Seq)' <= Max0(Obligation' - received')
    <3>1. LeftIn(Seq) <= Max0(Obligation - received)
      BY DEF IInv, PlanAsksForWhatIsOwed
    <3> QED
      BY <1>0, <1>4, <2>1, <3>1 DEF Max0, MinOf
  <2>3. ASSUME \A c \in ChargePerPilgrim : c <= price' PROVE LeftIn(Seq)' >= Max0(Obligation' - received')
    <3>1. LeftIn(Seq) >= Max0(Obligation - received)
      BY <1>0, <2>3 DEF IInv, PlanAsksForWhatIsOwed
    <3> QED
      BY <1>0, <1>4, <2>1, <3>1 DEF Max0, MinOf
  <2> QED
    BY <2>2, <2>3 DEF PlanAsksForWhatIsOwed
<1> QED
  BY <1>4, <1>5, <1>6, <1>7, <1>8, <1>9 DEF IInv

(* Of an archived booking it is only added to the receipts. *)
LEMMA NoteSteps ==
  ASSUME IInv, NEW a \in Amount, Receive(a), ~Findable
  PROVE  IInv' /\ LeftIn(Seq)' = LeftIn(Seq)
<1>1. /\ a \in Nat /\ received \in Nat /\ received' = received + a /\ received' \in Nat
      /\ UNCHANGED <<price, booking, cancelled, charges, paid, waived, state>>
      /\ UNCHANGED <<dueUpTo, graceUpTo, listed, archived>>
  BY PlanAssumption DEF Receive, plan, IInv, TypeOK
<1>2. Due' = Due /\ (\A i \in Seq : Left(i)' = Left(i)) /\ Findable' = FALSE
  BY <1>1 DEF Due, Left, Findable
<1>3. LeftIn(Seq)' = LeftIn(Seq) /\ Obligation' = Obligation /\ Obligation \in Int /\ LeftIn(Seq) \in Nat
  <2>1. price \in Nat /\ Group - cancelled \in Int /\ charges \in Nat
    BY DueType, PlanAssumption DEF IInv, TypeOK
  <2> QED
    BY <1>1, <1>2, <2>1, SeqValues, LeftInType DEF LeftIn, Total, Obligation, IInv
<1>4. TypeOK'
  BY <1>1 DEF IInv, TypeOK
<1>5. ReceiptsAreOnThePlan' /\ OldestPaidNewestWaived' /\ PaidMeansNothingLeft'
  BY <1>1, <1>2 DEF IInv, ReceiptsAreOnThePlan, OldestPaidNewestWaived, PaidMeansNothingLeft
<1>6. PlanAsksForWhatIsOwed'
  <2>1. ASSUME \A c \in ChargePerPilgrim : c <= price' PROVE LeftIn(Seq)' >= Max0(Obligation' - received')
    <3>1. LeftIn(Seq) >= Max0(Obligation - received)
      BY <1>1, <2>1 DEF IInv, PlanAsksForWhatIsOwed
    <3> QED
      BY <1>1, <1>3, <3>1 DEF Max0
  <2> QED
    BY <1>2, <2>1 DEF PlanAsksForWhatIsOwed
<1> QED
  BY <1>3, <1>4, <1>5, <1>6 DEF IInv

----------------------------------------------------------------------------
(* Cancellation credits. *)

LEMMA CreditShares ==
  ASSUME IInv, NEW x \in Nat
  PROVE  LET forgo == [i \in Seq |-> Waived(i, x)]
         IN  /\ forgo \in [Seq -> Nat]
             /\ \A i \in Seq : forgo[i] <= Left(i)
             /\ forgo[0] + forgo[1] + forgo[2] + forgo[3] = MinOf(LeftIn(Seq), x)
             /\ \A i, j \in Seq : i < j /\ forgo[i] > 0 => forgo[j] = Left(j)
<1> DEFINE forgo == [i \in Seq |-> Waived(i, x)]
<1>1. \A i \in Seq : Left(i) \in Nat /\ LeftIn(After(i)) \in Nat
  BY LeftType, LeftInType DEF IInv
<1>2. \A i \in Seq : Waived(i, x) \in Nat /\ Waived(i, x) <= Left(i)
  BY <1>1 DEF Waived, MinOf, Max0
<1>3. /\ forgo[3] = Share(Left(3), 0, x) /\ forgo[2] = Share(Left(2), Left(3), x)
      /\ forgo[1] = Share(Left(1), Left(3) + Left(2), x)
      /\ forgo[0] = Share(Left(0), Left(3) + Left(2) + Left(1), x)
  BY LeftAfter, SeqValues DEF Waived, Share, IInv
<1>4. Left(0) \in Nat /\ Left(1) \in Nat /\ Left(2) \in Nat /\ Left(3) \in Nat
  BY <1>1, SeqValues
<1>5. forgo \in [Seq -> Nat] /\ \A i \in Seq : forgo[i] <= Left(i)
  BY <1>2
<1> HIDE DEF forgo
<1>6. /\ forgo[0] + forgo[1] + forgo[2] + forgo[3] = MinOf(LeftIn(Seq), x)
      /\ forgo[2] > 0 => forgo[3] = Left(3)
      /\ forgo[1] > 0 => forgo[3] = Left(3) /\ forgo[2] = Left(2)
      /\ forgo[0] > 0 => forgo[3] = Left(3) /\ forgo[2] = Left(2) /\ forgo[1] = Left(1)
  BY <1>3, <1>4, LeftInAll DEF Share, MinOf, Max0
<1>7. \A i, j \in Seq : i < j /\ forgo[i] > 0 => forgo[j] = Left(j)
  BY <1>6, SeqValues
<1> QED
  BY <1>5, <1>6, <1>7 DEF forgo

(* To the booking a cancellation takes off its credit, or all that is left. *)
LEMMA CancelSteps ==
  ASSUME IInv, NEW n \in 1 .. Group, NEW c \in ChargePerPilgrim, Cancel(n, c)
  PROVE  IInv' /\ LeftIn(Seq)' = LeftIn(Seq) - MinOf(LeftIn(Seq), Credit(n, c * n))
<1> DEFINE credit == Credit(n, c * n)
           forgo == [i \in Seq |-> Waived(i, credit)]
           pay == [i \in Seq |-> 0]
<1>0. /\ n \in Nat /\ n <= Group - cancelled /\ c \in Nat /\ Group \in Nat /\ cancelled \in Nat
      /\ price \in Nat /\ charges \in Nat
      /\ price * n \in Nat /\ c * n \in Nat
      /\ UNCHANGED <<price, received, paid, dueUpTo, graceUpTo, listed, archived>>
      /\ cancelled' = cancelled + n /\ charges' = charges + c * n
      /\ Findable /\ Findable'
  BY Products, DueType, PlanAssumption DEF Cancel, IInv, TypeOK, Findable
<1>1. credit \in Nat
  BY <1>0 DEF Credit, Max0
<1>2. /\ forgo \in [Seq -> Nat]
      /\ \A i \in Seq : forgo[i] <= Left(i)
      /\ forgo[0] + forgo[1] + forgo[2] + forgo[3] = MinOf(LeftIn(Seq), credit)
      /\ \A i, j \in Seq : i < j /\ forgo[i] > 0 => forgo[j] = Left(j)
  <2> HIDE DEF credit
  <2> QED
    BY <1>1, CreditShares
<1>3. /\ waived' = [i \in Seq |-> waived[i] + forgo[i]]
      /\ state' = [i \in Seq |-> IF paid[i] + waived'[i] >= Due[i] THEN "paid" ELSE state[i]]
  BY DEF Cancel
<1> HIDE DEF forgo, credit
<1>4. /\ pay \in [Seq -> Nat]
      /\ paid' = [i \in Seq |-> paid[i] + pay[i]]
      /\ \A i \in Seq : pay[i] + forgo[i] <= Left(i)
  BY <1>0, <1>2, LeftType DEF IInv, TypeOK
<1>5. \A i \in Seq : Left(i) \in Nat /\ forgo[i] \in Nat /\ Left(i) - pay[i] - forgo[i] = Left(i) - forgo[i]
  BY <1>2, LeftType DEF IInv
<1> HIDE DEF pay
<1>6. /\ Due' = Due
      /\ waived' \in [Seq -> Nat]
      /\ \A i \in Seq : /\ paid'[i] + waived'[i] <= Due[i]
                        /\ Left(i)' = Left(i) - pay[i] - forgo[i]
                        /\ Left(i)' = 0 <=> paid'[i] + waived'[i] >= Due[i]
  BY <1>0, <1>2, <1>3, <1>4, Settling
<1>7. LeftIn(Seq)' = LeftIn(Seq) - MinOf(LeftIn(Seq), credit) /\ LeftIn(Seq) \in Nat
  <2>1. /\ Left(0)' = Left(0) - forgo[0] /\ Left(1)' = Left(1) - forgo[1]
        /\ Left(2)' = Left(2) - forgo[2] /\ Left(3)' = Left(3) - forgo[3]
        /\ forgo[0] \in Nat /\ forgo[1] \in Nat /\ forgo[2] \in Nat /\ forgo[3] \in Nat
        /\ Left(0) \in Nat /\ Left(1) \in Nat /\ Left(2) \in Nat /\ Left(3) \in Nat
    BY <1>5, <1>6, SeqValues
  <2>2. LeftIn(Seq)' = Left(0)' + Left(1)' + Left(2)' + Left(3)'
    BY SeqValues DEF LeftIn, Total
  <2> QED
    BY <1>2, <2>1, <2>2, LeftInAll
<1>8. TypeOK'
  <2>1. booking' \in {"held", "confirmed", "defaulted", "cancelled"}
    BY DEF Cancel, IInv, TypeOK
  <2>2. state' \in [Seq -> {"open", "overdue", "defaulted", "paid"}]
    BY <1>3 DEF IInv, TypeOK
  <2>3. cancelled' \in 0 .. Group /\ charges' \in Nat
    BY <1>0
  <2> QED
    BY <1>0, <1>6, <2>1, <2>2, <2>3 DEF IInv, TypeOK
<1>9. ReceiptsAreOnThePlan'
  <2>1. LeftIn(Seq)' > 0 => LeftIn(Seq) > 0
    BY <1>1, <1>7 DEF MinOf
  <2>2. Total(paid)' = Total(paid)
    BY <1>0 DEF Total
  <2> QED
    BY <1>0, <1>6, <2>1, <2>2 DEF IInv, ReceiptsAreOnThePlan
<1>10. OldestPaidNewestWaived'
  <2>1. \A i, j \in Seq : i < j => /\ pay[j] > 0 => pay[i] = Left(i)
                                   /\ forgo[i] > 0 => forgo[j] = Left(j)
    BY <1>2 DEF pay
  <2>2. /\ pay \in [Seq -> Nat] /\ forgo \in [Seq -> Nat]
        /\ \A i \in Seq : pay[i] + forgo[i] <= Left(i)
        /\ \A i \in Seq : Left(i)' = Left(i) - pay[i] - forgo[i]
        /\ paid' = [i \in Seq |-> paid[i] + pay[i]]
        /\ waived' = [i \in Seq |-> waived[i] + forgo[i]]
    BY <1>2, <1>3, <1>4, <1>6
  <2> QED
    BY <2>1, <2>2, OrderKept
<1>11. PaidMeansNothingLeft'
  <2>1. ASSUME NEW i \in Seq PROVE state'[i] = "paid" <=> Left(i)' = 0
    <3>1. state'[i] = IF paid'[i] + waived'[i] >= Due[i] THEN "paid" ELSE state[i]
      BY <1>0, <1>3
    <3>2. state[i] = "paid" => Left(i) = 0
      BY DEF IInv, PaidMeansNothingLeft
    <3>3. Left(i)' = Left(i) - forgo[i] /\ forgo[i] \in Nat /\ forgo[i] <= Left(i) /\ Left(i) \in Nat
      BY <1>2, <1>5, <1>6
    <3> QED
      BY <1>6, <3>1, <3>2, <3>3
  <2> QED
    BY <2>1 DEF PaidMeansNothingLeft
<1>12. PlanAsksForWhatIsOwed'
  <2>1. Obligation' = Obligation - (price * n - c * n)
    <3>1. Group - cancelled \in Int /\ Group - (cancelled + n) = (Group - cancelled) - n
      BY <1>0
    <3>2. price * ((Group - cancelled) - n) = price * (Group - cancelled) - price * n
      BY <1>0, <3>1, Products
    <3>3. price * (Group - cancelled) \in Int
      BY <1>0, <3>1
    <3>4. Obligation' = price * ((Group - cancelled) - n) + (charges + c * n)
      BY <1>0, <3>1 DEF Obligation
    <3> QED
      BY <1>0, <3>2, <3>3, <3>4 DEF Obligation
  <2>2. Obligation \in Int /\ received \in Nat /\ received' = received
    BY <1>0 DEF Obligation, IInv, TypeOK
  <2>3. credit = Max0(price * n - c * n) /\ price * n - c * n \in Int
    BY <1>0 DEF credit, Credit
  <2>4. LeftIn(Seq)' <= Max0(Obligation' - received')
    <3>1. LeftIn(Seq) <= Max0(Obligation - received)
      BY <1>0 DEF IInv, PlanAsksForWhatIsOwed
    <3> QED
      BY <1>7, <2>1, <2>2, <2>3, <3>1 DEF Max0, MinOf
  <2>5. ASSUME \A k \in ChargePerPilgrim : k <= price'
        PROVE  LeftIn(Seq)' >= Max0(Obligation' - received')
    <3>1. LeftIn(Seq) >= Max0(Obligation - received) /\ c <= price
      BY <1>0, <2>5 DEF IInv, PlanAsksForWhatIsOwed
    <3>2. price * n - c * n >= 0
      BY <1>0, <3>1, Products
    <3> QED
      BY <1>7, <2>1, <2>2, <2>3, <3>1, <3>2 DEF Max0, MinOf
  <2> QED
    BY <2>4, <2>5 DEF PlanAsksForWhatIsOwed
<1> QED
  BY <1>7, <1>8, <1>9, <1>10, <1>11, <1>12 DEF IInv, credit

----------------------------------------------------------------------------
(* Time, the release of the hold and the job move no money. *)

LEMMA NoMoney ==
  ASSUME IInv, TypeOK', UNCHANGED <<price, cancelled, charges, received, paid, waived>>,
         Findable' => Findable,
         \A i \in Seq : state'[i] = "paid" <=> state[i] = "paid"
  PROVE  IInv'
<1>1. Due' = Due /\ \A i \in Seq : Left(i)' = Left(i)
  BY DEF Due, Left
<1>2. LeftIn(Seq)' = LeftIn(Seq) /\ Obligation' = Obligation /\ Total(paid)' = Total(paid)
  BY <1>1, SeqValues DEF LeftIn, Total, Obligation
<1>3. ReceiptsAreOnThePlan' /\ PlanAsksForWhatIsOwed'
  BY <1>1, <1>2 DEF IInv, ReceiptsAreOnThePlan, PlanAsksForWhatIsOwed
<1>4. OldestPaidNewestWaived' /\ PaidMeansNothingLeft'
  BY <1>1 DEF IInv, OldestPaidNewestWaived, PaidMeansNothingLeft
<1> QED
  BY <1>3, <1>4 DEF IInv

LEMMA TimeSteps ==
  ASSUME IInv, ReleaseHold \/ FallDue \/ GraceEnds \/ ListDue \/ RunFails
  PROVE  IInv'
<1>1. TypeOK'
  <2>1. CASE ReleaseHold \/ RunFails
    BY <2>1 DEF ReleaseHold, RunFails, IInv, TypeOK, plan
  <2>2. CASE FallDue \/ GraceEnds
    <3>1. dueUpTo' \in 0 .. Last + 1 /\ graceUpTo' \in 0 .. dueUpTo'
      BY <2>2, SeqValues DEF FallDue, GraceEnds, IInv, TypeOK
    <3>2. UNCHANGED <<price, booking, cancelled, charges, received, paid, waived, state, listed, archived>>
      BY <2>2 DEF FallDue, GraceEnds, plan
    <3> QED
      BY <3>1, <3>2 DEF IInv, TypeOK
  <2>3. CASE ListDue
    BY <2>3 DEF ListDue, IInv, TypeOK, plan
  <2> QED
    BY <2>1, <2>2, <2>3
<1>2. UNCHANGED <<price, cancelled, charges, received, paid, waived, state>> /\ Findable' = Findable
  BY DEF ReleaseHold, FallDue, GraceEnds, ListDue, RunFails, plan, Findable
<1> QED
  BY <1>1, <1>2, NoMoney

LEMMA RemoveSteps == ASSUME IInv, NEW b \in {"this", "other"}, RemoveBooking(b) PROVE IInv'
<1>1. TypeOK'
  BY DEF RemoveBooking, plan, IInv, TypeOK
<1>2. UNCHANGED <<price, cancelled, charges, received, paid, waived, state>> /\ (Findable' => Findable)
  BY DEF RemoveBooking, plan, Findable
<1> QED
  BY <1>1, <1>2, NoMoney

LEMMA OverdueSteps == ASSUME IInv, NEW i \in Seq, MarkOverdue(i) PROVE IInv'
<1>1. TypeOK'
  BY DEF MarkOverdue, IInv, TypeOK
<1>2. \A j \in Seq : state'[j] = "paid" <=> state[j] = "paid"
  BY DEF MarkOverdue, StillUnpaid, IInv, TypeOK
<1>3. Findable' = Findable
  BY DEF MarkOverdue, Findable
<1> QED
  BY <1>1, <1>2, <1>3, NoMoney DEF MarkOverdue

LEMMA InitInvariant == Init => IInv
<1> SUFFICES ASSUME Init PROVE IInv
  OBVIOUS
<1>1. TypeOK
  BY PlanAssumption, SeqValues DEF Init, TypeOK
<1>2. \A i \in Seq : paid[i] = 0 /\ waived[i] = 0 /\ Left(i) = Due[i] /\ Due[i] \in Nat /\ Due[i] > 0
  BY <1>1, DueType DEF Init, Left, Max0
<1>3. LeftIn(Seq) = price * Group /\ Total(paid) = 0
  BY <1>1, <1>2, LeftInAll, DueType, SeqValues DEF Total
<1>4. Obligation = price * Group /\ price * Group \in Nat /\ received = 0
  BY <1>1, DueType, PlanAssumption DEF Init, Obligation
<1>5. ReceiptsAreOnThePlan
  BY <1>2, <1>3, <1>4 DEF ReceiptsAreOnThePlan
<1>6. OldestPaidNewestWaived /\ PaidMeansNothingLeft
  BY <1>2 DEF Init, OldestPaidNewestWaived, PaidMeansNothingLeft
<1>7. PlanAsksForWhatIsOwed
  BY <1>3, <1>4 DEF PlanAsksForWhatIsOwed, Max0
<1> QED
  BY <1>1, <1>5, <1>6, <1>7 DEF IInv

LEMMA NextInvariant == IInv /\ [Next]_vars => IInv'
<1> SUFFICES ASSUME IInv, [Next]_vars PROVE IInv'
  OBVIOUS
<1>1. CASE UNCHANGED vars
  <2>1. TypeOK'
    BY <1>1 DEF vars, plan, IInv, TypeOK
  <2>2. Findable' = Findable
    BY <1>1 DEF vars, Findable
  <2> QED
    BY <1>1, <2>1, <2>2, NoMoney DEF vars, plan
<1>2. CASE Next
  BY <1>2, ReceiveSteps, NoteSteps, CancelSteps, TimeSteps, RemoveSteps, OverdueSteps DEF Next, WorkOffList
<1> QED
  BY <1>1, <1>2

LEMMA Invariant == Spec => []IInv
  BY InitInvariant, NextInvariant, PTL DEF Spec

(* The plan keeps its types: no amount paid or waived goes below zero. *)
THEOREM TypeCorrect == Spec => []TypeOK
<1>1. IInv => TypeOK
  BY DEF IInv
<1> QED
  BY <1>1, Invariant, PTL

(* Added up over the rows, the plan asks for what the booking owes, through *)
(* any receipts and partial cancellations: the frozen price of the pilgrims *)
(* left plus charges, less receipts; and never for more, whatever a         *)
(* cancellation is charged.                                                *)
THEOREM PlanIsOwed == Spec => []PlanAsksForWhatIsOwed
<1>1. IInv => PlanAsksForWhatIsOwed
  BY DEF IInv
<1> QED
  BY <1>1, Invariant, PTL

(* applyPaymentToInstallments loses no cent while something is unpaid, and  *)
(* neither it nor cancel settles more of an installment than it asks for.   *)
THEOREM ReceiptsStay == Spec => []ReceiptsAreOnThePlan
<1>1. IInv => ReceiptsAreOnThePlan
  BY DEF IInv
<1> QED
  BY <1>1, Invariant, PTL

(* Receipts settle the plan from its oldest end and credits from its newest. *)
THEOREM BothEnds == Spec => []OldestPaidNewestWaived
<1>1. IInv => OldestPaidNewestWaived
  BY DEF IInv
<1> QED
  BY <1>1, Invariant, PTL

(* The status of an installment says paid exactly when nothing is left of   *)
(* it; the overdue job never takes that back.                              *)
THEOREM PaidIsSettled == Spec => []PaidMeansNothingLeft
<1>1. IInv => PaidMeansNothingLeft
  BY DEF IInv
<1> QED
  BY <1>1, Invariant, PTL

(* What a run has listed as past its grace period stays so. *)
Graces == \A i \in Seq : listed[i] = "grace" => i < graceUpTo

LEMMA GracesHold == Spec => []Graces
<1>1. Init => Graces
  BY DEF Init, Graces
<1>2. IInv /\ Graces /\ [Next]_vars => Graces'
  <2> SUFFICES ASSUME IInv, Graces, [Next]_vars PROVE Graces'
    OBVIOUS
  <2> USE DEF Graces
  <2>1. CASE UNCHANGED <<listed, graceUpTo>>
    BY <2>1
  <2>2. CASE GraceEnds
    BY <2>2, SeqValues DEF GraceEnds, IInv, TypeOK
  <2>3. CASE ListDue
    BY <2>3 DEF ListDue
  <2>4. ASSUME NEW i \in Seq, MarkOverdue(i) PROVE Graces'
    BY <2>4 DEF MarkOverdue, IInv, TypeOK
  <2>5. CASE RunFails
    BY <2>5 DEF RunFails
  <2> QED
    BY <2>1, <2>2, <2>3, <2>4, <2>5
       DEF Next, Receive, Cancel, ReleaseHold, RemoveBooking, FallDue, WorkOffList, vars
<1> QED
  BY <1>1, <1>2, Invariant, PTL DEF Spec

(* The job defaults a booking only for an installment that is still owed    *)
(* when it holds the lock; nothing else defaults one.                      *)
THEOREM DefaultsOwed == Spec => DefaultsOnlyWhenOwing
<1>1. IInv /\ Graces /\ [Next]_vars =>
        [booking' = "defaulted" /\ booking # "defaulted" =>
            \E i \in Seq : i < graceUpTo /\ Left(i) > 0]_vars
  <2> SUFFICES ASSUME IInv, Graces, Next, booking' = "defaulted", booking # "defaulted"
               PROVE  \E i \in Seq : i < graceUpTo /\ Left(i) > 0
    OBVIOUS
  <2>1. PICK i \in Seq : MarkOverdue(i)
    BY DEF Next, Receive, Cancel, ReleaseHold, RemoveBooking, FallDue, GraceEnds, ListDue,
           WorkOffList, RunFails
  <2>2. listed[i] = "grace" /\ state[i] # "paid"
    BY <2>1 DEF MarkOverdue, StillUnpaid
  <2>3. i < graceUpTo /\ Left(i) # 0 /\ Left(i) \in Nat
    BY <2>2, LeftType DEF Graces, IInv, PaidMeansNothingLeft
  <2> QED
    BY <2>3
<1> QED
  BY <1>1, Invariant, GracesHold, PTL DEF Spec, DefaultsOnlyWhenOwing
----------------------------------------------------------------------------
(* The plan implements one account. *)

LEMMA LessIsMin == \A m, n \in Nat : m - MinOf(m, n) = Account!Less(m, n)
  BY DEF MinOf, Account!Less

LEMMA InitMaps == Init => Account!Init
<1> SUFFICES ASSUME Init PROVE Account!Init
  OBVIOUS
<1>1. IInv
  BY InitInvariant
<1>2. \A i \in Seq : Left(i) = Due[i]
  BY <1>1, LeftWithin, DueType DEF Init, IInv
<1>3. LeftIn(Seq) = price * Group
  BY <1>1, <1>2, LeftInAll, DueType, SeqValues DEF IInv, Total
<1> QED
  BY <1>3, PlanAssumption DEF Init, Account!Init, Findable

LEMMA DownPaymentIsFirst == ASSUME TypeOK PROVE Due[0] = Account!DownPayment
<1>1. price \in Nat /\ Group \in Nat
  BY PlanAssumption DEF TypeOK
<1>2. 3 * (price * Group) = 3 * price * Group
  BY <1>1
<1> QED
  BY <1>2, SeqValues DEF Due, Schedule, Account!DownPayment

(* That the threshold of a plan with a large charge may be under the down    *)
(* payment is where the plan must not ask for more than is owed.           *)
LEMMA ReceiveMaps ==
  ASSUME IInv, NEW a \in Amount, Receive(a), Findable
  PROVE  Account!Receive(a)
<1>1. /\ a \in Nat /\ received' = received + a /\ received' \in Nat
      /\ price' = price /\ cancelled' = cancelled /\ Obligation' = Obligation
      /\ Findable' = Findable
  BY PlanAssumption DEF Receive, IInv, TypeOK, Obligation, Findable
<1>2. LeftIn(Seq)' = Account!Less(LeftIn(Seq), a)
  BY <1>1, ReceiveSteps, LeftInType, LessIsMin DEF IInv
<1>3. Due[0] = Account!DownPayment /\ Due[0] \in Nat /\ Obligation \in Int
  <2>1. price \in Nat /\ Group - cancelled \in Int /\ charges \in Nat
    BY DueType, PlanAssumption DEF IInv, TypeOK
  <2> QED
    BY <2>1, DownPaymentIsFirst, DueType, SeqValues DEF IInv, Obligation
<1>4. CASE booking = "held" /\ received' >= MinOf(Due[0], Obligation)
  <2>1. received' >= Due[0] \/ received' >= Obligation
    BY <1>3, <1>4 DEF MinOf
  <2>2. IInv' /\ LeftIn(Seq)' \in Nat
    <3>1. IInv' /\ LeftIn(Seq) \in Nat /\ LeftIn(Seq)' = LeftIn(Seq) - MinOf(LeftIn(Seq), a)
      BY ReceiveSteps, LeftInType DEF IInv
    <3> QED
      BY <1>1, <3>1 DEF MinOf
  <2>3. received' >= Obligation => LeftIn(Seq)' = 0
    BY <1>1, <1>3, <2>2 DEF IInv, PlanAsksForWhatIsOwed, Max0
  <2> QED
    BY <1>1, <1>2, <1>3, <1>4, <2>1, <2>3 DEF Receive, Account!Receive
<1>5. CASE ~(booking = "held" /\ received' >= MinOf(Due[0], Obligation))
  <2>1. booking = "held" => received' < Due[0]
    BY <1>1, <1>3, <1>5 DEF MinOf
  <2>2. booking' = booking
    BY <1>5 DEF Receive
  <2> QED
    BY <1>1, <1>2, <1>3, <2>1, <2>2 DEF Account!Receive
<1> QED
  BY <1>4, <1>5

LEMMA NoteMaps == ASSUME IInv, NEW a \in Amount, Receive(a), ~Findable PROVE Account!Note(a)
<1>1. UNCHANGED <<price, cancelled, booking, archived>> /\ received' = received + a
  BY DEF Receive
<1> QED
  BY <1>1, NoteSteps DEF Account!Note, Findable

LEMMA CancelMaps ==
  ASSUME IInv, NEW n \in 1 .. Group, NEW c \in ChargePerPilgrim, Cancel(n, c)
  PROVE  n \in 1 .. Group - cancelled /\ Account!Relieve(n, c)
<1>1. /\ n \in 1 .. Group - cancelled /\ n \in Nat /\ c \in Nat
      /\ price \in Nat /\ price * n \in Nat /\ c * n \in Nat
      /\ Group \in Nat /\ cancelled \in Nat /\ cancelled' = cancelled + n
  BY Products, DueType, PlanAssumption DEF Cancel, IInv, TypeOK
<1>2. Credit(n, c * n) = Account!Less(price * n, c * n) /\ Credit(n, c * n) \in Nat
  BY <1>1 DEF Credit, Max0, Account!Less
<1>3. LeftIn(Seq)' = Account!Less(LeftIn(Seq), Account!Less(price * n, c * n))
  BY <1>2, CancelSteps, LeftInType, LessIsMin DEF IInv
<1>4. Group - cancelled' = (Group - cancelled) - n /\ (Group - cancelled' = 0 <=> cancelled' = Group)
  BY <1>1
<1> QED
  BY <1>1, <1>3, <1>4 DEF Cancel, Account!Relieve, Findable

(* Steps that leave the amounts alone leave the balance alone. *)
LEMMA BalanceKept ==
  ASSUME IInv, UNCHANGED <<price, cancelled, received, paid, waived>>
  PROVE  LeftIn(Seq)' = LeftIn(Seq)
<1>1. \A i \in Seq : Left(i)' = Left(i)
  BY DEF Left, Due
<1> QED
  BY <1>1, SeqValues DEF LeftIn, Total

LEMMA OverdueMaps ==
  ASSUME IInv, NEW i \in Seq, MarkOverdue(i)
  PROVE  Account!Default \/ UNCHANGED Account!account
<1>1. UNCHANGED <<price, cancelled, received, archived>> /\ Findable /\ LeftIn(Seq)' = LeftIn(Seq)
  BY BalanceKept DEF MarkOverdue
<1>2. CASE booking' = booking
  BY <1>1, <1>2 DEF Account!account, Findable
<1>3. CASE booking' # booking
  <2>1. booking = "confirmed" /\ booking' = "defaulted" /\ state[i] # "paid"
    BY <1>3 DEF MarkOverdue, StillUnpaid
  <2>2. \A j \in Seq : Left(j) \in Nat
    BY LeftType DEF IInv
  <2>3. Left(i) > 0
    BY <2>1, <2>2 DEF IInv, PaidMeansNothingLeft
  <2>4. LeftIn(Seq) > 0
    BY <2>2, <2>3, LeftInAll, SeqValues
  <2> QED
    BY <1>1, <2>1, <2>4 DEF Account!Default, Findable
<1> QED
  BY <1>2, <1>3

LEMMA NextMaps == IInv /\ [Next]_vars => [Account!Next]_(Account!account)
<1> SUFFICES ASSUME IInv, [Next]_vars PROVE [Account!Next]_(Account!account)
  OBVIOUS
<1>1. ASSUME NEW a \in Amount, Receive(a) PROVE Account!Next
  BY <1>1, ReceiveMaps, NoteMaps DEF Account!Next
<1>2. ASSUME NEW n \in 1 .. Group, NEW c \in ChargePerPilgrim, Cancel(n, c) PROVE Account!Next
  BY <1>2, CancelMaps DEF Account!Next
<1>3. CASE ReleaseHold
  BY <1>3, BalanceKept DEF ReleaseHold, plan, Account!Next, Account!Lapse, Findable
<1>4. CASE FallDue \/ GraceEnds \/ ListDue \/ RunFails \/ UNCHANGED vars
  BY <1>4, BalanceKept DEF FallDue, GraceEnds, ListDue, RunFails, vars, plan, Account!account, Findable
<1>5. ASSUME NEW i \in Seq, MarkOverdue(i) PROVE [Account!Next]_(Account!account)
  BY <1>5, OverdueMaps DEF Account!Next
<1>6. ASSUME NEW b \in {"this", "other"}, RemoveBooking(b) PROVE [Account!Next]_(Account!account)
  <2>1. UNCHANGED <<price, cancelled, received, booking>> /\ LeftIn(Seq)' = LeftIn(Seq)
    BY <1>6, BalanceKept DEF RemoveBooking, plan
  <2>2. CASE b = "this"
    BY <1>6, <2>1, <2>2 DEF RemoveBooking, Findable, Account!Next, Account!Close
  <2>3. CASE b = "other"
    BY <1>6, <2>1, <2>3 DEF RemoveBooking, Findable, Account!account
  <2> QED
    BY <2>2, <2>3
<1> QED
  BY <1>1, <1>2, <1>3, <1>4, <1>5, <1>6 DEF Next, WorkOffList

(* Whatever the prices, the group, the receipts and the charges, the rows of *)
(* the plan behave as the one account of Receivable.tla.                    *)
THEOREM Refinement == Spec => ImplementsReceivable
  BY InitMaps, NextMaps, Invariant, PTL DEF Spec, ImplementsReceivable, Account!Spec
=============================================================================
