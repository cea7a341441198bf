------------------------- MODULE SalePaymentsProofs -------------------------
(***************************************************************************)
(* Proofs about SalePayments, for every set of sessions, sales and         *)
(* amounts and every int64 bound.                                          *)
(***************************************************************************)
EXTENDS SalePayments, TLAPS

(* An open transaction holds the lock of its sale; what a payment was      *)
(* checked against is still what the tables say.                           *)
JobOK(s) ==
  /\ job[s] # NoJob => lock[job[s].sale] = s
  /\ job[s].kind = "payment" =>
       /\ status[job[s].sale] \in Payable
       /\ Accepted(job[s].sale, job[s].amount.cents)

JobInv == \A s \in Sessions : JobOK(s)

IInv == TypeOK /\ JobInv /\ OverpaidByACentAtMost

-----------------------------------------------------------------------------
(* A job is of exactly one kind.                                           *)
LEMMA JobKinds ==
  ASSUME TypeOK, NEW s \in Sessions
  PROVE  /\ job[s].kind = "payment" => job[s] \in Payments
         /\ job[s].kind = "status" => job[s] \in Moves
         /\ job[s].kind \in {"payment", "status"} => job[s] # NoJob
BY DEF TypeOK, NoJob, Payments, Moves

(* What a sale has paid is at most what it had paid plus one amount, whose *)
(* two roundings differ by a cent.                                         *)
LEMMA OneMore ==
  ASSUME PaymentsAssumption, TypeOK, NEW o \in Sales, NEW a \in Amounts,
         Accepted(o, a.cents), Wide(o) \/ paid[o] <= Total[o] + 1
  PROVE  /\ paid[o] + a.stored \in 0..2 * MaxInt + 1
         /\ \/ widest[o] >= MaxInt - Total[o]
            \/ a.cents >= MaxInt - Total[o]
            \/ paid[o] + a.stored <= Total[o] + 1
<1>1. /\ a.cents \in 0..MaxInt /\ a.stored \in 0..MaxInt + 1
      /\ a.stored \in a.cents - 1..a.cents + 1
      /\ MaxInt \in Nat /\ Total[o] \in Nat
  BY DEF PaymentsAssumption
<1>2. /\ paid[o] \in 0..2 * MaxInt + 1 /\ paid[o] <= MaxInt
      /\ widest[o] \in 0..MaxInt
  BY DEF TypeOK, Accepted, IsMoney
<1>3. paid[o] + a.stored \in 0..2 * MaxInt + 1
  BY <1>1, <1>2
<1>4. CASE paid[o] + a.cents > MaxInt
  <2>1. widest[o] >= MaxInt - Total[o] \/ paid[o] <= Total[o] + 1
    BY DEF Wide
  <2> QED BY <1>1, <1>2, <1>3, <1>4, <2>1
<1>5. CASE paid[o] + a.cents <= MaxInt
  <2>1. paid[o] + a.cents <= Total[o]
    BY <1>1, <1>2, <1>5 DEF Accepted, Wrap
  <2> QED BY <1>1, <1>2, <1>3, <2>1
<1> QED BY <1>1, <1>2, <1>4, <1>5

-----------------------------------------------------------------------------
LEMMA InitHolds ==
  ASSUME PaymentsAssumption, Init
  PROVE  IInv
<1>1. TypeOK
  BY DEF PaymentsAssumption, Init, TypeOK, SaleStatus
<1>2. JobInv
  BY DEF Init, JobInv, JobOK, NoJob
<1>3. OverpaidByACentAtMost
  BY DEF PaymentsAssumption, Init, OverpaidByACentAtMost
<1> QED BY <1>1, <1>2, <1>3 DEF IInv

(* A transaction that begins changes no table, and leaves the others'      *)
(* locks alone.                                                            *)
LEMMA WriteKeeps ==
  ASSUME PaymentsAssumption, IInv, NEW s \in Sessions, NEW o \in Sales,
         NEW j \in Payments \cup Moves, j.sale = o, Write(s, o, j),
         j.kind = "payment" => status[o] \in Payable /\ Accepted(o, j.amount.cents)
  PROVE  IInv'
<1> USE DEF IInv
<1>1. TypeOK'
  BY DEF TypeOK, Write
<1>2. JobInv'
  <2> SUFFICES ASSUME NEW t \in Sessions
               PROVE  JobOK(t)'
    BY DEF JobInv
  <2>1. CASE t = s
    BY <2>1 DEF JobOK, TypeOK, Write, Accepted, NoJob
  <2>2. CASE t # s
    <3>1. job'[t] = job[t] /\ status' = status /\ paid' = paid
      BY <2>2 DEF TypeOK, Write
    <3>2. job[t] # NoJob => job[t].sale # o
      BY DEF JobInv, JobOK, Write, LockFree, PaymentsAssumption
    <3>3. job[t] # NoJob => lock'[job[t].sale] = t
      <4>1. job[t] # NoJob => lock[job[t].sale] = t
        BY DEF JobInv, JobOK
      <4>2. job[t] # NoJob => job[t].sale \in Sales
        BY DEF TypeOK, Payments, Moves
      <4> QED BY <3>2, <4>1, <4>2 DEF TypeOK, Write
    <3> QED BY <3>1, <3>3 DEF JobInv, JobOK, Accepted
  <2> QED BY <2>1, <2>2
<1>3. OverpaidByACentAtMost'
  BY DEF OverpaidByACentAtMost, Wide, Write
<1> QED BY <1>1, <1>2, <1>3

(* A transaction that ends and changes at most the tables' rows of its     *)
(* own sale leaves JobInv to the others.                                   *)
LEMMA ReleaseKeeps ==
  ASSUME PaymentsAssumption, TypeOK, JobInv, NEW s \in Sessions, Release(s),
         \A o \in Sales : o # job[s].sale =>
           status'[o] = status[o] /\ paid'[o] = paid[o]
  PROVE  JobInv'
<1> SUFFICES ASSUME NEW t \in Sessions
             PROVE  JobOK(t)'
  BY DEF JobInv
<1>1. CASE t = s
  BY <1>1 DEF JobOK, TypeOK, Release, NoJob
<1>2. CASE t # s
  <2>1. job'[t] = job[t]
    BY <1>2 DEF TypeOK, Release
  <2>2. job[t] # NoJob => job[t].sale \in Sales /\ job[t].sale # job[s].sale
    BY <1>2 DEF TypeOK, JobInv, JobOK, Release, Payments, Moves
  <2>3. job[t] # NoJob => lock'[job[t].sale] = t
    BY <1>2, <2>2 DEF JobInv, JobOK, Release
  <2>4. job[t].kind = "payment" => job[t] # NoJob
    BY JobKinds
  <2> QED BY <2>1, <2>2, <2>3, <2>4 DEF JobInv, JobOK, Accepted
<1> QED BY <1>1, <1>2

-----------------------------------------------------------------------------
LEMMA StepKeeps ==
  ASSUME PaymentsAssumption, IInv, NEW s \in Sessions, Step(s)
  PROVE  IInv'
<1>1. CASE CreatePayment(s)
  <2>1. PICK o \in Sales, a \in Amounts :
          /\ status[o] \in Payable /\ Accepted(o, a.cents)
          /\ Write(s, o, [kind |-> "payment", sale |-> o, amount |-> a])
    BY <1>1 DEF CreatePayment
  <2>2. [kind |-> "payment", sale |-> o, amount |-> a] \in Payments
    BY DEF Payments
  <2> QED BY <2>1, <2>2, WriteKeeps
<1>2. CASE CommitPayment(s)
  <2> DEFINE o == job[s].sale
             a == job[s].amount
  <2>1. /\ o \in Sales /\ a \in Amounts /\ Accepted(o, a.cents)
        /\ Wide(o) \/ paid[o] <= Total[o] + 1
    BY <1>2, JobKinds DEF CommitPayment, IInv, JobInv, JobOK, Payments, OverpaidByACentAtMost
  <2>2. /\ paid' = [paid EXCEPT ![o] = @ + a.stored]
        /\ widest' = [widest EXCEPT ![o] = IF a.cents > @ THEN a.cents ELSE @]
        /\ status' = status /\ Release(s)
    BY <1>2 DEF CommitPayment
  <2>3. /\ paid[o] + a.stored \in 0..2 * MaxInt + 1
        /\ \/ widest[o] >= MaxInt - Total[o]
           \/ a.cents >= MaxInt - Total[o]
           \/ paid[o] + a.stored <= Total[o] + 1
    BY <2>1, OneMore DEF IInv
  <2>4. TypeOK'
    <3>1. paid' \in [Sales -> 0..2 * MaxInt + 1]
      BY <2>1, <2>2, <2>3 DEF IInv, TypeOK
    <3>2. widest' \in [Sales -> 0..MaxInt]
      BY <2>1, <2>2 DEF IInv, TypeOK, PaymentsAssumption
    <3> QED BY <2>2, <3>1, <3>2 DEF IInv, TypeOK, Release
  <2>5. JobInv'
    BY <2>1, <2>2, ReleaseKeeps DEF IInv, TypeOK
  <2>6. OverpaidByACentAtMost'
    <3> SUFFICES ASSUME NEW q \in Sales
                 PROVE  widest'[q] >= MaxInt - Total[q] \/ paid'[q] <= Total[q] + 1
      BY DEF OverpaidByACentAtMost, Wide
    <3>1. CASE q = o
      <4>1. paid'[o] = paid[o] + a.stored
        BY <2>1, <2>2 DEF IInv, TypeOK
      <4>2. widest'[o] = IF a.cents > widest[o] THEN a.cents ELSE widest[o]
        BY <2>1, <2>2 DEF IInv, TypeOK
      <4>3. /\ widest[o] \in Int /\ a.cents \in Int
            /\ MaxInt \in Int /\ Total[o] \in Int
        BY <2>1 DEF IInv, TypeOK, PaymentsAssumption
      <4> HIDE DEF o, a
      <4> QED BY <2>3, <3>1, <4>1, <4>2, <4>3
    <3>2. CASE q # o
      BY <2>2, <3>2 DEF IInv, TypeOK, OverpaidByACentAtMost, Wide
    <3> QED BY <3>1, <3>2
  <2> QED BY <2>4, <2>5, <2>6 DEF IInv
<1>3. CASE ChangeStatus(s)
  <2>1. PICK o \in Sales, t \in Transitions :
          Write(s, o, [kind |-> "status", sale |-> o, to |-> t[2]])
    BY <1>3 DEF ChangeStatus
  <2>2. [kind |-> "status", sale |-> o, to |-> t[2]] \in Moves
    BY DEF Moves, Transitions, SaleStatus
  <2> QED BY <2>1, <2>2, WriteKeeps
<1>4. CASE CommitStatus(s)
  <2>1. job[s] \in Moves
    BY <1>4, JobKinds DEF CommitStatus, IInv
  <2>2. JobInv'
    BY <1>4, <2>1, ReleaseKeeps DEF CommitStatus, IInv, TypeOK, Moves
  <2>3. TypeOK'
    BY <1>4, <2>1 DEF CommitStatus, Release, IInv, TypeOK, Moves
  <2>4. OverpaidByACentAtMost'
    BY <1>4 DEF CommitStatus, IInv, OverpaidByACentAtMost, Wide
  <2> QED BY <2>2, <2>3, <2>4 DEF IInv
<1>5. CASE Abort(s)
  <2>1. JobInv'
    BY <1>5, ReleaseKeeps DEF Abort, IInv
  <2>2. TypeOK'
    BY <1>5 DEF Abort, Release, IInv, TypeOK
  <2>3. OverpaidByACentAtMost'
    BY <1>5 DEF Abort, IInv, OverpaidByACentAtMost, Wide
  <2> QED BY <2>1, <2>2, <2>3 DEF IInv
<1> QED BY <1>1, <1>2, <1>3, <1>4, <1>5 DEF Step

LEMMA Inductive == Spec => []IInv
<1>1. Init => IInv
  BY PaymentsAssumption, InitHolds
<1>2. IInv /\ [Next]_vars => IInv'
  <2> SUFFICES ASSUME IInv, [Next]_vars PROVE IInv'
    OBVIOUS
  <2>1. CASE Next
    BY <2>1, PaymentsAssumption, StepKeeps DEF Next
  <2>2. CASE UNCHANGED vars
    BY <2>2 DEF vars, IInv, TypeOK, JobInv, JobOK, Accepted, OverpaidByACentAtMost, Wide
  <2> QED BY <2>1, <2>2
<1> QED BY <1>1, <1>2, PTL DEF Spec

-----------------------------------------------------------------------------
(* Every variable of SalePayments keeps its type; what is paid stays below *)
(* 2^64 cents.                                                             *)
THEOREM PaymentsTypeCorrect == Spec => []TypeOK
<1>1. IInv => TypeOK
  BY DEF IInv
<1> QED BY <1>1, Inductive, PTL

(* Concurrent payments exceed a sale's total by a cent at most, as long as *)
(* each amount and the total together fit int64.                           *)
THEOREM OverpaymentBounded == Spec => []OverpaidByACentAtMost
<1>1. IInv => OverpaidByACentAtMost
  BY DEF IInv
<1> QED BY <1>1, Inductive, PTL

(* A payment becomes visible only while its sale is neither a draft nor    *)
(* cancelled.                                                              *)
THEOREM PaymentsOnlyWhilePayable == Spec => PaidWhilePayable
<1>1. IInv /\ [Next]_vars =>
        [\A o \in Sales : paid'[o] # paid[o] =>
           status[o] \in Payable /\ status'[o] = status[o]]_vars
  <2> SUFFICES ASSUME IInv, NEW s \in Sessions, Step(s), NEW o \in Sales,
                      paid'[o] # paid[o]
               PROVE  status[o] \in Payable /\ status'[o] = status[o]
    BY DEF Next
  <2>1. CASE CommitPayment(s)
    <3>1. o = job[s].sale
      BY <2>1 DEF CommitPayment, IInv, TypeOK
    <3> QED BY <2>1, <3>1 DEF CommitPayment, IInv, JobInv, JobOK
  <2> QED BY <2>1 DEF Step, CreatePayment, ChangeStatus, Write, CommitStatus, Abort
<1> QED BY <1>1, Inductive, PTL DEF Spec, PaidWhilePayable

-----------------------------------------------------------------------------
(* The summary of a sale only advances as what is paid grows, as long as   *)
(* the amounts fit int64.                                                  *)
LEMMA RankGrows ==
  ASSUME PaymentsAssumption, NEW p \in Nat, NEW q \in Nat, NEW total \in Nat,
         p <= q, q <= MaxInt, total <= MaxInt
  PROVE  Rank(p, total) <= Rank(q, total)
<1>1. MaxInt \in Nat
  BY DEF PaymentsAssumption
<1>2. CASE p >= total /\ total > 0
  BY <1>1, <1>2 DEF Rank, PaymentStatus, IsMoney
<1>3. CASE p > 0 /\ p < total
  <2>1. PaymentStatus(p, total) = "PARTIALLY_PAID"
    BY <1>1, <1>3 DEF PaymentStatus, IsMoney
  <2>2. PaymentStatus(q, total) \in {"PARTIALLY_PAID", "PAID"}
    <3>1. CASE q >= total
      BY <1>1, <1>3, <3>1 DEF PaymentStatus, IsMoney
    <3>2. CASE q < total
      BY <1>1, <1>3, <3>2 DEF PaymentStatus, IsMoney
    <3> QED BY <1>3, <3>1, <3>2
  <2> QED BY <2>1, <2>2 DEF Rank
<1>4. CASE ~(p >= total /\ total > 0) /\ ~(p > 0 /\ p < total)
  <2>1. PaymentStatus(p, total) = "UNPAID"
    BY <1>1, <1>4 DEF PaymentStatus, IsMoney
  <2>2. PaymentStatus(q, total) \in {"UNPAID", "PARTIALLY_PAID", "PAID"}
    BY DEF PaymentStatus
  <2> QED BY <2>1, <2>2 DEF Rank
<1> QED BY <1>2, <1>3, <1>4

(* What GetPaymentSummary calls a sale only advances: a committed payment  *)
(* keeps the sum within int64 unless its amount was wide, so it never      *)
(* makes a sale look less paid.                                            *)
THEOREM SummaryOnlyAdvances == Spec => SummaryNeverRegresses
<1> DEFINE Advances ==
      \A o \in Sales : Wide(o)' \/ Rank(paid[o], Total[o]) <= Rank(paid'[o], Total[o])
<1>1. ASSUME NEW s \in Sessions, IInv, Step(s), NEW o \in Sales, ~Wide(o)'
      PROVE  Rank(paid[o], Total[o]) <= Rank(paid'[o], Total[o])
  <2>1. CASE paid'[o] = paid[o]
    <3>1. Rank(paid[o], Total[o]) \in {0, 1, 2}
      BY DEF Rank, PaymentStatus
    <3> QED BY <2>1, <3>1
  <2>2. CASE paid'[o] # paid[o]
    <3>1. CommitPayment(s)
      BY <1>1, <2>2 DEF Step, CreatePayment, ChangeStatus, Write, CommitStatus, Abort
    <3>2. PICK a \in Amounts : a = job[s].amount
      BY <3>1, <1>1, JobKinds DEF CommitPayment, IInv, Payments
    <3>3. o = job[s].sale /\ Accepted(o, a.cents)
      BY <1>1, <2>2, <3>1, <3>2 DEF CommitPayment, IInv, TypeOK, JobInv, JobOK
    <3>4. /\ paid'[o] = paid[o] + a.stored
          /\ widest'[o] = IF a.cents > widest[o] THEN a.cents ELSE widest[o]
      BY <1>1, <3>1, <3>2, <3>3 DEF CommitPayment, IInv, TypeOK
    <3>5. /\ a.cents \in 0..MaxInt /\ a.stored \in 0..MaxInt + 1
          /\ a.stored \in a.cents - 1..a.cents + 1
          /\ MaxInt \in Nat /\ Total[o] \in Nat
      BY <1>1, PaymentsAssumption DEF PaymentsAssumption
    <3>6. paid[o] \in Nat /\ widest[o] \in 0..MaxInt
      BY <1>1 DEF IInv, TypeOK, PaymentsAssumption
    <3>7. widest'[o] < MaxInt - Total[o]
      BY <1>1, <3>4, <3>5, <3>6 DEF Wide
    <3>8. a.cents < MaxInt - Total[o] /\ widest[o] < MaxInt - Total[o]
      BY <3>4, <3>5, <3>6, <3>7
    <3>9. paid[o] <= Total[o] + 1
      BY <1>1, <3>5, <3>6, <3>8 DEF IInv, OverpaidByACentAtMost, Wide
    <3>10. paid[o] + a.cents <= Total[o]
      BY <3>3, <3>5, <3>6, <3>8, <3>9 DEF Accepted, Wrap
    <3>11. paid'[o] \in Nat /\ paid[o] <= paid'[o] /\ paid'[o] <= MaxInt /\ Total[o] <= MaxInt
      BY <3>4, <3>5, <3>6, <3>8, <3>10
    <3> QED BY <3>5, <3>6, <3>11, RankGrows, PaymentsAssumption
  <2> QED BY <2>1, <2>2
<1>2. IInv /\ [Next]_vars => [Advances]_vars
  BY <1>1 DEF Next
<1> QED BY <1>2, Inductive, PTL DEF Spec, SummaryNeverRegresses
=============================================================================
