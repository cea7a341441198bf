---------------------------- MODULE SalePayments ----------------------------
(***************************************************************************)
(* Payments of sales (backend/internal/sales/service.go, CreatePayment and *)
(* GetPaymentSummary; migration 0026).  A payment's amount arrives as a    *)
(* float64.  The service compares it in cents, rounded by moneyCents; the  *)
(* table stores the float itself, which PostgreSQL rounds to NUMERIC(20,2) *)
(* from its decimal text.  The two roundings may differ by a cent: 1.005   *)
(* is 100 cents to math.Round(v * 100) and 1.01 to PostgreSQL.             *)
(*                                                                         *)
(*   status, paid   sales.status, SUM(sales_payments.amount) in cents      *)
(*   widest         history: the largest amount, in cents, accepted so far *)
(*   job            the transaction a session has open, with what it wrote *)
(*   lock           the holder of each sale's row lock                     *)
(***************************************************************************)
EXTENDS Integers

CONSTANTS
  Sessions,   (* concurrent requests                                       *)
  Sales,      (* sale identifiers                                          *)
  Total,      (* sales.total_amount in cents; no operation changes it      *)
  Amounts,    (* amounts clients send: what moneyCents and the table make  *)
              (* of each                                                   *)
  MaxInt,     (* the largest int64                                         *)
  NoOne       (* the holder of a free lock                                 *)

ASSUME PaymentsAssumption ==
  /\ NoOne \notin Sessions
  /\ MaxInt \in Nat \ {0}
  /\ Total \in [Sales -> Nat]
  /\ Amounts \subseteq [cents : 0..MaxInt, stored : 0..MaxInt + 1]
  /\ \A a \in Amounts : a.stored \in a.cents - 1..a.cents + 1

VARIABLES status, paid, widest, job, lock
vars == <<status, paid, widest, job, lock>>

SaleStatus == {"DRAFT", "CONFIRMED", "PARTIALLY_FULFILLED", "FULFILLED",
               "COMPLETED", "CANCELLED"}
Payable    == SaleStatus \ {"DRAFT", "CANCELLED"}
NoJob      == [kind |-> "none"]
Payments   == [kind : {"payment"}, sale : Sales, amount : Amounts]
Moves      == [kind : {"status"}, sale : Sales, to : SaleStatus]

(* What ConfirmSale, FulfillSale, CompleteSale and CancelSale do to the     *)
(* status of a sale.  None of them looks at its payments.                  *)
Transitions ==
  {<<"DRAFT", "CONFIRMED">>, <<"DRAFT", "COMPLETED">>, <<"DRAFT", "CANCELLED">>,
   <<"CONFIRMED", "PARTIALLY_FULFILLED">>, <<"CONFIRMED", "FULFILLED">>,
   <<"PARTIALLY_FULFILLED", "PARTIALLY_FULFILLED">>,
   <<"PARTIALLY_FULFILLED", "FULFILLED">>, <<"COMPLETED", "CANCELLED">>}

-----------------------------------------------------------------------------
(* Go's int64 sum.                                                         *)
Wrap(n) == IF n > MaxInt THEN n - 2 * (MaxInt + 1) ELSE n

(* moneyCents succeeds: the value, in cents, is an int64.                  *)
IsMoney(cents) == cents <= MaxInt

Fault_Accepted(o, cents) == Wrap(paid[o] + cents) <= Total[o]
(* The comparison that refuses an overpayment.                             *)
Accepted(o, cents) ==
  /\ IsMoney(Total[o]) /\ IsMoney(paid[o])
  /\ Wrap(paid[o] + cents) <= Total[o]

\* A remainder below zero is not raised to zero.
Fault_PaymentStatus(p, total) ==
  LET remaining == total - p
  IN CASE ~IsMoney(p) \/ ~IsMoney(total) -> "UNPAID"
       [] remaining = 0 /\ total > 0 -> "PAID"
       [] p > 0 /\ remaining > 0 -> "PARTIALLY_PAID"
       [] OTHER -> "UNPAID"

(* buildPaymentSummary, for a sale with p cents paid of total.             *)
PaymentStatus(p, total) ==
  CASE ~IsMoney(p) \/ ~IsMoney(total) -> "UNPAID"
    [] p >= total /\ total > 0 -> "PAID"
    [] p > 0 /\ p < total -> "PARTIALLY_PAID"
    [] OTHER -> "UNPAID"

Fault_LockFree(o) == TRUE                 \* SELECT without FOR UPDATE
LockFree(o) == lock[o] = NoOne

Init ==
  /\ status = [o \in Sales |-> "DRAFT"]
  /\ paid   = [o \in Sales |-> 0]
  /\ widest = [o \in Sales |-> 0]
  /\ job    = [s \in Sessions |-> NoJob]
  /\ lock   = [o \in Sales |-> NoOne]

-----------------------------------------------------------------------------
(* A session with no transaction locks sale o and has written j, which     *)
(* nobody sees before COMMIT.                                              *)
Write(s, o, j) ==
  /\ job[s] = NoJob
  /\ LockFree(o)
  /\ lock' = [lock EXCEPT ![o] = s]
  /\ job'  = [job EXCEPT ![s] = j]
  /\ UNCHANGED <<status, paid, widest>>

(* COMMIT or ROLLBACK of s ends its transaction.                           *)
Release(s) ==
  /\ job[s] # NoJob
  /\ job'  = [job EXCEPT ![s] = NoJob]
  /\ lock' = [o \in Sales |-> IF lock[o] = s THEN NoOne ELSE lock[o]]

(* CreatePayment up to its INSERT.  A refusal changes nothing; a stored    *)
(* amount of zero fails the table's CHECK.                                 *)
CreatePayment(s) ==
  \E o \in Sales, a \in Amounts :
    /\ a.cents > 0
    /\ status[o] \in Payable
    /\ Accepted(o, a.cents)
    /\ a.stored > 0
    /\ Write(s, o, [kind |-> "payment", sale |-> o, amount |-> a])

CommitPayment(s) ==
  /\ job[s].kind = "payment"
  /\ LET o == job[s].sale
         a == job[s].amount
     IN /\ paid'   = [paid EXCEPT ![o] = @ + a.stored]
        /\ widest' = [widest EXCEPT ![o] = IF a.cents > @ THEN a.cents ELSE @]
  /\ UNCHANGED status
  /\ Release(s)

(* The other operations of the sale: lock it, check its status, write the  *)
(* next one, commit.                                                       *)
ChangeStatus(s) ==
  \E o \in Sales, t \in Transitions :
    /\ status[o] = t[1]
    /\ Write(s, o, [kind |-> "status", sale |-> o, to |-> t[2]])

CommitStatus(s) ==
  /\ job[s].kind = "status"
  /\ status' = [status EXCEPT ![job[s].sale] = job[s].to]
  /\ UNCHANGED <<paid, widest>>
  /\ Release(s)

(* A later statement fails or the client goes away: the driver rolls back. *)
Abort(s) == Release(s) /\ UNCHANGED <<status, paid, widest>>

Step(s) ==
  \/ CreatePayment(s)
  \/ CommitPayment(s)
  \/ ChangeStatus(s)
  \/ CommitStatus(s)
  \/ Abort(s)

Next == \E s \in Sessions : Step(s)
Spec == Init /\ [][Next]_vars

-----------------------------------------------------------------------------
(* Every variable keeps its type.  Since CreatePayment refuses when the    *)
(* sum in the table no longer fits int64, what is paid stays below 2^64.   *)
TypeOK ==
  /\ status \in [Sales -> SaleStatus]
  /\ paid \in [Sales -> 0..2 * MaxInt + 1]
  /\ widest \in [Sales -> 0..MaxInt]
  /\ job \in [Sessions -> Payments \cup Moves \cup {NoJob}]
  /\ lock \in [Sales -> Sessions \cup {NoOne}]

(* Sale o has accepted an amount so large that adding it may have wrapped. *)
Wide(o) == widest[o] >= MaxInt - Total[o]

(* Concurrent payments together never exceed a sale's total by more than   *)
(* the cent by which the two roundings of one amount differ, as long as    *)
(* amount and total together fit int64 (CreatePayment's paidCents +        *)
(* amountCents > totalCents).                                              *)
OverpaidByACentAtMost ==
  \A o \in Sales : Wide(o) \/ paid[o] <= Total[o] + 1

(* A payment becomes visible only while its sale is payable: neither a     *)
(* draft nor cancelled, although its status was checked earlier and the    *)
(* sale is confirmed, fulfilled and cancelled meanwhile.                   *)
PaidWhilePayable ==
  [][\A o \in Sales : paid'[o] # paid[o] =>
       status[o] \in Payable /\ status'[o] = status[o]]_vars

Rank(p, total) ==
  CASE PaymentStatus(p, total) = "UNPAID" -> 0
    [] PaymentStatus(p, total) = "PARTIALLY_PAID" -> 1
    [] PaymentStatus(p, total) = "PAID" -> 2

(* What GetPaymentSummary calls a sale only advances, from UNPAID over     *)
(* PARTIALLY_PAID to PAID: no later payment, not even one that overpays by *)
(* a cent, makes a paid sale look unpaid.                                  *)
SummaryNeverRegresses ==
  [][\A o \in Sales : Wide(o)' \/
       Rank(paid[o], Total[o]) <= Rank(paid'[o], Total[o])]_vars

(* "payment exceeds remaining amount" (ErrPaymentOverpayment) is what      *)
(* CreatePayment answers instead of taking more than the total.            *)
NeverOverpaid == \A o \in Sales : paid[o] <= Total[o]
=============================================================================
