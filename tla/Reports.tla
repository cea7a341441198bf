------------------------------ MODULE Reports ------------------------------
(***************************************************************************)
(* Reports and the dashboard (backend/internal/reporting and dashboard)    *)
(* beside the requests that change what they count.  A report is several   *)
(* SELECT statements without a transaction around them: each sees what is  *)
(* committed when it runs, and repeats the conditions on date and branch.  *)
(* A sum over rows is determined by which rows it takes in, so that a part *)
(* of a report is the set of these rows.                                   *)
(*                                                                         *)
(*   state    what has become of each row of the tables that are reported  *)
(*   active   the branches that are active                                 *)
(*   today    the day of the server's clock                                *)
(*   req      the report each session asks for: for which user, which days *)
(*            and which branch, if any                                     *)
(*   scope    the branches it may take in, or Everywhere                   *)
(*   todo     the statements it has still to run                           *)
(*   shown    the parts it has so far                                      *)
(*   changed  history: the rows whose place in the report has changed since*)
(*            it began                                                     *)
(***************************************************************************)
EXTENDS Naturals, Sequences

CONSTANTS
  Sessions, Users, Branches,
  Rows,        (* the rows there can be: [table, n, branch, day], where n  *)
               (* is an order's number, and for a payment its order's      *)
  Asks,        (* what clients ask                                         *)
  Supers,      (* the users with the role SUPER_ADMIN                      *)
  Assigned,    (* the branches each other user is assigned to              *)
  Days,        (* bound: the days of the clock                             *)
  Month,       (* the month each day is in                                 *)
  Everywhere   (* no condition on the branch                               *)

Orders  == {"sales", "purchases"}
(* Stock movements of type IN, OUT or ADJUSTMENT are "movements", those of *)
(* fulfilments, receipts and transfers "deliveries".                       *)
Stock   == {"movements", "deliveries"}
Entries == Stock \cup {"payments", "inventory"}
Masters == {"products", "customers", "suppliers"}

ASSUME ReportsAssumption ==
  /\ \A r \in Rows : r.table \in Orders \cup Entries \cup Masters
                       /\ r.branch \in Branches /\ r.day \in Days
  /\ Supers \subseteq Users /\ Assigned \in [Users -> SUBSET Branches]
  /\ Days \subseteq Nat /\ Days # {} /\ DOMAIN Month = Days
  /\ Everywhere \notin Branches /\ \A B \in SUBSET Branches : B # Everywhere

VARIABLES state, active, today, req, scope, todo, shown, changed

store  == <<state, active, today>>
report == <<req, scope, todo, shown>>
vars   == <<store, report, changed>>

-----------------------------------------------------------------------------
(* A statement reads some tables.  Its parts each take the rows of one     *)
(* state: "counted" is COMPLETED for an order, written for an entry, and   *)
(* active and not deleted for master data; "void" is CANCELLED, "draft"    *)
(* DRAFT and "placed" an order that was confirmed, whatever was delivered. *)
(* `over` says which of the conditions on day and branch it has.           *)
StatementOn(tables, over, parts) == [tables |-> tables, over |-> over, parts |-> parts]
Statement(table, over, parts) == StatementOn({table}, over, parts)
Counted(name) == [p \in {name} |-> "counted"]

\* The statement on the daily items forgets the end date.
Fault_SalesReport ==
  << Statement("sales", {"day", "branch"},
               [totals |-> "counted", cancelled |-> "void"]),
     Statement("sales", {"day", "branch"}, Counted("items")),
     Statement("sales", {"branch"}, Counted("days")),
     Statement("sales", {"day", "branch"}, Counted("day_items")) >>
SalesReport ==
  << Statement("sales", {"day", "branch"},
               [totals |-> "counted", cancelled |-> "void"]),
     Statement("sales", {"day", "branch"}, Counted("items")),
     Statement("sales", {"day", "branch"}, Counted("days")),
     Statement("sales", {"day", "branch"}, Counted("day_items")) >>

PurchasesReport ==
  << Statement("purchases", {"day", "branch"},
               [totals |-> "counted", cancelled |-> "void"]),
     Statement("purchases", {"day", "branch"}, Counted("items")),
     Statement("purchases", {"day", "branch"}, Counted("days")),
     Statement("purchases", {"day", "branch"}, Counted("day_items")) >>

\* The list of payments is read before their sum.
Fault_PaymentReport ==
  << Statement("payments", {"day", "branch"}, Counted("list")),
     Statement("payments", {"day", "branch"}, Counted("total")),
     Statement("payments", {"day", "branch"}, Counted("methods")) >>
(* A payment's day is paid_at, its branch that of the sale.                *)
PaymentReport ==
  << Statement("payments", {"day", "branch"}, Counted("total")),
     Statement("payments", {"day", "branch"}, Counted("methods")),
     Statement("payments", {"day", "branch"}, Counted("list")) >>

(* The quantities on hand are what all movements written so far come to;   *)
(* the summary of the movements adds up three of their types.              *)
InventoryReport ==
  << StatementOn(Stock, {"branch"}, Counted("quantity")),
     Statement("movements", {"branch"}, Counted("summary")) >>

ProfitReport ==
  << Statement("sales", {"day", "branch"}, Counted("revenue")),
     Statement("purchases", {"day", "branch"}, Counted("cost")) >>

(* The figures of a day and of its month, by one reading of the clock for  *)
(* the sales and another for the purchases.                                *)
DashboardSales ==
  Statement("sales", {"clock", "branch"},
            [sales_today |-> "counted", sales_month |-> "counted"])
DashboardPurchases ==
  Statement("purchases", {"clock", "branch"},
            [purchases_today |-> "counted", purchases_month |-> "counted"])
DashboardMasterData ==
  << Statement("products", {}, Counted("products")),
     Statement("customers", {}, Counted("customers")),
     Statement("suppliers", {}, Counted("suppliers")) >>
Dashboard ==
  << DashboardSales, DashboardPurchases >> \o DashboardMasterData
    \o << Statement("inventory", {"branch"}, Counted("inventory")) >>

Reports == {"sales", "purchases", "payments", "inventory", "profit", "dashboard"}
Statements(name) ==
  CASE name = "sales"     -> SalesReport
    [] name = "purchases" -> PurchasesReport
    [] name = "payments"  -> PaymentReport
    [] name = "inventory" -> InventoryReport
    [] name = "profit"    -> ProfitReport
    [] name = "dashboard" -> Dashboard
    [] name = "none"      -> << >>

-----------------------------------------------------------------------------
(* parseDateRange: a first and a last day.                                 *)
Requests ==
  [report : Reports, user : Users, branch : Branches \cup {Everywhere},
   days : {{d \in Days : first <= d /\ d <= last} : first, last \in Days} \ {{}}]
NoRequest == [report |-> "none", user |-> CHOOSE u \in Users : TRUE,
              days |-> {}, branch |-> Everywhere]

ASSUME AsksAssumption == Asks \subseteq Requests

Init ==
  /\ state = [r \in Rows |-> "absent"]
  /\ active = Branches
  /\ today \in Days
  /\ req = [s \in Sessions |-> NoRequest]
  /\ scope = [s \in Sessions |-> Everywhere]
  /\ todo = [s \in Sessions |-> << >>]
  /\ shown = [s \in Sessions |-> << >>]
  /\ changed = [s \in Sessions |-> {}]

(* R changes for every report, D for the dashboard alone.                  *)
Tables(name) == UNION {Statements(name)[i].tables : i \in DOMAIN Statements(name)}
Changes(R, D) ==
  changed' = [s \in Sessions |-> changed[s] \cup
    {r \in R \cup (IF req[s].report = "dashboard" THEN D ELSE {}) :
       r.table \in Tables(req[s].report)}]

(* What other requests commit, and the clock.  An order is created today,  *)
(* and is completed as a draft or placed and never completed; the day of a *)
(* payment is what its author says.                                        *)
Become(r, what) ==
  /\ state' = [state EXCEPT ![r] = what]
  /\ Changes({r}, {})
  /\ UNCHANGED <<active, today, report>>

CreateOrder(r) ==
  /\ r.table \in Orders /\ state[r] = "absent" /\ r.day = today
  /\ Become(r, "draft")

PlaceOrder(r) ==
  r.table \in Orders /\ state[r] = "draft" /\ Become(r, "placed")

CompleteOrder(r) ==
  r.table \in Orders /\ state[r] = "draft" /\ Become(r, "counted")

CancelOrder(r) ==
  r.table \in Orders /\ state[r] \in {"draft", "counted"} /\ Become(r, "void")

Pays(r) == \E q \in Rows : /\ q.table = "sales" /\ q.n = r.n /\ q.branch = r.branch
                           /\ state[q] \in {"placed", "counted"}
WriteEntry(r) ==
  /\ r.table \in Entries /\ state[r] = "absent"
  /\ r.table = "payments" => Pays(r)
  /\ Become(r, "counted")

SetMaster(r) ==
  /\ r.table \in Masters
  /\ Become(r, IF state[r] = "counted" THEN "absent" ELSE "counted")

SetActive(b) ==
  /\ active' = IF b \in active THEN active \ {b} ELSE active \cup {b}
  /\ Changes({}, {r \in Rows : r.branch = b})
  /\ UNCHANGED <<state, today, report>>

Midnight ==
  /\ today + 1 \in Days
  /\ today' = today + 1
  /\ Changes({}, Rows)
  /\ UNCHANGED <<state, active, report>>

-----------------------------------------------------------------------------
(* EnsureUserHasAccess to a branch asked for; the user's active branches;  *)
(* nothing for a super admin, or where the list of branches is empty.  The *)
(* dashboard takes the first of the branches.                              *)
Accessible(u) == IF u \in Supers THEN active ELSE Assigned[u] \cap active
Scopes(q) ==
  IF q.branch # Everywhere
  THEN {{b} : b \in {q.branch} \cap Accessible(q.user)}
  ELSE IF q.user \in Supers \/ Accessible(q.user) = {} THEN {Everywhere}
  ELSE IF q.report = "dashboard" THEN {{b} : b \in Accessible(q.user)}
  ELSE {Accessible(q.user)}

Begin(s, q) ==
  /\ req[s].report = "none" /\ q \in Asks
  /\ \E sc \in Scopes(q) : scope' = [scope EXCEPT ![s] = sc]
  /\ req' = [req EXCEPT ![s] = q]
  /\ todo' = [todo EXCEPT ![s] = Statements(q.report)]
  /\ changed' = [changed EXCEPT ![s] = {}]
  /\ UNCHANGED <<store, shown>>

\* The figures of the last report are kept.
Fault_Finish(s) ==
  /\ req[s].report # "none"
  /\ req' = [req EXCEPT ![s] = NoRequest]
  /\ scope' = [scope EXCEPT ![s] = Everywhere]
  /\ todo' = [todo EXCEPT ![s] = << >>]
  /\ changed' = [changed EXCEPT ![s] = {}]
  /\ UNCHANGED <<store, shown>>
(* The answer is sent, or a statement fails and the report is given up.    *)
Finish(s) ==
  /\ req[s].report # "none"
  /\ req' = [req EXCEPT ![s] = NoRequest]
  /\ scope' = [scope EXCEPT ![s] = Everywhere]
  /\ todo' = [todo EXCEPT ![s] = << >>]
  /\ shown' = [shown EXCEPT ![s] = << >>]
  /\ changed' = [changed EXCEPT ![s] = {}]
  /\ UNCHANGED store

-----------------------------------------------------------------------------
(* Without a branch the dashboard counts what is of active branches now.   *)
InScope(s, b) ==
  IF scope[s] # Everywhere THEN b \in scope[s]
  ELSE req[s].report = "dashboard" => b \in active

MonthParts == {"sales_month", "purchases_month"}
InPeriod(s, st, part, d) ==
  /\ "day" \in st.over => d \in req[s].days
  /\ "clock" \in st.over =>
       IF part \in MonthParts THEN Month[d] = Month[today] ELSE d = today

(* Items of a day that has no sales in the summary are dropped from it.    *)
Selected(s, st, part) ==
  {r \in Rows : /\ r.table \in st.tables /\ state[r] = st.parts[part]
                /\ "branch" \in st.over => InScope(s, r.branch)
                /\ InPeriod(s, st, part, r.day)
                /\ part = "day_items" => \E q \in shown[s].days : q.day = r.day}

RunStatement(s) ==
  LET st == Head(todo[s]) IN
  /\ todo[s] # << >>
  /\ shown' = [shown EXCEPT ![s] =
       [p \in DOMAIN @ \cup DOMAIN st.parts |->
          IF p \in DOMAIN st.parts THEN Selected(s, st, p) ELSE @[p]]]
  /\ todo' = [todo EXCEPT ![s] = Tail(@)]
  /\ UNCHANGED <<store, req, scope, changed>>

Next ==
  \/ \E r \in Rows : \/ CreateOrder(r) \/ PlaceOrder(r) \/ CompleteOrder(r)
                     \/ CancelOrder(r) \/ WriteEntry(r) \/ SetMaster(r)
  \/ \E b \in Branches : SetActive(b)
  \/ Midnight
  \/ \E s \in Sessions : \/ \E q \in Asks : Begin(s, q)
                         \/ RunStatement(s) \/ Finish(s)
Spec == Init /\ [][Next]_vars

-----------------------------------------------------------------------------
(* The statements of a report that have run are the first ones.            *)
Done(s) == SubSeq(Statements(req[s].report), 1,
                  Len(Statements(req[s].report)) - Len(todo[s]))

(* Every variable keeps its type; a report runs its statements in their    *)
(* order, and has the parts of those that have run and of no other report. *)
TypeOK ==
  /\ state \in [Rows -> {"absent", "draft", "placed", "counted", "void"}]
  /\ active \subseteq Branches /\ today \in Days
  /\ req \in [Sessions -> Asks \cup {NoRequest}]
  /\ \A s \in Sessions :
       /\ scope[s] = Everywhere \/ scope[s] \subseteq Branches
       /\ Statements(req[s].report) = Done(s) \o todo[s]
       /\ DOMAIN shown[s] = UNION {DOMAIN Done(s)[i].parts : i \in DOMAIN Done(s)}
       /\ \A p \in DOMAIN shown[s] : shown[s][p] \subseteq Rows
       /\ changed[s] \subseteq Rows

-----------------------------------------------------------------------------
(* What each part is a figure of, as a reader takes it: the tables, whether*)
(* orders are completed or cancelled, the days, the branches.              *)
TablesOf(name, p) ==
  CASE name \in Orders     -> {name}
    [] name = "payments"   -> {"payments"}
    [] p = "quantity"      -> Stock
    [] p = "summary"       -> {"movements"}
    [] p \in {"revenue", "sales_today", "sales_month"}        -> {"sales"}
    [] p \in {"cost", "purchases_today", "purchases_month"}   -> {"purchases"}
    [] OTHER -> {p}

TodayParts == {"sales_today", "purchases_today"}
MeantDay(s, p, d) ==
  /\ p \in TodayParts => d = today
  /\ p \in MonthParts => Month[d] = Month[today]
  /\ req[s].report \notin {"inventory", "dashboard"} => d \in req[s].days

MeantBranch(s, p, b) ==
  \/ TablesOf(req[s].report, p) \subseteq Masters
  \/ scope[s] # Everywhere /\ b \in scope[s]
  \/ scope[s] = Everywhere /\ (req[s].report = "dashboard" => b \in active)

Meant(s, p) ==
  {r \in Rows : /\ r.table \in TablesOf(req[s].report, p)
                /\ state[r] = IF p = "cancelled" THEN "void" ELSE "counted"
                /\ MeantDay(s, p, r.day) /\ MeantBranch(s, p, r.branch)}

(* Every figure of a report is right but for orders that were completed or *)
(* cancelled, and for days and branches that changed, while it ran: totals,*)
(* items and the days of the summary are of the same orders unless one of  *)
(* these changed in between, and nobody's change of branches splits them.  *)
FiguresExplained ==
  \A s \in Sessions : \A p \in DOMAIN shown[s] :
    (shown[s][p] \ Meant(s, p)) \cup (Meant(s, p) \ shown[s][p]) \subseteq changed[s]

(* What is only ever added to is never missing from a later part: the list *)
(* of payments has every payment that is in the sums by method, these have *)
(* every payment in the total, and the summary of movements has every one  *)
(* of its types that is in the quantities.                                 *)
LaterPartsHoldMore ==
  \A s \in Sessions :
    \A pair \in {<<"total", "methods">>, <<"methods", "list">>, <<"total", "list">>,
                 <<"quantity", "summary">>} :
      {pair[1], pair[2]} \subseteq DOMAIN shown[s] =>
        {r \in shown[s][pair[1]] : r.table # "deliveries"} \subseteq shown[s][pair[2]]
=============================================================================
