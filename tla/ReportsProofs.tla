--------------------------- MODULE ReportsProofs ---------------------------
(***************************************************************************)
(* Proofs about Reports, for every set of sessions, rows, users, branches  *)
(* and days: a report runs its statements in their order, its figures are  *)
(* right but for what changed while it ran, and what is only added to is   *)
(* never missing from a later part.                                        *)
(***************************************************************************)
EXTENDS Reports, SequenceTheorems, TLAPS

ClockParts == TodayParts \cup MonthParts

(* What a statement takes in for its part p is what a reader takes p for.  *)
Fits(name, st, p) ==
  /\ st.tables = TablesOf(name, p)
  /\ st.parts[p] = IF p = "cancelled" THEN "void" ELSE "counted"
  /\ "branch" \in st.over <=> ~(TablesOf(name, p) \subseteq Masters)
  /\ "day" \in st.over <=> name \notin {"inventory", "dashboard"}
  /\ "clock" \in st.over <=> p \in ClockParts
  /\ p \in ClockParts => name = "dashboard"

(* Where the parts stand that are compared with one another.               *)
Stands(name, i, p) ==
  /\ name = "payments"  => p \in {"total", "methods", "list"}
  /\ name = "inventory" => p \in {"quantity", "summary"}
  /\ p = "total"    => name = "payments" /\ i = 1
  /\ p = "methods"  => name = "payments" /\ i = 2
  /\ p = "list"     => name = "payments" /\ i = 3
  /\ p = "quantity" => name = "inventory" /\ i = 1
  /\ p = "summary"  => name = "inventory" /\ i = 2
  /\ p = "day_items" => name \in Orders /\ i = 4

-----------------------------------------------------------------------------
LEMMA Joined ==
  ASSUME NEW a, NEW b, NEW c, NEW d, NEW e, NEW f
  PROVE  << a, b >> \o << c, d, e >> \o << f >> = << a, b, c, d, e, f >>
<1> DEFINE S == {a, b, c, d, e, f}
<1>1. << a, b >> \in Seq(S) /\ << c, d, e >> \in Seq(S) /\ << f >> \in Seq(S)
  OBVIOUS
<1>2. /\ << a, b >> \o << c, d, e >> \in Seq(S)
      /\ Len(<< a, b >> \o << c, d, e >>) = 5
      /\ \A i \in 1..5 : (<< a, b >> \o << c, d, e >>)[i] =
                           IF i <= 2 THEN << a, b >>[i] ELSE << c, d, e >>[i - 2]
  BY <1>1, ConcatProperties
<1> DEFINE t == << a, b >> \o << c, d, e >>
<1> HIDE DEF t, S
<1>3. /\ t \o << f >> \in Seq(S) /\ Len(t \o << f >>) = 6
      /\ \A i \in 1..6 : (t \o << f >>)[i] = IF i <= 5 THEN t[i] ELSE << f >>[i - 5]
  <2>1. t \in Seq(S) /\ Len(t) = 5 /\ Len(<< f >>) = 1
    BY <1>2 DEF t
  <2>2. /\ t \o << f >> \in Seq(S) /\ Len(t \o << f >>) = Len(t) + Len(<< f >>)
        /\ \A i \in 1..Len(t) + Len(<< f >>) : (t \o << f >>)[i] =
             IF i <= Len(t) THEN t[i] ELSE << f >>[i - Len(t)]
    BY <1>1, <2>1, ConcatProperties
  <2>3. 1..Len(t) + Len(<< f >>) = 1..6
    BY <2>1
  <2> QED BY <2>1, <2>2, <2>3
<1>4. << a, b, c, d, e, f >> \in Seq(S) /\ Len(<< a, b, c, d, e, f >>) = 6
  BY DEF S
<1>5. ASSUME NEW i \in 1..6
      PROVE  (t \o << f >>)[i] = << a, b, c, d, e, f >>[i]
  BY <1>2, <1>3, <1>5 DEF t
<1>6. t \o << f >> = << a, b, c, d, e, f >>
  BY <1>3, <1>4, <1>5, SeqEqual
<1> QED BY <1>6 DEF t

LEMMA DashboardStatements ==
  Dashboard = << DashboardSales, DashboardPurchases,
                 Statement("products", {}, Counted("products")),
                 Statement("customers", {}, Counted("customers")),
                 Statement("suppliers", {}, Counted("suppliers")),
                 Statement("inventory", {"branch"}, Counted("inventory")) >>
BY Joined DEF Dashboard, DashboardMasterData

LEMMA PartsFit ==
  ASSUME NEW name \in Reports, NEW i \in 1..Len(Statements(name)),
         NEW p \in DOMAIN Statements(name)[i].parts
  PROVE  Fits(name, Statements(name)[i], p) /\ Stands(name, i, p)
<1>1. PICK st : st = Statements(name)[i]
  OBVIOUS
<1>2. CASE name \in Orders
  <2>1. Statements(name) =
          << Statement(name, {"day", "branch"},
                       [totals |-> "counted", cancelled |-> "void"]),
             Statement(name, {"day", "branch"}, Counted("items")),
             Statement(name, {"day", "branch"}, Counted("days")),
             Statement(name, {"day", "branch"}, Counted("day_items")) >>
    BY <1>2 DEF Orders, Statements, SalesReport, PurchasesReport
  <2>2. i \in {1, 2, 3, 4}
    BY <2>1
  <2>3. st.tables = {name} /\ st.over = {"day", "branch"}
    BY <1>1, <2>1, <2>2 DEF Statement, StatementOn
  <2>4. /\ i = 1 => st.parts = [totals |-> "counted", cancelled |-> "void"]
        /\ i = 2 => st.parts = [q \in {"items"} |-> "counted"]
        /\ i = 3 => st.parts = [q \in {"days"} |-> "counted"]
        /\ i = 4 => st.parts = [q \in {"day_items"} |-> "counted"]
    BY <1>1, <2>1 DEF Statement, StatementOn, Counted
  <2>5. /\ p \in {"totals", "cancelled", "items", "days", "day_items"}
        /\ p = "day_items" => i = 4
        /\ st.parts[p] = IF p = "cancelled" THEN "void" ELSE "counted"
    BY <1>1, <2>2, <2>4
  <2>6. TablesOf(name, p) = {name} /\ name \in {"sales", "purchases"}
    BY <1>2, <2>5 DEF TablesOf, Orders
  <2>7. Fits(name, st, p)
    BY <2>3, <2>5, <2>6 DEF Fits, Masters, ClockParts, TodayParts, MonthParts
  <2>8. Stands(name, i, p)
    BY <1>2, <2>5, <2>6 DEF Stands
  <2> QED BY <1>1, <2>7, <2>8
<1>3. CASE name = "payments"
  <2>1. Statements(name) = PaymentReport
    BY <1>3 DEF Statements
  <2>2. i \in {1, 2, 3}
    BY <2>1 DEF PaymentReport
  <2>3. st.tables = {"payments"} /\ st.over = {"day", "branch"}
    BY <1>1, <2>1, <2>2 DEF PaymentReport, Statement, StatementOn
  <2>4. /\ i = 1 => st.parts = [q \in {"total"} |-> "counted"]
        /\ i = 2 => st.parts = [q \in {"methods"} |-> "counted"]
        /\ i = 3 => st.parts = [q \in {"list"} |-> "counted"]
    BY <1>1, <2>1 DEF PaymentReport, Statement, StatementOn, Counted
  <2>5. /\ p = IF i = 1 THEN "total" ELSE IF i = 2 THEN "methods" ELSE "list"
        /\ st.parts[p] = "counted"
    BY <1>1, <2>2, <2>4
  <2>6. TablesOf(name, p) = {"payments"}
    BY <1>3, <2>2, <2>5 DEF TablesOf, Orders
  <2>7. Fits(name, st, p)
    BY <1>3, <2>3, <2>5, <2>6 DEF Fits, Masters, ClockParts, TodayParts, MonthParts
  <2>8. Stands(name, i, p)
    BY <1>3, <2>2, <2>5 DEF Stands
  <2> QED BY <1>1, <2>7, <2>8
<1>4. CASE name = "inventory"
  <2>1. Statements(name) = InventoryReport
    BY <1>4 DEF Statements
  <2>2. i \in {1, 2}
    BY <2>1 DEF InventoryReport
  <2>3. /\ i = 1 => st.tables = Stock /\ st.parts = [q \in {"quantity"} |-> "counted"]
        /\ i = 2 => st.tables = {"movements"} /\ st.parts = [q \in {"summary"} |-> "counted"]
        /\ st.over = {"branch"}
    BY <1>1, <2>1, <2>2 DEF InventoryReport, Statement, StatementOn, Counted
  <2>4. p = (IF i = 1 THEN "quantity" ELSE "summary") /\ st.parts[p] = "counted"
    BY <1>1, <2>2, <2>3
  <2>5. TablesOf(name, p) = st.tables
    BY <1>4, <2>2, <2>3, <2>4 DEF TablesOf, Orders
  <2>6. Fits(name, st, p)
    <3>1. ~(st.tables \subseteq Masters)
      BY <2>2, <2>3 DEF Masters, Stock
    <3>2. p # "cancelled" /\ p \notin ClockParts
      BY <2>4 DEF ClockParts, TodayParts, MonthParts
    <3> QED BY <1>4, <2>2, <2>3, <2>4, <2>5, <3>1, <3>2 DEF Fits
  <2>7. Stands(name, i, p)
    BY <1>4, <2>2, <2>4 DEF Stands
  <2> QED BY <1>1, <2>6, <2>7
<1>5. CASE name = "profit"
  <2>1. Statements(name) = ProfitReport
    BY <1>5 DEF Statements
  <2>2. i \in {1, 2}
    BY <2>1 DEF ProfitReport
  <2>3. /\ i = 1 => st.tables = {"sales"} /\ st.parts = [q \in {"revenue"} |-> "counted"]
        /\ i = 2 => st.tables = {"purchases"} /\ st.parts = [q \in {"cost"} |-> "counted"]
        /\ st.over = {"day", "branch"}
    BY <1>1, <2>1, <2>2 DEF ProfitReport, Statement, StatementOn, Counted
  <2>4. p = (IF i = 1 THEN "revenue" ELSE "cost") /\ st.parts[p] = "counted"
    BY <1>1, <2>2, <2>3
  <2>5. TablesOf(name, p) = st.tables
    BY <1>5, <2>2, <2>3, <2>4 DEF TablesOf, Orders
  <2>6. Fits(name, st, p)
    <3>1. ~(st.tables \subseteq Masters)
      BY <2>2, <2>3 DEF Masters
    <3>2. p # "cancelled" /\ p \notin ClockParts
      BY <2>4 DEF ClockParts, TodayParts, MonthParts
    <3> QED BY <1>5, <2>2, <2>3, <2>4, <2>5, <3>1, <3>2 DEF Fits
  <2>7. Stands(name, i, p)
    BY <1>5, <2>2, <2>4 DEF Stands
  <2> QED BY <1>1, <2>6, <2>7
<1>6. CASE name = "dashboard"
  <2>1. Statements(name) =
          << DashboardSales, DashboardPurchases,
             Statement("products", {}, Counted("products")),
             Statement("customers", {}, Counted("customers")),
             Statement("suppliers", {}, Counted("suppliers")),
             Statement("inventory", {"branch"}, Counted("inventory")) >>
    BY <1>6, DashboardStatements DEF Statements
  <2>2. i \in 1..6
    BY <2>1
  <2>3. CASE i \in {1, 2}
    <3>1. /\ i = 1 => /\ st.tables = {"sales"}
                      /\ st.parts = [sales_today |-> "counted", sales_month |-> "counted"]
          /\ i = 2 => /\ st.tables = {"purchases"}
                      /\ st.parts = [purchases_today |-> "counted",
                                     purchases_month |-> "counted"]
          /\ st.over = {"clock", "branch"}
      BY <1>1, <2>1, <2>3 DEF DashboardSales, DashboardPurchases, Statement, StatementOn
    <3>2. /\ i = 1 => p \in {"sales_today", "sales_month"}
          /\ i = 2 => p \in {"purchases_today", "purchases_month"}
          /\ st.parts[p] = "counted"
      BY <1>1, <2>3, <3>1
    <3>3. TablesOf(name, p) = st.tables
      BY <1>6, <2>3, <3>1, <3>2 DEF TablesOf, Orders
    <3>4. Fits(name, st, p)
      <4>1. ~(st.tables \subseteq Masters)
        BY <2>3, <3>1 DEF Masters
      <4>2. p # "cancelled" /\ p \in ClockParts
        BY <2>3, <3>2 DEF ClockParts, TodayParts, MonthParts
      <4> QED BY <1>6, <2>3, <3>1, <3>2, <3>3, <4>1, <4>2 DEF Fits
    <3>5. Stands(name, i, p)
      BY <1>6, <2>3, <3>2 DEF Stands
    <3> QED BY <1>1, <3>4, <3>5
  <2>4. CASE i \in {3, 4, 5, 6}
    <3>1. PICK t \in {"products", "customers", "suppliers", "inventory"} :
            /\ st.tables = {t} /\ st.parts = [q \in {t} |-> "counted"]
            /\ st.over = IF t = "inventory" THEN {"branch"} ELSE {}
      <4>1. \/ st = Statement("products", {}, Counted("products"))
            \/ st = Statement("customers", {}, Counted("customers"))
            \/ st = Statement("suppliers", {}, Counted("suppliers"))
            \/ st = Statement("inventory", {"branch"}, Counted("inventory"))
        BY <1>1, <2>1, <2>4
      <4> QED BY <4>1 DEF Statement, StatementOn, Counted
    <3>2. p = t /\ st.parts[p] = "counted"
      BY <1>1, <3>1
    <3>3. TablesOf(name, p) = {t}
      BY <1>6, <2>4, <3>2 DEF TablesOf, Orders
    <3>4. Fits(name, st, p)
      BY <1>6, <2>4, <3>1, <3>2, <3>3
      DEF Fits, Masters, ClockParts, TodayParts, MonthParts
    <3>5. Stands(name, i, p)
      BY <1>6, <2>4, <3>2 DEF Stands
    <3> QED BY <1>1, <3>4, <3>5
  <2> QED BY <2>2, <2>3, <2>4
<1> QED BY <1>2, <1>3, <1>4, <1>5, <1>6 DEF Reports, Orders

LEMMA Tuples ==
  ASSUME NEW a, NEW b, NEW c, NEW d, NEW e, NEW f
  PROVE  /\ << a, b >> \in Seq({a, b}) /\ << a, b, c >> \in Seq({a, b, c})
         /\ << a, b, c, d >> \in Seq({a, b, c, d})
         /\ << a, b, c, d, e, f >> \in Seq({a, b, c, d, e, f})
OBVIOUS

(* A report is a sequence of statements; on orders, the summary of the days*)
(* comes third of four.                                                    *)
LEMMA StatementsAreSeq ==
  /\ Statements("none") = << >>
  /\ \A name \in Reports \cup {"none"} : \E S : Statements(name) \in Seq(S)
  /\ \A name \in Orders : /\ Len(Statements(name)) = 4
                          /\ "days" \in DOMAIN Statements(name)[3].parts
<1>1. Statements("none") = << >>
  BY DEF Statements
<1>2. ASSUME NEW name \in Reports \cup {"none"}
      PROVE  \E S : Statements(name) \in Seq(S)
  <2>1. CASE name \in {"sales", "purchases"}
    BY <2>1, Tuples DEF Statements, SalesReport, PurchasesReport
  <2>2. CASE name = "payments"
    BY <2>2, Tuples DEF Statements, PaymentReport
  <2>3. CASE name \in {"inventory", "profit"}
    BY <2>3, Tuples DEF Statements, InventoryReport, ProfitReport
  <2>4. CASE name = "dashboard"
    BY <2>4, Tuples, DashboardStatements DEF Statements
  <2>5. CASE name = "none"
    BY <1>1, <2>5, EmptySeq
  <2> QED BY <2>1, <2>2, <2>3, <2>4, <2>5 DEF Reports
<1>3. ASSUME NEW name \in Orders
      PROVE  Len(Statements(name)) = 4 /\ "days" \in DOMAIN Statements(name)[3].parts
  BY <1>3 DEF Orders, Statements, SalesReport, PurchasesReport, Statement, StatementOn, Counted
<1> QED BY <1>1, <1>2, <1>3

-----------------------------------------------------------------------------
(* A report has run its first k statements and has their parts.            *)
PartsTo(T, k) == UNION {DOMAIN T[i].parts : i \in 1..k}
Ran(s) ==
  LET T == Statements(req[s].report) IN
  \E k \in 0..Len(T) : /\ todo[s] = SubSeq(T, k + 1, Len(T))
                       /\ DOMAIN shown[s] = PartsTo(T, k)

Shape ==
  /\ state \in [Rows -> {"absent", "draft", "placed", "counted", "void"}]
  /\ active \subseteq Branches /\ today \in Days
  /\ req \in [Sessions -> Asks \cup {NoRequest}]
  /\ DOMAIN scope = Sessions /\ DOMAIN todo = Sessions
  /\ DOMAIN shown = Sessions /\ DOMAIN changed = Sessions
  /\ \A s \in Sessions :
       /\ scope[s] = Everywhere \/ scope[s] \subseteq Branches
       /\ Ran(s)
       /\ \A p \in DOMAIN shown[s] : shown[s][p] \subseteq Rows
       /\ changed[s] \subseteq Rows

(* What is only ever added to stays where a report has found it.           *)
Growing == {"payments", "inventory"}
FoundStays ==
  \A s \in Sessions : req[s].report \in Growing =>
    \A p \in DOMAIN shown[s] : shown[s][p] \subseteq Meant(s, p)

RInv == Shape /\ FiguresExplained /\ FoundStays /\ LaterPartsHoldMore

LEMMA ReportNames ==
  ASSUME NEW q \in Asks \cup {NoRequest}
  PROVE  /\ q.report \in Reports \cup {"none"}
         /\ q \in Asks => q.report \in Reports
BY AsksAssumption DEF NoRequest, Requests

(* A part belongs to the statement of its place.                           *)
LEMMA Placed ==
  ASSUME Shape, NEW s \in Sessions, NEW p \in DOMAIN shown[s]
  PROVE  /\ req[s].report \in Reports
         /\ TablesOf(req[s].report, p) \subseteq Tables(req[s].report)
         /\ p \in ClockParts => req[s].report = "dashboard"
         /\ \E i \in 1..Len(Statements(req[s].report)) : Stands(req[s].report, i, p)
<1> DEFINE name == req[s].report
           T == Statements(name)
<1>1. name \in Reports \cup {"none"}
  BY ReportNames DEF Shape
<1>2. PICK k \in 0..Len(T) : p \in PartsTo(T, k)
  BY DEF Shape, Ran
<1>3. PICK S : T \in Seq(S)
  BY <1>1, StatementsAreSeq
<1>4. Len(T) \in Nat /\ DOMAIN T = 1..Len(T)
  BY <1>3, LenProperties
<1>5. PICK i \in 1..k : p \in DOMAIN T[i].parts
  BY <1>2 DEF PartsTo
<1>6. i \in 1..Len(T)
  BY <1>4
<1>7. name # "none"
  BY <1>6, StatementsAreSeq, EmptySeq
<1>8. name \in Reports
  BY <1>1, <1>7
<1>9. Fits(name, T[i], p) /\ Stands(name, i, p)
  BY <1>5, <1>6, <1>8, PartsFit
<1>10. T[i].tables \subseteq Tables(name)
  BY <1>4, <1>6 DEF Tables
<1> QED BY <1>6, <1>8, <1>9, <1>10 DEF Fits

LEMMA ShapeIsType == Shape => TypeOK
<1> SUFFICES ASSUME Shape, NEW s \in Sessions
             PROVE  /\ Statements(req[s].report) = Done(s) \o todo[s]
                    /\ DOMAIN shown[s] = UNION {DOMAIN Done(s)[i].parts : i \in DOMAIN Done(s)}
  BY DEF Shape, TypeOK
<1> DEFINE T == Statements(req[s].report)
<1>1. PICK k \in 0..Len(T) : todo[s] = SubSeq(T, k + 1, Len(T)) /\ DOMAIN shown[s] = PartsTo(T, k)
  BY DEF Shape, Ran
<1>2. PICK S : T \in Seq(S)
  BY ReportNames, StatementsAreSeq DEF Shape
<1>3. Len(T) \in Nat /\ \A i \in 1..Len(T) : T[i] \in S
  BY <1>2, LenProperties, ElementOfSeq
<1> HIDE DEF T
<1>4. Len(todo[s]) = Len(T) - k
  <2>1. \A i \in k + 1..Len(T) : T[i] \in S
    BY <1>3
  <2>2. Len(SubSeq(T, k + 1, Len(T))) = IF k + 1 <= Len(T) THEN Len(T) - (k + 1) + 1 ELSE 0
    BY <1>3, <2>1, SubSeqProperties
  <2> QED BY <1>1, <1>3, <2>2
<1>5. Done(s) = SubSeq(T, 1, k)
  <2>1. Len(T) - Len(todo[s]) = k
    BY <1>3, <1>4
  <2>2. Done(s) = SubSeq(T, 1, Len(T) - Len(todo[s]))
    BY DEF Done, T
  <2> QED BY <2>1, <2>2
<1>6. SubSeq(T, 1, k) \o SubSeq(T, k + 1, Len(T)) = T
  <2>1. SubSeq(T, 1, k) \o SubSeq(T, k + 1, Len(T)) = SubSeq(T, 1, Len(T))
    <3>1. /\ 1 \in 1..Len(T) + 1 /\ k \in 1 - 1..Len(T) /\ Len(T) \in k..Len(T)
      BY <1>3
    <3> QED BY <1>2, <3>1, ConcatAdjacentSubSeq
  <2> QED BY <1>2, <2>1, SubSeqFull
<1>7. /\ SubSeq(T, 1, k) \in Seq(S) /\ Len(SubSeq(T, 1, k)) = k
      /\ \A i \in 1..k : SubSeq(T, 1, k)[i] = T[i]
  <2>1. \A i \in 1..k : T[i] \in S
    BY <1>3
  <2>2. /\ SubSeq(T, 1, k) \in Seq(S)
        /\ Len(SubSeq(T, 1, k)) = IF 1 <= k THEN k - 1 + 1 ELSE 0
        /\ \A i \in 1..k - 1 + 1 : SubSeq(T, 1, k)[i] = T[1 + i - 1]
    BY <2>1, SubSeqProperties
  <2>3. \A i \in 1..k : i \in 1..k - 1 + 1 /\ 1 + i - 1 = i
    OBVIOUS
  <2> QED BY <1>3, <2>2, <2>3
<1>8. DOMAIN Done(s) = 1..k /\ \A i \in 1..k : Done(s)[i] = T[i]
  BY <1>5, <1>7, LenProperties
<1>9. UNION {DOMAIN Done(s)[i].parts : i \in DOMAIN Done(s)} = PartsTo(T, k)
  BY <1>8 DEF PartsTo
<1> QED BY <1>1, <1>5, <1>6, <1>9 DEF T

(* A statement selects what its parts mean; the items of a day without a   *)
(* summary are dropped.                                                    *)
LEMMA SelectedIsMeant ==
  ASSUME NEW s \in Sessions, NEW st, NEW p \in DOMAIN st.parts,
         Fits(req[s].report, st, p)
  PROVE  Selected(s, st, p) =
           {r \in Meant(s, p) : p = "day_items" => \E q \in shown[s].days : q.day = r.day}
<1> SUFFICES ASSUME NEW r \in Rows
             PROVE  r \in Selected(s, st, p) <=>
                      /\ r \in Meant(s, p)
                      /\ p = "day_items" => \E q \in shown[s].days : q.day = r.day
  BY DEF Selected, Meant
<1>1. (r.table \in st.tables /\ state[r] = st.parts[p]) <=>
        /\ r.table \in TablesOf(req[s].report, p)
        /\ state[r] = IF p = "cancelled" THEN "void" ELSE "counted"
  BY DEF Fits
<1>2. ("branch" \in st.over => InScope(s, r.branch)) <=> MeantBranch(s, p, r.branch)
  BY DEF Fits, InScope, MeantBranch
<1>3. InPeriod(s, st, p, r.day) <=> MeantDay(s, p, r.day)
  BY DEF Fits, InPeriod, MeantDay, ClockParts, TodayParts, MonthParts
<1> QED BY <1>1, <1>2, <1>3 DEF Selected, Meant

-----------------------------------------------------------------------------
(* A step that leaves the reports alone: what has changed for one of their *)
(* parts is noted, and what is only added to stays.                        *)
LEMMA StoreStep ==
  ASSUME RInv, UNCHANGED report,
         state' \in [Rows -> {"absent", "draft", "placed", "counted", "void"}],
         active' \subseteq Branches, today' \in Days, DOMAIN changed' = Sessions,
         \A s \in Sessions : changed[s] \subseteq changed'[s] /\ changed'[s] \subseteq Rows,
         \A s \in Sessions : \A p \in DOMAIN shown[s] :
           (Meant(s, p) \ Meant(s, p)') \cup (Meant(s, p)' \ Meant(s, p)) \subseteq changed'[s],
         \A s \in Sessions : req[s].report \in Growing =>
           \A p \in DOMAIN shown[s] : Meant(s, p) \subseteq Meant(s, p)'
  PROVE  RInv'
<1>1. UNCHANGED <<req, scope, todo, shown>>
  BY DEF report
<1>2. Shape'
  <2>1. \A s \in Sessions : Ran(s)'
    BY <1>1 DEF RInv, Shape, Ran
  <2> QED BY <1>1, <2>1 DEF RInv, Shape
<1>3. FiguresExplained'
  <2> SUFFICES ASSUME NEW s \in Sessions, NEW p \in DOMAIN shown[s]
               PROVE  (shown[s][p] \ Meant(s, p)') \cup (Meant(s, p)' \ shown[s][p])
                        \subseteq changed'[s]
    BY <1>1 DEF FiguresExplained
  <2>1. (shown[s][p] \ Meant(s, p)) \cup (Meant(s, p) \ shown[s][p]) \subseteq changed[s]
    BY DEF RInv, FiguresExplained
  <2> QED BY <2>1
<1>4. FoundStays'
  <2> SUFFICES ASSUME NEW s \in Sessions, req[s].report \in Growing, NEW p \in DOMAIN shown[s]
               PROVE  shown[s][p] \subseteq Meant(s, p)'
    BY <1>1 DEF FoundStays
  <2>1. shown[s][p] \subseteq Meant(s, p)
    BY DEF RInv, FoundStays
  <2> QED BY <2>1
<1>5. LaterPartsHoldMore'
  BY <1>1 DEF RInv, LaterPartsHoldMore
<1> QED BY <1>2, <1>3, <1>4, <1>5 DEF RInv

(* A row is written, or an order goes on.                                  *)
LEMMA RowSteps ==
  ASSUME RInv, NEW r \in Rows,
         \/ CreateOrder(r) \/ PlaceOrder(r) \/ CompleteOrder(r) \/ CancelOrder(r)
         \/ WriteEntry(r) \/ SetMaster(r)
  PROVE  RInv'
<1>1. PICK what \in {"absent", "draft", "placed", "counted", "void"} :
        Become(r, what) /\ (r.table \in Entries => state[r] = "absent")
  BY DEF CreateOrder, PlaceOrder, CompleteOrder, CancelOrder, WriteEntry, SetMaster,
         Orders, Entries, Masters, Stock
<1>2. /\ state' = [state EXCEPT ![r] = what] /\ UNCHANGED <<active, today>>
      /\ UNCHANGED report /\ Shape /\ UNCHANGED <<req, scope, todo, shown>>
      /\ state' \in [Rows -> {"absent", "draft", "placed", "counted", "void"}]
  BY <1>1 DEF Become, report, RInv, Shape
<1>3. changed' = [s \in Sessions |-> changed[s] \cup
                    {q \in {r} : q.table \in Tables(req[s].report)}]
  BY <1>1 DEF Become, Changes
<1>4. ASSUME NEW s \in Sessions, NEW p \in DOMAIN shown[s]
      PROVE  (Meant(s, p) \ Meant(s, p)') \cup (Meant(s, p)' \ Meant(s, p)) \subseteq changed'[s]
  <2>1. TablesOf(req[s].report, p) \subseteq Tables(req[s].report)
    BY <1>2, Placed
  <2> SUFFICES ASSUME NEW q \in Rows, q \notin changed'[s]
               PROVE  q \in Meant(s, p) <=> q \in Meant(s, p)'
    BY DEF Meant
  <2>2. q = r => q.table \notin TablesOf(req[s].report, p)
    BY <1>3, <2>1
  <2>3. MeantDay(s, p, q.day)' <=> MeantDay(s, p, q.day)
    BY <1>2 DEF MeantDay
  <2>4. MeantBranch(s, p, q.branch)' <=> MeantBranch(s, p, q.branch)
    BY <1>2 DEF MeantBranch
  <2>5. q # r => state'[q] = state[q]
    BY <1>2 DEF Shape
  <2> QED BY <1>2, <2>2, <2>3, <2>4, <2>5 DEF Meant
<1>5. ASSUME NEW s \in Sessions, req[s].report \in Growing, NEW p \in DOMAIN shown[s]
      PROVE  Meant(s, p) \subseteq Meant(s, p)'
  <2> SUFFICES ASSUME NEW q \in Meant(s, p) PROVE q \in Meant(s, p)'
    OBVIOUS
  <2>1. TablesOf(req[s].report, p) \subseteq Entries /\ p # "cancelled"
    <3>1. /\ req[s].report = "payments" => p \in {"total", "methods", "list"}
          /\ req[s].report = "inventory" => p \in {"quantity", "summary"}
      BY <1>2, Placed DEF Stands
    <3> QED BY <1>5, <3>1 DEF Growing, TablesOf, Orders, Entries, Stock
  <2>2. q \in Rows /\ q.table \in Entries /\ state[q] = "counted"
    BY <2>1 DEF Meant
  <2>3. q # r
    BY <1>1, <2>2
  <2>4. state'[q] = state[q]
    BY <1>2, <2>2, <2>3 DEF Shape
  <2>5. MeantDay(s, p, q.day)' /\ MeantBranch(s, p, q.branch)'
    BY <1>2 DEF Meant, MeantDay, MeantBranch
  <2> QED BY <1>2, <2>2, <2>4, <2>5 DEF Meant
<1> QED BY <1>2, <1>3, <1>4, <1>5, StoreStep DEF Shape

(* A branch is switched on or off, or the day changes.                     *)
LEMMA ClockSteps ==
  ASSUME RInv, Midnight \/ \E b \in Branches : SetActive(b)
  PROVE  RInv'
<1>1. /\ state' = state /\ UNCHANGED report /\ Shape /\ UNCHANGED <<req, scope, todo, shown>>
      /\ active' \subseteq Branches /\ today' \in Days
  BY DEF Midnight, SetActive, report, RInv, Shape
<1>2. PICK D \in SUBSET Rows : Changes({}, D) /\ \A q \in Rows \ D :
        today' = today /\ (q.branch \in active' <=> q.branch \in active)
  <2>1. CASE Midnight
    BY <2>1 DEF Midnight
  <2>2. ASSUME NEW b \in Branches, SetActive(b)
        PROVE  \E D \in SUBSET Rows : Changes({}, D) /\ \A q \in Rows \ D :
                 today' = today /\ (q.branch \in active' <=> q.branch \in active)
    <3> DEFINE D == {q \in Rows : q.branch = b}
    <3>1. Changes({}, D) /\ today' = today
      BY <2>2 DEF SetActive
    <3>2. \A q \in Rows \ D : q.branch \in active' <=> q.branch \in active
      BY <2>2 DEF SetActive
    <3> QED BY <3>1, <3>2
  <2> QED BY <2>1, <2>2
<1>3. changed' = [s \in Sessions |-> changed[s] \cup
                    {q \in {} \cup (IF req[s].report = "dashboard" THEN D ELSE {}) :
                       q.table \in Tables(req[s].report)}]
  BY <1>2 DEF Changes
<1>4. ASSUME NEW s \in Sessions, NEW p \in DOMAIN shown[s]
      PROVE  /\ (Meant(s, p) \ Meant(s, p)') \cup (Meant(s, p)' \ Meant(s, p))
                  \subseteq changed'[s]
             /\ req[s].report # "dashboard" => Meant(s, p) = Meant(s, p)'
  <2>1. /\ TablesOf(req[s].report, p) \subseteq Tables(req[s].report)
        /\ p \in ClockParts => req[s].report = "dashboard"
    BY <1>1, Placed
  <2>2. ASSUME NEW q \in Rows, req[s].report # "dashboard" \/ q \notin D
        PROVE  q \in Meant(s, p) <=> q \in Meant(s, p)'
    <3>1. MeantDay(s, p, q.day)' <=> MeantDay(s, p, q.day)
      <4>1. p \in ClockParts => today' = today
        BY <1>2, <2>1, <2>2
      <4> QED BY <1>1, <4>1 DEF MeantDay, ClockParts
    <3>2. MeantBranch(s, p, q.branch)' <=> MeantBranch(s, p, q.branch)
      BY <1>1, <1>2, <2>2 DEF MeantBranch
    <3> QED BY <1>1, <3>1, <3>2 DEF Meant
  <2>3. ASSUME NEW q \in Rows, q \notin changed'[s]
        PROVE  q \in Meant(s, p) <=> q \in Meant(s, p)'
    <3>1. CASE q.table \in TablesOf(req[s].report, p)
      <4>1. req[s].report # "dashboard" \/ q \notin D
        BY <1>3, <2>1, <2>3, <3>1
      <4> QED BY <2>2, <4>1
    <3>2. CASE q.table \notin TablesOf(req[s].report, p)
      BY <1>1, <3>2 DEF Meant
    <3> QED BY <3>1, <3>2
  <2>4. Meant(s, p) \subseteq Rows /\ Meant(s, p)' \subseteq Rows
    BY DEF Meant
  <2> QED BY <2>2, <2>3, <2>4
<1>5. \A s \in Sessions : req[s].report \in Growing => req[s].report # "dashboard"
  BY DEF Growing
<1>6. /\ DOMAIN changed' = Sessions
      /\ \A s \in Sessions : changed[s] \subseteq changed'[s] /\ changed'[s] \subseteq Rows
  BY <1>1, <1>3 DEF Shape
<1>7. state' \in [Rows -> {"absent", "draft", "placed", "counted", "void"}]
  BY <1>1 DEF Shape
<1> QED BY <1>1, <1>4, <1>5, <1>6, <1>7, StoreStep

-----------------------------------------------------------------------------
(* A session begins a report with nothing to show, and ends with nothing.  *)
LEMMA EmptyReport ==
  ASSUME NEW s \in Sessions, DOMAIN shown[s] = {},
         NEW T, T = Statements(req[s].report), NEW S, T \in Seq(S), todo[s] = T
  PROVE  Ran(s)
<1>1. Len(T) \in Nat /\ 0 \in 0..Len(T)
  BY LenProperties
<1>2. todo[s] = SubSeq(T, 0 + 1, Len(T))
  BY SubSeqFull
<1>3. DOMAIN shown[s] = PartsTo(T, 0)
  BY DEF PartsTo
<1> QED BY <1>1, <1>2, <1>3 DEF Ran

LEMMA Others ==
  ASSUME RInv, NEW s \in Sessions, UNCHANGED store, Shape',
         DOMAIN shown'[s] = {},
         \A t \in Sessions \ {s} : /\ req'[t] = req[t] /\ scope'[t] = scope[t]
                                   /\ shown'[t] = shown[t] /\ changed'[t] = changed[t]
  PROVE  RInv'
<1>1. UNCHANGED <<state, active, today>>
  BY DEF store
<1>2. \A t \in Sessions : \A p \in DOMAIN shown'[t] :
        /\ t # s /\ req'[t] = req[t] /\ shown'[t] = shown[t] /\ changed'[t] = changed[t]
        /\ Meant(t, p)' = Meant(t, p)
  BY <1>1 DEF Meant, MeantDay, MeantBranch
<1>3. FiguresExplained' /\ FoundStays'
  BY <1>2 DEF RInv, FiguresExplained, FoundStays
<1>4. LaterPartsHoldMore'
  BY <1>2 DEF RInv, LaterPartsHoldMore
<1> QED BY <1>3, <1>4 DEF RInv
LEMMA BeginFinish ==
  ASSUME RInv, NEW s \in Sessions, Finish(s) \/ \E q \in Asks : Begin(s, q)
  PROVE  RInv'
<1>1. /\ DOMAIN scope = Sessions /\ DOMAIN todo = Sessions /\ DOMAIN shown = Sessions
      /\ DOMAIN changed = Sessions /\ req \in [Sessions -> Asks \cup {NoRequest}]
      /\ active \subseteq Branches
  BY DEF RInv, Shape
<1>2. /\ UNCHANGED store
      /\ DOMAIN scope' = Sessions /\ DOMAIN todo' = Sessions /\ DOMAIN shown' = Sessions
      /\ DOMAIN changed' = Sessions /\ req' \in [Sessions -> Asks \cup {NoRequest}]
      /\ \A t \in Sessions \ {s} : /\ req'[t] = req[t] /\ scope'[t] = scope[t]
                                   /\ todo'[t] = todo[t] /\ shown'[t] = shown[t]
                                   /\ changed'[t] = changed[t]
  BY <1>1 DEF Begin, Finish
<1>3. /\ changed'[s] = {}
      /\ todo'[s] = Statements(req'[s].report)
      /\ scope'[s] = Everywhere \/ scope'[s] \subseteq Branches
      /\ DOMAIN shown'[s] = {}
  <2>1. CASE Finish(s)
    <3>1. req'[s] = NoRequest /\ scope'[s] = Everywhere /\ todo'[s] = << >>
          /\ shown'[s] = << >> /\ changed'[s] = {}
      BY <1>1, <2>1 DEF Finish
    <3>2. req'[s].report = "none"
      BY <3>1 DEF NoRequest
    <3>3. DOMAIN shown'[s] = {}
      BY <3>1
    <3> QED BY <3>1, <3>2, <3>3, StatementsAreSeq
  <2>2. ASSUME NEW q \in Asks, Begin(s, q)
        PROVE  /\ changed'[s] = {}
               /\ todo'[s] = Statements(req'[s].report)
               /\ scope'[s] = Everywhere \/ scope'[s] \subseteq Branches
               /\ DOMAIN shown'[s] = {}
    <3>1. PICK sc \in Scopes(q) : scope' = [scope EXCEPT ![s] = sc]
      BY <2>2 DEF Begin
    <3>2. sc = Everywhere \/ sc \subseteq Branches
      <4>1. Accessible(q.user) \subseteq Branches
        BY <1>1 DEF Accessible
      <4> QED BY <3>1, <4>1 DEF Scopes
    <3>3. /\ req'[s] = q /\ todo'[s] = Statements(q.report) /\ changed'[s] = {}
          /\ scope'[s] = sc /\ shown' = shown
      BY <1>1, <2>2, <3>1 DEF Begin
    <3>4. DOMAIN shown[s] = {}
      <4>1. Statements(req[s].report) = << >>
        BY <2>2, StatementsAreSeq DEF Begin
      <4>2. PICK k \in 0..Len(Statements(req[s].report)) :
              DOMAIN shown[s] = PartsTo(Statements(req[s].report), k)
        BY DEF RInv, Shape, Ran
      <4>3. k = 0
        BY <4>1, <4>2
      <4> QED BY <4>2, <4>3 DEF PartsTo
    <3> QED BY <3>2, <3>3, <3>4
  <2> QED BY <2>1, <2>2
<1>4. Shape'
  <2>1. UNCHANGED <<state, active, today>>
    BY <1>2 DEF store
  <2>2. Ran(s)'
    <3>1. PICK S : Statements(req'[s].report) \in Seq(S)
      BY <1>2, ReportNames, StatementsAreSeq
    <3>2. 0 \in 0..Len(Statements(req'[s].report))
      BY <3>1, LenProperties
    <3>3. todo'[s] = SubSeq(Statements(req'[s].report), 0 + 1, Len(Statements(req'[s].report)))
      BY <1>3, <3>1, SubSeqFull
    <3>4. DOMAIN shown'[s] = PartsTo(Statements(req'[s].report), 0)
      BY <1>3 DEF PartsTo
    <3> QED BY <3>2, <3>3, <3>4 DEF Ran
  <2>3. \A t \in Sessions \ {s} : Ran(t)'
    BY <1>2 DEF RInv, Shape, Ran
  <2>4. \A t \in Sessions : /\ scope'[t] = Everywhere \/ scope'[t] \subseteq Branches
                            /\ \A p \in DOMAIN shown'[t] : shown'[t][p] \subseteq Rows
                            /\ changed'[t] \subseteq Rows
    BY <1>2, <1>3 DEF RInv, Shape
  <2> QED BY <1>2, <2>1, <2>2, <2>3, <2>4 DEF RInv, Shape
<1> QED BY <1>2, <1>3, <1>4, Others

(* The pairs of parts that LaterPartsHoldMore compares.                    *)
LEMMA LaterMeansMore ==
  ASSUME NEW s \in Sessions, NEW p, NEW l,
         \/ req[s].report = "payments" /\ {p, l} \subseteq {"total", "methods", "list"}
         \/ req[s].report = "inventory" /\ p = "quantity" /\ l = "summary"
  PROVE  {r \in Meant(s, p) : r.table # "deliveries"} \subseteq Meant(s, l)
<1> SUFFICES ASSUME NEW r \in Meant(s, p), r.table # "deliveries"
             PROVE  r \in Meant(s, l)
  OBVIOUS
<1>1. r.table \in TablesOf(req[s].report, l)
  BY DEF Meant, TablesOf, Orders, Stock
<1>2. p # "cancelled" /\ l # "cancelled"
  OBVIOUS
<1>3. MeantDay(s, l, r.day)
  BY DEF Meant, MeantDay, TodayParts, MonthParts
<1>4. MeantBranch(s, l, r.branch)
  <2>1. ~(TablesOf(req[s].report, p) \subseteq Masters)
    BY DEF TablesOf, Orders, Stock, Masters
  <2> QED BY <2>1 DEF Meant, MeantBranch
<1> QED BY <1>1, <1>2, <1>3, <1>4 DEF Meant

(* The next statement of a report runs.                                    *)
LEMMA StatementStep ==
  ASSUME RInv, NEW s \in Sessions, RunStatement(s)
  PROVE  RInv'
<1> DEFINE name == req[s].report
<1>1. /\ name \in Reports \cup {"none"} /\ UNCHANGED <<state, active, today, req, scope, changed>>
      /\ DOMAIN shown = Sessions /\ DOMAIN todo = Sessions
  BY ReportNames DEF RInv, Shape, RunStatement, store
<1>2. PICK T : T = Statements(name)
  OBVIOUS
<1>3. PICK k \in 0..Len(T) : todo[s] = SubSeq(T, k + 1, Len(T)) /\ DOMAIN shown[s] = PartsTo(T, k)
  BY <1>2 DEF RInv, Shape, Ran
<1>4. PICK S : T \in Seq(S)
  BY <1>1, <1>2, StatementsAreSeq
<1>5. Len(T) \in Nat /\ \A i \in 1..Len(T) : T[i] \in S
  BY <1>4, LenProperties, ElementOfSeq
<1>6. k + 1 \in 1..Len(T)
  <2>1. SubSeq(T, k + 1, Len(T)) # << >>
    BY <1>3 DEF RunStatement
  <2>2. CASE k = Len(T)
    <3>1. Len(SubSeq(T, k + 1, Len(T))) = 0 /\ SubSeq(T, k + 1, Len(T)) \in Seq(S)
      <4>1. \A i \in k + 1..Len(T) : T[i] \in S
        BY <1>5
      <4>2. /\ SubSeq(T, k + 1, Len(T)) \in Seq(S)
            /\ Len(SubSeq(T, k + 1, Len(T))) = IF k + 1 <= Len(T) THEN Len(T) - (k + 1) + 1 ELSE 0
        BY <1>5, <4>1, SubSeqProperties
      <4> QED BY <1>5, <2>2, <4>2
    <3> QED BY <2>1, <3>1, EmptySeq
  <2> QED BY <1>5, <2>2
<1>7. PICK st : st = T[k + 1]
  OBVIOUS
<1>8. Head(todo[s]) = st /\ Tail(todo[s]) = SubSeq(T, k + 2, Len(T))
  <2>1. /\ k + 1 \in 1..Len(T) /\ Len(T) \in k + 1..Len(T)
    BY <1>5, <1>6
  <2>2. /\ Head(SubSeq(T, k + 1, Len(T))) = T[k + 1]
        /\ Tail(SubSeq(T, k + 1, Len(T))) = SubSeq(T, k + 1 + 1, Len(T))
    BY <1>4, <2>1, HeadTailOfSubSeq
  <2>3. k + 1 + 1 = k + 2
    BY <1>5
  <2> QED BY <1>3, <1>7, <2>2, <2>3
<1>9. /\ todo' = [todo EXCEPT ![s] = SubSeq(T, k + 2, Len(T))]
      /\ shown' = [shown EXCEPT ![s] =
           [p \in DOMAIN shown[s] \cup DOMAIN st.parts |->
              IF p \in DOMAIN st.parts THEN Selected(s, st, p) ELSE shown[s][p]]]
  BY <1>8 DEF RunStatement
<1>10. /\ DOMAIN shown'[s] = DOMAIN shown[s] \cup DOMAIN st.parts
       /\ \A p \in DOMAIN st.parts : shown'[s][p] = Selected(s, st, p)
       /\ \A p \in DOMAIN shown[s] \ DOMAIN st.parts : shown'[s][p] = shown[s][p]
       /\ \A t \in Sessions \ {s} : shown'[t] = shown[t] /\ todo'[t] = todo[t]
       /\ todo'[s] = SubSeq(T, k + 2, Len(T))
  BY <1>1, <1>9
<1>11. name \in Reports
  <2>1. name # "none"
    BY <1>2, <1>5, <1>6, StatementsAreSeq, EmptySeq
  <2> QED BY <1>1, <2>1
<1>12. \A i \in 1..k + 1 : \A p \in DOMAIN T[i].parts : Fits(name, T[i], p) /\ Stands(name, i, p)
  <2>1. \A i \in 1..k + 1 : i \in 1..Len(T)
    BY <1>5, <1>6
  <2> QED BY <1>2, <1>11, <2>1, PartsFit
<1>13. k + 1 \in 1..k + 1
  OBVIOUS
<1>14. \A p \in DOMAIN st.parts :
         /\ Selected(s, st, p) \subseteq Meant(s, p)
         /\ p # "day_items" => Selected(s, st, p) = Meant(s, p)
         /\ p = "day_items" =>
              Selected(s, st, p) = {r \in Meant(s, p) : \E q \in shown[s].days : q.day = r.day}
  <2> SUFFICES ASSUME NEW p \in DOMAIN st.parts
               PROVE  Selected(s, st, p) =
                        {r \in Meant(s, p) : p = "day_items" => \E q \in shown[s].days : q.day = r.day}
    OBVIOUS
  <2>1. Fits(req[s].report, st, p)
    BY <1>7, <1>12, <1>13
  <2> QED BY <2>1, SelectedIsMeant
<1>15. \A t \in Sessions : \A p : Meant(t, p)' = Meant(t, p)
  BY <1>1 DEF Meant, MeantDay, MeantBranch
<1>16. \A p \in DOMAIN shown[s] : \E i \in 1..k : p \in DOMAIN T[i].parts
  BY <1>3 DEF PartsTo
<1>17. Shape'
  <2>1. Ran(s)'
    <3>1. DOMAIN shown'[s] = PartsTo(T, k + 1)
      <4>1. 1..k + 1 = (1..k) \cup {k + 1}
        OBVIOUS
      <4> QED BY <1>3, <1>7, <1>10, <4>1 DEF PartsTo
    <3>2. /\ k + 1 \in 0..Len(T) /\ k + 1 + 1 = k + 2
      BY <1>5, <1>6
    <3>3. T = Statements(req'[s].report)
      BY <1>1, <1>2
    <3> QED BY <1>10, <3>1, <3>2, <3>3 DEF Ran
  <2>2. \A t \in Sessions \ {s} : Ran(t)'
    BY <1>1, <1>10 DEF RInv, Shape, Ran
  <2>3. \A t \in Sessions : \A p \in DOMAIN shown'[t] : shown'[t][p] \subseteq Rows
    <3>1. \A p \in DOMAIN shown'[s] : shown'[s][p] \subseteq Rows
      BY <1>10 DEF RInv, Shape, Selected
    <3> QED BY <1>10, <3>1 DEF RInv, Shape
  <2>4. DOMAIN todo' = Sessions /\ DOMAIN shown' = Sessions
    BY <1>1, <1>9
  <2> QED BY <1>1, <2>1, <2>2, <2>3, <2>4 DEF RInv, Shape
<1>18. FiguresExplained'
  <2> SUFFICES ASSUME NEW t \in Sessions, NEW p \in DOMAIN shown'[t]
               PROVE  (shown'[t][p] \ Meant(t, p)) \cup (Meant(t, p) \ shown'[t][p])
                        \subseteq changed[t]
    BY <1>1, <1>15 DEF FiguresExplained
  <2>1. CASE t # s \/ p \notin DOMAIN st.parts
    <3>1. p \in DOMAIN shown[t] /\ shown'[t][p] = shown[t][p]
      BY <1>10, <2>1
    <3> QED BY <3>1 DEF RInv, FiguresExplained
  <2>2. CASE t = s /\ p \in DOMAIN st.parts /\ p # "day_items"
    BY <1>10, <1>14, <2>2
  <2>3. CASE t = s /\ p \in DOMAIN st.parts /\ p = "day_items"
    <3>1. k = 3 /\ name \in Orders
      BY <1>7, <1>12, <1>13, <2>3 DEF Stands
    <3>2. "days" \in DOMAIN shown[s]
      <4>1. "days" \in DOMAIN T[3].parts
        BY <1>2, <3>1, StatementsAreSeq
      <4> QED BY <1>3, <3>1, <4>1 DEF PartsTo
    <3>3. Meant(s, p) = Meant(s, "days")
      <4>1. TablesOf(name, p) = TablesOf(name, "days")
        BY <2>3, <3>1 DEF TablesOf, Orders
      <4>2. \A b : MeantBranch(s, p, b) <=> MeantBranch(s, "days", b)
        BY <4>1 DEF MeantBranch
      <4>3. \A d : MeantDay(s, p, d) <=> MeantDay(s, "days", d)
        BY <2>3 DEF MeantDay, TodayParts, MonthParts
      <4> QED BY <2>3, <4>1, <4>2, <4>3 DEF Meant
    <3>4. Meant(s, "days") \ shown[s]["days"] \subseteq changed[s]
      BY <3>2 DEF RInv, FiguresExplained
    <3>5. shown'[s][p] = {r \in Meant(s, p) : \E q \in shown[s].days : q.day = r.day}
      BY <1>10, <1>14, <2>3
    <3> QED BY <2>3, <3>3, <3>4, <3>5
  <2> QED BY <2>1, <2>2, <2>3
<1>19. FoundStays'
  <2> SUFFICES ASSUME NEW t \in Sessions, req[t].report \in Growing, NEW p \in DOMAIN shown'[t]
               PROVE  shown'[t][p] \subseteq Meant(t, p)
    BY <1>1, <1>15 DEF FoundStays
  <2>1. CASE t # s \/ p \notin DOMAIN st.parts
    <3>1. p \in DOMAIN shown[t] /\ shown'[t][p] = shown[t][p]
      BY <1>10, <2>1
    <3> QED BY <3>1 DEF RInv, FoundStays
  <2>2. CASE t = s /\ p \in DOMAIN st.parts
    BY <1>10, <1>14, <2>2
  <2> QED BY <2>1, <2>2
<1>20. LaterPartsHoldMore'
  <2> SUFFICES ASSUME NEW t \in Sessions,
                      NEW pair \in {<<"total", "methods">>, <<"methods", "list">>,
                                    <<"total", "list">>, <<"quantity", "summary">>},
                      {pair[1], pair[2]} \subseteq DOMAIN shown'[t]
               PROVE  {r \in shown'[t][pair[1]] : r.table # "deliveries"} \subseteq shown'[t][pair[2]]
    BY DEF LaterPartsHoldMore
  <2>1. CASE t # s \/ {pair[1], pair[2]} \cap DOMAIN st.parts = {}
    <3>1. /\ {pair[1], pair[2]} \subseteq DOMAIN shown[t]
          /\ shown'[t][pair[1]] = shown[t][pair[1]] /\ shown'[t][pair[2]] = shown[t][pair[2]]
      BY <1>10, <2>1
    <3> QED BY <3>1 DEF RInv, LaterPartsHoldMore
  <2>2. CASE t = s /\ pair[2] \in DOMAIN st.parts
    <3>1. Stands(name, k + 1, pair[2])
      BY <1>7, <1>12, <1>13, <2>2
    <3>2. \/ name = "payments" /\ {pair[1], pair[2]} \subseteq {"total", "methods", "list"}
          \/ name = "inventory" /\ pair[1] = "quantity" /\ pair[2] = "summary"
      BY <3>1 DEF Stands
    <3>3. {r \in Meant(s, pair[1]) : r.table # "deliveries"} \subseteq Meant(s, pair[2])
      BY <3>2, LaterMeansMore
    <3>4. shown'[s][pair[1]] \subseteq Meant(s, pair[1])
      <4>1. name \in Growing
        BY <3>2 DEF Growing
      <4> QED BY <1>1, <1>15, <1>19, <2>2, <4>1 DEF FoundStays
    <3>5. shown'[s][pair[2]] = Meant(s, pair[2])
      BY <1>10, <1>14, <2>2
    <3> QED BY <2>2, <3>3, <3>4, <3>5
  <2>3. CASE t = s /\ pair[2] \notin DOMAIN st.parts /\ pair[1] \in DOMAIN st.parts
    <3>1. Stands(name, k + 1, pair[1])
      BY <1>7, <1>12, <1>13, <2>3
    <3>2. PICK i \in 1..k : pair[2] \in DOMAIN T[i].parts
      BY <1>10, <1>16, <2>3
    <3>3. i \in 1..k + 1
      OBVIOUS
    <3>4. Stands(name, i, pair[2])
      BY <1>12, <3>2, <3>3
    <3> QED BY <3>1, <3>4 DEF Stands
  <2> QED BY <2>1, <2>2, <2>3
<1> QED BY <1>17, <1>18, <1>19, <1>20 DEF RInv

-----------------------------------------------------------------------------
LEMMA ReportsInit == Init => RInv
<1> SUFFICES ASSUME Init PROVE RInv
  OBVIOUS
<1>1. \A s \in Sessions : req[s] = NoRequest /\ scope[s] = Everywhere
        /\ todo[s] = << >> /\ DOMAIN shown[s] = {} /\ changed[s] = {}
  <2>1. \A s \in Sessions : req[s] = NoRequest /\ scope[s] = Everywhere
          /\ todo[s] = << >> /\ shown[s] = << >> /\ changed[s] = {}
    BY DEF Init
  <2>2. DOMAIN << >> = {}
    OBVIOUS
  <2> QED BY <2>1, <2>2
<1>2. \A s \in Sessions : Ran(s)
  <2> SUFFICES ASSUME NEW s \in Sessions PROVE Ran(s)
    OBVIOUS
  <2>1. Statements(req[s].report) = << >>
    <3>1. req[s] = NoRequest
      BY <1>1
    <3>2. NoRequest.report = "none"
      BY DEF NoRequest
    <3> QED BY <3>1, <3>2, StatementsAreSeq
  <2>2. << >> \in Seq({})
    BY EmptySeq
  <2> QED BY <1>1, <2>1, <2>2, EmptyReport
<1>3. Shape
  BY <1>1, <1>2 DEF Init, Shape
<1> QED BY <1>1, <1>3 DEF RInv, FiguresExplained, FoundStays, LaterPartsHoldMore

LEMMA ReportsStep == RInv /\ [Next]_vars => RInv'
<1> SUFFICES ASSUME RInv, [Next]_vars PROVE RInv'
  OBVIOUS
<1>1. CASE \E r \in Rows : \/ CreateOrder(r) \/ PlaceOrder(r) \/ CompleteOrder(r)
                           \/ CancelOrder(r) \/ WriteEntry(r) \/ SetMaster(r)
  BY <1>1, RowSteps
<1>2. CASE Midnight \/ \E b \in Branches : SetActive(b)
  BY <1>2, ClockSteps
<1>3. CASE \E s \in Sessions : Finish(s) \/ \E q \in Asks : Begin(s, q)
  BY <1>3, BeginFinish
<1>4. CASE \E s \in Sessions : RunStatement(s)
  BY <1>4, StatementStep
<1>5. CASE UNCHANGED vars
  <2>1. /\ UNCHANGED <<state, active, today, req, scope, todo, shown, changed>>
        /\ UNCHANGED report
    BY <1>5 DEF vars, store, report
  <2>2. \A s \in Sessions : \A p : Meant(s, p)' = Meant(s, p)
    BY <2>1 DEF Meant, MeantDay, MeantBranch
  <2>3. Shape
    BY DEF RInv
  <2>4. /\ state' \in [Rows -> {"absent", "draft", "placed", "counted", "void"}]
        /\ active' \subseteq Branches /\ today' \in Days /\ DOMAIN changed' = Sessions
        /\ \A s \in Sessions : changed[s] \subseteq changed'[s] /\ changed'[s] \subseteq Rows
    BY <2>1, <2>3 DEF Shape
  <2> QED BY <2>1, <2>2, <2>4, StoreStep
<1> QED BY <1>1, <1>2, <1>3, <1>4, <1>5 DEF Next

LEMMA Reporting == Spec => []RInv
BY ReportsInit, ReportsStep, PTL DEF Spec

(* A report's statements run in the order in which GetSalesReport and the  *)
(* other queries of reporting/repository.go and dashboard/repository.go    *)
(* send them, and at every moment it has the parts of those that have run. *)
THEOREM ReportsTypeCorrect == Spec => []TypeOK
<1>1. RInv => TypeOK
  BY ShapeIsType DEF RInv
<1> QED BY <1>1, Reporting, PTL

(* Every figure of every report and of the dashboard is what it says, but  *)
(* for rows that changed while the statements ran one after another with   *)
(* no transaction around them (reporting and dashboard/repository.go).     *)
THEOREM FiguresAreExplained == Spec => []FiguresExplained
<1>1. RInv => FiguresExplained
  BY DEF RInv
<1> QED BY <1>1, Reporting, PTL

(* The order of the statements of the payment and the inventory report     *)
(* keeps what was counted first in what is read afterwards, whatever is    *)
(* written between the two.                                                *)
THEOREM LaterPartsNeverMiss == Spec => []LaterPartsHoldMore
<1>1. RInv => LaterPartsHoldMore
  BY DEF RInv
<1> QED BY <1>1, Reporting, PTL
=============================================================================
