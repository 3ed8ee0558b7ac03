------------------------------- MODULE Dashboard -------------------------------
(***************************************************************************)
(* ReportsService.getDashboard over the tables of the ledger, while other  *)
(* requests go on.  Its queries run in parallel on connections of their    *)
(* own: each sees what is committed when it runs, so the figures of one    *)
(* response can belong to different moments.  So can the two parts of the  *)
(* list of an invoice's payments (PaymentsService.findByInvoice).          *)
(*                                                                         *)
(* Left out: the five most recent invoices, which are copied as read.      *)
(***************************************************************************)
EXTENDS AtomicLedger, Functions

CONSTANTS
    CustomerOf,     \* the customer of each invoice, fixed by create
    PastDue,        \* the invoices with a due date before the time of the request
    TopInvoices,    \* the invoices the top-customers query keeps: 10
    TopCustomers,   \* the customers the response keeps: 5
    MaxTouched      \* bound: the invoices that change during a report

ASSUME DashboardAssumption ==
    /\ IsFiniteSet(Invoices)
    /\ None \notin Invoices
    /\ TopInvoices \in Nat \ {0}
    /\ TopCustomers \in Nat \ {0}
    /\ MaxTouched \in Nat

VARIABLES
    pending,   \* the queries of the request that have not run
    phase,     \* where the request is
    figures,   \* what its queries returned
    list,      \* what the queries of a payment list returned; was a payment voided since?
    touched    \* history: the invoices something was committed on meanwhile

dashboardVars == <<pending, phase, figures, list, touched>>
allVars       == <<tables, dashboardVars>>

Queries == {"revenue", "outstanding", "overdue", "byStatus", "topInvoices"}

NoFigures == [totalRevenue |-> 0, totalOutstanding |-> 0, totalOverdue |-> 0,
              overdueCount |-> 0, byStatus |-> [s \in InvoiceStatus |-> 0],
              topInvoices |-> <<>>, topCustomers |-> <<>>]

NoList == [invoice |-> None, amountPaid |-> 0, payments |-> {}, voided |-> FALSE]

DashboardInit ==
    /\ Init
    /\ pending = {}
    /\ phase = "idle"
    /\ figures = NoFigures
    /\ list = NoList
    /\ touched = {}

-----------------------------------------------------------------------------
(* The aggregates. *)

Least(a, b) == IF a <= b THEN a ELSE b

InvoicesIn(statuses) == {i \in Invoices : invoice[i].status \in statuses}

\* The amounts that are summed.
AmountDue == [i \in Invoices |-> invoice[i].amountDue]
Amount    == [p \in payments |-> p.amount]

\* The n entries of the table size with the largest sizes; ties fall either way.
First(n, size) ==
    {T \in SUBSET DOMAIN size :
        /\ Cardinality(T) = Least(n, Cardinality(DOMAIN size))
        /\ \A x \in T, y \in DOMAIN size \ T : size[x] >= size[y]}

\* Fault: a sum over no rows is NULL.
TotalRevenueFault ==
    IF payments = {} THEN None ELSE SumFunction(Amount)

\* payment.aggregate _sum, and 0 when there is no payment.
TotalRevenue == SumFunction(Amount)

\* Fault: an invoice paid in part is not outstanding.
OutstandingFault == InvoicesIn({"SENT", "OVERDUE"})

Outstanding == InvoicesIn({"SENT", "PARTIALLY_PAID", "OVERDUE"})

\* Fault: what is past due counts whatever its status.
OverdueFault == PastDue \cap InvoicesIn(InvoiceStatus)

Overdue == PastDue \cap InvoicesIn({"SENT", "PARTIALLY_PAID"})

-----------------------------------------------------------------------------
(* The request. *)

GetDashboard ==
    /\ phase = "idle"
    /\ phase' = "queries"
    /\ pending' = Queries
    /\ UNCHANGED <<figures, list, touched>>

\* Query q of Promise.all runs and returns.
Answer(q) ==
    /\ q \in pending
    /\ pending' = pending \ {q}
    /\ UNCHANGED <<phase, list, touched>>

QueryRevenue ==
    /\ Answer("revenue")
    /\ figures' = [figures EXCEPT !.totalRevenue = TotalRevenue]

QueryOutstanding ==
    /\ Answer("outstanding")
    /\ figures' = [figures EXCEPT !.totalOutstanding = SumFunctionOnSet(AmountDue, Outstanding)]

QueryOverdue ==
    /\ Answer("overdue")
    /\ figures' = [figures EXCEPT !.totalOverdue = SumFunctionOnSet(AmountDue, Overdue),
                                  !.overdueCount = Cardinality(Overdue)]

QueryByStatus ==
    /\ Answer("byStatus")
    /\ figures' = [figures EXCEPT !.byStatus =
                     [s \in InvoiceStatus |-> Cardinality(InvoicesIn({s}))]]

\* groupBy invoice, largest sum first, take: the sums of the invoices kept.
QueryTopInvoices ==
    /\ Answer("topInvoices")
    /\ LET sum == [i \in {p.invoice : p \in payments} |-> Received(i)]
       IN  \E T \in First(TopInvoices, sum) :
             figures' = [figures EXCEPT !.topInvoices = [i \in T |-> sum[i]]]

\* Fault: a further sum of a customer replaces the one before.
RevenueByCustomerFault(top) ==
    LET of(c) == {i \in DOMAIN top : Exists(i) /\ CustomerOf[i] = c}
    IN  [c \in {CustomerOf[i] : i \in {j \in DOMAIN top : Exists(j)}} |->
            top[CHOOSE i \in of(c) : TRUE]]

\* The sums of the invoices found, added up by customer.
RevenueByCustomer(top) ==
    LET of(c) == {i \in DOMAIN top : Exists(i) /\ CustomerOf[i] = c}
    IN  [c \in {CustomerOf[i] : i \in {j \in DOMAIN top : Exists(j)}} |->
            SumFunctionOnSet(top, of(c))]

\* When all have returned: the invoices are looked up, their sums grouped by
\* customer, sorted and cut.
QueryCustomers ==
    /\ phase = "queries"
    /\ pending = {}
    /\ LET revenue == RevenueByCustomer(figures.topInvoices)
       IN  \E T \in First(TopCustomers, revenue) :
             figures' = [figures EXCEPT !.topCustomers = [c \in T |-> revenue[c]]]
    /\ phase' = "answer"
    /\ UNCHANGED <<pending, list, touched>>

\* Fault: the payments are read before the invoice.
ListQueriesFault == <<"findPayments", "findInvoice">>

\* The queries of findByInvoice, in turn.
ListQueries == <<"findInvoice", "findPayments">>

\* A query of the list returns result.
Answered(query, result) ==
    /\ phase = query
    /\ phase' = IF query = ListQueries[1] THEN ListQueries[2] ELSE "listed"
    /\ list' = result
    /\ UNCHANGED <<pending, figures, touched>>

FindByInvoice ==
    /\ phase = "idle"
    /\ phase' = ListQueries[1]
    /\ \E i \in Invoices : Exists(i) /\ list' = [NoList EXCEPT !.invoice = i]
    /\ UNCHANGED <<pending, figures, touched>>

FindInvoice ==
    Answered("findInvoice", [list EXCEPT !.amountPaid = invoice[list.invoice].amountPaid])

FindPayments ==
    Answered("findPayments", [list EXCEPT !.payments = PaymentsOf(list.invoice)])

\* The response is sent; or a query fails and Promise.all rejects.
Respond ==
    /\ phase # "idle"
    /\ phase' = "idle"
    /\ pending' = {}
    /\ figures' = NoFigures
    /\ list' = NoList
    /\ touched' = {}

Report == \/ GetDashboard
          \/ QueryRevenue \/ QueryOutstanding \/ QueryOverdue
          \/ QueryByStatus \/ QueryTopInvoices
          \/ QueryCustomers
          \/ FindByInvoice \/ FindInvoice \/ FindPayments
          \/ Respond

\* A step of the ledger; commits are noted while a report is under way.  Nothing
\* is read any more once the answer is computed.
LedgerStep ==
    /\ phase \notin {"answer", "listed"}
    /\ Next
    /\ touched' = IF phase = "idle" THEN {}
                  ELSE touched \cup {i \in Invoices :
                         invoice'[i] # invoice[i] \/ PaymentsOf(i)' # PaymentsOf(i)}
    /\ Cardinality(touched') <= MaxTouched
    /\ list' = [list EXCEPT !.voided =
         @ \/ \E p \in payments \ payments' : p.invoice = list.invoice]
    /\ UNCHANGED <<pending, phase, figures>>

DashboardNext == LedgerStep \/ (Report /\ UNCHANGED tables)

DashboardSpec == DashboardInit /\ [][DashboardNext]_allVars

-----------------------------------------------------------------------------
(* Properties, of the figures of a response that is ready. *)

Steady == Invoices \ touched

\* The figures are numbers, never missing; only credits make an amount due negative.
DashboardTypeOK ==
    /\ pending \subseteq Queries
    /\ phase \in {"idle", "queries", "answer", "findInvoice", "findPayments", "listed"}
    /\ touched \subseteq Invoices
    /\ {figures.totalRevenue, figures.overdueCount} \subseteq Nat
    /\ {figures.totalOutstanding, figures.totalOverdue} \subseteq Int
    /\ figures.byStatus \in [InvoiceStatus -> Nat]
    /\ \A i \in DOMAIN figures.topInvoices : figures.topInvoices[i] \in Nat
    /\ \A c \in DOMAIN figures.topCustomers : figures.topCustomers[c] \in Nat

\* What an invoice asks for; a total below zero is a credit.
Billed   == [i \in Invoices |-> AtLeastZero(invoice[i].total)]
Credited == [i \in Invoices |-> Least(invoice[i].total, 0)]

\* What was received for it.
Receipts == [i \in Invoices |-> Received(i)]

\* What has to be received or outstanding for an invoice that stays as it is.
Accounted == [i \in Invoices |->
    IF invoice[i].status \in {"ABSENT", "DRAFT"} THEN 0
    ELSE IF invoice[i].status = "CANCELLED" THEN invoice[i].amountPaid
    ELSE invoice[i].total]

\* totalRevenue and totalOutstanding add up to what was invoiced, although they
\* come from different queries over different tables: an invoice that changes
\* meanwhile is left out or counted twice at worst, and disturbs no other.
RevenueAndOutstandingAddUp ==
    phase = "answer" =>
        LET least == SumFunctionOnSet(Accounted, Steady)
        IN  figures.totalRevenue + figures.totalOutstanding
              \in least + SumFunctionOnSet(Credited, touched)
                 .. least + 2 * SumFunctionOnSet(Billed, touched)

\* What is overdue is part of what is outstanding and of the open invoices that
\* are counted, up to credits, which lower what is outstanding, and up to the
\* invoices that change between those queries.
OverdueIsOutstanding ==
    phase = "answer" =>
        /\ figures.totalOverdue <= figures.totalOutstanding
             + SumFunctionOnSet(Billed, touched) - SumFunction(Credited)
        /\ figures.overdueCount <= figures.byStatus["SENT"]
             + figures.byStatus["PARTIALLY_PAID"] + Cardinality(touched)

\* No single invoice of a customer left out has more revenue than a customer listed,
\* and none is listed with more than was received from it.  If the query cuts no
\* invoice off, a listed customer has its whole revenue and the largest are listed.
TopCustomersDeserveIt ==
    phase = "answer" =>
        LET listed     == DOMAIN figures.topCustomers
            of(c)      == {i \in Invoices : CustomerOf[i] = c}
            revenue(c) == SumFunctionOnSet(Receipts, of(c))
            uncut      == Cardinality({p.invoice : p \in payments}) <= TopInvoices
        IN  \A c \in listed :
              /\ \A i \in Steady :
                   CustomerOf[i] \notin listed => figures.topCustomers[c] >= Received(i)
              /\ figures.topCustomers[c] <= SumFunctionOnSet(Receipts, of(c) \ touched)
                                             + SumFunctionOnSet(Billed, of(c) \cap touched)
              /\ (touched = {} /\ uncut) =>
                   /\ figures.topCustomers[c] = revenue(c)
                   /\ \A i \in Invoices :
                        CustomerOf[i] \notin listed => revenue(c) >= revenue(CustomerOf[i])

\* The payments listed make up the amountPaid of the summary next to them; a payment
\* recorded between the two queries is listed beyond it, and if none was voided none is
\* missing (payments.service.ts:101 reads the invoice first).
ListCoversSummary ==
    phase = "listed" =>
        LET listed == SumFunctionOnSet(Amount, list.payments)
        IN  /\ ~list.voided => listed >= list.amountPaid
            /\ list.invoice \in Steady => listed = list.amountPaid

=============================================================================
