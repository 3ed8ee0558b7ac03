SPECIFICATION DashboardSpec
CONSTANTS
    Invoices = {i1, i2, i3}
    PaymentIds = {p1, p2, p3}
    Totals <- SomeTotals
    Amounts = {1, 2}
    Notes = {n1}
    Cent = 1
    None = None
    CustomerOf <- OneAndTheRest
    PastDue <- TheRest
    TopInvoices = 2
    TopCustomers = 1
    MaxTouched = 1
INVARIANTS
    DashboardTypeOK
    RevenueAndOutstandingAddUp
    OverdueIsOutstanding
    TopCustomersDeserveIt
    ListCoversSummary
SYMMETRY Symmetry
