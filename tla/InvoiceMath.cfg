SPECIFICATION MathAndCatalogue
CONSTANTS
    Quantities <- SomeQuantities
    Prices <- SomePrices
    TaxRates <- GstRates
    Discounts = {0, 2}
    MaxLines = 3
    MaxCustomers = 3
    MaxProducts = 1
    MaxInvoices = 2
    Operators = {o1, o2}
    Limit = 2
    Stamps = {1, 2, 3}
    None = None
INVARIANTS
    LinesAddUp
    ColumnsAddUp
    InvoicesKeepTheirCustomer
    WalkFindsWhatStays
SYMMETRY Symmetry
\* The loop ends with the last line item.
CHECK_DEADLOCK FALSE
