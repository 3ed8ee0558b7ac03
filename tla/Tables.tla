-------------------------------- MODULE Tables --------------------------------
(***************************************************************************)
(* The invoices and payments tables, and the arithmetic with which the     *)
(* handlers of payments.service.ts compute the columns they write.         *)
(*                                                                         *)
(* Amounts are integers; a cent is Cent units, so Cent > 1 models amounts  *)
(* finer than the DECIMAL(12,2) columns can hold.  The handlers compute    *)
(* with doubles; what their error can change is a choice (DoubleStored,    *)
(* AfterPayment).                                                          *)
(***************************************************************************)
EXTENDS Integers, FiniteSets

CONSTANTS
    Invoices,    \* the invoices of the instance
    PaymentIds,  \* the uuids payments can get; bounds the payments recorded
    Totals,      \* the invoice totals create() can compute
    Amounts,     \* the amounts RecordPaymentDto can carry
    Notes,       \* the contents of the editable columns
    Cent,        \* units in a cent
    None

ASSUME MoneyAssumption ==
    /\ Cent \in Nat \ {0}
    /\ Totals \subseteq Int        \* a discount may exceed the gross amount
    /\ Amounts \subseteq Nat
    /\ \A a \in Amounts : a >= Cent    \* @Min(0.01)

VARIABLES
    invoice,   \* the committed row of each invoice
    payments   \* the committed rows of the payments table

-----------------------------------------------------------------------------
(* The rows. *)

InvoiceStatus == {"DRAFT", "SENT", "VIEWED", "PARTIALLY_PAID", "PAID",
                  "OVERDUE", "CANCELLED", "REFUNDED"}

Columns == [amountPaid : Int, amountDue : Int, status : InvoiceStatus]

Row == [total : Int, amountPaid : Int, amountDue : Int,
        status : InvoiceStatus \cup {"ABSENT"}, notes : Notes \cup {None}]

Payment == [id : PaymentIds, invoice : Invoices, amount : Int]

AbsentRow == [total |-> 0, amountPaid |-> 0, amountDue |-> 0,
              status |-> "ABSENT", notes |-> None]

Exists(i) == invoice[i].status # "ABSENT"

-----------------------------------------------------------------------------
(* Arithmetic of the handlers. *)

\* What a DECIMAL(12,2) column keeps of x: the nearest cent, a half away from 0.
Decimal2(x) ==
    LET cents(y) == (2 * y + Cent) \div (2 * Cent)
    IN  IF x >= 0 THEN Cent * cents(x) ELSE -(Cent * cents(-x))

AtLeastZero(x) == IF x >= 0 THEN x ELSE 0

\* What it keeps of a computed x: a double close to x, so that half a cent may be
\* rounded to either side.
DoubleStored(x) ==
    LET below == Cent * (x \div Cent)
    IN  {y \in {below, below + Cent} : 2 * (y - x) \in -Cent .. Cent}

\* Fault: an invoice paid to the cent stays partially paid (< 0 for <= 0).
AfterPaymentFault(row, amount) ==
    LET newAmountPaid == row.amountPaid + amount
        newAmountDue  == row.total - newAmountPaid
    IN  [amountPaid : DoubleStored(newAmountPaid),
         amountDue  : DoubleStored(AtLeastZero(newAmountDue)),
         status     : {IF newAmountDue < 0 THEN "PAID" ELSE "PARTIALLY_PAID"}]

\* The columns recordPayment may write, from the row it read.  A sum of doubles is
\* exact when one of them is 0; otherwise a difference that should be 0 can come out
\* above it (0.8 - (0.1 + 0.7)), and everything received leaves the invoice
\* partially paid.
AfterPayment(row, amount) ==
    LET newAmountPaid == row.amountPaid + amount
        newAmountDue  == row.total - newAmountPaid
        remains       == newAmountDue > 0 \/ (newAmountDue = 0 /\ row.amountPaid # 0)
        unsettled     == IF newAmountPaid > 0 THEN "PARTIALLY_PAID" ELSE row.status
    IN  [amountPaid : DoubleStored(newAmountPaid),
         amountDue  : DoubleStored(AtLeastZero(newAmountDue)),
         status     : {s \in {"PAID", unsettled} :
                         \/ s = "PAID" /\ newAmountDue <= 0
                         \/ s = unsettled /\ remains}]

\* Fault: a void that leaves payments keeps the status of the row.
AfterVoidFault(row, amount) ==
    LET newAmountPaid == row.amountPaid - amount
    IN  [amountPaid |-> Decimal2(AtLeastZero(newAmountPaid)),
         amountDue  |-> Decimal2(row.total - newAmountPaid),
         status     |-> IF newAmountPaid <= 0 THEN "SENT" ELSE row.status]

\* The columns voidPayment writes, from the row it read.  A difference of two stored
\* amounts is 0 as a double just when they are equal, and is otherwise off by much less
\* than a cent.
AfterVoid(row, amount) ==
    LET newAmountPaid == row.amountPaid - amount
    IN  [amountPaid |-> Decimal2(AtLeastZero(newAmountPaid)),
         amountDue  |-> Decimal2(row.total - newAmountPaid),
         status     |-> IF newAmountPaid <= 0 THEN "SENT" ELSE "PARTIALLY_PAID"]

\* UPDATE invoices SET amount_paid, amount_due, status: the other columns stay.
WithColumns(row, columns) ==
    [row EXCEPT !.amountPaid = columns.amountPaid,
                !.amountDue  = columns.amountDue,
                !.status     = columns.status]

-----------------------------------------------------------------------------
(* What the handlers and the properties ask of the tables. *)

\* Fault: the refusal list without CANCELLED.
PayableCancelledFault(i) == Exists(i) /\ invoice[i].status \notin {"DRAFT", "REFUNDED"}

Payable(i) == Exists(i) /\ invoice[i].status \notin {"DRAFT", "CANCELLED", "REFUNDED"}

\* What the payments table says was received for an invoice: one element for
\* each unit of each of its payments, so that the sum is a cardinality.
PaymentsOf(i) == {p \in payments : p.invoice = i}
Units(p)      == {p.id} \X (1 .. p.amount)
UnitsOf(i)    == UNION {Units(p) : p \in PaymentsOf(i)}
Received(i)   == Cardinality(UnitsOf(i))

=============================================================================
