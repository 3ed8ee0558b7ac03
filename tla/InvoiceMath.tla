------------------------------ MODULE InvoiceMath ------------------------------
(***************************************************************************)
(* The arithmetic of InvoicesService.create: calculateLineTotal for every  *)
(* line, and the loop of calculateInvoiceTotals over the same lines.       *)
(*                                                                         *)
(* The loop keeps exact sums and rounds them once at the end, each by      *)
(* itself, and each line is rounded by itself.  Quantities, prices and tax *)
(* rates are hundredths, so every product is a whole number of Units, of   *)
(* which a cent has Cent.  Binary rounding of the doubles is left out.     *)
(***************************************************************************)
EXTENDS Integers

CONSTANTS
    Quantities,   \* in hundredths, > 0
    Prices,       \* in cents
    TaxRates,     \* in hundredths of a percent, as DECIMAL(5,2) keeps them
    Discounts,    \* in cents
    MaxLines      \* bound on the line items of an invoice

ASSUME MathAssumption ==
    /\ Quantities \subseteq Nat \ {0}
    /\ Prices \subseteq Nat
    /\ TaxRates \subseteq Nat
    /\ Discounts \subseteq Nat
    /\ MaxLines \in Nat

VARIABLES
    count,           \* the lines done so far
    subtotal,        \* the three sums of calculateInvoiceTotals, exact
    discountTotal,
    taxTotal,
    lineTotals       \* the sum of the line_total columns, in cents

vars == <<count, subtotal, discountTotal, taxTotal, lineTotals>>

-----------------------------------------------------------------------------

Cent == 1000000    \* a hundredth of a quantity, a hundredth of a percent of tax

\* Math.round(x * 100) / 100 in cents: the nearest one, a half upwards.
Round(x) == (2 * x + Cent) \div (2 * Cent)

\* Fault: the subtotal is taken after the discount.
GrossFault(item) == item.quantity * item.unitPrice * (Cent \div 100) - item.discount * Cent

Gross(item) == item.quantity * item.unitPrice * (Cent \div 100)

AfterDiscount(item) == Gross(item) - item.discount * Cent

\* afterDiscount * taxRate / 100: a hundredth of a percent is 1 / 10000.
Tax(item) == (AfterDiscount(item) \div 10000) * item.taxRate

\* Fault: amount and tax are rounded apart.
LineTotalFault(item) == Round(AfterDiscount(item)) + Round(Tax(item))

LineTotal(item) == Round(AfterDiscount(item) + Tax(item))

\* As many decimals as the columns of a line keep; the DTO does not limit them.
Item == [quantity : Quantities, unitPrice : Prices, taxRate : TaxRates, discount : Discounts]

Init ==
    /\ count = 0
    /\ subtotal = 0
    /\ discountTotal = 0
    /\ taxTotal = 0
    /\ lineTotals = 0

\* One turn of the map and of the loop.
AddLine == \E item \in Item :
    /\ count < MaxLines
    /\ count' = count + 1
    /\ subtotal' = subtotal + Gross(item)
    /\ discountTotal' = discountTotal + item.discount * Cent
    /\ taxTotal' = taxTotal + Tax(item)
    /\ lineTotals' = lineTotals + LineTotal(item)

Next == AddLine

Spec == Init /\ [][Next]_vars

\* What the loop would return now, in cents.
\* Fault: the total is the sum of the rounded lines.
TotalFault == lineTotals

Total         == Round(subtotal - discountTotal + taxTotal)
Subtotal      == Round(subtotal)
DiscountTotal == Round(discountTotal)
TaxTotal      == Round(taxTotal)

-----------------------------------------------------------------------------
(* Properties. *)

\* The sums are numbers.
TypeOK ==
    /\ count \in Nat
    /\ subtotal \in Nat
    /\ discountTotal \in Nat
    /\ taxTotal \in Int
    /\ lineTotals \in Int

Abs(x) == IF x >= 0 THEN x ELSE -x

\* The total of an invoice is the sum of its line totals up to half a cent for each
\* line and half a cent for itself.
LinesAddUp == 2 * Abs(Total - lineTotals) <= count + 1

\* The total is what subtotal, discount and tax add up to, up to a cent.
ColumnsAddUp == Abs(Total - (Subtotal - DiscountTotal + TaxTotal)) <= 1

=============================================================================
