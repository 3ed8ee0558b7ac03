--------------------------- MODULE InvoiceMathProofs ---------------------------
(***************************************************************************)
(* Proofs about InvoiceMath: how far the rounded amounts of an invoice can *)
(* be from adding up, for every list of line items.                        *)
(***************************************************************************)
EXTENDS InvoiceMath, TLAPS

\* A rounded amount is within half a cent of the exact one.
LEMMA RoundWithinHalf ==
  ASSUME NEW x \in Int
  PROVE  /\ Round(x) \in Int
         /\ 2 * Cent * Round(x) <= 2 * x + Cent
         /\ 2 * x - Cent < 2 * Cent * Round(x)
<1>1. \A y \in Int : /\ y \div 2000000 \in Int
                     /\ 2000000 * (y \div 2000000) <= y
                     /\ y < 2000000 * (y \div 2000000) + 2000000
  BY SMT
<1>2. QED
  BY <1>1 DEF Round, Cent

\* The amounts of a line item are whole numbers of units.
LEMMA ItemTyped ==
  ASSUME NEW item \in Item
  PROVE  /\ Gross(item) \in Nat
         /\ item.discount * Cent \in Nat
         /\ Tax(item) \in Int
         /\ AfterDiscount(item) = Gross(item) - item.discount * Cent
<1>1. item.quantity \in Nat /\ item.unitPrice \in Nat /\ item.taxRate \in Nat /\ item.discount \in Nat
  BY MathAssumption DEF Item
<1>2. Gross(item) \in Nat
  BY <1>1 DEF Gross, Cent
<1>3. item.discount * Cent \in Nat
  BY <1>1 DEF Cent
<1>4. AfterDiscount(item) \in Int
  BY <1>2, <1>3 DEF AfterDiscount
<1>5. AfterDiscount(item) \div 10000 \in Int
  BY <1>4
<1>6. Tax(item) \in Int
  BY <1>1, <1>5 DEF Tax
<1>7. QED
  BY <1>2, <1>3, <1>6 DEF AfterDiscount

\* The rounded lines are off the exact total by half a cent each at most.
LinesInv ==
    /\ TypeOK
    /\ 2 * (Cent * lineTotals - (subtotal - discountTotal + taxTotal)) <= count * Cent
    /\ 2 * ((subtotal - discountTotal + taxTotal) - Cent * lineTotals) <= count * Cent

LEMMA LinesInvStep ==
  ASSUME LinesInv, [Next]_vars
  PROVE  LinesInv'
<1>1. CASE UNCHANGED vars
  BY <1>1 DEF vars, LinesInv, TypeOK
<1>2. CASE AddLine
  <2>1. PICK item \in Item :
          /\ count' = count + 1
          /\ subtotal' = subtotal + Gross(item)
          /\ discountTotal' = discountTotal + item.discount * Cent
          /\ taxTotal' = taxTotal + Tax(item)
          /\ lineTotals' = lineTotals + LineTotal(item)
    BY <1>2 DEF AddLine
  <2> DEFINE gross == Gross(item)
             off   == item.discount * Cent
             tax   == Tax(item)
             exact == gross - off + tax
             line  == LineTotal(item)
  <2>2. gross \in Nat /\ off \in Nat /\ tax \in Int
    BY ItemTyped
  <2>3. line = Round(exact)
    BY ItemTyped DEF LineTotal
  <2>4. line \in Int /\ 2 * Cent * line <= 2 * exact + Cent /\ 2 * exact - Cent < 2 * Cent * line
    BY <2>2, <2>3, RoundWithinHalf
  <2>5. /\ count' = count + 1
        /\ subtotal' = subtotal + gross
        /\ discountTotal' = discountTotal + off
        /\ taxTotal' = taxTotal + tax
        /\ lineTotals' = lineTotals + line
    BY <2>1
  <2> HIDE DEF gross, off, tax, line
  <2>6. QED
    BY <2>2, <2>4, <2>5 DEF LinesInv, TypeOK, Cent
<1>3. QED
  BY <1>1, <1>2 DEF Next

LEMMA LinesInvCorrect == Spec => []LinesInv
<1>1. Init => LinesInv
  BY DEF Init, LinesInv, TypeOK, Cent
<1>2. LinesInv /\ [Next]_vars => LinesInv'
  BY LinesInvStep
<1>3. QED
  BY <1>1, <1>2, PTL DEF Spec

\* The sums are numbers.
THEOREM TypeCorrect == Spec => []TypeOK
<1>1. LinesInv => TypeOK
  BY DEF LinesInv
<1>2. QED
  BY <1>1, LinesInvCorrect, PTL

\* For every list of line items the total is the sum of the line totals up to half
\* a cent for each line and half a cent for itself.
THEOREM LinesAlmostAddUp == Spec => []LinesAddUp
<1>1. LinesInv => LinesAddUp
  <2> SUFFICES ASSUME LinesInv
               PROVE  LinesAddUp
    OBVIOUS
  <2> DEFINE exact == subtotal - discountTotal + taxTotal
  <2>1. exact \in Int
    BY DEF LinesInv, TypeOK
  <2>2. /\ Total \in Int /\ 2 * Cent * Total <= 2 * exact + Cent
        /\ 2 * exact - Cent < 2 * Cent * Total
    BY <2>1, RoundWithinHalf DEF Total
  <2>3. /\ 2 * (Total - lineTotals) <= count + 1
        /\ 2 * (lineTotals - Total) <= count + 1
    BY <2>2 DEF LinesInv, TypeOK, Cent
  <2>4. QED
    BY <2>2, <2>3 DEF LinesAddUp, Abs, LinesInv, TypeOK
<1>2. QED
  BY <1>1, LinesInvCorrect, PTL

\* For every list of line items the four rounded columns add up to a cent.
THEOREM ColumnsAlmostAddUp == Spec => []ColumnsAddUp
<1>1. TypeOK => ColumnsAddUp
  <2> SUFFICES ASSUME TypeOK
               PROVE  ColumnsAddUp
    OBVIOUS
  <2>1. /\ Total \in Int
        /\ 2 * Cent * Total <= 2 * (subtotal - discountTotal + taxTotal) + Cent
        /\ 2 * (subtotal - discountTotal + taxTotal) - Cent < 2 * Cent * Total
    BY RoundWithinHalf DEF Total, TypeOK
  <2>2. /\ Subtotal \in Int
        /\ 2 * Cent * Subtotal <= 2 * subtotal + Cent
        /\ 2 * subtotal - Cent < 2 * Cent * Subtotal
    BY RoundWithinHalf DEF Subtotal, TypeOK
  <2>3. /\ DiscountTotal \in Int
        /\ 2 * Cent * DiscountTotal <= 2 * discountTotal + Cent
        /\ 2 * discountTotal - Cent < 2 * Cent * DiscountTotal
    BY RoundWithinHalf DEF DiscountTotal, TypeOK
  <2>4. /\ TaxTotal \in Int
        /\ 2 * Cent * TaxTotal <= 2 * taxTotal + Cent
        /\ 2 * taxTotal - Cent < 2 * Cent * TaxTotal
    BY RoundWithinHalf DEF TaxTotal, TypeOK
  <2>5. /\ Total - (Subtotal - DiscountTotal + TaxTotal) < 2
        /\ -2 < Total - (Subtotal - DiscountTotal + TaxTotal)
    BY <2>1, <2>2, <2>3, <2>4 DEF TypeOK, Cent
  <2>6. QED
    BY <2>1, <2>2, <2>3, <2>4, <2>5 DEF ColumnsAddUp, Abs
<1>2. QED
  BY <1>1, TypeCorrect, PTL

=============================================================================
