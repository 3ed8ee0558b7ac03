----------------------------- MODULE LedgerProofs -----------------------------
(***************************************************************************)
(* What is proved about Ledger, for every set of invoices, clients,        *)
(* payments and amounts.                                                   *)
(***************************************************************************)
EXTENDS Ledger, FiniteSetTheorems, TLAPS

-----------------------------------------------------------------------------
(* What the DECIMAL(12,2) columns do to an amount. *)

\* Rounding to the cent gives an integer, keeps the sign and keeps zero.
LEMMA RoundingIsSound ==
    ASSUME NEW x \in Int
    PROVE  /\ Decimal2(x) \in Int
           /\ x >= 0 => Decimal2(x) >= 0
           /\ Decimal2(0) = 0
<1>1. Cent \in Nat \ {0}
  BY MoneyAssumption
<1>2. /\ 2 * Cent \in Nat \ {0}
      /\ \A y \in Int : (2 * y + Cent) \in Int
  BY <1>1
<1>3. \A a \in Int, b \in Nat \ {0} :
        /\ a \div b \in Int
        /\ a >= 0 => a \div b >= 0
        /\ (a >= 0 /\ a < b) => a \div b = 0
  OBVIOUS
<1>4. \A k \in Int : Cent * k \in Int /\ (k >= 0 => Cent * k >= 0)
  BY <1>1
<1>5. (2 * 0 + Cent) \div (2 * Cent) = 0
  BY <1>1, <1>2, <1>3
<1>6. Decimal2(x) \in Int /\ (x >= 0 => Decimal2(x) >= 0)
  BY <1>1, <1>2, <1>3, <1>4 DEF Decimal2
<1>7. Decimal2(0) = 0
  BY <1>1, <1>5 DEF Decimal2
<1>. QED
  BY <1>6, <1>7

\* When amounts are whole cents nothing is rounded.
LEMMA WholeCents ==
    ASSUME NEW x \in Int, Cent = 1
    PROVE  Decimal2(x) = x
  BY DEF Decimal2

\* A computed amount is stored as an integer of its sign, zero as zero, and whole cents
\* exactly.
LEMMA DoubleRounding ==
    ASSUME NEW x \in Int, NEW y \in DoubleStored(x)
    PROVE  /\ y \in Int
           /\ x >= 0 => y >= 0
           /\ x = 0 => y = 0
           /\ Cent = 1 => y = x
<1>. DEFINE below == Cent * (x \div Cent)
<1>1. Cent \in Nat \ {0}
  BY MoneyAssumption
<1>2. \A n \in Int, d \in Nat \ {0} : /\ n \div d \in Int
                                      /\ d * (n \div d) <= n
                                      /\ n < d * (n \div d) + d
                                      /\ n >= 0 => n \div d >= 0
  OBVIOUS
<1>3. \A k \in Int : Cent * k \in Int /\ (k >= 0 => Cent * k >= 0)
  BY <1>1
<1>4. below \in Int /\ below <= x /\ x < below + Cent /\ (x >= 0 => below >= 0)
  BY <1>1, <1>2, <1>3
<1>5. y \in {below, below + Cent} /\ 2 * (y - x) \in -Cent .. Cent
  BY DEF DoubleStored
<1>. HIDE DEF below
<1>. QED
  BY <1>1, <1>4, <1>5

\* Every computed amount can be stored.
LEMMA DoublesAreStored == \A x \in Int : DoubleStored(x) # {}
<1>. SUFFICES ASSUME NEW x \in Int PROVE DoubleStored(x) # {}
  OBVIOUS
<1>. DEFINE below == Cent * (x \div Cent)
<1>1. Cent \in Nat \ {0}
  BY MoneyAssumption
<1>2. \A n \in Int, d \in Nat \ {0} : /\ n \div d \in Int
                                      /\ d * (n \div d) <= n
                                      /\ n < d * (n \div d) + d
  OBVIOUS
<1>3. \A k \in Int : Cent * k \in Int
  BY <1>1
<1>4. below \in Int /\ below <= x /\ x < below + Cent
  BY <1>1, <1>2, <1>3
<1>5. DoubleStored(x) = {y \in {below, below + Cent} : 2 * (y - x) \in -Cent .. Cent}
  BY DEF DoubleStored
<1>. HIDE DEF below
<1>6. CASE 2 * (x - below) <= Cent
  <2>1. 2 * (below - x) \in -Cent .. Cent
    BY <1>1, <1>4, <1>6
  <2>. QED
    BY <1>5, <2>1
<1>7. CASE 2 * (x - below) > Cent
  <2>. DEFINE above == below + Cent
  <2>1. 2 * (above - x) \in -Cent .. Cent
    BY <1>1, <1>4, <1>7
  <2>2. above \in {below, below + Cent}
    OBVIOUS
  <2>. HIDE DEF above
  <2>. QED
    BY <1>5, <2>1, <2>2
<1>. QED
  BY <1>1, <1>4, <1>6, <1>7

\* A payment can be recorded with the columns it computes, whatever the row.
LEMMA PaymentsAreStored ==
    ASSUME NEW row \in Row, NEW a \in Nat
    PROVE  AfterPayment(row, a) # {}
<1>. DEFINE paid == row.amountPaid + a
            due  == row.total - paid
<1>1. paid \in Int /\ due \in Int /\ AtLeastZero(due) \in Int
  BY DEF Row, AtLeastZero
<1>2. PICK x \in DoubleStored(paid), y \in DoubleStored(AtLeastZero(due)) : TRUE
  BY <1>1, DoublesAreStored
<1>3. CASE due <= 0
  <2>1. [amountPaid |-> x, amountDue |-> y, status |-> "PAID"] \in AfterPayment(row, a)
    BY <1>2, <1>3 DEF AfterPayment
  <2>. QED
    BY <2>1
<1>4. CASE due > 0
  <2>1. [amountPaid |-> x, amountDue |-> y,
         status |-> IF paid > 0 THEN "PARTIALLY_PAID" ELSE row.status] \in AfterPayment(row, a)
    BY <1>2, <1>4 DEF AfterPayment
  <2>. QED
    BY <2>1
<1>. QED
  BY <1>1, <1>3, <1>4

-----------------------------------------------------------------------------
(* Types. *)

\* The columns the payment handlers compute are columns of an invoice.
LEMMA ColumnsTyped ==
    ASSUME NEW row \in Row, row.status # "ABSENT", NEW a \in Int
    PROVE  AfterPayment(row, a) \subseteq Columns /\ AfterVoid(row, a) \in Columns
<1>1. /\ row.amountPaid \in Int
      /\ row.total \in Int
      /\ row.status \in InvoiceStatus
  BY DEF Row
<1>2. \A x \in Int : AtLeastZero(x) \in Int /\ Decimal2(x) \in Int /\ DoubleStored(x) \subseteq Int
  BY RoundingIsSound, DoubleRounding DEF AtLeastZero
<1>3. {"PAID", "PARTIALLY_PAID", "SENT"} \subseteq InvoiceStatus
  BY DEF InvoiceStatus
<1>4. AfterVoid(row, a) \in Columns
  BY <1>1, <1>2, <1>3 DEF AfterVoid, Columns
<1>5. ASSUME NEW columns \in AfterPayment(row, a) PROVE columns \in Columns
  BY <1>1, <1>2, <1>3 DEF AfterPayment, Columns
<1>. QED
  BY <1>4, <1>5

LEMMA WithColumnsTyped ==
    ASSUME NEW row \in Row, NEW columns \in Columns
    PROVE  WithColumns(row, columns) \in Row
  BY DEF Row, Columns, WithColumns

\* The requests that handle a payment hold the payment of their invoice, and
\* every request is about an invoice that exists.
PaymentSteps == {"record.update", "record.commit",
                 "void.read", "void.update", "void.commit"}

RequestOK == \A c \in Clients :
    /\ ~At(c, "idle") => req[c].invoice \in Invoices /\ Exists(req[c].invoice)
    /\ req[c].step \in PaymentSteps =>
         req[c].payment \in Payment /\ req[c].payment.invoice = req[c].invoice

\* The foreign key of the payments table.
ForeignKeyOK == \A p \in payments : Exists(p.invoice)

TypeInv == TypeOK /\ RequestOK /\ ForeignKeyOK

LEMMA TypeInvInit == Init => TypeInv
<1>. SUFFICES ASSUME Init PROVE TypeInv
  OBVIOUS
<1>1. AbsentRow \in Row
  BY DEF AbsentRow, Row
<1>2. Idle \in Request
  BY DEF Idle, Request, NoColumns, Columns, InvoiceStatus, Steps
<1>. QED
  BY <1>1, <1>2 DEF Init, TypeInv, TypeOK, RequestOK, ForeignKeyOK, At, PaymentSteps, Idle

LEMMA TypeInvStep == TypeInv /\ [Next]_vars => TypeInv'
<1>. SUFFICES ASSUME TypeInv, [Next]_vars PROVE TypeInv'
  OBVIOUS
<1>. USE DEF TypeInv
<1>0. Idle \in Request /\ Idle.step = "idle"
  BY DEF Idle, Request, NoColumns, Columns, InvoiceStatus, Steps
<1>1. ASSUME NEW i \in Invoices, Create(i) PROVE TypeInv'
  <2>1. PICK t \in Totals, n \in Notes :
          invoice' = [invoice EXCEPT ![i] =
             [total |-> Decimal2(t), amountPaid |-> 0, amountDue |-> Decimal2(t),
              status |-> "DRAFT", notes |-> n]]
    BY <1>1 DEF Create
  <2>2. Decimal2(t) \in Int
    BY RoundingIsSound, MoneyAssumption
  <2>3. [total |-> Decimal2(t), amountPaid |-> 0, amountDue |-> Decimal2(t),
         status |-> "DRAFT", notes |-> n] \in Row
    BY <2>2 DEF Row, InvoiceStatus
  <2>4. TypeOK'
    BY <1>1, <2>1, <2>3 DEF Create, TypeOK
  <2>5. RequestOK'
    BY <1>1, <2>1, <2>3 DEF Create, TypeOK, RequestOK, Exists, At
  <2>6. ForeignKeyOK'
    BY <1>1, <2>1, <2>3 DEF Create, TypeOK, ForeignKeyOK, Exists, Payment
  <2>. QED
    BY <2>4, <2>5, <2>6
<1>2. ASSUME NEW c \in Clients, RecordRead(c) PROVE TypeInv'
  <2>1. PICK i, a, id, columns :
          /\ i \in Invoices /\ a \in Amounts /\ id \in PaymentIds \ usedIds
          /\ columns \in AfterPayment(invoice[i], a)
          /\ Payable(i)
          /\ req' = [req EXCEPT ![c] =
               [step |-> "record.update", invoice |-> i,
                payment |-> [id |-> id, invoice |-> i, amount |-> Decimal2(a)],
                columns |-> columns, notes |-> None]]
          /\ usedIds' = usedIds \cup {id}
    BY <1>2 DEF RecordRead
  <2>2. a \in Int /\ Decimal2(a) \in Int
    BY <2>1, RoundingIsSound, MoneyAssumption
  <2>3. columns \in Columns
    BY <2>1, <2>2, ColumnsTyped DEF TypeOK, Payable, Exists
  <2>4. [id |-> id, invoice |-> i, amount |-> Decimal2(a)] \in Payment
    BY <2>1, <2>2 DEF Payment
  <2>5. [step |-> "record.update", invoice |-> i,
         payment |-> [id |-> id, invoice |-> i, amount |-> Decimal2(a)],
         columns |-> columns, notes |-> None] \in Request
    BY <2>1, <2>3, <2>4 DEF Request, Steps
  <2>6. TypeOK'
    BY <1>2, <2>1, <2>5 DEF RecordRead, TypeOK
  <2>7. RequestOK'
    BY <1>2, <2>1, <2>4 DEF RecordRead, TypeOK, RequestOK, Payable, Exists, At, Payment
  <2>8. ForeignKeyOK'
    BY <1>2 DEF RecordRead, ForeignKeyOK, Exists
  <2>. QED
    BY <2>6, <2>7, <2>8
<1>3. ASSUME NEW c \in Clients, VoidFind(c) PROVE TypeInv'
  <2>1. PICK p \in payments :
          req' = [req EXCEPT ![c] = [step |-> "void.read", invoice |-> p.invoice,
                    payment |-> p, columns |-> NoColumns, notes |-> None]]
    BY <1>3 DEF VoidFind
  <2>2. p \in Payment /\ p.invoice \in Invoices
    BY DEF TypeOK, Payment
  <2>3. Exists(p.invoice)
    BY DEF ForeignKeyOK
  <2>4. [step |-> "void.read", invoice |-> p.invoice, payment |-> p,
         columns |-> NoColumns, notes |-> None] \in Request
    <3>1. NoColumns \in Columns
      BY DEF NoColumns, Columns, InvoiceStatus
    <3>. QED
      BY <2>2, <3>1 DEF Request, Steps
  <2>5. TypeOK'
    BY <1>3, <2>1, <2>4 DEF VoidFind, TypeOK
  <2>6. RequestOK'
    BY <1>3, <2>1, <2>2, <2>3 DEF VoidFind, TypeOK, RequestOK, Exists, At
  <2>7. ForeignKeyOK'
    BY <1>3 DEF VoidFind, ForeignKeyOK, Exists
  <2>. QED
    BY <2>5, <2>6, <2>7
<1>4. ASSUME NEW c \in Clients, SendRead(c) \/ CancelRead(c) \/ EditRead(c) PROVE TypeInv'
  <2>1. PICK i \in Invoices, step \in {"send.write", "cancel.write", "edit.write"},
             accepted \in SUBSET InvoiceStatus, n \in Notes \cup {None} :
          ReadStatus(c, i, accepted, step, n)
    <3>1. {"DRAFT"} \in SUBSET InvoiceStatus
             /\ InvoiceStatus \ {"PAID", "CANCELLED"} \in SUBSET InvoiceStatus
      BY DEF InvoiceStatus
    <3>. QED
      BY <1>4, <3>1 DEF SendRead, CancelRead, EditRead
  <2>2. Exists(i)
    BY <2>1 DEF ReadStatus, Exists, InvoiceStatus
  <2>3. [Idle EXCEPT !.step = step, !.invoice = i, !.notes = n] \in Request
    BY <1>0 DEF Request, Steps
  <2>4. TypeOK'
    BY <2>1, <2>3 DEF ReadStatus, TypeOK
  <2>5. RequestOK'
    BY <2>1, <2>2 DEF ReadStatus, TypeOK, RequestOK, Exists, At, PaymentSteps, Idle
  <2>6. ForeignKeyOK'
    BY <2>1 DEF ReadStatus, ForeignKeyOK, Exists
  <2>. QED
    BY <2>4, <2>5, <2>6
<1>5. ASSUME NEW c \in Clients, TakeLock(c) PROVE TypeInv'
  <2>1. TypeOK'
    BY <1>5 DEF TakeLock, RecordUpdate, VoidUpdate, Lock, Goto, TypeOK, Request, Steps
  <2>2. RequestOK'
    BY <1>5 DEF TakeLock, RecordUpdate, VoidUpdate, Goto, TypeOK, RequestOK,
                Exists, At, PaymentSteps, Request
  <2>3. ForeignKeyOK'
    BY <1>5 DEF TakeLock, RecordUpdate, VoidUpdate, ForeignKeyOK, Exists
  <2>. QED
    BY <2>1, <2>2, <2>3
<1>6. ASSUME NEW c \in Clients, AutoWrite(c) PROVE TypeInv'
  <2>1. req[c].invoice \in Invoices /\ req[c].notes \in Notes \cup {None}
    BY <1>6 DEF AutoWrite, SendWrite, CancelWrite, EditWrite, At, RequestOK, TypeOK, Request
  <2>2. PICK row \in Row : invoice' = [invoice EXCEPT ![req[c].invoice] = row]
    <3>1. \A s \in InvoiceStatus : [invoice[req[c].invoice] EXCEPT !.status = s] \in Row
      BY <2>1 DEF TypeOK, Row
    <3>2. [invoice[req[c].invoice] EXCEPT !.notes = req[c].notes] \in Row
      BY <2>1 DEF TypeOK, Row
    <3>3. "SENT" \in InvoiceStatus /\ "CANCELLED" \in InvoiceStatus
      BY DEF InvoiceStatus
    <3>. QED
      BY <1>6, <3>1, <3>2, <3>3 DEF AutoWrite, SendWrite, CancelWrite, EditWrite
  <2>3. PICK r \in Request : req' = [req EXCEPT ![c] = r]
    <3>1. [req[c] EXCEPT !.step = "send.enqueue"] \in Request
      BY DEF TypeOK, Request, Steps
    <3>. QED
      BY <1>0, <1>6, <3>1 DEF AutoWrite, SendWrite, CancelWrite, EditWrite, Goto, Finish
  <2>4. TypeOK'
    BY <1>6, <2>1, <2>2, <2>3 DEF AutoWrite, SendWrite, CancelWrite, EditWrite, TypeOK
  <2>5. \A i \in Invoices : Exists(i) => Exists(i)'
    BY <1>6, <2>1 DEF AutoWrite, SendWrite, CancelWrite, EditWrite, Exists, TypeOK, Row
  <2>6. RequestOK'
    BY <1>0, <1>6, <2>5 DEF AutoWrite, SendWrite, CancelWrite, EditWrite, Goto, Finish,
                      TypeOK, RequestOK, At, PaymentSteps, Request
  <2>7. ForeignKeyOK'
    BY <1>6, <2>5 DEF AutoWrite, SendWrite, CancelWrite, EditWrite, TypeOK, ForeignKeyOK, Payment
  <2>. QED
    BY <2>4, <2>6, <2>7
<1>7. ASSUME NEW c \in Clients, RecordCommit(c) \/ VoidCommit(c) PROVE TypeInv'
  <2>1. /\ req[c].invoice \in Invoices
        /\ req[c].payment \in Payment
        /\ req[c].columns \in Columns
    BY <1>7 DEF RecordCommit, VoidCommit, At, RequestOK, PaymentSteps, TypeOK, Request
  <2>2. WithColumns(invoice[req[c].invoice], req[c].columns) \in Row
    BY <2>1, WithColumnsTyped DEF TypeOK
  <2>3. TypeOK'
    BY <1>0, <1>7, <2>1, <2>2 DEF RecordCommit, VoidCommit, Release, Finish, TypeOK
  <2>4. WithColumns(invoice[req[c].invoice], req[c].columns).status # "ABSENT"
    BY <2>1 DEF WithColumns, Columns, InvoiceStatus, TypeOK, Row
  <2>5. \A i \in Invoices : Exists(i) => Exists(i)'
    BY <1>7, <2>1, <2>4 DEF RecordCommit, VoidCommit, Exists, TypeOK
  <2>6. RequestOK'
    BY <1>0, <1>7, <2>5 DEF RecordCommit, VoidCommit, Finish, TypeOK, RequestOK, At,
                      PaymentSteps
  <2>7. Exists(req[c].invoice) /\ req[c].payment.invoice = req[c].invoice
    BY <1>7 DEF RecordCommit, VoidCommit, At, RequestOK, PaymentSteps
  <2>8. ForeignKeyOK'
    BY <1>7, <2>1, <2>5, <2>7 DEF RecordCommit, VoidCommit, TypeOK, ForeignKeyOK, Payment
  <2>. QED
    BY <2>3, <2>6, <2>8
<1>8. ASSUME NEW c \in Clients, VoidRead(c) PROVE TypeInv'
  <2>1. /\ req[c].invoice \in Invoices /\ Exists(req[c].invoice)
        /\ req[c].payment.amount \in Int
    BY <1>8 DEF VoidRead, At, RequestOK, PaymentSteps, Payment
  <2>2. AfterVoid(invoice[req[c].invoice], req[c].payment.amount) \in Columns
    BY <2>1, ColumnsTyped DEF TypeOK, Exists
  <2>3. TypeOK'
    BY <1>8, <2>2 DEF VoidRead, TypeOK, Request, Steps
  <2>4. RequestOK'
    BY <1>8 DEF VoidRead, TypeOK, RequestOK, Exists, At, PaymentSteps, Request
  <2>5. ForeignKeyOK'
    BY <1>8 DEF VoidRead, ForeignKeyOK, Exists
  <2>. QED
    BY <2>3, <2>4, <2>5
<1>9. ASSUME NEW c \in Clients, VoidMissing(c) \/ SendEnqueue(c) \/ Fail(c) PROVE TypeInv'
  <2>1. TypeOK'
    BY <1>0, <1>9 DEF VoidMissing, SendEnqueue, Fail, Release, Finish, TypeOK
  <2>2. RequestOK'
    BY <1>0, <1>9 DEF VoidMissing, SendEnqueue, Fail, Finish, TypeOK, RequestOK, Exists,
                At, PaymentSteps
  <2>3. ForeignKeyOK'
    BY <1>9 DEF VoidMissing, SendEnqueue, Fail, ForeignKeyOK, Exists
  <2>. QED
    BY <2>1, <2>2, <2>3
<1>10. CASE UNCHANGED vars
  BY <1>10 DEF vars, TypeOK, RequestOK, ForeignKeyOK, Exists, At
<1>. QED
  BY <1>1, <1>2, <1>3, <1>4, <1>5, <1>6, <1>7, <1>8, <1>9, <1>10
  DEF Next, Begin, TakeLock, AutoWrite, Proceed

\* Every reachable state is well formed, whatever requests overlap and fail.
THEOREM TypeCorrect == Spec => []TypeOK
<1>1. TypeInv => TypeOK
  BY DEF TypeInv
<1>. QED
  BY <1>1, TypeInvInit, TypeInvStep, PTL DEF Spec

-----------------------------------------------------------------------------
(* Drafts. *)

Untouched(i) ==
    /\ PaymentsOf(i) = {}
    /\ pdfJobs[i] = 0
    /\ invoice[i].amountPaid = 0
    /\ invoice[i].amountDue = invoice[i].total

\* The steps at which a request relies on its invoice having left DRAFT, and
\* those at which it has computed the columns it will write.
AfterDraftSteps == PaymentSteps \cup {"send.enqueue"}
WriteSteps == {"record.update", "record.commit", "void.update", "void.commit"}

DraftInv ==
    /\ \A i \in Invoices : invoice[i].status \in {"ABSENT", "DRAFT"} => Untouched(i)
    /\ \A c \in Clients : req[c].step \in AfterDraftSteps =>
         invoice[req[c].invoice].status # "DRAFT"
    /\ \A c \in Clients : req[c].step \in WriteSteps => req[c].columns.status # "DRAFT"

LEMMA DraftInvInit == Init => DraftInv
  BY DEF Init, DraftInv, Untouched, PaymentsOf, AbsentRow, Idle, AfterDraftSteps,
         PaymentSteps, WriteSteps

LEMMA DraftInvStep == TypeInv /\ DraftInv /\ [Next]_vars => DraftInv'
<1>. SUFFICES ASSUME TypeInv, DraftInv, [Next]_vars PROVE DraftInv'
  OBVIOUS
<1>. USE DEF TypeInv
<1>0. Idle.step = "idle"
  BY DEF Idle
<1>1. ASSUME NEW i \in Invoices, Create(i) PROVE DraftInv'
  <2>1. PICK t \in Totals, n \in Notes :
          invoice' = [invoice EXCEPT ![i] =
             [total |-> Decimal2(t), amountPaid |-> 0, amountDue |-> Decimal2(t),
              status |-> "DRAFT", notes |-> n]]
    BY <1>1 DEF Create
  <2>2. \A j \in Invoices : invoice'[j].status \in {"ABSENT", "DRAFT"} => Untouched(j)'
    BY <1>1, <2>1 DEF Create, Exists, TypeOK, DraftInv, Untouched, PaymentsOf
  <2>3. \A c \in Clients : req[c].step \in AfterDraftSteps => req[c].invoice # i
    BY <1>1 DEF Create, RequestOK, At, AfterDraftSteps, PaymentSteps
  <2>. QED
    BY <1>1, <2>1, <2>2, <2>3 DEF Create, TypeOK, RequestOK, At, DraftInv,
       AfterDraftSteps, PaymentSteps
<1>2. ASSUME NEW c \in Clients, RecordRead(c) PROVE DraftInv'
  <2>1. PICK i, a, id, columns :
          /\ i \in Invoices /\ a \in Amounts /\ id \in PaymentIds \ usedIds
          /\ columns \in AfterPayment(invoice[i], a)
          /\ Payable(i)
          /\ req' = [req EXCEPT ![c] =
               [step |-> "record.update", invoice |-> i,
                payment |-> [id |-> id, invoice |-> i, amount |-> Decimal2(a)],
                columns |-> columns, notes |-> None]]
    BY <1>2 DEF RecordRead
  <2>2. columns.status # "DRAFT"
    BY <2>1 DEF Payable, AfterPayment
  <2>. QED
    BY <1>2, <2>1, <2>2 DEF RecordRead, Payable, TypeOK, DraftInv, Untouched, PaymentsOf
<1>3. ASSUME NEW c \in Clients, VoidFind(c) PROVE DraftInv'
  <2>1. PICK p \in payments :
          req' = [req EXCEPT ![c] = [step |-> "void.read", invoice |-> p.invoice,
                    payment |-> p, columns |-> NoColumns, notes |-> None]]
    BY <1>3 DEF VoidFind
  <2>2. p.invoice \in Invoices /\ invoice[p.invoice].status # "DRAFT"
    BY DEF TypeOK, Payment, DraftInv, Untouched, PaymentsOf
  <2>. QED
    BY <1>3, <2>1, <2>2 DEF VoidFind, TypeOK, DraftInv, Untouched, PaymentsOf,
       WriteSteps
<1>4. ASSUME NEW c \in Clients, SendRead(c) \/ CancelRead(c) \/ EditRead(c) PROVE DraftInv'
  <2>1. PICK r : /\ r.step \notin AfterDraftSteps \cup WriteSteps
                 /\ req' = [req EXCEPT ![c] = r]
                 /\ UNCHANGED <<invoice, payments, pdfJobs>>
    BY <1>4 DEF SendRead, CancelRead, EditRead, ReadStatus, Idle, AfterDraftSteps,
       PaymentSteps, WriteSteps
  <2>. QED
    BY <2>1 DEF TypeOK, DraftInv, Untouched, PaymentsOf
<1>5. ASSUME NEW c \in Clients, TakeLock(c) PROVE DraftInv'
  BY <1>5 DEF TakeLock, RecordUpdate, VoidUpdate, Goto, At, TypeOK, Request, DraftInv,
     Untouched, PaymentsOf, AfterDraftSteps, PaymentSteps, WriteSteps
<1>6. ASSUME NEW c \in Clients, AutoWrite(c) PROVE DraftInv'
  <2>1. req[c].invoice \in Invoices /\ Exists(req[c].invoice)
    BY <1>6 DEF AutoWrite, SendWrite, CancelWrite, EditWrite, At, RequestOK
  <2>2. \A i \in Invoices : /\ invoice'[i].status = "DRAFT" => invoice[i].status = "DRAFT"
                            /\ invoice'[i].status = "ABSENT" => invoice[i].status = "ABSENT"
                            /\ invoice'[i].amountPaid = invoice[i].amountPaid
                            /\ invoice'[i].amountDue = invoice[i].amountDue
                            /\ invoice'[i].total = invoice[i].total
    BY <1>6, <2>1 DEF AutoWrite, SendWrite, CancelWrite, EditWrite, TypeOK, Row
  <2>3. \A i \in Invoices : invoice'[i].status \in {"ABSENT", "DRAFT"} => Untouched(i)'
    BY <1>6, <2>2 DEF AutoWrite, SendWrite, CancelWrite, EditWrite, DraftInv, Untouched,
       PaymentsOf
  <2>4. \A d \in Clients : req'[d].step \in WriteSteps => req'[d].columns.status # "DRAFT"
    BY <1>0, <1>6 DEF AutoWrite, SendWrite, CancelWrite, EditWrite, Goto, Finish, TypeOK,
       Request, DraftInv, WriteSteps
  <2>5. \A d \in Clients \ {c} : req'[d].step \in AfterDraftSteps =>
          invoice'[req'[d].invoice].status # "DRAFT"
    <3>1. \A d \in Clients \ {c} : req'[d] = req[d]
      BY <1>6 DEF AutoWrite, SendWrite, CancelWrite, EditWrite, Goto, Finish, TypeOK
    <3>. QED
      BY <2>2, <3>1 DEF DraftInv, RequestOK, At, AfterDraftSteps, PaymentSteps
  <2>6. req'[c].step \in AfterDraftSteps => invoice'[req'[c].invoice].status # "DRAFT"
    BY <1>0, <1>6, <2>1 DEF AutoWrite, SendWrite, CancelWrite, EditWrite, Goto, Finish,
       TypeOK, Request, Row, AfterDraftSteps, PaymentSteps
  <2>. QED
    BY <2>3, <2>4, <2>5, <2>6 DEF DraftInv
<1>7. ASSUME NEW c \in Clients, RecordCommit(c) \/ VoidCommit(c) PROVE DraftInv'
  <2> DEFINE j == req[c].invoice
  <2>1. /\ j \in Invoices
        /\ req[c].payment \in Payment
        /\ req[c].payment.invoice = j
        /\ req[c].columns.status \in InvoiceStatus \ {"DRAFT"}
        /\ req'[c] = Idle
        /\ \A d \in Clients \ {c} : req'[d] = req[d]
        /\ UNCHANGED pdfJobs
    BY <1>7 DEF RecordCommit, VoidCommit, At, RequestOK, PaymentSteps, TypeOK, Request,
       Columns, DraftInv, WriteSteps, Finish
  <2>2. /\ invoice'[j].status \notin {"ABSENT", "DRAFT"}
        /\ \A i \in Invoices \ {j} : invoice'[i] = invoice[i] /\ PaymentsOf(i)' = PaymentsOf(i)
    BY <1>7, <2>1 DEF RecordCommit, VoidCommit, WithColumns, TypeOK, Row, InvoiceStatus,
       PaymentsOf
  <2>3. \A i \in Invoices : invoice'[i].status \in {"ABSENT", "DRAFT"} => Untouched(i)'
    BY <2>1, <2>2 DEF DraftInv, Untouched
  <2>4. \A d \in Clients : req'[d].step \in AfterDraftSteps =>
          invoice'[req'[d].invoice].status # "DRAFT"
    BY <1>0, <2>1, <2>2 DEF DraftInv, RequestOK, At, AfterDraftSteps, PaymentSteps
  <2>5. \A d \in Clients : req'[d].step \in WriteSteps => req'[d].columns.status # "DRAFT"
    BY <1>0, <2>1 DEF DraftInv, WriteSteps
  <2>. QED
    BY <2>3, <2>4, <2>5 DEF DraftInv
<1>8. ASSUME NEW c \in Clients, VoidRead(c) PROVE DraftInv'
  <2>1. AfterVoid(invoice[req[c].invoice], req[c].payment.amount).status # "DRAFT"
    BY DEF AfterVoid
  <2>2. req[c].step \in AfterDraftSteps
    BY <1>8 DEF VoidRead, At, AfterDraftSteps, PaymentSteps
  <2>. QED
    BY <1>8, <2>1, <2>2 DEF VoidRead, TypeOK, Request, DraftInv, Untouched, PaymentsOf
<1>9. ASSUME NEW c \in Clients, VoidMissing(c) \/ Fail(c) PROVE DraftInv'
  BY <1>0, <1>9 DEF VoidMissing, Fail, Finish, TypeOK, DraftInv, Untouched, PaymentsOf,
     AfterDraftSteps, PaymentSteps, WriteSteps
<1>10. ASSUME NEW c \in Clients, SendEnqueue(c) PROVE DraftInv'
  <2>1. /\ req[c].invoice \in Invoices
        /\ invoice[req[c].invoice].status \notin {"ABSENT", "DRAFT"}
    BY <1>10 DEF SendEnqueue, At, RequestOK, Exists, DraftInv, AfterDraftSteps
  <2>. QED
    BY <1>0, <1>10, <2>1 DEF SendEnqueue, Finish, TypeOK, DraftInv, Untouched, PaymentsOf,
       AfterDraftSteps, PaymentSteps, WriteSteps
<1>11. CASE UNCHANGED vars
  BY <1>11 DEF vars, DraftInv, Untouched, PaymentsOf
<1>. QED
  BY <1>1, <1>2, <1>3, <1>4, <1>5, <1>6, <1>7, <1>8, <1>9, <1>10, <1>11
  DEF Next, Begin, TakeLock, AutoWrite, Proceed

\* Nothing happens to the money or the PDF of an invoice while it is a draft,
\* whatever requests overlap and fail.
THEOREM DraftsStayUntouched == Spec => []DraftIsUntouched
<1>1. DraftInv => DraftIsUntouched
  BY DEF DraftInv, Untouched, DraftIsUntouched
<1>. QED
  BY <1>1, TypeInvInit, TypeInvStep, DraftInvInit, DraftInvStep, PTL DEF Spec

-----------------------------------------------------------------------------
(* Paid invoices. *)

\* amountPaid is never negative, which rules out the branch of recordPayment
\* that keeps the status it read.
PaidInv ==
    /\ \A i \in Invoices : invoice[i].amountPaid >= 0
    /\ PaidMeansSettled
    /\ \A c \in Clients : req[c].step \in WriteSteps =>
         /\ req[c].columns.amountPaid >= 0
         /\ req[c].columns.status = "PAID" => req[c].columns.amountDue = 0

LEMMA PaymentSettles ==
    ASSUME NEW row \in Row, row.amountPaid >= 0, NEW a \in Amounts,
           NEW columns \in AfterPayment(row, a)
    PROVE  /\ columns.amountPaid >= 0
           /\ columns.status = "PAID" => columns.amountDue = 0
<1>1. a \in Int /\ a > 0
  BY MoneyAssumption
<1>2. row.amountPaid \in Int /\ row.total \in Int
  BY DEF Row
<1>3. row.amountPaid + a > 0 /\ row.total - (row.amountPaid + a) \in Int
  BY <1>1, <1>2
<1>4. \A y \in DoubleStored(row.amountPaid + a) : y >= 0
  BY <1>1, <1>2, <1>3, DoubleRounding
<1>5. \A y \in DoubleStored(0) : y = 0
  BY DoubleRounding
<1>. QED
  BY <1>3, <1>4, <1>5 DEF AfterPayment, AtLeastZero

LEMMA VoidReopens ==
    ASSUME NEW row \in Row, NEW a \in Int
    PROVE  /\ AfterVoid(row, a).amountPaid >= 0
           /\ AfterVoid(row, a).status # "PAID"
<1>1. row.amountPaid - a \in Int
  BY DEF Row
<1>2. Decimal2(AtLeastZero(row.amountPaid - a)) >= 0
  BY <1>1, RoundingIsSound DEF AtLeastZero
<1>. QED
  BY <1>2 DEF AfterVoid

LEMMA PaidInvInit == Init => PaidInv
  BY DEF Init, PaidInv, PaidMeansSettled, AbsentRow, Idle, WriteSteps

LEMMA PaidInvStep == TypeInv /\ PaidInv /\ [Next]_vars => PaidInv'
<1>. SUFFICES ASSUME TypeInv, PaidInv, [Next]_vars PROVE PaidInv'
  OBVIOUS
<1>. USE DEF TypeInv
<1>0. Idle.step = "idle"
  BY DEF Idle
<1>1. ASSUME NEW i \in Invoices, Create(i) PROVE PaidInv'
  BY <1>1 DEF Create, TypeOK, PaidInv, PaidMeansSettled
<1>2. ASSUME NEW c \in Clients, RecordRead(c) PROVE PaidInv'
  <2>1. PICK i, a, id, columns :
          /\ i \in Invoices /\ a \in Amounts /\ id \in PaymentIds \ usedIds
          /\ columns \in AfterPayment(invoice[i], a)
          /\ req' = [req EXCEPT ![c] =
               [step |-> "record.update", invoice |-> i,
                payment |-> [id |-> id, invoice |-> i, amount |-> Decimal2(a)],
                columns |-> columns, notes |-> None]]
    BY <1>2 DEF RecordRead
  <2>2. /\ columns.amountPaid >= 0
        /\ columns.status = "PAID" => columns.amountDue = 0
    BY <2>1, PaymentSettles DEF TypeOK, PaidInv
  <2>. QED
    BY <1>2, <2>1, <2>2 DEF RecordRead, TypeOK, PaidInv, PaidMeansSettled
<1>3. ASSUME NEW c \in Clients, VoidRead(c) PROVE PaidInv'
  <2>1. /\ req[c].invoice \in Invoices
        /\ req[c].payment.amount \in Int
    BY <1>3 DEF VoidRead, At, RequestOK, PaymentSteps, Payment
  <2>2. /\ AfterVoid(invoice[req[c].invoice], req[c].payment.amount).amountPaid >= 0
        /\ AfterVoid(invoice[req[c].invoice], req[c].payment.amount).status # "PAID"
    BY <2>1, VoidReopens DEF TypeOK
  <2>. QED
    BY <1>3, <2>2 DEF VoidRead, TypeOK, Request, PaidInv, PaidMeansSettled
<1>4. ASSUME NEW c \in Clients,
             VoidFind(c) \/ SendRead(c) \/ CancelRead(c) \/ EditRead(c)
      PROVE  PaidInv'
  <2>1. PICK r : /\ r.step \notin WriteSteps
                 /\ req' = [req EXCEPT ![c] = r]
                 /\ UNCHANGED invoice
    BY <1>4 DEF VoidFind, SendRead, CancelRead, EditRead, ReadStatus, Idle, WriteSteps
  <2>. QED
    BY <2>1 DEF TypeOK, PaidInv, PaidMeansSettled
<1>5. ASSUME NEW c \in Clients, TakeLock(c) PROVE PaidInv'
  BY <1>5 DEF TakeLock, RecordUpdate, VoidUpdate, Goto, At, TypeOK, Request, PaidInv,
     PaidMeansSettled, WriteSteps
<1>6. ASSUME NEW c \in Clients, AutoWrite(c) PROVE PaidInv'
  <2>1. req[c].invoice \in Invoices
    BY <1>6 DEF AutoWrite, SendWrite, CancelWrite, EditWrite, At, RequestOK
  <2>2. \A i \in Invoices : /\ invoice'[i].status = "PAID" => invoice[i].status = "PAID"
                            /\ invoice'[i].amountPaid = invoice[i].amountPaid
                            /\ invoice'[i].amountDue = invoice[i].amountDue
    BY <1>6, <2>1 DEF AutoWrite, SendWrite, CancelWrite, EditWrite, TypeOK, Row
  <2>3. \A d \in Clients : req'[d].step \in WriteSteps => req'[d] = req[d]
    BY <1>0, <1>6 DEF AutoWrite, SendWrite, CancelWrite, EditWrite, Goto, Finish, TypeOK,
       Request, WriteSteps
  <2>. QED
    BY <2>2, <2>3 DEF PaidInv, PaidMeansSettled
<1>7. ASSUME NEW c \in Clients, RecordCommit(c) \/ VoidCommit(c) PROVE PaidInv'
  <2>1. /\ req[c].invoice \in Invoices
        /\ req[c].columns \in Columns
        /\ req[c].columns.amountPaid >= 0
        /\ req[c].columns.status = "PAID" => req[c].columns.amountDue = 0
        /\ invoice' = [invoice EXCEPT ![req[c].invoice] =
                         WithColumns(invoice[req[c].invoice], req[c].columns)]
    BY <1>7 DEF RecordCommit, VoidCommit, At, RequestOK, PaymentSteps, TypeOK, Request,
       PaidInv, WriteSteps
  <2>2. \A i \in Invoices : /\ invoice'[i].amountPaid >= 0
                            /\ invoice'[i].status = "PAID" => invoice'[i].amountDue = 0
    BY <2>1 DEF WithColumns, TypeOK, Row, PaidInv, PaidMeansSettled
  <2>3. \A d \in Clients : req'[d].step \in WriteSteps => req'[d] = req[d]
    BY <1>0, <1>7 DEF RecordCommit, VoidCommit, Finish, TypeOK, WriteSteps
  <2>. QED
    BY <2>2, <2>3 DEF PaidInv, PaidMeansSettled
<1>8. ASSUME NEW c \in Clients, VoidMissing(c) \/ SendEnqueue(c) \/ Fail(c) PROVE PaidInv'
  BY <1>0, <1>8 DEF VoidMissing, SendEnqueue, Fail, Finish, TypeOK, PaidInv,
     PaidMeansSettled, WriteSteps
<1>9. CASE UNCHANGED vars
  BY <1>9 DEF vars, PaidInv, PaidMeansSettled
<1>. QED
  BY <1>1, <1>2, <1>3, <1>4, <1>5, <1>6, <1>7, <1>8, <1>9
  DEF Next, Begin, TakeLock, AutoWrite, Proceed

\* An invoice the ledger calls PAID has nothing due, although concurrent payments
\* and voids overwrite each other's amounts.
THEOREM PaidIsSettled == Spec => []PaidMeansSettled
<1>1. PaidInv => PaidMeansSettled
  BY DEF PaidInv
<1>. QED
  BY <1>1, TypeInvInit, TypeInvStep, PaidInvInit, PaidInvStep, PTL DEF Spec

-----------------------------------------------------------------------------
(* Sums of payments: the units of a payment, and adding or removing them. *)

LEMMA UnitsCount ==
    ASSUME NEW p \in Payment, p.amount \in Nat
    PROVE  IsFiniteSet(Units(p)) /\ Cardinality(Units(p)) = p.amount
<1>1. IsFiniteSet({p.id}) /\ Cardinality({p.id}) = 1
  BY FS_Singleton
<1>2. IsFiniteSet(1 .. p.amount) /\ Cardinality(1 .. p.amount) = p.amount
  BY FS_Interval
<1>3. /\ IsFiniteSet({p.id} \X (1 .. p.amount))
      /\ Cardinality({p.id} \X (1 .. p.amount)) = 1 * p.amount
  BY <1>1, <1>2, FS_Product
<1>. QED
  BY <1>3 DEF Units

LEMMA UnitsAdded ==
    ASSUME NEW U, IsFiniteSet(U), NEW p \in Payment, p.amount \in Nat,
           U \cap Units(p) = {}
    PROVE  /\ IsFiniteSet(U \cup Units(p))
           /\ Cardinality(U \cup Units(p)) = Cardinality(U) + p.amount
<1>1. IsFiniteSet(Units(p)) /\ Cardinality(Units(p)) = p.amount
  BY UnitsCount
<1>2. Cardinality(U) \in Nat
  BY FS_CardinalityType
<1>3. Cardinality(U \cap Units(p)) = 0
  BY FS_EmptySet
<1>. QED
  BY <1>1, <1>2, <1>3, FS_Union

LEMMA UnitsRemoved ==
    ASSUME NEW U, IsFiniteSet(U), NEW p \in Payment, p.amount \in Nat,
           Units(p) \subseteq U
    PROVE  /\ IsFiniteSet(U \ Units(p))
           /\ Cardinality(U \ Units(p)) = Cardinality(U) - p.amount
           /\ p.amount <= Cardinality(U)
<1>1. IsFiniteSet(Units(p)) /\ Cardinality(Units(p)) = p.amount
  BY UnitsCount
<1>2. U \cap Units(p) = Units(p)
  OBVIOUS
<1>3. Cardinality(Units(p)) <= Cardinality(U)
  BY FS_Subset
<1>4. /\ IsFiniteSet(U \ Units(p))
      /\ Cardinality(U \ Units(p)) = Cardinality(U) - Cardinality(U \cap Units(p))
  BY FS_Difference
<1>. QED
  BY <1>1, <1>2, <1>3, <1>4

-----------------------------------------------------------------------------
(* Payment uuids. *)

RecordSteps == {"record.update", "record.commit"}

\* A uuid names one payment for ever: no payment in the table, and no request
\* on another payment, has the uuid of a payment still to be recorded.
IdsInv ==
    /\ \A p \in payments : p.id \in usedIds /\ p.amount \in Nat
    /\ \A p, q \in payments : p.id = q.id => p = q
    /\ \A c \in Clients : req[c].step \in PaymentSteps =>
         req[c].payment.id \in usedIds /\ req[c].payment.amount \in Nat
    /\ \A c \in Clients : req[c].step \in RecordSteps =>
         /\ \A p \in payments : p.id # req[c].payment.id
         /\ \A d \in Clients \ {c} : req[d].step \in PaymentSteps =>
              req[d].payment.id # req[c].payment.id

LEMMA IdsInvInit == Init => IdsInv
  BY DEF Init, IdsInv, Idle, PaymentSteps, RecordSteps

LEMMA IdsInvStep == TypeInv /\ IdsInv /\ [Next]_vars => IdsInv'
<1>. SUFFICES ASSUME TypeInv, IdsInv, [Next]_vars PROVE IdsInv'
  OBVIOUS
<1>. USE DEF TypeInv
<1>0. Idle.step = "idle"
  BY DEF Idle
<1>1. ASSUME NEW c \in Clients, RecordRead(c) PROVE IdsInv'
  <2>1. PICK i, a, id, columns :
          /\ i \in Invoices /\ a \in Amounts /\ id \in PaymentIds \ usedIds
          /\ columns \in AfterPayment(invoice[i], a)
          /\ req' = [req EXCEPT ![c] =
               [step |-> "record.update", invoice |-> i,
                payment |-> [id |-> id, invoice |-> i, amount |-> Decimal2(a)],
                columns |-> columns, notes |-> None]]
          /\ usedIds' = usedIds \cup {id}
          /\ payments' = payments
    BY <1>1 DEF RecordRead
  <2>2. Decimal2(a) \in Nat
    BY <2>1, MoneyAssumption, RoundingIsSound
  <2>3. /\ req'[c].step = "record.update"
        /\ req'[c].payment.id = id
        /\ req'[c].payment.amount = Decimal2(a)
        /\ \A d \in Clients \ {c} : req'[d] = req[d]
    BY <2>1 DEF TypeOK
  <2>4. \A d \in Clients : req'[d].step \in PaymentSteps =>
          req'[d].payment.id \in usedIds' /\ req'[d].payment.amount \in Nat
    BY <2>1, <2>2, <2>3 DEF IdsInv
  <2>5. \A d \in Clients \ {c} : req[d].step \in PaymentSteps => req[d].payment.id # id
    BY <2>1 DEF IdsInv
  <2>6. \A d \in Clients : req'[d].step \in RecordSteps =>
         /\ \A p \in payments' : p.id # req'[d].payment.id
         /\ \A e \in Clients \ {d} : req'[e].step \in PaymentSteps =>
              req'[e].payment.id # req'[d].payment.id
    BY <2>1, <2>3, <2>5 DEF IdsInv, PaymentSteps, RecordSteps
  <2>. QED
    BY <2>1, <2>4, <2>6 DEF IdsInv
<1>2. ASSUME NEW c \in Clients, VoidFind(c) PROVE IdsInv'
  <2>1. PICK p \in payments :
          req' = [req EXCEPT ![c] = [step |-> "void.read", invoice |-> p.invoice,
                    payment |-> p, columns |-> NoColumns, notes |-> None]]
    BY <1>2 DEF VoidFind
  <2>2. /\ req'[c].step = "void.read"
        /\ req'[c].payment = p
        /\ \A d \in Clients \ {c} : req'[d] = req[d]
        /\ UNCHANGED <<payments, usedIds>>
    BY <1>2, <2>1 DEF VoidFind, TypeOK
  <2>3. \A d \in Clients : req'[d].step \in PaymentSteps =>
          req'[d].payment.id \in usedIds' /\ req'[d].payment.amount \in Nat
    BY <2>2 DEF IdsInv
  <2>4. \A d \in Clients : req'[d].step \in RecordSteps =>
         /\ \A q \in payments' : q.id # req'[d].payment.id
         /\ \A e \in Clients \ {d} : req'[e].step \in PaymentSteps =>
              req'[e].payment.id # req'[d].payment.id
    BY <2>2 DEF IdsInv, RecordSteps
  <2>. QED
    BY <2>2, <2>3, <2>4 DEF IdsInv
<1>3. ASSUME NEW c \in Clients, RecordCommit(c) PROVE IdsInv'
  <2>1. /\ req[c].step \in RecordSteps /\ req[c].step \in PaymentSteps
        /\ payments' = payments \cup {req[c].payment}
        /\ usedIds' = usedIds
        /\ req'[c].step = "idle"
        /\ \A d \in Clients \ {c} : req'[d] = req[d]
    BY <1>0, <1>3 DEF RecordCommit, At, Finish, TypeOK, RecordSteps, PaymentSteps
  <2>2. \A p, q \in payments' : p.id = q.id => p = q
    BY <2>1 DEF IdsInv
  <2>3. \A d \in Clients : req'[d].step \in RecordSteps =>
         /\ \A p \in payments' : p.id # req'[d].payment.id
         /\ \A e \in Clients \ {d} : req'[e].step \in PaymentSteps =>
              req'[e].payment.id # req'[d].payment.id
    BY <2>1 DEF IdsInv, RecordSteps, PaymentSteps
  <2>. QED
    BY <2>1, <2>2, <2>3 DEF IdsInv, PaymentSteps
<1>4. ASSUME NEW c \in Clients,
             \/ Begin(c) /\ ~RecordRead(c) /\ ~VoidFind(c)
             \/ AutoWrite(c) \/ VoidCommit(c) \/ VoidMissing(c) \/ SendEnqueue(c) \/ Fail(c)
      PROVE  IdsInv'
  <2>1. PICK r : r.step \notin PaymentSteps /\ req' = [req EXCEPT ![c] = r]
    <3>1. [req[c] EXCEPT !.step = "send.enqueue"].step = "send.enqueue"
      BY DEF TypeOK, Request
    <3>. QED
      BY <1>0, <1>4, <3>1 DEF Begin, SendRead, CancelRead, EditRead, ReadStatus, AutoWrite,
         SendWrite, CancelWrite, EditWrite, VoidCommit, VoidMissing, SendEnqueue, Fail,
         Goto, Finish, Idle, PaymentSteps
  <2>2. payments' \subseteq payments /\ usedIds' = usedIds
    BY <1>4 DEF Begin, SendRead, CancelRead, EditRead, ReadStatus, AutoWrite,
         SendWrite, CancelWrite, EditWrite, VoidCommit, VoidMissing, SendEnqueue, Fail
  <2>. QED
    BY <2>1, <2>2 DEF TypeOK, IdsInv, RecordSteps, PaymentSteps
<1>5. ASSUME NEW c \in Clients, TakeLock(c) \/ VoidRead(c) PROVE IdsInv'
  <2>1. /\ req'[c].payment = req[c].payment
        /\ req[c].step \in PaymentSteps
        /\ req'[c].step \in RecordSteps => req[c].step \in RecordSteps
        /\ \A d \in Clients \ {c} : req'[d] = req[d]
        /\ UNCHANGED <<payments, usedIds>>
    BY <1>5 DEF TakeLock, RecordUpdate, VoidUpdate, VoidRead, Goto, At, TypeOK, Request,
       PaymentSteps, RecordSteps
  <2>. QED
    BY <2>1 DEF IdsInv
<1>6. ASSUME NEW i \in Invoices, Create(i) PROVE IdsInv'
  BY <1>6 DEF Create, IdsInv
<1>7. CASE UNCHANGED vars
  BY <1>7 DEF vars, IdsInv
<1>. QED
  BY <1>1, <1>2, <1>3, <1>4, <1>5, <1>6, <1>7
  DEF Next, Begin, TakeLock, Proceed

-----------------------------------------------------------------------------
(* The balance, when the payments of an invoice are handled one at a time and *)
(* amounts are whole cents.                                                   *)

\* The columns c is about to write are those of its invoice with the payment of
\* c added, or with it taken away if it is still in the table.
ColumnsFit(c) ==
    LET row     == invoice[req[c].invoice]
        columns == req[c].columns
        amount  == req[c].payment.amount
    IN  /\ req[c].step \in RecordSteps =>
             /\ columns.amountPaid = row.amountPaid + amount
             /\ columns.amountDue = row.amountDue - amount
             /\ columns.amountDue >= 0
        /\ (req[c].step \in {"void.update", "void.commit"} /\ req[c].payment \in payments) =>
             /\ columns.amountPaid = row.amountPaid - amount
             /\ columns.amountDue = row.amountDue + amount

BalanceInv ==
    /\ Balanced
    /\ OnePaymentAtATime
    /\ \A i \in Invoices : IsFiniteSet(UnitsOf(i))
    /\ \A c \in Clients : ColumnsFit(c)

\* Everything known of a state of PaymentSerialSpec.
SerialInv == TypeInv /\ IdsInv /\ BalanceInv

LEMMA BalanceInvInit == Init => BalanceInv
<1>. SUFFICES ASSUME Init PROVE BalanceInv
  OBVIOUS
<1>1. \A i \in Invoices : PaymentsOf(i) = {} /\ UnitsOf(i) = {}
  BY DEF Init, PaymentsOf, UnitsOf
<1>2. \A i \in Invoices : IsFiniteSet(UnitsOf(i)) /\ Received(i) = 0
  BY <1>1, FS_EmptySet DEF Received
<1>3. \A c \in Clients : req[c].step = "idle" /\ req[c].payment = NoPayment
  BY DEF Init, Idle
<1>. QED
  BY <1>1, <1>2, <1>3 DEF Init, BalanceInv, Balanced, AbsentRow, OnePaymentAtATime,
     OnPayment, ColumnsFit, RecordSteps

\* Recording a payment adds its units to those received for its invoice.
LEMMA UnitsOfAdded ==
    ASSUME NEW p \in Payment, payments' = payments \cup {p}, NEW i \in Invoices
    PROVE  UnitsOf(i)' = IF i = p.invoice THEN UnitsOf(i) \cup Units(p) ELSE UnitsOf(i)
<1>1. PaymentsOf(i)' = IF i = p.invoice THEN PaymentsOf(i) \cup {p} ELSE PaymentsOf(i)
  BY DEF PaymentsOf
<1>. QED
  BY <1>1 DEF UnitsOf, Units

\* Voiding one takes exactly its units away, since no other payment has its uuid.
LEMMA UnitsOfRemoved ==
    ASSUME NEW p \in payments, payments' = payments \ {p}, NEW i \in Invoices,
           \A q \in payments : q.id = p.id => q = p
    PROVE  /\ UnitsOf(i)' = IF i = p.invoice THEN UnitsOf(i) \ Units(p) ELSE UnitsOf(i)
           /\ i = p.invoice => Units(p) \subseteq UnitsOf(i)
<1>1. PaymentsOf(i)' = IF i = p.invoice THEN PaymentsOf(i) \ {p} ELSE PaymentsOf(i)
  BY DEF PaymentsOf
<1>2. \A q \in PaymentsOf(i) \ {p} : Units(q) \cap Units(p) = {}
  BY DEF PaymentsOf, Units
<1>. QED
  BY <1>1, <1>2 DEF UnitsOf, PaymentsOf

\* Two requests on the payments of one invoice void the same payment.
LEMMA AloneOnInvoice ==
    ASSUME SerialInv, NEW c \in Clients, NEW d \in Clients, c # d,
           req[c].step \in PaymentSteps, req[d].step \in PaymentSteps,
           req[c].invoice = req[d].invoice
    PROVE  /\ req[c].payment = req[d].payment
           /\ req[c].step \notin RecordSteps
           /\ req[d].step \notin RecordSteps
<1>1. OnPayment(c) /\ OnPayment(d)
  BY SentinelAssumption DEF SerialInv, TypeInv, RequestOK, Payment, OnPayment, NoPayment
<1>2. req[c].payment = req[d].payment
  BY <1>1 DEF SerialInv, BalanceInv, OnePaymentAtATime
<1>. QED
  BY <1>2 DEF SerialInv, IdsInv

LEMMA BalanceInvStep ==
    ASSUME Cent = 1
    PROVE  SerialInv /\ [Next /\ OnePaymentAtATime']_vars => BalanceInv'
<1>. SUFFICES ASSUME SerialInv, [Next /\ OnePaymentAtATime']_vars PROVE BalanceInv'
  OBVIOUS
<1>. USE DEF SerialInv, TypeInv
<1>0. Idle.step = "idle"
  BY DEF Idle
\* A step that leaves the payments, the amounts of the invoices, and each request
\* either as it was or without columns to write.
<1>1. ASSUME UNCHANGED payments,
             \A i \in Invoices : /\ invoice'[i].total = invoice[i].total
                                 /\ invoice'[i].amountPaid = invoice[i].amountPaid
                                 /\ invoice'[i].amountDue = invoice[i].amountDue,
             \A c \in Clients : \/ req'[c].step \notin WriteSteps
                                \/ /\ req'[c].invoice = req[c].invoice
                                   /\ req'[c].payment = req[c].payment
                                   /\ req'[c].columns = req[c].columns
                                   /\ req[c].step \in RecordSteps <=> req'[c].step \in RecordSteps
                                   /\ req[c].step \in WriteSteps,
             OnePaymentAtATime'
      PROVE  BalanceInv'
  <2>1. \A i \in Invoices : UnitsOf(i)' = UnitsOf(i) /\ PaymentsOf(i)' = PaymentsOf(i)
    BY <1>1 DEF UnitsOf, PaymentsOf
  <2>2. Balanced' /\ \A i \in Invoices : IsFiniteSet(UnitsOf(i)')
    BY <1>1, <2>1 DEF Balanced, Received, BalanceInv
  <2>3. ASSUME NEW c \in Clients, req'[c].step \in WriteSteps PROVE ColumnsFit(c)'
    <3>1. req[c].invoice \in Invoices
      BY <1>1, <2>3 DEF RequestOK, At, WriteSteps
    <3>. QED
      BY <1>1, <2>3, <3>1 DEF BalanceInv, ColumnsFit, WriteSteps, RecordSteps
  <2>4. ASSUME NEW c \in Clients, req'[c].step \notin WriteSteps PROVE ColumnsFit(c)'
    BY <2>4 DEF ColumnsFit, WriteSteps, RecordSteps
  <2>. QED
    BY <1>1, <2>2, <2>3, <2>4 DEF BalanceInv
<1>2. ASSUME NEW i \in Invoices, Create(i), OnePaymentAtATime' PROVE BalanceInv'
  <2>1. PICK t \in Totals, n \in Notes :
          invoice' = [invoice EXCEPT ![i] =
             [total |-> Decimal2(t), amountPaid |-> 0, amountDue |-> Decimal2(t),
              status |-> "DRAFT", notes |-> n]]
    BY <1>2 DEF Create
  <2>2. Decimal2(t) \in Int
    BY RoundingIsSound, MoneyAssumption
  <2>3. PaymentsOf(i) = {} /\ UnitsOf(i) = {} /\ Received(i) = 0
    <3>1. PaymentsOf(i) = {}
      BY <1>2 DEF Create, ForeignKeyOK, PaymentsOf
    <3>. QED
      BY <3>1, FS_EmptySet DEF UnitsOf, Received
  <2>4. \A j \in Invoices : PaymentsOf(j)' = PaymentsOf(j) /\ UnitsOf(j)' = UnitsOf(j)
    BY <1>2 DEF Create, PaymentsOf, UnitsOf
  <2>5. Balanced' /\ \A j \in Invoices : IsFiniteSet(UnitsOf(j)')
    <3>1. \A j \in Invoices : Received(j)' = Received(j)
      BY <2>4 DEF Received
    <3>2. \A j \in Invoices \ {i} : invoice'[j] = invoice[j]
      BY <2>1 DEF TypeOK
    <3>3. /\ invoice'[i].amountPaid = 0
          /\ invoice'[i].amountDue = invoice'[i].total - 0
          /\ PaymentsOf(i)' = {}
      BY <2>1, <2>2, <2>3, <2>4 DEF TypeOK
    <3>. QED
      BY <2>3, <2>4, <3>1, <3>2, <3>3 DEF Balanced, BalanceInv
  <2>6. \A c \in Clients : req[c].step \in WriteSteps =>
          invoice'[req[c].invoice] = invoice[req[c].invoice]
    BY <1>2, <2>1 DEF Create, TypeOK, RequestOK, At, WriteSteps
  <2>7. \A c \in Clients : ColumnsFit(c)'
    BY <1>2, <2>6 DEF Create, BalanceInv, ColumnsFit, WriteSteps, RecordSteps
  <2>. QED
    BY <1>2, <2>5, <2>7 DEF BalanceInv
<1>3. ASSUME NEW c \in Clients, RecordRead(c), OnePaymentAtATime' PROVE BalanceInv'
  <2>1. PICK i, a, id, columns :
          /\ i \in Invoices /\ a \in Amounts /\ id \in PaymentIds \ usedIds
          /\ columns \in AfterPayment(invoice[i], a)
          /\ a <= invoice[i].amountDue
          /\ req' = [req EXCEPT ![c] =
               [step |-> "record.update", invoice |-> i,
                payment |-> [id |-> id, invoice |-> i, amount |-> Decimal2(a)],
                columns |-> columns, notes |-> None]]
    BY <1>3 DEF RecordRead
  <2>2. a \in Int /\ Decimal2(a) = a
    BY <2>1, WholeCents, MoneyAssumption
  <2>3. /\ invoice[i].amountPaid \in Int /\ invoice[i].amountDue \in Int
        /\ invoice[i].total \in Int
        /\ invoice[i].amountDue = invoice[i].total - invoice[i].amountPaid
    BY <2>1 DEF TypeOK, Row, BalanceInv, Balanced
  <2>4. /\ columns.amountPaid = invoice[i].amountPaid + a
        /\ columns.amountDue = invoice[i].amountDue - a
    <3>1. \A y \in DoubleStored(invoice[i].amountPaid + a) : y = invoice[i].amountPaid + a
      BY <2>2, <2>3, DoubleRounding
    <3>2. \A y \in DoubleStored(invoice[i].amountDue - a) : y = invoice[i].amountDue - a
      BY <2>2, <2>3, DoubleRounding
    <3>3. AtLeastZero(invoice[i].total - (invoice[i].amountPaid + a)) = invoice[i].amountDue - a
      BY <2>1, <2>2, <2>3 DEF AtLeastZero
    <3>. QED
      BY <2>1, <3>1, <3>2, <3>3 DEF AfterPayment
  <2>5. invoice[i].amountDue - a >= 0
    BY <2>1, <2>2, <2>3
  <2>6. ColumnsFit(c)'
    BY <1>3, <2>1, <2>2, <2>4, <2>5 DEF RecordRead, ColumnsFit, TypeOK
  <2>7. \A d \in Clients \ {c} : ColumnsFit(d)'
    BY <1>3, <2>1 DEF RecordRead, ColumnsFit, TypeOK, BalanceInv
  <2>8. Balanced' /\ \A j \in Invoices : IsFiniteSet(UnitsOf(j)')
    BY <1>3 DEF RecordRead, BalanceInv, Balanced, Received, UnitsOf, PaymentsOf
  <2>. QED
    BY <1>3, <2>6, <2>7, <2>8 DEF BalanceInv
<1>4. ASSUME NEW c \in Clients, VoidRead(c), OnePaymentAtATime' PROVE BalanceInv'
  <2> DEFINE row == invoice[req[c].invoice]
             p   == req[c].payment
  <2>1. /\ req[c].step \in PaymentSteps
        /\ req[c].invoice \in Invoices
        /\ p \in Payment /\ p.invoice = req[c].invoice /\ p.amount \in Nat
    BY <1>4 DEF VoidRead, At, RequestOK, PaymentSteps, IdsInv
  <2>2. /\ row.amountPaid \in Int /\ row.amountDue \in Int /\ row.total \in Int
        /\ row.amountPaid = Received(req[c].invoice)
        /\ row.amountDue = row.total - row.amountPaid
    BY <2>1 DEF TypeOK, Row, BalanceInv, Balanced
  <2>3. p \in payments => p.amount <= row.amountPaid
    <3>1. p \in payments => Units(p) \subseteq UnitsOf(req[c].invoice)
      BY <2>1 DEF UnitsOf, PaymentsOf
    <3>2. IsFiniteSet(UnitsOf(req[c].invoice))
      BY <2>1 DEF BalanceInv
    <3>. QED
      BY <2>1, <2>2, <3>1, <3>2, UnitsRemoved DEF Received
  <2>4. p \in payments =>
          /\ AfterVoid(row, p.amount).amountPaid = row.amountPaid - p.amount
          /\ AfterVoid(row, p.amount).amountDue = row.amountDue + p.amount
    <3>1. Decimal2(row.amountPaid - p.amount) = row.amountPaid - p.amount
      BY <2>1, <2>2, WholeCents
    <3>2. Decimal2(row.total - (row.amountPaid - p.amount)) = row.amountDue + p.amount
      BY <2>1, <2>2, WholeCents
    <3>3. p \in payments =>
            AtLeastZero(row.amountPaid - p.amount) = row.amountPaid - p.amount
      BY <2>1, <2>2, <2>3 DEF AtLeastZero
    <3>. QED
      BY <3>1, <3>2, <3>3 DEF AfterVoid
  <2>5. /\ req'[c].step = "void.update"
        /\ req'[c].invoice = req[c].invoice
        /\ req'[c].payment = p
        /\ req'[c].columns = AfterVoid(row, p.amount)
        /\ \A d \in Clients \ {c} : req'[d] = req[d]
        /\ UNCHANGED <<invoice, payments>>
    BY <1>4 DEF VoidRead, TypeOK, Request
  <2>6. ColumnsFit(c)'
    BY <2>4, <2>5 DEF ColumnsFit, RecordSteps
  <2>7. \A d \in Clients \ {c} : ColumnsFit(d)'
    BY <2>5 DEF ColumnsFit, BalanceInv
  <2>8. Balanced' /\ \A j \in Invoices : IsFiniteSet(UnitsOf(j)')
    BY <2>5 DEF BalanceInv, Balanced, Received, UnitsOf, PaymentsOf
  <2>. QED
    BY <1>4, <2>6, <2>7, <2>8 DEF BalanceInv
<1>5. ASSUME NEW c \in Clients, RecordCommit(c), OnePaymentAtATime' PROVE BalanceInv'
  <2>1. /\ req[c].step \in PaymentSteps /\ req[c].step \in RecordSteps
        /\ req[c].step \in WriteSteps
    BY <1>5 DEF RecordCommit, At, PaymentSteps, RecordSteps, WriteSteps
  <2>2. PICK j \in Invoices, p \in Payment :
          /\ j = req[c].invoice /\ p = req[c].payment
          /\ p.invoice = j /\ p.amount \in Nat
          /\ req[c].columns \in Columns
    BY <2>1 DEF RequestOK, At, PaymentSteps, IdsInv, TypeOK, Request
  <2>3. /\ payments' = payments \cup {p}
        /\ invoice' = [invoice EXCEPT ![j] = WithColumns(invoice[j], req[c].columns)]
        /\ req'[c].step = "idle"
        /\ \A d \in Clients \ {c} : req'[d] = req[d]
    BY <1>0, <1>5, <2>2 DEF RecordCommit, Finish, TypeOK
  <2>4. /\ invoice'[j].total = invoice[j].total
        /\ invoice'[j].amountPaid = invoice[j].amountPaid + p.amount
        /\ invoice'[j].amountDue = invoice[j].amountDue - p.amount
        /\ invoice'[j].amountDue >= 0
        /\ \A i \in Invoices \ {j} : invoice'[i] = invoice[i]
    BY <2>1, <2>2, <2>3 DEF WithColumns, TypeOK, Row, BalanceInv, ColumnsFit
  <2>5. \A i \in Invoices \ {j} :
          /\ PaymentsOf(i)' = PaymentsOf(i)
          /\ UnitsOf(i)' = UnitsOf(i)
          /\ Received(i)' = Received(i)
    BY <2>2, <2>3 DEF PaymentsOf, UnitsOf, Received
  <2>6. UnitsOf(j)' = UnitsOf(j) \cup Units(p)
    BY <2>2, <2>3, UnitsOfAdded
  <2>7. UnitsOf(j) \cap Units(p) = {}
    <3>1. \A q \in payments : q.id # p.id
      BY <2>1, <2>2 DEF IdsInv
    <3>. QED
      BY <3>1 DEF UnitsOf, PaymentsOf, Units
  <2>8. IsFiniteSet(UnitsOf(j)') /\ Received(j)' = Received(j) + p.amount
    BY <2>2, <2>6, <2>7, UnitsAdded DEF Received, BalanceInv
  <2>9. Received(j) \in Nat
    BY <2>2, FS_CardinalityType DEF Received, BalanceInv
  <2>10. /\ invoice'[j].amountPaid = Received(j)'
         /\ invoice'[j].amountDue = invoice'[j].total - Received(j)'
    BY <2>2, <2>4, <2>8, <2>9 DEF TypeOK, Row, BalanceInv, Balanced
  <2>11. Balanced' /\ \A i \in Invoices : IsFiniteSet(UnitsOf(i)')
    <3>1. ASSUME NEW i \in Invoices \ {j}
          PROVE  /\ invoice'[i].amountPaid = Received(i)'
                 /\ invoice'[i].amountDue = invoice'[i].total - Received(i)'
                 /\ PaymentsOf(i)' # {} => invoice'[i].amountDue >= 0
                 /\ IsFiniteSet(UnitsOf(i)')
      BY <2>4, <2>5 DEF BalanceInv, Balanced
    <3>. QED
      BY <2>4, <2>8, <2>10, <3>1 DEF Balanced
  <2>12. ASSUME NEW d \in Clients \ {c}, req[d].step \in WriteSteps PROVE ColumnsFit(d)'
    <3>1. req[d].step \in PaymentSteps /\ req[d].invoice \in Invoices
      BY <2>12 DEF WriteSteps, PaymentSteps, RequestOK, At
    <3>2. req[d].invoice # j
      BY <2>1, <2>2, <2>12, <3>1, AloneOnInvoice
    <3>3. req[d].payment # p
      BY <2>2, <3>1, <3>2 DEF RequestOK
    <3>. QED
      BY <2>3, <2>4, <3>1, <3>2, <3>3 DEF BalanceInv, ColumnsFit
  <2>13. \A d \in Clients : ColumnsFit(d)'
    BY <2>3, <2>12 DEF ColumnsFit, WriteSteps, RecordSteps
  <2>. QED
    BY <1>5, <2>11, <2>13 DEF BalanceInv
<1>6. ASSUME NEW c \in Clients, VoidCommit(c), OnePaymentAtATime' PROVE BalanceInv'
  <2>1. req[c].step = "void.commit" /\ req[c].step \in PaymentSteps
    BY <1>6 DEF VoidCommit, At, PaymentSteps
  <2>2. PICK j \in Invoices, p \in Payment :
          /\ j = req[c].invoice /\ p = req[c].payment
          /\ p.invoice = j /\ p.amount \in Nat /\ p \in payments
          /\ req[c].columns \in Columns
    BY <1>6, <2>1 DEF VoidCommit, RequestOK, At, PaymentSteps, IdsInv, TypeOK, Request
  <2>3. /\ payments' = payments \ {p}
        /\ invoice' = [invoice EXCEPT ![j] = WithColumns(invoice[j], req[c].columns)]
        /\ req'[c].step = "idle"
        /\ \A d \in Clients \ {c} : req'[d] = req[d]
    BY <1>0, <1>6, <2>2 DEF VoidCommit, Finish, TypeOK
  <2>4. /\ invoice'[j].total = invoice[j].total
        /\ invoice'[j].amountPaid = invoice[j].amountPaid - p.amount
        /\ invoice'[j].amountDue = invoice[j].amountDue + p.amount
        /\ \A i \in Invoices \ {j} : invoice'[i] = invoice[i]
    BY <2>1, <2>2, <2>3 DEF WithColumns, TypeOK, Row, BalanceInv, ColumnsFit
  <2>5. \A q \in payments : q.id = p.id => q = p
    BY <2>2 DEF IdsInv
  <2>6. \A i \in Invoices \ {j} :
          /\ PaymentsOf(i)' = PaymentsOf(i)
          /\ UnitsOf(i)' = UnitsOf(i)
          /\ Received(i)' = Received(i)
    BY <2>2, <2>3 DEF PaymentsOf, UnitsOf, Received
  <2>7. UnitsOf(j)' = UnitsOf(j) \ Units(p) /\ Units(p) \subseteq UnitsOf(j)
    BY <2>2, <2>3, <2>5, UnitsOfRemoved
  <2>8. IsFiniteSet(UnitsOf(j)') /\ Received(j)' = Received(j) - p.amount
    BY <2>2, <2>7, UnitsRemoved DEF Received, BalanceInv
  <2>9. Received(j) \in Nat
    BY <2>2, FS_CardinalityType DEF Received, BalanceInv
  <2>10. /\ invoice'[j].amountPaid = Received(j)'
         /\ invoice'[j].amountDue = invoice'[j].total - Received(j)'
    BY <2>2, <2>4, <2>8, <2>9 DEF TypeOK, Row, BalanceInv, Balanced
  <2>11. invoice'[j].amountDue >= 0
    <3>1. invoice[j].amountDue >= 0
      BY <2>2 DEF BalanceInv, Balanced, PaymentsOf
    <3>. QED
      BY <2>2, <2>4, <3>1 DEF TypeOK, Row
  <2>12. Balanced' /\ \A i \in Invoices : IsFiniteSet(UnitsOf(i)')
    <3>1. ASSUME NEW i \in Invoices \ {j}
          PROVE  /\ invoice'[i].amountPaid = Received(i)'
                 /\ invoice'[i].amountDue = invoice'[i].total - Received(i)'
                 /\ PaymentsOf(i)' # {} => invoice'[i].amountDue >= 0
                 /\ IsFiniteSet(UnitsOf(i)')
      BY <2>4, <2>6 DEF BalanceInv, Balanced
    <3>. QED
      BY <2>8, <2>10, <2>11, <3>1 DEF Balanced
  <2>13. ASSUME NEW d \in Clients \ {c}, req[d].step \in WriteSteps PROVE ColumnsFit(d)'
    <3>1. req[d].step \in PaymentSteps /\ req[d].invoice \in Invoices
      BY <2>13 DEF WriteSteps, PaymentSteps, RequestOK, At
    <3>2. CASE req[d].invoice = j
      <4>1. req[d].payment = p /\ req[d].step \notin RecordSteps
        BY <2>1, <2>2, <2>13, <3>1, <3>2, AloneOnInvoice
      <4>. QED
        BY <2>3, <4>1 DEF ColumnsFit
    <3>3. CASE req[d].invoice # j
      BY <2>3, <2>4, <3>1, <3>3 DEF BalanceInv, ColumnsFit
    <3>. QED
      BY <3>2, <3>3
  <2>14. \A d \in Clients : ColumnsFit(d)'
    BY <2>3, <2>13 DEF ColumnsFit, WriteSteps, RecordSteps
  <2>. QED
    BY <1>6, <2>12, <2>14 DEF BalanceInv
<1>7. ASSUME NEW c \in Clients, OnePaymentAtATime',
             VoidFind(c) \/ SendRead(c) \/ CancelRead(c) \/ EditRead(c)
      PROVE  BalanceInv'
  <2>1. PICK r : /\ r.step \notin WriteSteps
                 /\ req' = [req EXCEPT ![c] = r]
                 /\ UNCHANGED <<invoice, payments>>
    BY <1>7 DEF VoidFind, SendRead, CancelRead, EditRead, ReadStatus, Idle, WriteSteps
  <2>2. req'[c].step \notin WriteSteps /\ \A d \in Clients \ {c} : req'[d] = req[d]
    BY <2>1 DEF TypeOK
  <2>. QED
    BY <1>1, <1>7, <2>1, <2>2
<1>8. ASSUME NEW c \in Clients, AutoWrite(c), OnePaymentAtATime' PROVE BalanceInv'
  <2>1. req[c].invoice \in Invoices
    BY <1>8 DEF AutoWrite, SendWrite, CancelWrite, EditWrite, At, RequestOK
  <2>2. \A i \in Invoices : /\ invoice'[i].total = invoice[i].total
                            /\ invoice'[i].amountPaid = invoice[i].amountPaid
                            /\ invoice'[i].amountDue = invoice[i].amountDue
    BY <1>8, <2>1 DEF AutoWrite, SendWrite, CancelWrite, EditWrite, TypeOK, Row
  <2>3. req'[c].step \notin WriteSteps /\ \A d \in Clients \ {c} : req'[d] = req[d]
    BY <1>0, <1>8 DEF AutoWrite, SendWrite, CancelWrite, EditWrite, Goto, Finish, TypeOK,
       Request, WriteSteps
  <2>4. UNCHANGED payments
    BY <1>8 DEF AutoWrite, SendWrite, CancelWrite, EditWrite
  <2>. QED
    BY <1>1, <1>8, <2>2, <2>3, <2>4
<1>9. ASSUME NEW c \in Clients, OnePaymentAtATime',
             TakeLock(c) \/ VoidMissing(c) \/ SendEnqueue(c) \/ Fail(c)
      PROVE  BalanceInv'
  <2>1. UNCHANGED <<invoice, payments>>
    BY <1>9 DEF TakeLock, RecordUpdate, VoidUpdate, VoidMissing, SendEnqueue, Fail
  <2>2. \A d \in Clients \ {c} : req'[d] = req[d]
    BY <1>9 DEF TakeLock, RecordUpdate, VoidUpdate, VoidMissing, SendEnqueue, Fail, Goto,
       Finish, TypeOK
  <2>3. \/ req'[c].step \notin WriteSteps
        \/ /\ req'[c].invoice = req[c].invoice
           /\ req'[c].payment = req[c].payment
           /\ req'[c].columns = req[c].columns
           /\ req[c].step \in RecordSteps <=> req'[c].step \in RecordSteps
           /\ req[c].step \in WriteSteps
    BY <1>0, <1>9 DEF TakeLock, RecordUpdate, VoidUpdate, VoidMissing, SendEnqueue, Fail,
       Goto, Finish, At, TypeOK, Request, WriteSteps, RecordSteps
  <2>. QED
    BY <1>1, <1>9, <2>1, <2>2, <2>3
<1>10. CASE UNCHANGED vars
  BY <1>10 DEF vars, BalanceInv, Balanced, Received, UnitsOf, PaymentsOf,
     OnePaymentAtATime, OnPayment, ColumnsFit
<1>. QED
  BY <1>2, <1>3, <1>4, <1>5, <1>6, <1>7, <1>8, <1>9, <1>10
  DEF Next, Begin, TakeLock, AutoWrite, Proceed

\* While the payments of an invoice are handled one at a time, its amounts are
\* what its payments add up to: for any number of clients, invoices and payments,
\* with sends, edits, cancellations and failures at every point.
THEOREM BooksBalance ==
    ASSUME Cent = 1
    PROVE  PaymentSerialSpec => []Balanced
<1>1. Init => SerialInv
  BY TypeInvInit, IdsInvInit, BalanceInvInit DEF SerialInv
<1>2. SerialInv /\ [Next /\ OnePaymentAtATime']_vars => SerialInv'
  <2>1. [Next /\ OnePaymentAtATime']_vars => [Next]_vars
    OBVIOUS
  <2>. QED
    BY <2>1, TypeInvStep, IdsInvStep, BalanceInvStep DEF SerialInv
<1>3. SerialInv => Balanced
  BY DEF SerialInv, BalanceInv
<1>. QED
  BY <1>1, <1>2, <1>3, PTL DEF PaymentSerialSpec

=============================================================================
