-------------------------- MODULE LedgerAtomicProofs --------------------------
(***************************************************************************)
(* Ledger implements AtomicLedger when requests on an invoice do not       *)
(* overlap: for every set of invoices, clients, payments and amounts, with *)
(* failures at every step.                                                 *)
(***************************************************************************)
EXTENDS LedgerProofs

-----------------------------------------------------------------------------
(* What a request remembers is true of the row as it is now. *)

\* What c read or computed is what it would read or compute now.
UpToDate(c) ==
    LET row == invoice[req[c].invoice]
        p   == req[c].payment
    IN  /\ req[c].step \in RecordSteps =>
             /\ Payable(req[c].invoice)
             /\ \E a \in Amounts :
                  /\ a <= row.amountDue
                  /\ p = [id |-> p.id, invoice |-> req[c].invoice, amount |-> Decimal2(a)]
                  /\ req[c].columns \in AfterPayment(row, a)
        /\ req[c].step \in {"void.update", "void.commit"} =>
             req[c].columns = AfterVoid(row, p.amount)
        /\ req[c].step = "send.write" => row.status = "DRAFT"
        /\ req[c].step = "cancel.write" => row.status \in InvoiceStatus \ {"PAID", "CANCELLED"}
        /\ req[c].step = "edit.write" => row.status = "DRAFT" /\ req[c].notes \in Notes

AloneInv == OneRequestPerInvoice /\ \A c \in Clients : UpToDate(c)

\* Everything known of a state of SerialSpec.
AtomicInv == TypeInv /\ IdsInv /\ AloneInv

LEMMA AloneInvInit == Init => AloneInv
<1>. SUFFICES ASSUME Init PROVE AloneInv
  OBVIOUS
<1>1. \A c \in Clients : req[c].step = "idle"
  BY DEF Init, Idle
<1>. QED
  BY <1>1 DEF AloneInv, OneRequestPerInvoice, UpToDate, At, RecordSteps

\* A request that does not move, on a row that does not change, stays up to date.
LEMMA UpToDateFrame ==
    ASSUME NEW c \in Clients, UpToDate(c), req'[c] = req[c],
           req[c].step # "idle" => invoice'[req[c].invoice] = invoice[req[c].invoice]
    PROVE  UpToDate(c)'
<1>1. CASE req[c].step = "idle"
  BY <1>1 DEF UpToDate, RecordSteps
<1>2. CASE req[c].step # "idle"
  BY <1>2 DEF UpToDate, Payable, Exists
<1>. QED
  BY <1>1, <1>2

\* Whatever client c does to its own invoice, the others stay up to date.
LEMMA OthersUpToDate ==
    ASSUME AtomicInv, NEW c \in Clients, NEW d \in Clients \ {c},
           req[c].step # "idle",
           req'[d] = req[d],
           \A i \in Invoices \ {req[c].invoice} : invoice'[i] = invoice[i]
    PROVE  UpToDate(d)'
<1>1. req[d].step # "idle" =>
        req[d].invoice \in Invoices /\ req[d].invoice # req[c].invoice
  BY DEF AtomicInv, TypeInv, RequestOK, AloneInv, OneRequestPerInvoice, At
<1>2. UpToDate(d)
  BY DEF AtomicInv, AloneInv
<1>. QED
  BY <1>1, <1>2, UpToDateFrame

LEMMA UpToDateStep ==
    ASSUME AtomicInv, [Next]_vars
    PROVE  \A c \in Clients : UpToDate(c)'
<1>. USE DEF AtomicInv
<1>. DEFINE Goal == \A c \in Clients : UpToDate(c)'
<1>0. \A c \in Clients : UpToDate(c)
  BY DEF AloneInv
<1>a. ASSUME NEW c \in Clients, UNCHANGED invoice, \A d \in Clients \ {c} : req'[d] = req[d],
             UpToDate(c)'
      PROVE  Goal
  BY <1>a, <1>0, UpToDateFrame
<1>b. ASSUME NEW c \in Clients, req[c].step # "idle", req' = [req EXCEPT ![c] = Idle],
             \A i \in Invoices \ {req[c].invoice} : invoice'[i] = invoice[i]
      PROVE  Goal
  <2>1. req'[c].step = "idle" /\ \A d \in Clients \ {c} : req'[d] = req[d]
    BY <1>b DEF Idle, TypeInv, TypeOK
  <2>2. UpToDate(c)'
    BY <2>1 DEF UpToDate, RecordSteps
  <2>3. \A d \in Clients \ {c} : UpToDate(d)'
    BY <1>b, <2>1, OthersUpToDate
  <2>. QED
    BY <2>2, <2>3
<1>1. ASSUME NEW i \in Invoices, Create(i) PROVE Goal
  <2>1. UNCHANGED req /\ \A j \in Invoices \ {i} : invoice'[j] = invoice[j]
    BY <1>1 DEF Create, TypeInv, TypeOK
  <2>2. \A c \in Clients : req[c].step # "idle" =>
          req[c].invoice \in Invoices /\ req[c].invoice # i
    BY <1>1 DEF Create, TypeInv, RequestOK, At
  <2>. QED
    BY <1>0, <2>1, <2>2, UpToDateFrame
<1>2. ASSUME NEW c \in Clients, RecordRead(c) PROVE Goal
  <2>1. PICK i, a, id, columns :
          /\ i \in Invoices /\ a \in Amounts /\ id \in PaymentIds \ usedIds
          /\ columns \in AfterPayment(invoice[i], a)
          /\ Payable(i)
          /\ a <= invoice[i].amountDue
          /\ req' = [req EXCEPT ![c] =
               [step |-> "record.update", invoice |-> i,
                payment |-> [id |-> id, invoice |-> i, amount |-> Decimal2(a)],
                columns |-> columns, notes |-> None]]
    BY <1>2 DEF RecordRead
  <2>2. /\ req'[c] = [step |-> "record.update", invoice |-> i,
                      payment |-> [id |-> id, invoice |-> i, amount |-> Decimal2(a)],
                      columns |-> columns, notes |-> None]
        /\ UNCHANGED invoice
        /\ \A d \in Clients \ {c} : req'[d] = req[d]
    BY <1>2, <2>1 DEF RecordRead, TypeInv, TypeOK
  <2>3. UpToDate(c)'
    BY <2>1, <2>2 DEF UpToDate, RecordSteps, Payable, Exists
  <2>. QED
    BY <2>2, <2>3, <1>a
<1>3. ASSUME NEW c \in Clients, VoidFind(c) PROVE Goal
  <2>1. /\ req'[c].step = "void.read"
        /\ UNCHANGED invoice
        /\ \A d \in Clients \ {c} : req'[d] = req[d]
    BY <1>3 DEF VoidFind, TypeInv, TypeOK
  <2>2. UpToDate(c)'
    BY <2>1 DEF UpToDate, RecordSteps
  <2>. QED
    BY <2>1, <2>2, <1>a
<1>4. ASSUME NEW c \in Clients, VoidRead(c) PROVE Goal
  <2>1. /\ req'[c].step = "void.update"
        /\ req'[c].invoice = req[c].invoice
        /\ req'[c].payment = req[c].payment
        /\ req'[c].columns = AfterVoid(invoice[req[c].invoice], req[c].payment.amount)
        /\ UNCHANGED invoice
        /\ \A d \in Clients \ {c} : req'[d] = req[d]
    BY <1>4 DEF VoidRead, TypeInv, TypeOK, Request
  <2>2. UpToDate(c)'
    BY <2>1 DEF UpToDate, RecordSteps
  <2>. QED
    BY <2>1, <2>2, <1>a
<1>5. ASSUME NEW c \in Clients, TakeLock(c) PROVE Goal
  <2>1. /\ \/ req[c].step = "record.update" /\ req'[c].step = "record.commit"
           \/ req[c].step = "void.update" /\ req'[c].step = "void.commit"
        /\ req'[c].invoice = req[c].invoice
        /\ req'[c].payment = req[c].payment
        /\ req'[c].columns = req[c].columns
        /\ UNCHANGED invoice
        /\ \A d \in Clients \ {c} : req'[d] = req[d]
    BY <1>5 DEF TakeLock, RecordUpdate, VoidUpdate, At, Goto, TypeInv, TypeOK, Request
  <2>2. UpToDate(c)'
    BY <1>0, <2>1 DEF UpToDate, RecordSteps, Payable, Exists
  <2>. QED
    BY <2>1, <2>2, <1>a
<1>6. ASSUME NEW c \in Clients, NEW i \in Invoices, NEW accepted, NEW step, NEW n \in Notes \cup {None},
             ReadStatus(c, i, accepted, step, n),
             \/ step = "send.write" /\ accepted = {"DRAFT"}
             \/ step = "cancel.write" /\ accepted = InvoiceStatus \ {"PAID", "CANCELLED"}
             \/ step = "edit.write" /\ accepted = {"DRAFT"} /\ n \in Notes
      PROVE  Goal
  <2>1. /\ req'[c].step = step
        /\ req'[c].invoice = i
        /\ req'[c].notes = n
        /\ invoice[i].status \in accepted
        /\ UNCHANGED invoice
        /\ \A d \in Clients \ {c} : req'[d] = req[d]
    BY <1>6 DEF ReadStatus, Idle, TypeInv, TypeOK
  <2>2. UpToDate(c)'
    BY <1>6, <2>1 DEF UpToDate, RecordSteps
  <2>. QED
    BY <2>1, <2>2, <1>a
<1>7. ASSUME NEW c \in Clients, SendWrite(c) PROVE Goal
  <2>1. /\ req[c].step # "idle"
        /\ req'[c].step = "send.enqueue"
        /\ \A d \in Clients \ {c} : req'[d] = req[d]
        /\ \A i \in Invoices \ {req[c].invoice} : invoice'[i] = invoice[i]
    BY <1>7 DEF SendWrite, At, Goto, TypeInv, TypeOK, Request
  <2>2. UpToDate(c)'
    BY <2>1 DEF UpToDate, RecordSteps
  <2>3. \A d \in Clients \ {c} : UpToDate(d)'
    BY <2>1, OthersUpToDate
  <2>. QED
    BY <2>2, <2>3
<1>8. ASSUME NEW c \in Clients,
             RecordCommit(c) \/ VoidCommit(c) \/ VoidMissing(c) \/ SendEnqueue(c)
               \/ CancelWrite(c) \/ EditWrite(c) \/ Fail(c)
      PROVE  Goal
  <2>1. /\ req[c].step # "idle"
        /\ req' = [req EXCEPT ![c] = Idle]
        /\ \A i \in Invoices \ {req[c].invoice} : invoice'[i] = invoice[i]
    BY <1>8 DEF RecordCommit, VoidCommit, VoidMissing, SendEnqueue, CancelWrite, EditWrite,
       Fail, At, Finish, TypeInv, TypeOK
  <2>. QED
    BY <2>1, <1>b
<1>9. CASE UNCHANGED vars
  BY <1>0, <1>9, UpToDateFrame DEF vars
<1>10. ASSUME NEW c \in Clients, SendRead(c) \/ CancelRead(c) \/ EditRead(c) PROVE Goal
  BY <1>6, <1>10 DEF SendRead, CancelRead, EditRead
<1>. QED
  BY <1>1, <1>2, <1>3, <1>4, <1>5, <1>7, <1>8, <1>9, <1>10
     DEF Next, Begin, AutoWrite, Proceed

-----------------------------------------------------------------------------
(* The steps of AtomicLedger. *)

\* The two modules have their arithmetic from the same one.
LEMMA SameTables ==
    /\ \A row, a : /\ Atomic!AfterPayment(row, a) = AfterPayment(row, a)
                   /\ Atomic!AfterVoid(row, a) = AfterVoid(row, a)
    /\ \A row, columns : Atomic!WithColumns(row, columns) = WithColumns(row, columns)
    /\ \A x : Atomic!Decimal2(x) = Decimal2(x)
    /\ \A i : Atomic!Exists(i) <=> Exists(i)
    /\ \A i : Atomic!Payable(i) <=> Payable(i)
    /\ Atomic!InvoiceStatus = InvoiceStatus
    /\ Atomic!AbsentRow = AbsentRow
  BY DEF Atomic!AfterPayment, AfterPayment, Atomic!AfterVoid, AfterVoid, Atomic!WithColumns,
     WithColumns, Atomic!Decimal2, Decimal2, Atomic!DoubleStored, DoubleStored,
     Atomic!AtLeastZero, AtLeastZero, Atomic!Exists, Exists, Atomic!Payable, Payable, Atomic!InvoiceStatus, InvoiceStatus, Atomic!AbsentRow,
     AbsentRow

LEMMA AtomicInit == Init => Atomic!Init
  BY SameTables DEF Init, Atomic!Init

\* A commit takes effect as a whole; a read, a lock or a failure has no effect.
LEMMA AtomicStep ==
    ASSUME AtomicInv, [Next]_vars
    PROVE  [Atomic!Next]_(Atomic!tables)
<1>. USE DEF AtomicInv
<1>0. \A c \in Clients : UpToDate(c)
  BY DEF AloneInv
<1>1. ASSUME NEW i \in Invoices, Create(i) PROVE Atomic!Next
  <2>1. Atomic!Create(i)
    BY <1>1, SameTables DEF Create, Atomic!Create
  <2>. QED
    BY <2>1 DEF Atomic!Next
<1>2. ASSUME NEW c \in Clients, RecordCommit(c) PROVE Atomic!Next
  <2>. DEFINE i == req[c].invoice
              p == req[c].payment
  <2>1. /\ req[c].step \in RecordSteps
        /\ req[c].step \in PaymentSteps
        /\ i \in Invoices
        /\ p \in Payment
    BY <1>2 DEF RecordCommit, At, RecordSteps, PaymentSteps, TypeInv, RequestOK
  <2>2. PICK a \in Amounts : /\ a <= invoice[i].amountDue
                             /\ p = [id |-> p.id, invoice |-> i, amount |-> Decimal2(a)]
                             /\ req[c].columns \in AfterPayment(invoice[i], a)
    BY <1>0, <2>1 DEF UpToDate
  <2>3. Payable(i)
    BY <1>0, <2>1 DEF UpToDate
  <2>4. p.id \in PaymentIds \ {q.id : q \in payments}
    BY <2>1 DEF IdsInv, Payment
  <2>5. /\ payments' = payments \cup {[id |-> p.id, invoice |-> i, amount |-> Decimal2(a)]}
        /\ invoice' = [invoice EXCEPT ![i] = WithColumns(@, req[c].columns)]
    BY <1>2, <2>2 DEF RecordCommit
  <2>6. Atomic!RecordPayment(i)
    BY <2>2, <2>3, <2>4, <2>5, SameTables DEF Atomic!RecordPayment
  <2>. QED
    BY <2>1, <2>6 DEF Atomic!Next
<1>3. ASSUME NEW c \in Clients, VoidCommit(c) PROVE Atomic!Next
  <2>. DEFINE p == req[c].payment
  <2>1. /\ p \in payments
        /\ p.invoice = req[c].invoice
        /\ req[c].columns = AfterVoid(invoice[p.invoice], p.amount)
    BY <1>0, <1>3 DEF VoidCommit, At, TypeInv, RequestOK, PaymentSteps, UpToDate
  <2>2. /\ payments' = payments \ {p}
        /\ invoice' = [invoice EXCEPT ![p.invoice] = WithColumns(@, AfterVoid(@, p.amount))]
    BY <1>3, <2>1 DEF VoidCommit
  <2>3. Atomic!VoidPayment(p)
    BY <2>2, SameTables DEF Atomic!VoidPayment
  <2>. QED
    BY <2>1, <2>3 DEF Atomic!Next
<1>4. ASSUME NEW c \in Clients, SendWrite(c) PROVE Atomic!Next
  <2>1. req[c].invoice \in Invoices /\ invoice[req[c].invoice].status = "DRAFT"
    BY <1>0, <1>4 DEF SendWrite, At, TypeInv, RequestOK, UpToDate
  <2>2. Atomic!Send(req[c].invoice)
    BY <1>4, <2>1 DEF SendWrite, Atomic!Send, Atomic!SetStatus
  <2>. QED
    BY <2>1, <2>2 DEF Atomic!Next
<1>5. ASSUME NEW c \in Clients, CancelWrite(c) PROVE Atomic!Next
  <2>1. /\ req[c].invoice \in Invoices
        /\ invoice[req[c].invoice].status \in InvoiceStatus \ {"PAID", "CANCELLED"}
    BY <1>0, <1>5 DEF CancelWrite, At, TypeInv, RequestOK, UpToDate
  <2>2. Atomic!Cancel(req[c].invoice)
    BY <1>5, <2>1, SameTables DEF CancelWrite, Atomic!Cancel, Atomic!SetStatus
  <2>. QED
    BY <2>1, <2>2 DEF Atomic!Next
<1>6. ASSUME NEW c \in Clients, EditWrite(c) PROVE Atomic!Next
  <2>1. /\ req[c].invoice \in Invoices
        /\ invoice[req[c].invoice].status = "DRAFT"
        /\ req[c].notes \in Notes
    BY <1>0, <1>6 DEF EditWrite, At, TypeInv, RequestOK, UpToDate
  <2>2. Atomic!Edit(req[c].invoice)
    BY <1>6, <2>1 DEF EditWrite, Atomic!Edit
  <2>. QED
    BY <2>1, <2>2 DEF Atomic!Next
<1>7. ASSUME NEW c \in Clients,
             Begin(c) \/ TakeLock(c) \/ VoidRead(c) \/ VoidMissing(c) \/ SendEnqueue(c) \/ Fail(c)
      PROVE  UNCHANGED <<invoice, payments>>
  BY <1>7 DEF Begin, RecordRead, VoidFind, SendRead, CancelRead, EditRead, ReadStatus, TakeLock,
     RecordUpdate, VoidUpdate, VoidRead, VoidMissing, SendEnqueue, Fail
<1>8. CASE UNCHANGED vars
  BY <1>8 DEF vars, Atomic!tables
<1>. QED
  BY <1>1, <1>2, <1>3, <1>4, <1>5, <1>6, <1>7, <1>8
     DEF Next, AutoWrite, Proceed, Atomic!tables

LEMMA AtomicInvHolds == SerialSpec => []AtomicInv
<1>1. Init => AtomicInv
  BY TypeInvInit, IdsInvInit, AloneInvInit DEF AtomicInv
<1>2. AtomicInv /\ [Next /\ OneRequestPerInvoice']_vars => AtomicInv'
  <2>. SUFFICES ASSUME AtomicInv, [Next /\ OneRequestPerInvoice']_vars PROVE AtomicInv'
    OBVIOUS
  <2>1. [Next]_vars
    OBVIOUS
  <2>2. OneRequestPerInvoice'
    <3>1. CASE UNCHANGED vars
      BY <3>1 DEF AtomicInv, AloneInv, OneRequestPerInvoice, At, vars
    <3>. QED
      BY <3>1
  <2>3. TypeInv' /\ IdsInv'
    BY <2>1, TypeInvStep, IdsInvStep DEF AtomicInv
  <2>4. \A c \in Clients : UpToDate(c)'
    BY <2>1, UpToDateStep
  <2>. QED
    BY <2>2, <2>3, <2>4 DEF AtomicInv, AloneInv
<1>. QED
  BY <1>1, <1>2, PTL DEF SerialSpec

\* While requests on an invoice do not overlap, whatever fails and wherever, the
\* handlers of the ledger take effect atomically: they implement AtomicLedger.
THEOREM ImplementsAtomicLedger == SerialSpec => ActsAtomically
<1>1. Init => Atomic!Init
  BY AtomicInit
<1>2. AtomicInv /\ [Next /\ OneRequestPerInvoice']_vars => [Atomic!Next]_(Atomic!tables)
  BY AtomicStep
<1>. QED
  BY <1>1, <1>2, AtomicInvHolds, PTL DEF SerialSpec, ActsAtomically, Atomic!Spec

-----------------------------------------------------------------------------
(* What no step does to the status of an invoice. *)

\* Each step leaves the rows alone, creates one, or writes the columns of one
\* request, computed from a status its handler accepts.
LEMMA RowsChange ==
    ASSUME AtomicInv, [Next]_vars, NEW i \in Invoices, invoice'[i] # invoice[i]
    PROVE  \/ ~Exists(i)
           \/ /\ Payable(i)
              /\ invoice'[i].status \in {"PAID", "PARTIALLY_PAID", invoice[i].status}
              /\ invoice'[i].notes = invoice[i].notes
           \/ /\ \E p \in PaymentsOf(i) : p \notin payments'
              /\ invoice'[i].status \in {"SENT", "PARTIALLY_PAID"}
              /\ invoice'[i].notes = invoice[i].notes
           \/ /\ invoice[i].status = "DRAFT"
              /\ invoice'[i].status \in {"SENT", "DRAFT"}
           \/ /\ invoice[i].status \notin {"PAID", "CANCELLED"}
              /\ invoice'[i].status = "CANCELLED"
              /\ invoice'[i].notes = invoice[i].notes
<1>. DEFINE Goal ==
           \/ ~Exists(i)
           \/ /\ Payable(i)
              /\ invoice'[i].status \in {"PAID", "PARTIALLY_PAID", invoice[i].status}
              /\ invoice'[i].notes = invoice[i].notes
           \/ /\ \E p \in PaymentsOf(i) : p \notin payments'
              /\ invoice'[i].status \in {"SENT", "PARTIALLY_PAID"}
              /\ invoice'[i].notes = invoice[i].notes
           \/ /\ invoice[i].status = "DRAFT"
              /\ invoice'[i].status \in {"SENT", "DRAFT"}
           \/ /\ invoice[i].status \notin {"PAID", "CANCELLED"}
              /\ invoice'[i].status = "CANCELLED"
              /\ invoice'[i].notes = invoice[i].notes
<1>. USE DEF AtomicInv
<1>0. /\ \A c \in Clients : UpToDate(c)
      /\ invoice \in [Invoices -> Row]
  BY DEF AloneInv, TypeInv, TypeOK
<1>1. ASSUME NEW j \in Invoices, Create(j) PROVE Goal
  BY <1>0, <1>1 DEF Create, Exists
<1>2. ASSUME NEW c \in Clients, RecordCommit(c) PROVE Goal
  <2>1. /\ i = req[c].invoice
        /\ invoice'[i] = WithColumns(invoice[i], req[c].columns)
    BY <1>0, <1>2 DEF RecordCommit
  <2>2. PICK a \in Amounts : req[c].columns \in AfterPayment(invoice[i], a)
    BY <1>0, <1>2, <2>1 DEF RecordCommit, At, UpToDate, RecordSteps
  <2>3. Payable(i)
    BY <1>0, <1>2, <2>1 DEF RecordCommit, At, UpToDate, RecordSteps
  <2>4. req[c].columns.status \in {"PAID", "PARTIALLY_PAID", invoice[i].status}
    BY <2>2 DEF AfterPayment
  <2>. QED
    BY <1>0, <2>1, <2>2, <2>3, <2>4 DEF WithColumns, Row
<1>3. ASSUME NEW c \in Clients, VoidCommit(c) PROVE Goal
  <2>1. /\ i = req[c].invoice
        /\ invoice'[i] = WithColumns(invoice[i], req[c].columns)
    BY <1>0, <1>3 DEF VoidCommit
  <2>2. req[c].columns = AfterVoid(invoice[i], req[c].payment.amount)
    BY <1>0, <1>3, <2>1 DEF VoidCommit, At, UpToDate
  <2>3. req[c].payment \in PaymentsOf(i) /\ req[c].payment \notin payments'
    BY <1>3, <2>1 DEF VoidCommit, At, TypeInv, RequestOK, PaymentSteps, PaymentsOf
  <2>4. AfterVoid(invoice[i], req[c].payment.amount).status \in {"SENT", "PARTIALLY_PAID"}
    BY DEF AfterVoid
  <2>. QED
    BY <1>0, <2>1, <2>2, <2>3, <2>4 DEF WithColumns, Row
<1>4. ASSUME NEW c \in Clients, AutoWrite(c) PROVE Goal
  <2>1. i = req[c].invoice
    BY <1>0, <1>4 DEF AutoWrite, SendWrite, CancelWrite, EditWrite
  <2>2. CASE SendWrite(c)
    <3>1. invoice[i].status = "DRAFT"
      BY <1>0, <2>1, <2>2 DEF SendWrite, At, UpToDate
    <3>. QED
      BY <1>0, <2>1, <2>2, <3>1 DEF SendWrite, Row
  <2>3. CASE CancelWrite(c)
    <3>1. invoice[i].status \notin {"PAID", "CANCELLED"}
      BY <1>0, <2>1, <2>3 DEF CancelWrite, At, UpToDate
    <3>. QED
      BY <1>0, <2>1, <2>3, <3>1 DEF CancelWrite, Row
  <2>4. CASE EditWrite(c)
    <3>1. invoice[i].status = "DRAFT"
      BY <1>0, <2>1, <2>4 DEF EditWrite, At, UpToDate
    <3>. QED
      BY <1>0, <2>1, <2>4, <3>1 DEF EditWrite, Row
  <2>. QED
    BY <1>4, <2>2, <2>3, <2>4 DEF AutoWrite
<1>5. ASSUME NEW c \in Clients,
             Begin(c) \/ TakeLock(c) \/ VoidRead(c) \/ VoidMissing(c) \/ SendEnqueue(c) \/ Fail(c)
      PROVE  UNCHANGED invoice
  BY <1>5 DEF Begin, RecordRead, VoidFind, SendRead, CancelRead, EditRead, ReadStatus, TakeLock,
     RecordUpdate, VoidUpdate, VoidRead, VoidMissing, SendEnqueue, Fail
<1>6. CASE UNCHANGED vars
  BY <1>6 DEF vars
<1>7. Goal
  BY <1>1, <1>2, <1>3, <1>4, <1>5, <1>6 DEF Next, Proceed
<1>. QED
  BY <1>7

\* While requests on an invoice do not overlap, a paid invoice is not cancelled.
THEOREM PaidIsNotCancelled == SerialSpec => PaidNeverCancelled
<1>. DEFINE A == \A i \in Invoices :
       invoice[i].status = "PAID" => invoice'[i].status # "CANCELLED"
<1>1. AtomicInv /\ [Next /\ OneRequestPerInvoice']_vars => [A]_vars
  <2>. SUFFICES ASSUME AtomicInv, [Next]_vars,
                       NEW i \in Invoices, invoice[i].status = "PAID"
                PROVE  invoice'[i].status # "CANCELLED"
    OBVIOUS
  <2>. QED
    BY RowsChange DEF Exists
<1>. QED
  BY <1>1, AtomicInvHolds, PTL DEF SerialSpec, PaidNeverCancelled

\* While requests on an invoice do not overlap, only drafts are edited.
THEOREM OnlyDraftsAreEdited == SerialSpec => EditsOnlyDrafts
<1>. DEFINE A == \A i \in Invoices :
       (Exists(i) /\ invoice'[i].notes # invoice[i].notes) => invoice[i].status = "DRAFT"
<1>1. AtomicInv /\ [Next /\ OneRequestPerInvoice']_vars => [A]_vars
  <2>. SUFFICES ASSUME AtomicInv, [Next]_vars,
                       NEW i \in Invoices, Exists(i), invoice'[i].notes # invoice[i].notes
                PROVE  invoice[i].status = "DRAFT"
    OBVIOUS
  <2>. QED
    BY RowsChange
<1>. QED
  BY <1>1, AtomicInvHolds, PTL DEF SerialSpec, EditsOnlyDrafts

\* While requests on an invoice do not overlap, only the void of one of its payments
\* brings a cancelled invoice back.
THEOREM CancelledIsFinal == SerialSpec => CancelledStays
<1>. DEFINE A == \A i \in Invoices :
       (invoice[i].status = "CANCELLED" /\ invoice'[i].status # "CANCELLED")
         => \E p \in PaymentsOf(i) : p \notin payments'
<1>1. AtomicInv /\ [Next /\ OneRequestPerInvoice']_vars => [A]_vars
  <2>. SUFFICES ASSUME AtomicInv, [Next]_vars, NEW i \in Invoices,
                       invoice[i].status = "CANCELLED", invoice'[i].status # "CANCELLED"
                PROVE  \E p \in PaymentsOf(i) : p \notin payments'
    OBVIOUS
  <2>. QED
    BY RowsChange DEF Exists, Payable
<1>. QED
  BY <1>1, AtomicInvHolds, PTL DEF SerialSpec, CancelledStays

-----------------------------------------------------------------------------
(* What the status says of the amounts. *)

\* A request that is idle remembers nothing.
IdleInv == \A c \in Clients : At(c, "idle") => req[c] = Idle

LEMMA IdleInvStep == TypeInv /\ IdleInv /\ [Next]_vars => IdleInv'
<1>. SUFFICES ASSUME TypeInv, IdleInv, [Next]_vars PROVE IdleInv'
  OBVIOUS
<1>. USE DEF TypeInv, TypeOK
<1>1. ASSUME NEW c \in Clients, Fail(c) \/ RecordCommit(c) \/ VoidCommit(c) \/ VoidMissing(c)
               \/ SendEnqueue(c) \/ CancelWrite(c) \/ EditWrite(c)
      PROVE  IdleInv'
  BY <1>1 DEF Fail, RecordCommit, VoidCommit, VoidMissing, SendEnqueue, CancelWrite, EditWrite,
     Finish, IdleInv, At
<1>2. ASSUME NEW c \in Clients, TakeLock(c) \/ VoidRead(c) \/ SendWrite(c) PROVE IdleInv'
  <2>1. /\ req'[c].step # "idle"
        /\ \A d \in Clients \ {c} : req'[d] = req[d]
    BY <1>2 DEF TakeLock, RecordUpdate, VoidUpdate, VoidRead, SendWrite, Goto, Request
  <2>. QED
    BY <2>1 DEF IdleInv, At
<1>3. ASSUME NEW c \in Clients, Begin(c) PROVE IdleInv'
  <2>1. /\ req'[c].step # "idle"
        /\ \A d \in Clients \ {c} : req'[d] = req[d]
    <3>1. CASE RecordRead(c)
      BY <3>1 DEF RecordRead
    <3>2. CASE VoidFind(c)
      BY <3>2 DEF VoidFind
    <3>3. ASSUME NEW i, NEW accepted, NEW step, NEW n, step # "idle",
                 ReadStatus(c, i, accepted, step, n)
          PROVE  /\ req'[c].step # "idle"
                 /\ \A d \in Clients \ {c} : req'[d] = req[d]
      BY <3>3 DEF ReadStatus, Idle
    <3>. QED
      BY <1>3, <3>1, <3>2, <3>3 DEF Begin, SendRead, CancelRead, EditRead
  <2>. QED
    BY <2>1 DEF IdleInv, At
<1>4. CASE UNCHANGED req
  BY <1>4 DEF IdleInv, At
<1>. QED
  BY <1>1, <1>2, <1>3, <1>4 DEF Next, AutoWrite, Proceed, Create, vars

\* Requests that do not overlap do not handle payments of one invoice at once.
LEMMA AloneImpliesOnePayment ==
    ASSUME TypeInv', IdleInv', OneRequestPerInvoice' PROVE OnePaymentAtATime'
<1>1. \A c \in Clients : OnPayment(c)' => ~At(c, "idle")'
  BY DEF IdleInv, OnPayment, Idle
<1>. QED
  BY <1>1 DEF OneRequestPerInvoice, OnePaymentAtATime

PaidTwice(i) == \E p, q \in PaymentsOf(i) : p # q

\* A payment is of a cent or more, and the columns agree with the status; an invoice
\* partially paid with nothing due was paid more than once.
StatusInv ==
    /\ \A p \in payments : p.amount \in Nat \ {0}
    /\ \A i \in Invoices :
         /\ invoice[i].status = "SENT" => invoice[i].amountPaid = 0
         /\ invoice[i].status = "PARTIALLY_PAID" =>
              /\ invoice[i].amountPaid > 0 /\ invoice[i].amountDue >= 0
              /\ invoice[i].amountDue = 0 => PaidTwice(i)
         /\ invoice[i].status = "PAID" => invoice[i].amountDue = 0

\* Everything known of a state of SerialSpec when amounts are whole cents.
AccountInv == AtomicInv /\ SerialInv /\ DraftInv /\ IdleInv /\ StatusInv

LEMMA StatusInvStep ==
    ASSUME Cent = 1, AccountInv, [Next]_vars
    PROVE  StatusInv'
<1>. USE DEF AccountInv, AtomicInv
<1>0. /\ \A c \in Clients : UpToDate(c) /\ ColumnsFit(c)
      /\ invoice \in [Invoices -> Row]
      /\ Balanced
  BY DEF AloneInv, TypeInv, TypeOK, SerialInv, BalanceInv
<1>a. UNCHANGED payments => \A i \in Invoices : PaidTwice(i)' <=> PaidTwice(i)
  BY DEF PaidTwice, PaymentsOf
<1>1. ASSUME NEW i \in Invoices, Create(i) PROVE StatusInv'
  BY <1>0, <1>a, <1>1 DEF Create, StatusInv
<1>2. ASSUME NEW c \in Clients, RecordCommit(c) PROVE StatusInv'
  <2>. DEFINE i == req[c].invoice
              p == req[c].payment
  <2>1. /\ req[c].step \in RecordSteps
        /\ i \in Invoices
    BY <1>2 DEF RecordCommit, At, RecordSteps, TypeInv, RequestOK
  <2>2. PICK a \in Amounts : /\ a <= invoice[i].amountDue
                             /\ p = [id |-> p.id, invoice |-> i, amount |-> Decimal2(a)]
                             /\ req[c].columns \in AfterPayment(invoice[i], a)
    BY <1>0, <2>1 DEF UpToDate
  <2>3. a \in Nat \ {0} /\ Decimal2(a) = a
    BY MoneyAssumption, WholeCents
  <2>4. /\ invoice[i].amountPaid \in Int /\ invoice[i].amountDue \in Int /\ invoice[i].total \in Int
        /\ invoice[i].amountPaid \in Nat
        /\ invoice[i].total = invoice[i].amountPaid + invoice[i].amountDue
    <3>1. IsFiniteSet(UnitsOf(i))
      BY <2>1 DEF SerialInv, BalanceInv
    <3>2. Received(i) \in Nat
      BY <3>1, FS_CardinalityType DEF Received
    <3>. QED
      BY <1>0, <2>1, <3>2 DEF Balanced, Row
  <2>5. /\ req[c].columns.amountPaid = invoice[i].amountPaid + a
        /\ req[c].columns.amountDue = invoice[i].amountDue - a
    BY <1>0, <2>1, <2>2, <2>3 DEF ColumnsFit
  <2>6. /\ req[c].columns.status \in {"PAID", "PARTIALLY_PAID"}
        /\ req[c].columns.status = "PAID" => invoice[i].amountDue - a = 0
        /\ req[c].columns.status = "PARTIALLY_PAID" =>
             invoice[i].amountDue - a > 0 \/ invoice[i].amountPaid # 0
    <3>1. invoice[i].total - (invoice[i].amountPaid + a) = invoice[i].amountDue - a
      BY <2>3, <2>4
    <3>2. invoice[i].amountPaid + a > 0 /\ invoice[i].amountDue - a >= 0
      BY <2>2, <2>3, <2>4
    <3>3. /\ req[c].columns.status \in {"PAID", "PARTIALLY_PAID"}
          /\ \/ req[c].columns.status = "PAID" /\ invoice[i].amountDue - a <= 0
             \/ /\ req[c].columns.status = "PARTIALLY_PAID"
                /\ \/ invoice[i].amountDue - a > 0
                   \/ invoice[i].amountDue - a = 0 /\ invoice[i].amountPaid # 0
      BY <2>2, <3>1, <3>2 DEF AfterPayment
    <3>4. invoice[i].amountDue - a \in Int
      BY <2>3, <2>4
    <3>. QED
      BY <3>2, <3>3, <3>4
  <2>7. /\ invoice'[i].amountPaid = invoice[i].amountPaid + a
        /\ invoice'[i].amountDue = invoice[i].amountDue - a
        /\ invoice'[i].status = req[c].columns.status
        /\ \A j \in Invoices \ {i} : invoice'[j] = invoice[j]
    BY <1>0, <1>2, <2>1, <2>5 DEF RecordCommit, WithColumns, Row
  <2>8. \A q \in payments' : q.amount \in Nat \ {0}
    BY <1>2, <2>2, <2>3 DEF RecordCommit, StatusInv
  <2>9. payments' = payments \cup {p} /\ p.invoice = i /\ \A q \in payments : q # p
    BY <1>2, <2>1, <2>2 DEF RecordCommit, At, RecordSteps, PaymentSteps, IdsInv
  <2>10. \A j \in Invoices : PaidTwice(j) => PaidTwice(j)'
    BY <2>9 DEF PaidTwice, PaymentsOf
  <2>11. \A j \in Invoices : j = i /\ invoice[j].amountPaid # 0 => PaidTwice(j)'
    <3>. SUFFICES ASSUME NEW j \in Invoices, j = i, invoice[j].amountPaid # 0
                  PROVE  PaidTwice(j)'
      OBVIOUS
    <3>1. Received(j) # 0
      BY <1>0 DEF Balanced
    <3>2. UnitsOf(j) # {}
      BY <3>1, FS_EmptySet DEF Received
    <3>3. PICK q \in PaymentsOf(j) : TRUE
      BY <3>2 DEF UnitsOf
    <3>4. q \in PaymentsOf(j)' /\ p \in PaymentsOf(j)' /\ q # p
      BY <2>9, <3>3 DEF PaymentsOf
    <3>. QED
      BY <3>4 DEF PaidTwice
  <2>12. /\ invoice'[i].status # "SENT"
         /\ invoice'[i].amountPaid > 0 /\ invoice'[i].amountDue >= 0
         /\ invoice'[i].status = "PARTIALLY_PAID" /\ invoice'[i].amountDue = 0 =>
              invoice[i].amountPaid # 0
         /\ invoice'[i].status = "PAID" => invoice'[i].amountDue = 0
    BY <2>2, <2>3, <2>4, <2>6, <2>7
  <2>13. ASSUME NEW j \in Invoices, j # i
         PROVE  /\ invoice'[j].status = "SENT" => invoice'[j].amountPaid = 0
                /\ invoice'[j].status = "PARTIALLY_PAID" =>
                     /\ invoice'[j].amountPaid > 0 /\ invoice'[j].amountDue >= 0
                     /\ invoice'[j].amountDue = 0 => PaidTwice(j)'
                /\ invoice'[j].status = "PAID" => invoice'[j].amountDue = 0
    BY <2>7, <2>10, <2>13 DEF StatusInv
  <2>. QED
    BY <2>8, <2>11, <2>12, <2>13 DEF StatusInv
<1>3. ASSUME NEW c \in Clients, VoidCommit(c) PROVE StatusInv'
  <2>. DEFINE i == req[c].invoice
              p == req[c].payment
  <2>1. /\ req[c].step = "void.commit"
        /\ i \in Invoices
        /\ p \in payments /\ p \in PaymentsOf(i)
        /\ p.amount \in Nat \ {0}
    BY <1>3 DEF VoidCommit, At, PaymentSteps, TypeInv, RequestOK, StatusInv, PaymentsOf
  <2>2. /\ invoice[i].amountPaid \in Int /\ invoice[i].amountDue \in Int
        /\ invoice[i].amountDue >= 0
    BY <1>0, <2>1 DEF Balanced, Row
  <2>3. /\ req[c].columns = AfterVoid(invoice[i], p.amount)
        /\ req[c].columns.amountPaid = invoice[i].amountPaid - p.amount
        /\ req[c].columns.amountDue = invoice[i].amountDue + p.amount
    BY <1>0, <2>1 DEF UpToDate, ColumnsFit
  <2>4. p.amount <= invoice[i].amountPaid
    <3>1. IsFiniteSet(UnitsOf(i)) /\ Units(p) \subseteq UnitsOf(i)
      BY <2>1 DEF SerialInv, BalanceInv, UnitsOf
    <3>2. Cardinality(Units(p)) = p.amount
      BY <2>1, UnitsCount DEF TypeInv, TypeOK
    <3>3. Cardinality(Units(p)) <= Cardinality(UnitsOf(i))
      BY <3>1, FS_Subset
    <3>. QED
      BY <1>0, <2>1, <3>2, <3>3 DEF Balanced, Received
  <2>5. req[c].columns.status =
          IF invoice[i].amountPaid - p.amount <= 0 THEN "SENT" ELSE "PARTIALLY_PAID"
    BY <2>3 DEF AfterVoid
  <2>6. /\ invoice'[i].amountPaid = invoice[i].amountPaid - p.amount
        /\ invoice'[i].amountDue = invoice[i].amountDue + p.amount
        /\ invoice'[i].status =
             IF invoice[i].amountPaid - p.amount <= 0 THEN "SENT" ELSE "PARTIALLY_PAID"
        /\ \A j \in Invoices \ {i} : invoice'[j] = invoice[j]
    BY <1>0, <1>3, <2>1, <2>3, <2>5 DEF VoidCommit, WithColumns, Row
  <2>7. /\ invoice'[i].status = "SENT" => invoice'[i].amountPaid = 0
        /\ invoice'[i].status = "PARTIALLY_PAID" =>
             invoice'[i].amountPaid > 0 /\ invoice'[i].amountDue > 0
        /\ invoice'[i].status # "PAID"
    BY <2>1, <2>2, <2>4, <2>6
  <2>8. \A j \in Invoices \ {i} : PaidTwice(j)' <=> PaidTwice(j)
    BY <1>3, <2>1 DEF VoidCommit, PaidTwice, PaymentsOf
  <2>9. i \in Invoices /\ invoice'[i].amountDue \in Int
    BY <2>1, <2>2, <2>6
  <2>. QED
    BY <1>3, <2>6, <2>7, <2>8, <2>9 DEF VoidCommit, StatusInv
<1>4. ASSUME NEW c \in Clients, SendWrite(c) PROVE StatusInv'
  <2>1. /\ req[c].invoice \in Invoices
        /\ invoice[req[c].invoice].status = "DRAFT"
    BY <1>0, <1>4 DEF SendWrite, At, TypeInv, RequestOK, UpToDate
  <2>2. invoice[req[c].invoice].amountPaid = 0
    BY <2>1 DEF DraftInv, Untouched
  <2>. QED
    BY <1>0, <1>a, <1>4, <2>1, <2>2 DEF SendWrite, StatusInv, Row
<1>5. ASSUME NEW c \in Clients, CancelWrite(c) PROVE StatusInv'
  BY <1>0, <1>a, <1>5 DEF CancelWrite, StatusInv, Row
<1>6. ASSUME NEW c \in Clients, EditWrite(c) PROVE StatusInv'
  <2>1. /\ UNCHANGED payments
        /\ \A i \in Invoices : /\ invoice'[i].status = invoice[i].status
                               /\ invoice'[i].amountPaid = invoice[i].amountPaid
                               /\ invoice'[i].amountDue = invoice[i].amountDue
    BY <1>0, <1>6 DEF EditWrite, Row
  <2>. QED
    BY <1>a, <2>1 DEF StatusInv
<1>7. ASSUME NEW c \in Clients,
             Begin(c) \/ TakeLock(c) \/ VoidRead(c) \/ VoidMissing(c) \/ SendEnqueue(c) \/ Fail(c)
      PROVE  UNCHANGED <<invoice, payments>>
  BY <1>7 DEF Begin, RecordRead, VoidFind, SendRead, CancelRead, EditRead, ReadStatus, TakeLock,
     RecordUpdate, VoidUpdate, VoidRead, VoidMissing, SendEnqueue, Fail
<1>8. CASE UNCHANGED <<invoice, payments>>
  BY <1>a, <1>8 DEF StatusInv
<1>. QED
  BY <1>1, <1>2, <1>3, <1>4, <1>5, <1>6, <1>7, <1>8 DEF Next, AutoWrite, Proceed, vars

\* While requests on an invoice do not overlap, its status says what was received:
\* nothing, a part or everything, and never a part where one payment brought
\* everything; for any number of invoices, requests and payments.
THEOREM StatusIsRight ==
    ASSUME Cent = 1
    PROVE  SerialSpec => []StatusTellsBalance
<1>1. Init => AccountInv
  <2>1. Init => IdleInv /\ StatusInv
    BY DEF Init, IdleInv, StatusInv, AbsentRow
  <2>. QED
    BY <2>1, TypeInvInit, IdsInvInit, AloneInvInit, BalanceInvInit, DraftInvInit
       DEF AccountInv, AtomicInv, SerialInv
<1>2. AccountInv /\ [Next /\ OneRequestPerInvoice']_vars => AccountInv'
  <2>. SUFFICES ASSUME AccountInv, [Next /\ OneRequestPerInvoice']_vars PROVE AccountInv'
    OBVIOUS
  <2>. USE DEF AccountInv, AtomicInv
  <2>1. [Next]_vars
    OBVIOUS
  <2>2. TypeInv' /\ IdsInv' /\ IdleInv' /\ DraftInv'
    BY <2>1, TypeInvStep, IdsInvStep, IdleInvStep, DraftInvStep
  <2>3. OneRequestPerInvoice'
    BY DEF AloneInv, OneRequestPerInvoice, At, vars
  <2>4. AloneInv'
    BY <2>1, <2>3, UpToDateStep DEF AloneInv
  <2>5. OnePaymentAtATime'
    BY <2>2, <2>3, AloneImpliesOnePayment
  <2>6. BalanceInv'
    BY <2>1, <2>5, BalanceInvStep
  <2>7. StatusInv'
    BY <2>1, StatusInvStep
  <2>. QED
    BY <2>2, <2>4, <2>6, <2>7 DEF SerialInv
<1>3. AccountInv => StatusTellsBalance
  <2>. SUFFICES ASSUME AccountInv, NEW i \in Invoices
                PROVE  /\ invoice[i].status = "SENT" => Received(i) = 0
                       /\ invoice[i].status = "PARTIALLY_PAID" =>
                            /\ Received(i) \in 1 .. invoice[i].total
                            /\ Received(i) = invoice[i].total => \E p, q \in PaymentsOf(i) : p # q
                       /\ invoice[i].status = "PAID" => Received(i) = invoice[i].total
    BY DEF StatusTellsBalance
  <2>1. /\ invoice[i].amountPaid = Received(i)
        /\ invoice[i].amountDue = invoice[i].total - Received(i)
        /\ invoice[i].total \in Int
        /\ invoice[i].amountPaid \in Int
    BY DEF AccountInv, SerialInv, BalanceInv, Balanced, TypeInv, TypeOK, Row
  <2>. QED
    BY <2>1 DEF AccountInv, StatusInv, PaidTwice
<1>. QED
  BY <1>1, <1>2, <1>3, PTL DEF SerialSpec

-----------------------------------------------------------------------------
(* Sends. *)

\* An invoice whose job is about to be added has none.
SentInv ==
    /\ SentOnce
    /\ \A c \in Clients : req[c].step = "send.enqueue" => pdfJobs[req[c].invoice] = 0

LEMMA SentInvStep ==
    ASSUME AtomicInv, DraftInv, SentInv, [Next]_vars
    PROVE  SentInv'
<1>. USE DEF AtomicInv, TypeInv, TypeOK
<1>1. ASSUME NEW c \in Clients, SendEnqueue(c) PROVE SentInv'
  <2>. DEFINE i == req[c].invoice
  <2>1. /\ req[c].step = "send.enqueue"
        /\ i \in Invoices
        /\ pdfJobs[i] = 0
    BY <1>1 DEF SendEnqueue, At, RequestOK, SentInv
  <2>2. /\ pdfJobs' = [pdfJobs EXCEPT ![i] = 1]
        /\ req' = [req EXCEPT ![c] = Idle]
    BY <1>1, <2>1 DEF SendEnqueue, Finish
  <2>3. \A d \in Clients \ {c} : req[d].step = "send.enqueue" =>
          req[d].invoice \in Invoices \ {i}
    BY <2>1 DEF RequestOK, AloneInv, OneRequestPerInvoice, At
  <2>. QED
    BY <2>1, <2>2, <2>3 DEF SentInv, SentOnce, Idle
<1>2. ASSUME NEW c \in Clients, SendWrite(c) PROVE SentInv'
  <2>1. /\ req[c].invoice \in Invoices
        /\ invoice[req[c].invoice].status = "DRAFT"
    BY <1>2 DEF SendWrite, At, RequestOK, AloneInv, UpToDate
  <2>2. pdfJobs[req[c].invoice] = 0
    BY <2>1 DEF DraftInv, Untouched
  <2>3. /\ UNCHANGED pdfJobs
        /\ req'[c].invoice = req[c].invoice
        /\ \A d \in Clients \ {c} : req'[d] = req[d]
    BY <1>2 DEF SendWrite, Goto, Request
  <2>. QED
    BY <2>2, <2>3 DEF SentInv, SentOnce
<1>3. ASSUME UNCHANGED pdfJobs,
             \A c \in Clients : req'[c] = req[c] \/ req'[c].step # "send.enqueue"
      PROVE  SentInv'
  BY <1>3 DEF SentInv, SentOnce
<1>4. ASSUME NEW c \in Clients, TakeLock(c) \/ VoidRead(c)
      PROVE  /\ UNCHANGED pdfJobs
             /\ \A d \in Clients : req'[d] = req[d] \/ req'[d].step # "send.enqueue"
  BY <1>4 DEF TakeLock, RecordUpdate, VoidUpdate, VoidRead, Goto, Request
<1>5. ASSUME NEW c \in Clients, RecordCommit(c) \/ VoidCommit(c) \/ VoidMissing(c)
               \/ CancelWrite(c) \/ EditWrite(c) \/ Fail(c)
      PROVE  /\ UNCHANGED pdfJobs
             /\ \A d \in Clients : req'[d] = req[d] \/ req'[d].step # "send.enqueue"
  BY <1>5 DEF RecordCommit, VoidCommit, VoidMissing, CancelWrite, EditWrite, Fail, Finish, Idle
<1>6. ASSUME NEW c \in Clients, Begin(c)
      PROVE  /\ UNCHANGED pdfJobs
             /\ \A d \in Clients : req'[d] = req[d] \/ req'[d].step # "send.enqueue"
  <2>1. CASE RecordRead(c)
    BY <2>1 DEF RecordRead
  <2>2. CASE VoidFind(c)
    BY <2>2 DEF VoidFind
  <2>3. ASSUME NEW i, NEW accepted, NEW step, NEW n, step # "send.enqueue",
               ReadStatus(c, i, accepted, step, n)
        PROVE  /\ UNCHANGED pdfJobs
               /\ \A d \in Clients : req'[d] = req[d] \/ req'[d].step # "send.enqueue"
    BY <2>3 DEF ReadStatus, Idle
  <2>. QED
    BY <1>6, <2>1, <2>2, <2>3 DEF Begin, SendRead, CancelRead, EditRead
<1>7. CASE UNCHANGED <<pdfJobs, req>>
  BY <1>3, <1>7
<1>. QED
  BY <1>1, <1>2, <1>3, <1>4, <1>5, <1>6, <1>7 DEF Next, AutoWrite, Proceed, Create, vars

\* While requests on an invoice do not overlap, its PDF is ordered at most once.
THEOREM OrderedOnce == SerialSpec => []SentOnce
<1>. DEFINE Inv == DraftInv /\ SentInv
<1>1. Init => Inv
  <2>1. Init => SentInv
    BY DEF Init, SentInv, SentOnce, Idle
  <2>. QED
    BY <2>1, DraftInvInit
<1>2. AtomicInv /\ Inv /\ [Next /\ OneRequestPerInvoice']_vars => Inv'
  <2>. SUFFICES ASSUME AtomicInv, Inv, [Next]_vars PROVE Inv'
    OBVIOUS
  <2>. QED
    BY DraftInvStep, SentInvStep DEF AtomicInv
<1>3. Inv => SentOnce
  BY DEF SentInv
<1>. QED
  BY <1>1, <1>2, <1>3, AtomicInvHolds, PTL DEF SerialSpec

=============================================================================
