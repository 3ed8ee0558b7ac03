-------------------------------- MODULE Ledger --------------------------------
(***************************************************************************)
(* The invoice ledger: payments.service.ts and the status operations of    *)
(* invoices.service.ts, over the two tables they share.                    *)
(*                                                                         *)
(* Requests run concurrently (Node.js interleaves them at every await, and *)
(* the service may have several replicas).  prisma.$transaction opens a    *)
(* PostgreSQL transaction at the default isolation level READ COMMITTED:   *)
(* a read sees the rows committed so far and takes no lock, an UPDATE      *)
(* locks its row until the transaction ends, and the writes become visible *)
(* at the commit.  An UPDATE outside a transaction waits for the row lock  *)
(* and commits at once.                                                    *)
(***************************************************************************)
EXTENDS Tables

CONSTANT Clients    \* the requests the server can have in flight

ASSUME SentinelAssumption ==
    /\ None \notin Invoices
    /\ None \notin PaymentIds
    /\ None \notin Clients
    /\ Clients # {}

VARIABLES
    usedIds,   \* the payment uuids already generated
    lockedBy,  \* the client whose transaction holds the row lock of an invoice
    req,       \* what each client's request has done and remembers
    pdfJobs    \* the jobs send() has put on the pdf-generation queue

vars == <<invoice, payments, usedIds, lockedBy, req, pdfJobs>>

-----------------------------------------------------------------------------
(* The state of a request. *)

NoColumns == [amountPaid |-> 0, amountDue |-> 0, status |-> "DRAFT"]
NoPayment == [id |-> None, invoice |-> None, amount |-> 0]

\* The statement a request executes next.
Steps == {"idle", "record.update", "record.commit",
          "void.read", "void.update", "void.commit",
          "send.write", "send.enqueue", "cancel.write", "edit.write"}

\* Its local variables.
Request == [step : Steps, invoice : Invoices \cup {None},
            payment : Payment \cup {NoPayment},
            columns : Columns, notes : Notes \cup {None}]

Idle == [step |-> "idle", invoice |-> None, payment |-> NoPayment,
         columns |-> NoColumns, notes |-> None]

-----------------------------------------------------------------------------
(* Requests and transactions. *)

At(c, step) == req[c].step = step

Goto(c, step) == req' = [req EXCEPT ![c].step = step]

Finish(c) == req' = [req EXCEPT ![c] = Idle]

\* The row lock an UPDATE needs, and the row lock a transaction keeps.
Unlocked(i) == lockedBy[i] = None
Lock(c, i)  == Unlocked(i) /\ lockedBy' = [lockedBy EXCEPT ![i] = c]
Release(c)  == lockedBy' = [i \in Invoices |->
                              IF lockedBy[i] = c THEN None ELSE lockedBy[i]]

Init ==
    /\ invoice = [i \in Invoices |-> AbsentRow]
    /\ payments = {}
    /\ usedIds = {}
    /\ lockedBy = [i \in Invoices |-> None]
    /\ req = [c \in Clients |-> Idle]
    /\ pdfJobs = [i \in Invoices |-> 0]

\* Fault: the numeric columns default to NULL.
CreateFault(i) ==
    /\ ~Exists(i)
    /\ \E t \in Totals, n \in Notes :
         invoice' = [invoice EXCEPT ![i] =
             [total |-> Decimal2(t), amountPaid |-> None, amountDue |-> Decimal2(t),
              status |-> "DRAFT", notes |-> n]]
    /\ UNCHANGED <<payments, usedIds, lockedBy, req, pdfJobs>>

\* InvoicesService.create: one transaction, seen by others when it commits.
Create(i) ==
    /\ ~Exists(i)
    /\ \E t \in Totals, n \in Notes :
         invoice' = [invoice EXCEPT ![i] =
             [total |-> Decimal2(t), amountPaid |-> 0, amountDue |-> Decimal2(t),
              status |-> "DRAFT", notes |-> n]]
    /\ UNCHANGED <<payments, usedIds, lockedBy, req, pdfJobs>>

-----------------------------------------------------------------------------
(* PaymentsService.recordPayment *)

\* The transaction reads the invoice and validates; a refusal changes nothing.
\* The INSERT of the payment is invisible until the commit.
RecordRead(c) ==
    /\ At(c, "idle")
    /\ \E i \in Invoices, a \in Amounts, id \in PaymentIds \ usedIds :
         /\ Payable(i)
         /\ a <= invoice[i].amountDue
         /\ \E columns \in AfterPayment(invoice[i], a) :
              req' = [req EXCEPT ![c] =
                [step |-> "record.update", invoice |-> i,
                 payment |-> [id |-> id, invoice |-> i, amount |-> Decimal2(a)],
                 columns |-> columns, notes |-> None]]
         /\ usedIds' = usedIds \cup {id}
    /\ UNCHANGED <<invoice, payments, lockedBy, pdfJobs>>

\* tx.invoice.update: waits for the row lock and keeps it.
RecordUpdate(c) ==
    /\ At(c, "record.update")
    /\ Lock(c, req[c].invoice)
    /\ Goto(c, "record.commit")
    /\ UNCHANGED <<invoice, payments, usedIds, pdfJobs>>

RecordCommit(c) ==
    /\ At(c, "record.commit")
    /\ payments' = payments \cup {req[c].payment}
    /\ invoice' = [invoice EXCEPT ![req[c].invoice] = WithColumns(@, req[c].columns)]
    /\ Release(c)
    /\ Finish(c)
    /\ UNCHANGED <<usedIds, pdfJobs>>

-----------------------------------------------------------------------------
(* PaymentsService.voidPayment *)

VoidFind(c) ==
    /\ At(c, "idle")
    /\ \E p \in payments :
         req' = [req EXCEPT ![c] = [step |-> "void.read", invoice |-> p.invoice,
                    payment |-> p, columns |-> NoColumns, notes |-> None]]
    /\ UNCHANGED <<invoice, payments, usedIds, lockedBy, pdfJobs>>

VoidRead(c) ==
    /\ At(c, "void.read")
    /\ req' = [req EXCEPT ![c].step = "void.update",
                          ![c].columns = AfterVoid(invoice[req[c].invoice],
                                                   req[c].payment.amount)]
    /\ UNCHANGED <<invoice, payments, usedIds, lockedBy, pdfJobs>>

VoidUpdate(c) ==
    /\ At(c, "void.update")
    /\ Lock(c, req[c].invoice)
    /\ Goto(c, "void.commit")
    /\ UNCHANGED <<invoice, payments, usedIds, pdfJobs>>

\* tx.payment.delete finds its row, and the transaction commits.
VoidCommit(c) ==
    /\ At(c, "void.commit")
    /\ req[c].payment \in payments
    /\ payments' = payments \ {req[c].payment}
    /\ invoice' = [invoice EXCEPT ![req[c].invoice] = WithColumns(@, req[c].columns)]
    /\ Release(c)
    /\ Finish(c)
    /\ UNCHANGED <<usedIds, pdfJobs>>

\* Fault: deleteMany, which does not throw when it finds nothing.
VoidMissingFault(c) ==
    /\ At(c, "void.commit")
    /\ req[c].payment \notin payments
    /\ invoice' = [invoice EXCEPT ![req[c].invoice] = WithColumns(@, req[c].columns)]
    /\ Release(c)
    /\ Finish(c)
    /\ UNCHANGED <<payments, usedIds, pdfJobs>>

\* The payment is gone: delete throws and the UPDATE is rolled back.
VoidMissing(c) ==
    /\ At(c, "void.commit")
    /\ req[c].payment \notin payments
    /\ Release(c)
    /\ Finish(c)
    /\ UNCHANGED <<invoice, payments, usedIds, pdfJobs>>

-----------------------------------------------------------------------------
(* InvoicesService.send, cancel and update: a read, then an UPDATE of its own. *)

\* The read finds the invoice in a status the handler accepts.
ReadStatus(c, i, accepted, step, n) ==
    /\ At(c, "idle")
    /\ invoice[i].status \in accepted
    /\ req' = [req EXCEPT ![c] = [Idle EXCEPT !.step = step, !.invoice = i, !.notes = n]]
    /\ UNCHANGED <<invoice, payments, usedIds, lockedBy, pdfJobs>>

\* Fault: an invoice may be sent again.
SendReadFault(c) == \E i \in Invoices :
    ReadStatus(c, i, {"DRAFT", "SENT"}, "send.write", None)

\* Fault: the job is added before the status is written, which then fails.
SendQueueFault(c) == \E i \in Invoices : ReadStatus(c, i, {"DRAFT"}, "send.enqueue", None)

SendRead(c) == \E i \in Invoices : ReadStatus(c, i, {"DRAFT"}, "send.write", None)

SendWrite(c) ==
    /\ At(c, "send.write")
    /\ Unlocked(req[c].invoice)
    /\ invoice' = [invoice EXCEPT ![req[c].invoice].status = "SENT"]
    /\ Goto(c, "send.enqueue")
    /\ UNCHANGED <<payments, usedIds, lockedBy, pdfJobs>>

SendEnqueue(c) ==
    /\ At(c, "send.enqueue")
    /\ pdfJobs' = [pdfJobs EXCEPT ![req[c].invoice] = @ + 1]
    /\ Finish(c)
    /\ UNCHANGED <<invoice, payments, usedIds, lockedBy>>

\* Fault: a paid invoice may be cancelled.
CancelReadFault(c) == \E i \in Invoices :
    ReadStatus(c, i, InvoiceStatus \ {"CANCELLED"}, "cancel.write", None)

CancelRead(c) == \E i \in Invoices :
    ReadStatus(c, i, InvoiceStatus \ {"PAID", "CANCELLED"}, "cancel.write", None)

CancelWrite(c) ==
    /\ At(c, "cancel.write")
    /\ Unlocked(req[c].invoice)
    /\ invoice' = [invoice EXCEPT ![req[c].invoice].status = "CANCELLED"]
    /\ Finish(c)
    /\ UNCHANGED <<payments, usedIds, lockedBy, pdfJobs>>

\* Fault: an invoice may be edited until it is paid.
EditReadFault(c) == \E i \in Invoices, n \in Notes :
    ReadStatus(c, i, {"DRAFT", "SENT"}, "edit.write", n)

EditRead(c) == \E i \in Invoices, n \in Notes :
    ReadStatus(c, i, {"DRAFT"}, "edit.write", n)

EditWrite(c) ==
    /\ At(c, "edit.write")
    /\ Unlocked(req[c].invoice)
    /\ invoice' = [invoice EXCEPT ![req[c].invoice].notes = req[c].notes]
    /\ Finish(c)
    /\ UNCHANGED <<payments, usedIds, lockedBy, pdfJobs>>

\* Fault: a request that fails leaves its transaction open.
FailFault(c) ==
    /\ ~At(c, "idle")
    /\ Finish(c)
    /\ UNCHANGED <<invoice, payments, usedIds, lockedBy, pdfJobs>>

\* Fault: what the transaction has updated is kept when it fails.
FailKeepsFault(c) ==
    /\ ~At(c, "idle")
    /\ invoice' = IF At(c, "record.commit")
                  THEN [invoice EXCEPT ![req[c].invoice] = WithColumns(@, req[c].columns)]
                  ELSE invoice
    /\ Release(c)
    /\ Finish(c)
    /\ UNCHANGED <<payments, usedIds, pdfJobs>>

\* A crash, a lost connection or the transaction timeout ends a request at any
\* step: the open transaction is rolled back, what was committed stays.
Fail(c) ==
    /\ ~At(c, "idle")
    /\ Release(c)
    /\ Finish(c)
    /\ UNCHANGED <<invoice, payments, usedIds, pdfJobs>>

-----------------------------------------------------------------------------

Begin(c)     == RecordRead(c) \/ VoidFind(c) \/ SendRead(c) \/ CancelRead(c) \/ EditRead(c)
TakeLock(c)  == RecordUpdate(c) \/ VoidUpdate(c)
AutoWrite(c) == SendWrite(c) \/ CancelWrite(c) \/ EditWrite(c)
Proceed(c)   == RecordCommit(c) \/ VoidRead(c) \/ VoidCommit(c) \/ VoidMissing(c)
                  \/ SendEnqueue(c)

Next ==
    \/ \E i \in Invoices : Create(i)
    \/ \E c \in Clients :
         Begin(c) \/ TakeLock(c) \/ AutoWrite(c) \/ Proceed(c) \/ Fail(c)

Spec == Init /\ [][Next]_vars

\* PostgreSQL queues the waiters of a row lock, so a lock that is released over
\* and over is obtained; every other step of a request only needs the server to
\* keep running it.  Requests need not arrive and nothing has to fail.
Fairness == \A c \in Clients :
    /\ SF_vars(TakeLock(c))
    /\ SF_vars(AutoWrite(c))
    /\ WF_vars(Proceed(c))

FairSpec == Spec /\ Fairness

\* The payment requests of one invoice do not overlap, except that one payment
\* may be voided by several requests at once.
OnPayment(c) == req[c].payment # NoPayment

OnePaymentAtATime == \A c, d \in Clients :
    (OnPayment(c) /\ OnPayment(d) /\ req[c].invoice = req[d].invoice)
        => req[c].payment = req[d].payment

PaymentSerialSpec == Init /\ [][Next /\ OnePaymentAtATime']_vars

\* No two requests on one invoice overlap.
OneRequestPerInvoice == \A c, d \in Clients :
    (~At(c, "idle") /\ c # d) => req[c].invoice # req[d].invoice

SerialSpec == Init /\ [][Next /\ OneRequestPerInvoice']_vars

\* What that amounts to.
Atomic == INSTANCE AtomicLedger

-----------------------------------------------------------------------------
(* Properties. *)

\* Every table, lock and request stays well formed.
TypeOK ==
    /\ invoice \in [Invoices -> Row]
    /\ payments \subseteq Payment
    /\ usedIds \subseteq PaymentIds
    /\ lockedBy \in [Invoices -> Clients \cup {None}]
    /\ req \in [Clients -> Request]
    /\ pdfJobs \in [Invoices -> Nat]

\* Whatever requests overlap: while an invoice is a draft nothing was received
\* for it, nothing is deducted from its total and no PDF of it was ordered
\* (recordPayment's refusal list, and no handler writes DRAFT again).
DraftIsUntouched == \A i \in Invoices :
    invoice[i].status = "DRAFT" =>
        /\ PaymentsOf(i) = {}
        /\ pdfJobs[i] = 0
        /\ invoice[i].amountPaid = 0
        /\ invoice[i].amountDue = invoice[i].total

\* Whatever requests overlap, lost updates included: an invoice the ledger calls
\* PAID has nothing due, since status and amounts are columns of one UPDATE and
\* the updates that write only the status never write PAID.
PaidMeansSettled == \A i \in Invoices :
    invoice[i].status = "PAID" => invoice[i].amountDue = 0

\* While the payments of an invoice are handled one at a time, whatever sends,
\* edits and cancellations run meanwhile, whichever step fails and however often
\* one payment is voided at once: the row's amounts are what the payments table
\* adds up to, and no more is received than the invoice asks for.
Balanced == \A i \in Invoices :
    /\ invoice[i].amountPaid = Received(i)
    /\ invoice[i].amountDue = invoice[i].total - Received(i)
    /\ PaymentsOf(i) # {} => invoice[i].amountDue >= 0

\* Without overlapping requests the status says what was received: nothing while
\* SENT, everything when PAID, something while PARTIALLY_PAID.  That may be everything
\* (payments.service.ts:65 compares doubles), but not when it came in one payment.
StatusTellsBalance == \A i \in Invoices :
    /\ invoice[i].status = "SENT" => Received(i) = 0
    /\ invoice[i].status = "PARTIALLY_PAID" =>
         /\ Received(i) \in 1 .. invoice[i].total
         /\ Received(i) = invoice[i].total => \E p, q \in PaymentsOf(i) : p # q
    /\ invoice[i].status = "PAID" => Received(i) = invoice[i].total

\* Without overlapping requests every request takes effect at one moment, on the rows
\* as they are then, or not at all: reads that take no lock, writes of several
\* statements and failures between them do not show.
ActsAtomically == Atomic!Spec

\* Without overlapping requests the editable columns change only in a draft
\* (invoices.service.ts:188 "Only DRAFT invoices can be edited").
EditsOnlyDrafts == [][\A i \in Invoices :
    (Exists(i) /\ invoice'[i].notes # invoice[i].notes)
        => invoice[i].status = "DRAFT"]_vars

\* While requests on an invoice do not overlap, a paid one is not cancelled (cancel
\* refuses it): the money would be booked on an invoice that is void.  It is its
\* status that is tested, so that one fully received and still PARTIALLY_PAID goes.
PaidNeverCancelled == [][\A i \in Invoices :
    invoice[i].status = "PAID" => invoice'[i].status # "CANCELLED"]_vars

\* Without overlapping requests a cancelled invoice is revived only by voiding
\* one of the payments it had: no later payment, send or edit brings it back.
CancelledStays == [][\A i \in Invoices :
    (invoice[i].status = "CANCELLED" /\ invoice'[i].status # "CANCELLED")
        => \E p \in PaymentsOf(i) : p \notin payments']_vars

\* Without overlapping requests an invoice is sent, and its PDF ordered, once,
\* even when it is cancelled, revived by a void or when a send fails half way.
SentOnce == \A i \in Invoices : pdfJobs[i] <= 1

\* payments.service.ts:39 "can't overpay": an invoice never receives more than
\* its total.
NoOverpayment == \A i \in Invoices :
    PaymentsOf(i) # {} => Received(i) <= invoice[i].total

\* A request that has started ends: a transaction waiting for a row lock gets
\* it, since every transaction that holds one commits or is rolled back.
RequestsEnd == \A c \in Clients : ~At(c, "idle") ~> At(c, "idle")

=============================================================================
