----------------------------- MODULE AtomicLedger -----------------------------
(***************************************************************************)
(* What the ledger promises: every request takes effect at one moment, on  *)
(* the rows as they are at that moment, or not at all.                     *)
(***************************************************************************)
EXTENDS Tables

tables == <<invoice, payments>>

Init ==
    /\ invoice = [i \in Invoices |-> AbsentRow]
    /\ payments = {}

Create(i) ==
    /\ ~Exists(i)
    /\ \E t \in Totals, n \in Notes :
         invoice' = [invoice EXCEPT ![i] =
             [total |-> Decimal2(t), amountPaid |-> 0, amountDue |-> Decimal2(t),
              status |-> "DRAFT", notes |-> n]]
    /\ UNCHANGED payments

RecordPayment(i) ==
    /\ Payable(i)
    /\ \E a \in Amounts, id \in PaymentIds \ {p.id : p \in payments} :
         /\ a <= invoice[i].amountDue
         /\ payments' = payments \cup {[id |-> id, invoice |-> i, amount |-> Decimal2(a)]}
         /\ \E columns \in AfterPayment(invoice[i], a) :
              invoice' = [invoice EXCEPT ![i] = WithColumns(@, columns)]

VoidPayment(p) ==
    /\ payments' = payments \ {p}
    /\ invoice' = [invoice EXCEPT ![p.invoice] = WithColumns(@, AfterVoid(@, p.amount))]

SetStatus(i, accepted, status) ==
    /\ invoice[i].status \in accepted
    /\ invoice' = [invoice EXCEPT ![i].status = status]
    /\ UNCHANGED payments

Send(i)   == SetStatus(i, {"DRAFT"}, "SENT")
Cancel(i) == SetStatus(i, InvoiceStatus \ {"PAID", "CANCELLED"}, "CANCELLED")

Edit(i) ==
    /\ invoice[i].status = "DRAFT"
    /\ \E n \in Notes : invoice' = [invoice EXCEPT ![i].notes = n]
    /\ UNCHANGED payments

Next ==
    \/ \E i \in Invoices :
         Create(i) \/ RecordPayment(i) \/ Send(i) \/ Cancel(i) \/ Edit(i)
    \/ \E p \in payments : VoidPayment(p)

Spec == Init /\ [][Next]_tables

=============================================================================
