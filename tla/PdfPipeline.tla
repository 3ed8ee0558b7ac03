------------------------------ MODULE PdfPipeline ------------------------------
(***************************************************************************)
(* From the pdf-generation queue to the object store: PdfProcessor.process *)
(* run by BullMQ workers, StorageService.upload, and the URL getPdfUrl     *)
(* gives out.                                                              *)
(*                                                                         *)
(* The queue is external: BullMQ as queue.module.ts and pdf.module.ts set  *)
(* it up, with every option left at its default.  A worker runs one job at *)
(* a time and holds the job's lock; a job whose lock is not renewed, since *)
(* its worker died or lost Redis, is stalled and put back once, and fails  *)
(* the second time.  A job that throws has one attempt and fails at once.  *)
(*                                                                         *)
(* The rows and row locks are those of Ledger.                             *)
(***************************************************************************)
EXTENDS Integers, FiniteSets

CONSTANTS
    Invoices,
    Workers,   \* one per replica of the server
    Notes,
    None

VARIABLES
    invoice,      \* shared with Ledger: the rows
    lockedBy,     \* shared with Ledger: the row locks
    pdfJobs,      \* shared with Ledger: the jobs added for each invoice
    worker,       \* what each worker is doing
    active,       \* the jobs handed to a worker
    stalledOnce,  \* the jobs put back after a stall
    failed,       \* the failed jobs
    completed,    \* the completed jobs
    objects,      \* what the bucket holds for each invoice
    pdfUrl        \* the pdf_url column of each invoice is set

\* The n-th job of an invoice.
JobsOf(i) == {<<i, n>> : n \in 1 .. pdfJobs[i]}
Jobs      == UNION {JobsOf(i) : i \in Invoices}
Waiting   == Jobs \ (active \cup failed \cup completed)

Steps == {"idle", "fetch", "upload", "update", "complete"}

IdleWorker == [step |-> "idle", job |-> None, again |-> FALSE, pdf |-> None]

InvoiceOf(w) == worker[w].job[1]

At(w, step)   == worker[w].step = step
Goto(w, step) == worker' = [worker EXCEPT ![w].step = step]

\* The worker still holds the lock of its job: it was not put back since.
Holds(w) ==
    /\ worker[w].job \in active
    /\ worker[w].again = (worker[w].job \in stalledOnce)

Init ==
    /\ worker = [w \in Workers |-> IdleWorker]
    /\ active = {}
    /\ stalledOnce = {}
    /\ failed = {}
    /\ completed = {}
    /\ objects = [i \in Invoices |-> None]
    /\ pdfUrl = [i \in Invoices |-> FALSE]

\* A worker is given a job that waits.
Take(w) ==
    /\ At(w, "idle")
    /\ \E j \in Waiting :
         /\ worker' = [worker EXCEPT ![w] =
              [step |-> "fetch", job |-> j, again |-> j \in stalledOnce, pdf |-> None]]
         /\ active' = active \cup {j}
    /\ UNCHANGED <<stalledOnce, failed, completed, objects, pdfUrl>>

\* Of what a PDF prints, the columns of the invoice that can be edited: the dates and
\* the notes.  The number, the lines and the totals stay what create made them.  The
\* columns of its customer, which can be edited at any time, are left out.
GenerateInvoicePdf(row) == row.notes

\* findFirst, and the PDF is rendered from the row it returns.  The row is
\* there: invoices are not deleted.
Fetch(w) ==
    /\ At(w, "fetch")
    /\ worker' = [worker EXCEPT ![w].step = "upload",
                                ![w].pdf  = GenerateInvoicePdf(invoice[InvoiceOf(w)])]
    /\ UNCHANGED <<active, stalledOnce, failed, completed, objects, pdfUrl>>

\* Fault: the upload is not waited for and may not have happened yet.
UploadFault(w) ==
    /\ At(w, "upload")
    /\ Goto(w, "update")
    /\ objects' \in {objects, [objects EXCEPT ![InvoiceOf(w)] = worker[w].pdf]}
    /\ UNCHANGED <<active, stalledOnce, failed, completed, pdfUrl>>

\* putObject replaces what the path held.
Upload(w) ==
    /\ At(w, "upload")
    /\ Goto(w, "update")
    /\ objects' = [objects EXCEPT ![InvoiceOf(w)] = worker[w].pdf]
    /\ UNCHANGED <<active, stalledOnce, failed, completed, pdfUrl>>

\* UPDATE invoices SET pdf_url: waits for the row lock, writes no other column.
UpdateUrl(w) ==
    /\ At(w, "update")
    /\ lockedBy[InvoiceOf(w)] = None
    /\ pdfUrl' = [pdfUrl EXCEPT ![InvoiceOf(w)] = TRUE]
    /\ Goto(w, "complete")
    /\ UNCHANGED <<active, stalledOnce, failed, completed, objects>>

\* A worker leaves its job; the queue accepts the outcome if it holds the lock.
Leave(w, outcome, outcome2) ==
    /\ worker' = [worker EXCEPT ![w] = IdleWorker]
    /\ active' = IF Holds(w) THEN active \ {worker[w].job} ELSE active
    /\ outcome2 = IF Holds(w) THEN outcome \cup {worker[w].job} ELSE outcome

\* process returned.
Complete(w) ==
    /\ At(w, "complete")
    /\ Leave(w, completed, completed')
    /\ UNCHANGED <<stalledOnce, failed, objects, pdfUrl>>

\* process threw: the renderer, the object store or the database failed.
Throw(w) ==
    /\ worker[w].step \in {"fetch", "upload", "update"}
    /\ Leave(w, failed, failed')
    /\ UNCHANGED <<stalledOnce, completed, objects, pdfUrl>>

\* The process of a worker dies; its job stays active until it is found stalled.
Crash(w) ==
    /\ ~At(w, "idle")
    /\ worker' = [worker EXCEPT ![w] = IdleWorker]
    /\ UNCHANGED <<active, stalledOnce, failed, completed, objects, pdfUrl>>

\* Faults: stalled jobs are not looked for; a stalled job stays in the active list.
StallFault(j) == FALSE
StallActiveFault(j) ==
    /\ j \in active
    /\ failed' = failed \cup {j}
    /\ UNCHANGED <<worker, active, stalledOnce, completed, objects, pdfUrl>>

\* The lock of an active job expired.
Stall(j) ==
    /\ j \in active
    /\ active' = active \ {j}
    /\ IF j \in stalledOnce
       THEN failed' = failed \cup {j} /\ UNCHANGED stalledOnce
       ELSE stalledOnce' = stalledOnce \cup {j} /\ UNCHANGED failed
    /\ UNCHANGED <<worker, completed, objects, pdfUrl>>

Process(w) == Fetch(w) \/ Upload(w) \/ Complete(w)

Next ==
    \/ \E w \in Workers : Take(w) \/ Process(w) \/ UpdateUrl(w) \/ Throw(w) \/ Crash(w)
    \/ \E j \in Jobs : Stall(j)

\* getPdfUrl signs a URL of the object for an invoice with a pdf_url.
Downloadable(i) == pdfUrl[i]

=============================================================================
