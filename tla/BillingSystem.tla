----------------------------- MODULE BillingSystem -----------------------------
(***************************************************************************)
(* The ledger and the PDF pipeline together: send() puts jobs on the queue *)
(* while other requests go on, workers read the rows those requests write  *)
(* and write a column of them.                                             *)
(***************************************************************************)
EXTENDS Ledger

CONSTANT Workers

\* A row that is there has notes.
ASSUME NotesAssumption == None \notin Notes

VARIABLES worker, active, stalledOnce, failed, completed, objects, pdfUrl

Pdf == INSTANCE PdfPipeline

pdfVars    == <<worker, active, stalledOnce, failed, completed, objects, pdfUrl>>
systemVars == <<vars, pdfVars>>

SystemInit == Init /\ Pdf!Init

SystemNext ==
    \/ Next /\ UNCHANGED pdfVars
    \/ Pdf!Next /\ UNCHANGED vars

SystemSpec == SystemInit /\ [][SystemNext]_systemVars

\* An edit that was accepted is written before a send of the invoice starts.
EditsBeforeSend == \A c, d \in Clients :
    (At(c, "edit.write") /\ req[d].step \in {"send.write", "send.enqueue"})
        => req[c].invoice # req[d].invoice

\* The requests are scheduled as in Ledger.  A live worker goes on with its job and
\* takes the next; an UPDATE gets its row lock; BullMQ looks for stalled jobs
\* every 30 s, and finds those no worker holds.  The jobs are finitely many.
Orphaned(j) == ~ \E w \in Workers : Pdf!Holds(w) /\ worker[w].job = j

MaxJobs == Cardinality(Clients)    \* overlapping sends of one invoice

SystemFairness ==
    /\ \A c \in Clients :
         /\ SF_systemVars(TakeLock(c) /\ UNCHANGED pdfVars)
         /\ SF_systemVars(AutoWrite(c) /\ UNCHANGED pdfVars)
         /\ WF_systemVars(Proceed(c) /\ UNCHANGED pdfVars)
    /\ \A w \in Workers :
         /\ WF_systemVars((Pdf!Take(w) \/ Pdf!Process(w)) /\ UNCHANGED vars)
         /\ SF_systemVars(Pdf!UpdateUrl(w) /\ UNCHANGED vars)
    /\ \A i \in Invoices, n \in 1 .. MaxJobs :
         WF_systemVars(Orphaned(<<i, n>>) /\ Pdf!Stall(<<i, n>>) /\ UNCHANGED vars)

FairSystemSpec == SystemSpec /\ SystemFairness

OrderlyEditsSpec ==
    /\ SystemInit
    /\ [][SystemNext /\ EditsBeforeSend']_systemVars
    /\ SystemFairness

-----------------------------------------------------------------------------
(* Properties. *)

WorkerState ==
    [step : Pdf!Steps, job : Pdf!Jobs \cup {None}, again : BOOLEAN, pdf : Notes \cup {None}]

\* The queue, the workers, the bucket and the rows stay well formed, and a job is
\* in one place.
SystemTypeOK ==
    /\ TypeOK
    /\ worker \in [Workers -> WorkerState]
    /\ active \subseteq Pdf!Jobs
    /\ stalledOnce \subseteq Pdf!Jobs
    /\ failed \subseteq Pdf!Jobs \ active
    /\ completed \subseteq Pdf!Jobs \ (active \cup failed)
    /\ objects \in [Invoices -> Notes \cup {None}]
    /\ pdfUrl \in [Invoices -> BOOLEAN]

\* A link getPdfUrl gives out leads to a stored PDF, whichever worker crashed where
\* and however often the job was run (upload comes before the UPDATE).
DownloadsExist == \A i \in Invoices :
    Pdf!Downloadable(i) => objects[i] # None

\* No PDF is stored of an invoice that can still be edited: send() writes SENT
\* before it adds the job, and no status goes back to DRAFT.
NoPdfOfDraft == \A i \in Invoices :
    objects[i] # None => invoice[i].status # "DRAFT"

\* If no edit overlaps a send, the stored PDF shows the invoice as it is, also when
\* several jobs or several runs of a job raced.
PdfShowsInvoice == \A i \in Invoices :
    objects[i] # None => objects[i] = invoice[i].notes

\* An invoice with a job gets its PDF, unless one of its jobs is recorded as failed:
\* a worker that dies does not take the job with it.
JobsSettle == \A i \in Invoices :
    pdfJobs[i] > 0 ~> (pdfUrl[i] \/ \E j \in failed : j[1] = i)

\* README.md:51 "Failed jobs are automatically retried": the first job of an invoice
\* is run again after it failed.
FailedJobsRetried == \A i \in Invoices :
    <<i, 1>> \in failed ~> <<i, 1>> \in active

=============================================================================
