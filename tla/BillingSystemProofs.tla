-------------------------- MODULE BillingSystemProofs --------------------------
(***************************************************************************)
(* What is proved about the ledger and the PDF pipeline together, for any  *)
(* number of invoices, requests and workers.                               *)
(*                                                                         *)
(* The pipeline leaves the rows alone, so what is proved of Ledger holds   *)
(* of the system.  On top of it the invariant says what a worker may rely  *)
(* on at each step: a job means that its invoice has left DRAFT, a PDF at  *)
(* hand shows the notes of a row, an UPDATE of pdf_url follows an upload.  *)
(***************************************************************************)
EXTENDS BillingSystem, LedgerProofs

-----------------------------------------------------------------------------
(* What a step of the ledger does to notes, edits and jobs. *)

\* The notes of a row come from its create or from an edit.
NotesEffect(i) ==
    \/ invoice'[i].notes = invoice[i].notes /\ (Exists(i)' => Exists(i))
    \/ ~Exists(i) /\ invoice'[i].notes \in Notes
    \/ Exists(i) /\ \E c \in Clients : EditWrite(c) /\ req[c].invoice = i
                                         /\ invoice'[i].notes = req[c].notes

\* An edit that is about to be written was so before, or found a draft.
EditEffect(c) ==
    At(c, "edit.write")' =>
        \/ At(c, "edit.write") /\ req'[c].notes = req[c].notes
                               /\ req'[c].invoice = req[c].invoice
        \/ req'[c].notes \in Notes /\ invoice[req'[c].invoice].status = "DRAFT"

\* Jobs are added one at a time, by a send.
JobEffect(i) ==
    \/ pdfJobs'[i] = pdfJobs[i]
    \/ /\ pdfJobs'[i] = pdfJobs[i] + 1
       /\ \E c \in Clients : At(c, "send.enqueue") /\ req[c].invoice = i

\* An edit that starts found a draft, and changes nothing yet.
LEMMA EditReadEffects ==
    ASSUME TypeOK, NEW c \in Clients, EditRead(c)
    PROVE  /\ \A i \in Invoices : NotesEffect(i) /\ JobEffect(i)
           /\ \A d \in Clients : EditEffect(d)
<1>1. PICK i \in Invoices, n \in Notes : ReadStatus(c, i, {"DRAFT"}, "edit.write", n)
  BY DEF EditRead
<1>. DEFINE r == [Idle EXCEPT !.step = "edit.write", !.invoice = i, !.notes = n]
<1>2. r.invoice = i /\ r.notes = n
  BY DEF Idle
<1>3. /\ req' = [req EXCEPT ![c] = r]
      /\ invoice[i].status = "DRAFT"
      /\ UNCHANGED <<invoice, pdfJobs>>
  BY <1>1 DEF ReadStatus
<1>. HIDE DEF r
<1>4. \A j \in Invoices : NotesEffect(j) /\ JobEffect(j)
  BY <1>3 DEF NotesEffect, JobEffect, Exists
<1>5. EditEffect(c)
  BY <1>2, <1>3 DEF EditEffect, TypeOK
<1>6. ASSUME NEW d \in Clients, d # c PROVE EditEffect(d)
  BY <1>3, <1>6 DEF EditEffect, TypeOK, At
<1>. QED
  BY <1>4, <1>5, <1>6

\* Every step of the ledger has these effects and no others.
LEMMA LedgerEffects ==
    ASSUME TypeInv, [Next]_vars
    PROVE  /\ \A i \in Invoices : NotesEffect(i) /\ JobEffect(i)
           /\ \A c \in Clients : EditEffect(c)
<1>. DEFINE Effects == /\ \A i \in Invoices : NotesEffect(i) /\ JobEffect(i)
                       /\ \A c \in Clients : EditEffect(c)
<1>. USE DEF TypeInv, NotesEffect, JobEffect, EditEffect, TypeOK, Exists, At
<1>0. Idle.step = "idle"
  BY DEF Idle
<1>1. ASSUME NEW i \in Invoices, Create(i) PROVE Effects
  BY <1>1 DEF Create
<1>2. ASSUME NEW c \in Clients, RecordRead(c) PROVE Effects
  BY <1>2 DEF RecordRead
<1>3. ASSUME NEW c \in Clients, VoidFind(c) PROVE Effects
  BY <1>3 DEF VoidFind
<1>4. ASSUME NEW c \in Clients, SendRead(c) \/ CancelRead(c) PROVE Effects
  BY <1>4 DEF SendRead, CancelRead, ReadStatus, Idle
<1>5. ASSUME NEW c \in Clients, EditRead(c) PROVE Effects
  BY <1>5, EditReadEffects
<1>6. ASSUME NEW c \in Clients, TakeLock(c) \/ VoidRead(c) PROVE Effects
  <2>1. CASE TakeLock(c)
    <3>1. PICK step \in {"record.commit", "void.commit"} : req' = [req EXCEPT ![c].step = step]
      BY <2>1 DEF TakeLock, RecordUpdate, VoidUpdate, Goto
    <3>2. UNCHANGED <<invoice, pdfJobs>>
      BY <2>1 DEF TakeLock, RecordUpdate, VoidUpdate
    <3>. QED
      BY <3>1, <3>2 DEF Request
  <2>2. CASE VoidRead(c)
    BY <2>2 DEF VoidRead
  <2>. QED
    BY <1>6, <2>1, <2>2
<1>7. ASSUME NEW c \in Clients, SendWrite(c) \/ CancelWrite(c) PROVE Effects
  <2>1. req[c].invoice \in Invoices /\ Exists(req[c].invoice)
    BY <1>7 DEF SendWrite, CancelWrite, RequestOK
  <2>2. PICK s : invoice' = [invoice EXCEPT ![req[c].invoice].status = s]
    BY <1>7 DEF SendWrite, CancelWrite
  <2>3. \A i \in Invoices : NotesEffect(i)
    BY <2>1, <2>2 DEF Row
  <2>4. \A d \in Clients : EditEffect(d)
    <3>1. CASE SendWrite(c)
      BY <3>1 DEF SendWrite, Goto
    <3>2. CASE CancelWrite(c)
      BY <1>0, <3>2 DEF CancelWrite, Finish
    <3>. QED
      BY <1>7, <3>1, <3>2
  <2>. QED
    BY <1>7, <2>3, <2>4 DEF SendWrite, CancelWrite
<1>8. ASSUME NEW c \in Clients, EditWrite(c) PROVE Effects
  <2>1. req[c].invoice \in Invoices /\ Exists(req[c].invoice)
    BY <1>8 DEF EditWrite, RequestOK
  <2>. QED
    BY <1>0, <1>8, <2>1 DEF EditWrite, Finish, Row
<1>9. ASSUME NEW c \in Clients, RecordCommit(c) \/ VoidCommit(c) PROVE Effects
  <2>1. req[c].invoice \in Invoices /\ Exists(req[c].invoice)
    BY <1>9 DEF RecordCommit, VoidCommit, RequestOK
  <2>2. WithColumns(invoice[req[c].invoice], req[c].columns).notes
          = invoice[req[c].invoice].notes
    BY <2>1 DEF WithColumns, Row
  <2>. QED
    BY <1>0, <1>9, <2>1, <2>2 DEF RecordCommit, VoidCommit, Finish
<1>10. ASSUME NEW c \in Clients, VoidMissing(c) \/ SendEnqueue(c) \/ Fail(c) PROVE Effects
  BY <1>0, <1>10 DEF VoidMissing, SendEnqueue, Fail, Finish, Request
<1>11. CASE UNCHANGED vars
  BY <1>11 DEF vars
<1>. QED
  BY <1>1, <1>2, <1>3, <1>4, <1>5, <1>6, <1>7, <1>8, <1>9, <1>10, <1>11
  DEF Next, Begin, TakeLock, AutoWrite, Proceed

-----------------------------------------------------------------------------
(* The invariant. *)

\* Rows that are there have notes, and so has an edit that is about to be written.
NotesInv ==
    /\ \A i \in Invoices : Exists(i) => invoice[i].notes \in Notes
    /\ \A c \in Clients : At(c, "edit.write") => req[c].notes \in Notes

\* The queue, and the bucket.
QueueOK ==
    /\ active \subseteq Pdf!Jobs
    /\ stalledOnce \subseteq Pdf!Jobs
    /\ failed \subseteq Pdf!Jobs \ active
    /\ completed \subseteq Pdf!Jobs \ (active \cup failed)

BucketOK ==
    /\ objects \in [Invoices -> Notes \cup {None}]
    /\ pdfUrl \in [Invoices -> BOOLEAN]
    /\ \A i \in Invoices : pdfUrl[i] => objects[i] # None
    /\ \A i \in Invoices : objects[i] # None => pdfJobs[i] > 0

\* What a worker relies on at each of its steps.
WorkersOK ==
    /\ worker \in [Workers -> WorkerState]
    /\ \A w \in Workers :
         /\ worker[w].step # "idle" => worker[w].job \in Pdf!Jobs
         /\ worker[w].step = "upload" => worker[w].pdf # None
         /\ worker[w].step = "update" => objects[worker[w].job[1]] # None

PipelineInv == QueueOK /\ BucketOK /\ WorkersOK

LedgerInv == TypeInv /\ DraftInv /\ NotesInv

SystemInv == LedgerInv /\ PipelineInv

\* The invariant holds initially, when there is nothing.
LEMMA SystemInvInit == SystemInit => SystemInv
<1>. SUFFICES ASSUME SystemInit PROVE SystemInv
  OBVIOUS
<1>1. TypeInv /\ DraftInv
  BY TypeInvInit, DraftInvInit DEF SystemInit
<1>2. NotesInv
  BY DEF SystemInit, Init, NotesInv, Exists, AbsentRow, At, Idle
<1>3. QueueOK /\ BucketOK
  BY DEF SystemInit, Pdf!Init, QueueOK, BucketOK
<1>4. WorkersOK
  BY DEF SystemInit, Pdf!Init, Pdf!IdleWorker, Pdf!Steps, WorkersOK, WorkerState
<1>. QED
  BY <1>1, <1>2, <1>3, <1>4 DEF SystemInv, LedgerInv, PipelineInv

\* The ledger keeps its own invariant, whoever else is in the system.
LEMMA LedgerInvStep == LedgerInv /\ [Next]_vars => LedgerInv'
<1>. SUFFICES ASSUME LedgerInv, [Next]_vars PROVE LedgerInv'
  OBVIOUS
<1>1. TypeInv /\ DraftInv /\ NotesInv
  BY DEF LedgerInv
<1>2. TypeInv' /\ DraftInv'
  BY <1>1, TypeInvStep, DraftInvStep
<1>3. /\ \A i \in Invoices : NotesEffect(i)
      /\ \A c \in Clients : EditEffect(c)
  BY <1>1, LedgerEffects
<1>4. ASSUME NEW i \in Invoices, Exists(i)' PROVE invoice'[i].notes \in Notes
  BY <1>1, <1>3, <1>4 DEF NotesInv, NotesEffect, EditWrite
<1>5. ASSUME NEW c \in Clients, At(c, "edit.write")' PROVE req'[c].notes \in Notes
  BY <1>1, <1>3, <1>5 DEF NotesInv, EditEffect
<1>. QED
  BY <1>2, <1>4, <1>5 DEF LedgerInv, NotesInv

\* A job is of an invoice that has left DRAFT, whose row is there.
LEMMA JobsAreOfSentInvoices ==
    ASSUME LedgerInv, NEW j \in Pdf!Jobs
    PROVE  /\ j[1] \in Invoices
           /\ pdfJobs[j[1]] > 0
           /\ invoice[j[1]].notes \in Notes
<1>1. PICK i \in Invoices : \E n \in 1 .. pdfJobs[i] : j = <<i, n>>
  BY DEF Pdf!Jobs, Pdf!JobsOf
<1>2. pdfJobs[i] \in Nat
  BY DEF LedgerInv, TypeInv, TypeOK
<1>3. pdfJobs[i] > 0
  BY <1>1, <1>2
<1>4. Exists(i)
  BY <1>3 DEF LedgerInv, DraftInv, Untouched, Exists
<1>. QED
  BY <1>1, <1>3, <1>4 DEF LedgerInv, NotesInv

\* No job is taken back.
LEMMA JobsGrow ==
    ASSUME TypeInv, [Next]_vars
    PROVE  /\ Pdf!Jobs \subseteq Pdf!Jobs'
           /\ \A i \in Invoices : pdfJobs[i] > 0 => pdfJobs'[i] > 0
<1>1. \A i \in Invoices : pdfJobs[i] \in Nat /\ pdfJobs'[i] \in {pdfJobs[i], pdfJobs[i] + 1}
  BY LedgerEffects DEF TypeInv, TypeOK, JobEffect
<1>2. \A i \in Invoices : 1 .. pdfJobs[i] \subseteq 1 .. pdfJobs'[i]
  BY <1>1
<1>. QED
  BY <1>1, <1>2 DEF Pdf!Jobs, Pdf!JobsOf

\* Whatever a request does, the pipeline's invariant stays.
LEMMA LedgerKeepsPipeline ==
    ASSUME SystemInv, [Next]_vars, UNCHANGED pdfVars
    PROVE  PipelineInv'
<1>1. /\ Pdf!Jobs \subseteq Pdf!Jobs'
      /\ \A i \in Invoices : pdfJobs[i] > 0 => pdfJobs'[i] > 0
  BY JobsGrow DEF SystemInv, LedgerInv
<1>2. QueueOK'
  BY <1>1 DEF SystemInv, PipelineInv, QueueOK, pdfVars
<1>3. BucketOK'
  BY <1>1 DEF SystemInv, PipelineInv, BucketOK, pdfVars
<1>4. WorkersOK'
  <2>1. worker' \in [Workers -> WorkerState']
    BY <1>1 DEF SystemInv, PipelineInv, WorkersOK, WorkerState, pdfVars
  <2>. QED
    BY <1>1, <2>1 DEF SystemInv, PipelineInv, WorkersOK, pdfVars
<1>. QED
  BY <1>2, <1>3, <1>4 DEF PipelineInv

\* So it does whatever a worker or the queue does: a worker has its job and its PDF.
LEMMA PipelineKeepsItself ==
    ASSUME SystemInv, Pdf!Next, UNCHANGED vars
    PROVE  PipelineInv'
<1>. USE DEF QueueOK, BucketOK, WorkersOK, WorkerState, Pdf!At, Pdf!Goto, Pdf!InvoiceOf
<1>0. QueueOK /\ BucketOK /\ WorkersOK /\ LedgerInv
  BY DEF SystemInv, PipelineInv
<1>1. /\ Pdf!Jobs' = Pdf!Jobs
      /\ UNCHANGED <<invoice, pdfJobs>>
  BY DEF vars, Pdf!Jobs, Pdf!JobsOf
<1>2. \A j \in Pdf!Jobs : j[1] \in Invoices /\ pdfJobs[j[1]] > 0 /\ invoice[j[1]].notes # None
  BY <1>0, JobsAreOfSentInvoices, NotesAssumption
<1>3. ASSUME NEW w \in Workers, Pdf!Take(w) PROVE PipelineInv'
  <2>1. PICK j \in Pdf!Jobs :
          /\ j \notin failed \cup completed
          /\ worker' = [worker EXCEPT ![w] =
               [step |-> "fetch", job |-> j, again |-> j \in stalledOnce, pdf |-> None]]
          /\ active' = active \cup {j}
    BY <1>3 DEF Pdf!Take, Pdf!Waiting
  <2>2. UNCHANGED <<stalledOnce, failed, completed, objects, pdfUrl>>
    BY <1>3 DEF Pdf!Take
  <2>3. QueueOK'
    BY <1>0, <1>1, <2>1, <2>2
  <2>4. BucketOK'
    BY <1>0, <1>1, <2>2
  <2>5. WorkersOK'
    BY <1>0, <1>1, <2>1, <2>2 DEF Pdf!Steps
  <2>. QED
    BY <2>3, <2>4, <2>5 DEF PipelineInv
<1>4. ASSUME NEW w \in Workers, Pdf!Fetch(w) PROVE PipelineInv'
  <2>1. QueueOK' /\ BucketOK'
    BY <1>0, <1>1, <1>4 DEF Pdf!Fetch
  <2>2. WorkersOK'
    <3>1. invoice[worker[w].job[1]].notes \in Notes \ {None}
      BY <1>0, <1>4, JobsAreOfSentInvoices, NotesAssumption DEF Pdf!Fetch
    <3>. QED
      BY <1>0, <1>1, <1>4, <3>1 DEF Pdf!Fetch, Pdf!GenerateInvoicePdf, Pdf!Steps
  <2>. QED
    BY <2>1, <2>2 DEF PipelineInv
<1>5. ASSUME NEW w \in Workers, Pdf!Upload(w) PROVE PipelineInv'
  <2>1. /\ worker[w].job \in Pdf!Jobs
        /\ worker[w].pdf \in Notes \ {None}
    BY <1>0, <1>5 DEF Pdf!Upload
  <2>2. QueueOK' /\ BucketOK'
    BY <1>0, <1>1, <1>2, <1>5, <2>1 DEF Pdf!Upload
  <2>3. \A i \in Invoices : objects[i] # None => objects'[i] # None
    BY <1>0, <1>5, <2>1 DEF Pdf!Upload
  <2>4. objects'[worker[w].job[1]] # None
    BY <1>0, <1>2, <1>5, <2>1 DEF Pdf!Upload
  <2>5. WorkersOK'
    BY <1>0, <1>1, <1>2, <1>5, <2>1, <2>3, <2>4 DEF Pdf!Upload, Pdf!Steps
  <2>. QED
    BY <2>2, <2>5 DEF PipelineInv
<1>6. ASSUME NEW w \in Workers, Pdf!UpdateUrl(w) PROVE PipelineInv'
  <2>1. QueueOK' /\ BucketOK'
    BY <1>0, <1>1, <1>2, <1>6 DEF Pdf!UpdateUrl
  <2>2. WorkersOK'
    BY <1>0, <1>1, <1>6 DEF Pdf!UpdateUrl, Pdf!Steps
  <2>. QED
    BY <2>1, <2>2 DEF PipelineInv
<1>7. Pdf!IdleWorker \in WorkerState /\ Pdf!IdleWorker.step = "idle"
  BY DEF Pdf!IdleWorker, Pdf!Steps
<1>8. ASSUME NEW w \in Workers, Pdf!Complete(w) \/ Pdf!Throw(w) \/ Pdf!Crash(w)
      PROVE  PipelineInv'
  <2>1. worker' = [worker EXCEPT ![w] = Pdf!IdleWorker] /\ UNCHANGED objects
    BY <1>8 DEF Pdf!Complete, Pdf!Throw, Pdf!Crash, Pdf!Leave
  <2>2. BucketOK'
    BY <1>0, <1>1, <1>8 DEF Pdf!Complete, Pdf!Throw, Pdf!Crash
  <2>3. WorkersOK'
    BY <1>0, <1>1, <1>7, <2>1
  <2>4. worker[w].job \in Pdf!Jobs
    BY <1>0, <1>8 DEF Pdf!Complete, Pdf!Throw, Pdf!Crash
  <2>5. QueueOK'
    BY <1>0, <1>1, <1>8, <2>4 DEF Pdf!Complete, Pdf!Throw, Pdf!Crash, Pdf!Leave, Pdf!Holds
  <2>. QED
    BY <2>2, <2>3, <2>5 DEF PipelineInv
<1>9. ASSUME NEW j \in Pdf!Jobs, Pdf!Stall(j) PROVE PipelineInv'
  BY <1>0, <1>1, <1>9 DEF Pdf!Stall, PipelineInv
<1>. QED
  BY <1>3, <1>4, <1>5, <1>6, <1>8, <1>9 DEF Pdf!Next, Pdf!Process

\* A step of the system is a step of the ledger or leaves it alone.
LEMMA SystemStepsLedger == [SystemNext]_systemVars => [Next]_vars
  BY DEF SystemNext, systemVars

\* Every step of a request, a worker or the queue keeps the invariant.
LEMMA SystemInvStep == SystemInv /\ [SystemNext]_systemVars => SystemInv'
<1>. SUFFICES ASSUME SystemInv, [SystemNext]_systemVars PROVE SystemInv'
  OBVIOUS
<1>1. LedgerInv'
  BY LedgerInvStep, SystemStepsLedger DEF SystemInv
<1>2. CASE Next /\ UNCHANGED pdfVars
  BY <1>2, LedgerKeepsPipeline, <1>1 DEF SystemInv
<1>3. CASE Pdf!Next /\ UNCHANGED vars
  BY <1>3, PipelineKeepsItself, <1>1 DEF SystemInv
<1>4. CASE UNCHANGED systemVars
  BY <1>4, LedgerKeepsPipeline, <1>1 DEF SystemInv, systemVars
<1>. QED
  BY <1>2, <1>3, <1>4 DEF SystemNext

\* The invariant holds in every state.
LEMMA SystemInvariant == SystemSpec => []SystemInv
  BY SystemInvInit, SystemInvStep, PTL DEF SystemSpec

-----------------------------------------------------------------------------
(* Theorems. *)

\* To the requests the pipeline is not there: the system implements Ledger.
THEOREM SystemRefinesLedger == SystemSpec => Spec
<1>1. SystemInit => Init
  BY DEF SystemInit
<1>. QED
  BY <1>1, SystemStepsLedger, PTL DEF SystemSpec, Spec

\* Every reachable state is well formed, and a job is in one place.
THEOREM SystemTypeCorrect == SystemSpec => []SystemTypeOK
<1>1. SystemInv => SystemTypeOK
  BY DEF SystemInv, LedgerInv, TypeInv, PipelineInv, QueueOK, BucketOK, WorkersOK, SystemTypeOK
<1>. QED
  BY <1>1, SystemInvariant, PTL

\* pdf.processor.ts uploads before it writes pdf_url: whatever crashes, stalls and
\* runs again, a link that is given out leads to a stored PDF.
THEOREM LinksLeadToPdfs == SystemSpec => []DownloadsExist
<1>1. SystemInv => DownloadsExist
  BY DEF SystemInv, PipelineInv, BucketOK, DownloadsExist, Pdf!Downloadable
<1>. QED
  BY <1>1, SystemInvariant, PTL

\* send() writes SENT before it adds the job: no PDF is stored of a draft.
THEOREM PdfsAreOfSentInvoices == SystemSpec => []NoPdfOfDraft
<1>1. SystemInv => NoPdfOfDraft
  BY DEF SystemInv, LedgerInv, DraftInv, Untouched, TypeInv, TypeOK, PipelineInv, BucketOK,
         NoPdfOfDraft
<1>. QED
  BY <1>1, SystemInvariant, PTL

-----------------------------------------------------------------------------
(* What the stored PDF shows, as long as no edit overlaps a send. *)

\* An edit under way is of an invoice without jobs, and a rendered PDF is up to date.
ShowsInv ==
    /\ EditsBeforeSend
    /\ \A c \in Clients : At(c, "edit.write") => pdfJobs[req[c].invoice] = 0
    /\ PdfShowsInvoice
    /\ \A w \in Workers : worker[w].step = "upload" =>
         worker[w].pdf = invoice[worker[w].job[1]].notes

\* Initially nothing is stored or under way.
LEMMA ShowsInvInit == SystemInit => ShowsInv
  BY DEF SystemInit, Init, Pdf!Init, Pdf!IdleWorker, Idle, At, ShowsInv, EditsBeforeSend,
         PdfShowsInvoice

\* A request changes neither the notes of an invoice with jobs nor the jobs of an
\* invoice whose edit is under way.
LEMMA LedgerKeepsShown ==
    ASSUME SystemInv, ShowsInv, [Next]_vars, UNCHANGED pdfVars, EditsBeforeSend'
    PROVE  ShowsInv'
<1>0. LedgerInv /\ TypeInv /\ DraftInv /\ TypeOK /\ RequestOK /\ PipelineInv
  BY DEF SystemInv, LedgerInv, TypeInv
<1>1. /\ \A i \in Invoices : NotesEffect(i) /\ JobEffect(i)
      /\ \A c \in Clients : EditEffect(c)
  BY <1>0, LedgerEffects
<1>2. ASSUME NEW i \in Invoices, pdfJobs[i] > 0 PROVE invoice'[i].notes = invoice[i].notes
  <2>1. Exists(i)
    BY <1>0, <1>2 DEF DraftInv, Untouched, Exists
  <2>2. ASSUME NEW c \in Clients, EditWrite(c), req[c].invoice = i PROVE FALSE
    BY <1>2, <2>2 DEF ShowsInv, EditWrite
  <2>. QED
    BY <1>1, <2>1, <2>2 DEF NotesEffect
<1>3. ASSUME NEW c \in Clients, At(c, "edit.write")' PROVE pdfJobs'[req'[c].invoice] = 0
  <2>. DEFINE i == req'[c].invoice
  <2>1. i \in Invoices
    BY <1>0, <1>3, TypeInvStep DEF TypeInv, RequestOK, At
  <2>2. pdfJobs[i] = 0 /\ ~ \E d \in Clients : At(d, "send.enqueue") /\ req[d].invoice = i
    <3>1. CASE At(c, "edit.write") /\ req'[c].invoice = req[c].invoice
      BY <3>1 DEF ShowsInv, EditsBeforeSend, At
    <3>2. CASE invoice[i].status = "DRAFT"
      BY <1>0, <2>1, <3>2 DEF DraftInv, Untouched, AfterDraftSteps, At
    <3>. QED
      BY <1>1, <1>3, <3>1, <3>2 DEF EditEffect
  <2>. QED
    BY <1>1, <2>1, <2>2 DEF JobEffect
<1>4. PdfShowsInvoice'
  BY <1>0, <1>2 DEF PipelineInv, BucketOK, ShowsInv, PdfShowsInvoice, pdfVars
<1>5. ASSUME NEW w \in Workers, worker'[w].step = "upload"
      PROVE  worker'[w].pdf = invoice'[worker'[w].job[1]].notes
  <2>1. worker' = worker
    BY DEF pdfVars
  <2>2. worker[w].job \in Pdf!Jobs
    BY <1>0, <1>5, <2>1 DEF PipelineInv, WorkersOK
  <2>3. worker[w].job[1] \in Invoices /\ pdfJobs[worker[w].job[1]] > 0
    BY <1>0, <2>2, JobsAreOfSentInvoices
  <2>. QED
    BY <1>2, <1>5, <2>1, <2>3 DEF ShowsInv
<1>. QED
  BY <1>3, <1>4, <1>5 DEF ShowsInv

\* A worker renders and stores what the row shows.
LEMMA PipelineKeepsShown ==
    ASSUME SystemInv, ShowsInv, Pdf!Next, UNCHANGED vars
    PROVE  ShowsInv'
<1>. USE DEF Pdf!At, Pdf!Goto, Pdf!InvoiceOf
<1>0. /\ \A w \in Workers : worker[w].step = "upload" =>
           worker[w].pdf = invoice[worker[w].job[1]].notes
      /\ worker \in [Workers -> WorkerState]
      /\ objects \in [Invoices -> Notes \cup {None}]
      /\ PdfShowsInvoice
  BY DEF ShowsInv, SystemInv, PipelineInv, BucketOK, WorkersOK
<1>1. UNCHANGED <<invoice, pdfJobs, req>>
  BY DEF vars
<1>2. EditsBeforeSend' /\ \A c \in Clients : At(c, "edit.write")' => pdfJobs'[req'[c].invoice] = 0
  BY <1>1 DEF ShowsInv, EditsBeforeSend, At
<1>. DEFINE Shown == /\ PdfShowsInvoice'
                     /\ \A w \in Workers : worker'[w].step = "upload" =>
                          worker'[w].pdf = invoice'[worker'[w].job[1]].notes
<1>3. ASSUME NEW w \in Workers, Pdf!Fetch(w) PROVE Shown
  BY <1>0, <1>1, <1>3 DEF Pdf!Fetch, Pdf!GenerateInvoicePdf, PdfShowsInvoice, WorkerState
<1>4. ASSUME NEW w \in Workers, Pdf!Upload(w) PROVE Shown
  BY <1>0, <1>1, <1>4 DEF Pdf!Upload, PdfShowsInvoice, WorkerState
<1>5. ASSUME NEW w \in Workers, Pdf!UpdateUrl(w) PROVE Shown
  BY <1>0, <1>1, <1>5 DEF Pdf!UpdateUrl, PdfShowsInvoice, WorkerState
<1>6. ASSUME NEW w \in Workers, Pdf!Take(w) PROVE Shown
  BY <1>0, <1>1, <1>6 DEF Pdf!Take, PdfShowsInvoice
<1>7. ASSUME NEW w \in Workers, Pdf!Complete(w) \/ Pdf!Throw(w) \/ Pdf!Crash(w) PROVE Shown
  BY <1>0, <1>1, <1>7
     DEF Pdf!Complete, Pdf!Throw, Pdf!Crash, Pdf!Leave, Pdf!IdleWorker, PdfShowsInvoice
<1>8. ASSUME NEW j \in Pdf!Jobs, Pdf!Stall(j) PROVE Shown
  BY <1>0, <1>1, <1>8 DEF Pdf!Stall, PdfShowsInvoice
<1>9. Shown
  BY <1>3, <1>4, <1>5, <1>6, <1>7, <1>8 DEF Pdf!Next, Pdf!Process
<1>. QED
  BY <1>2, <1>9 DEF ShowsInv

\* Every step that lets an accepted edit be written first keeps the PDFs up to date.
LEMMA ShowsInvStep ==
    SystemInv /\ ShowsInv /\ [SystemNext /\ EditsBeforeSend']_systemVars => ShowsInv'
<1>. SUFFICES ASSUME SystemInv, ShowsInv, [SystemNext /\ EditsBeforeSend']_systemVars
              PROVE  ShowsInv'
  OBVIOUS
<1>1. CASE Next /\ UNCHANGED pdfVars /\ EditsBeforeSend'
  BY <1>1, LedgerKeepsShown
<1>2. CASE Pdf!Next /\ UNCHANGED vars
  BY <1>2, PipelineKeepsShown
<1>3. CASE UNCHANGED systemVars
  BY <1>3, LedgerKeepsShown DEF systemVars, ShowsInv, EditsBeforeSend, At, vars
<1>. QED
  BY <1>1, <1>2, <1>3 DEF SystemNext

\* As long as no edit that was accepted is overtaken by a send, the stored PDF shows
\* the invoice as it is, however many jobs and workers race.
THEOREM PdfsAreUpToDate == OrderlyEditsSpec => []PdfShowsInvoice
<1>1. [SystemNext /\ EditsBeforeSend']_systemVars => [SystemNext]_systemVars
  OBVIOUS
<1>2. ShowsInv => PdfShowsInvoice
  BY DEF ShowsInv
<1>. QED
  BY <1>1, <1>2, SystemInvInit, SystemInvStep, ShowsInvInit, ShowsInvStep, PTL
     DEF OrderlyEditsSpec
=============================================================================
