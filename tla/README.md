# A verification of the SaaS invoice system

TLA+ models of the server in `src/src` (NestJS, Prisma, PostgreSQL, BullMQ, MinIO), model-checked with TLC
on small instances, with theorems checked by TLAPS for every value of the constants. Everything is translated
from the code; PostgreSQL, BullMQ, the clock and crashes are modelled from how the code uses them and marked
external in `PROJECT.json`.

## 1. The system

| Part | State | Operations | Talks to |
|---|---|---|---|
| Payments (`payments/`) | `payments`; amounts and status of `invoices` | recordPayment, voidPayment (one transaction each), findByInvoice | the invoice row, through READ COMMITTED transactions |
| Invoices (`invoices/`) | `invoices`, `invoice_line_items` | create (transaction), update, send, cancel (a read, then an UPDATE), findAll, findOne, getPdfUrl | PostgreSQL, the `pdf-generation` queue, the bucket |
| Numbering (in `invoices.service.ts`) | invoice numbers, an advisory lock per tenant | getNextInvoiceNumber | the transaction of create |
| Arithmetic (same file) | none | calculateLineTotal, calculateInvoiceTotals | create |
| Sessions (`auth/`) | `refresh_tokens` | register, login, refreshTokens, logout | PostgreSQL, no transaction |
| PDF pipeline (`pdf/`, `storage/`, `queue/`) | BullMQ queue, objects in MinIO, `pdf_url` | process, upload, getPresignedUrl | send enqueues; the worker reads and writes the invoice row |
| Registration (`auth/`) | `tenants`, `users` | register (transaction, then a session), login | PostgreSQL, the sessions |
| Customers, products | `customers` (hard delete), `products` (soft delete) | create, update, remove, paged lists | foreign keys from invoices |
| Dashboard (`reports/`) | none | getDashboard: six queries in parallel, then one | all tables |
| Metrics, guards, shell | counters | | read by nothing here |

What makes it hard: requests interleave at every `await`, and at READ COMMITTED a read takes no lock, so a
handler may act on a row that has changed; transactions roll back at any step; `send` writes to the database
and then to the queue; the queue delivers at least once; refresh-token rotation is three statements without a
transaction; numbers depend on the order of timestamps. `PROJECT.json` lists each hazard with its line.

What makes each part correct: the amounts of an invoice are the sum of its payments and the status says so; only
drafts are edited, an invoice is sent once, a paid one is not cancelled; numbers are 1..n per tenant; a token is
used once and a closed session stays closed; a link leads to a PDF that shows the invoice, and no job is lost;
rounded amounts add up as far as rounding allows; a slug has one tenant and a tenant its owner; an invoice keeps
its customer; a client that reads a list to its end finds what is in it; what one response puts together from several queries fits together
as far as the commits in between allow.

## 2. Modules

| Module | Models | How it corresponds to the code |
|---|---|---|
| `Tables` | the rows of invoices and payments | shared by the next three: the columns, `Decimal2` and the arithmetic of recordPayment and voidPayment |
| `AtomicLedger` | what the ledger promises | one action per operation, on the rows as they are at that moment |
| `Ledger` | payments and status operations | A client's `req` is a request: its `step` names the statement it executes next, the other fields are the local variables it needs later. `RecordRead`/`VoidRead` take the snapshot, `…Update` waits for the row lock and keeps it, `…Commit` makes the writes visible; `SendRead`/`SendWrite`/`SendEnqueue`, `CancelRead`/`CancelWrite`, `EditRead`/`EditWrite` are statements that commit by themselves. `VoidMissing` is the `delete` that throws, `Fail` any failure. Refines `AtomicLedger` when requests on an invoice do not overlap. |
| `LedgerProofs` | | theorems about `Ledger`, any overlap and one payment at a time |
| `LedgerAtomicProofs` | | theorems about `Ledger` without overlap, the refinement included |
| `Dashboard` | getDashboard and findByInvoice over `AtomicLedger` | one action per query of `Promise.all`, in any order and with commits in between; `QueryCustomers` is the seventh query, the grouping by customer and the cut; `Respond` is the response or the error. `FindInvoice` and `FindPayments` are the two reads of findByInvoice. `touched` and `voided` are history. The list of recent invoices is left out. |
| `DashboardProofs` | | theorems about `Dashboard`, with the laws of sums they rest on |
| `NumberIssuer` | what numbering promises | numbers of a tenant grow from 1..n to 1..n+1 |
| `InvoiceNumbering` | getNextInvoiceNumber in create's transaction | `AcquireLock`, `ReadLast`, `Insert` or `InsertDuplicate`, `Commit`; refines `NumberIssuer` |
| `InvoiceNumberingProofs` | | theorems, the refinement included |
| `RefreshTokens` | login, rotation, reuse detection, logout | one action per statement; `stored` is the table, `delivered` the tokens a client has, `parent`/`closed`/`overlapped` are history for the properties |
| `Accounts` | register, with the sessions of `RefreshTokens` | `RegisterCheck` (lookup, hash), `InsertTenant` and `InsertOwner` (the transaction, its commit in the second), `OpenSession`; `RegisterFail` is a refusal, a crash or a lost connection. Logins need an owner. `reg` is the request. |
| `AccountsProofs` | | theorems about `RefreshTokens` and `Accounts`, and that the sessions of the second are those of the first |
| `Catalogue` | customers, products, the invoices that refer to them, paged lists | `FindCustomer`, `FindProduct` are findOne, the next action of the request its UPDATE or DELETE; `BeginCreate`, `InsertInvoice`, `CommitInvoice` are the parts of create the foreign key sees. `ReadRows` and `ReadTotal` are the two queries of findAll, in either order; `walk` is a client that reads a list to its end, with its history. Rows are ordered by their stamp alone, as in the code: `Places` gives rows of one stamp the same places, and `Pages` lets each page show any of them on those. |
| `CatalogueProofs` | | theorems about `Catalogue`, the walk through a list included |
| `PdfPipeline` | queue, workers, bucket, link | `Take`, `Fetch`, `Upload`, `UpdateUrl`, `Complete` follow `process`; `Throw`, `Crash`, `Stall` are its failures |
| `BillingSystem` | `Ledger` and `PdfPipeline` composed | they share rows, row locks and the jobs added |
| `BillingSystemProofs` | | theorems about the composition; it implements `Ledger` |
| `InvoiceMath` | the loop over line items | `AddLine` is one turn of `calculateInvoiceTotals` together with that line's `calculateLineTotal` |
| `InvoiceMathProofs` | | theorems about rounding |
| `MC…` | | instances for TLC |

An operator named `…Fault` is the mutated form of the definition after it, a plausible bug; `PROJECT.json`
says which property it must break.

### PostgreSQL in `Ledger`

`prisma.$transaction` runs at the default isolation level, READ COMMITTED. A read sees what is committed and
takes no lock, so the read actions have no lock guard. An UPDATE locks its row to the end of the transaction;
it writes only the columns it names, over the row as it is then (`WithColumns`). The INSERT of a payment takes
only a key-share lock, which does not conflict with an UPDATE of non-key columns. The writes of a transaction
become visible at its commit: since no other statement depends on them before, the INSERT and the DELETE of
payments are part of the commit action. Create is one action, its row being unknown to others until the
commit; the lock it takes is the subject of `InvoiceNumbering`.

Two more locks appear elsewhere. The unique index on `tenants.slug` lets an INSERT wait for an open transaction that
inserted the same slug (`Pending` in `Accounts`). The foreign key of `invoices.customer_id` takes a key-share lock on
the customer at the INSERT, which a DELETE of the customer waits for (`KeyShared` in `Catalogue`), and restricts the
DELETE afterwards; line items refer to products, which are never deleted.

### Amounts

Amounts are integers of which a cent has `Cent`. `Cent = 1` is the case of whole cents; with `Cent = 2` requests
carry half cents, which `RecordPaymentDto` accepts and `DECIMAL(12,2)` rounds (`Decimal2`).

The handlers compute with doubles, whose error is far below a cent. What it can change is a choice in the model:

- the comparison `newAmountDue <= 0` of recordPayment, when the exact difference is 0 and the invoice had received
  something before: 0.8 - (0.1 + 0.7) is about 1.1e-16, and the invoice stays PARTIALLY_PAID with 0.00 due
  (`remains` in `AfterPayment`). With nothing received before, the sum is the payment itself and the difference of
  two equal doubles is 0;
- the cent to which a column rounds an amount that is half a cent off (`DoubleStored`).

It changes nothing else: a difference of a half cent or more keeps its sign, and a difference of two stored amounts,
as in voidPayment, is 0 just when they are equal. `AtomicLedger` has the same choices, so the dashboard is checked over
them too. In `InvoiceMath` the error is left out: it decides between two neighbouring cents only.

## 3. Runs

| Run | Specification and bounds | Shows |
|---|---|---|
| `LedgerConcurrent` | `FairSpec`; 1 invoice, 2 clients, 2 payment ids, half cents | with any overlap: a draft is untouched, PAID means nothing due, every request ends |
| `LedgerPayments` | `PaymentSerialSpec`; 3 clients, 3 payment ids, totals −1, 0, 2, 3 | `Balanced`: the row is the sum of its payments, also when one payment is voided by several requests and when sends, edits, cancellations and failures interleave |
| `LedgerSerial` | `SerialSpec`; 2 invoices, 2 clients, 3 payment ids | when requests on one invoice do not overlap: the status machine, whatever the doubles compare to, and that `AtomicLedger` is implemented |
| `LedgerOverpaid` | `Spec`; expected violation | two overlapping payments overpay an invoice |
| `InvoiceNumbering` | `FairSpec`; 2 tenants sharing a lock, 2 requests, 3 invoices each, clock 0..2 | no gaps, no duplicates, freshness while stamps are in order, every create ends, `NumberIssuer` is implemented |
| `InvoiceNumberTaken` | `Spec`; expected violation | stamps that tie or are out of order give a number in use |
| `RefreshTokens` | `AccountsSpec`; 2 registrations of 1 slug, 2 sessions, 4 tokens, 2 requests, lifetime 1, clock 0..2 | a slug has one tenant, with its owner, wherever a registration stops; a rotated token is revoked; single use and one live token for sessions without overlap; closed sessions stay closed |
| `RefreshTokenTwice` | `Spec`; expected violation | overlapping refreshes use one token twice |
| `BillingSystem` | `OrderlyEditsSpec`; 1 invoice, 2 clients, 2 workers, no payments | links lead to PDFs, none of a draft, the PDF shows the invoice, jobs are not lost |
| `Dashboard` | `DashboardSpec`; 3 invoices of 2 customers, totals 2 and −1 (a credit), 3 payment ids, `TopInvoices = 2`, `TopCustomers = 1`, `MaxTouched = 1` | revenue and outstanding add up to what was invoiced, overdue is part of outstanding, the top customers listed deserve it; each up to the invoices that change while the report is made; a list of payments makes up the summary beside it, up to the payments recorded or voided between the two reads |
| `FailedPdfJob` | `FairSystemSpec`; 1 worker, expected violation | a failed job is not run again |
| `InvoiceMath` | `MathAndCatalogue`; up to 3 lines, 18 different items; 3 customers, 1 product, 2 invoices, 2 requests, 3 stamps, pages of 2 | line totals and columns add up as far as rounding allows; committed invoices keep their customer; of the rows that share their stamp with no other, a paged list misses and repeats at most as many as came or went meanwhile |

**Bounds.** Each hazard needs two actors on one row, and a third for a void that meets two others; two payments
make a partial and a full payment, a third one comes after a void. The second invoice of `LedgerSerial` lets
requests overlap where the assumption allows it. Three numbers are needed for a stamp order that disagrees with
the numbers, two tenants on one lock for waiting across tenants. Four tokens are a session rotated three times,
or two sessions. `PaymentIds`, `Tokens`, `Families`, `MaxNow`, `MaxInvoices` and `MaxLines` are the bounds on
otherwise unbounded growth. The theorems do not depend on any of them. Payments are left out of `BillingSystem`:
the PDF shows nothing a payment changes, and with them and two workers the liveness check does not finish; the
row locks `UpdateUrl` waits for are then never held in that run. In `Dashboard` three invoices are what it takes
for one customer to have two of them and for the query to cut one off (10 and 5 are 2 and 1 there); `MaxTouched`
bounds the invoices that change during a report, each any number of times: the contributions of the invoices to the
sums are independent. The invoices past their due date are a constant, since the time is taken once per report and
a due date changes only in drafts, which that query does not count. `InvoiceMath` and `Catalogue` are what an
invoice is made of and share no variable, and no property speaks of both: in their common run one moves only while the
other is at rest, which meets the steps of either. Three customers on pages of two give a list of a full
and a part page that a deletion or a creation shifts, and three stamps let them differ or tie in any way; two invoices
are what it takes for one with an older stamp to appear second, in front of what a client has read. While a client
walks through a list, the instance lets one request work at a time and keeps the tables the list does not show
as small as possible (`ReadAlone`): a walk sees only the commits, at most one of each request, so that requests
that overlap show it nothing that others one after the other do not. The theorem needs no such limit. Two registrations of one slug are the race; other slugs do not
meet it. Deadlock checking is off where the bounds, or
a loop that ends, stop the model.

**Assumptions on overlap.** What fails under overlap is found by the runs that expect a violation; what holds
needs the assumption named in the specification: `PaymentSerialSpec` (the payment requests of an invoice do not
overlap, except voids of one payment), `SerialSpec` (no two requests on an invoice overlap), `overlapped`
(sessions), `OrderlyEditsSpec` (an accepted edit is written before a send of the invoice starts writing).
Without the last, an edit that read DRAFT changes an invoice whose PDF is out. `Dashboard` reads the atomic ledger,
so it too assumes `SerialSpec` of the requests it runs beside. The code enforces none of these;
a single user working in one tab keeps to them.

**Fairness.** PostgreSQL queues the waiters of row and advisory locks, so a lock that is released again and
again is obtained: strong fairness on the actions that take or wait for one. The other steps of a started
request or of a live worker need weak fairness only. BullMQ's periodic check finds jobs whose lock expired: weak
fairness on `Stall` of a job no worker holds. No request has to arrive and nothing has to fail.

## 4. Proofs

All theorems hold for every value of the constants under the `ASSUME`s of the modules.

- `LedgerProofs`. `TypeCorrect`, `DraftsStayUntouched` and `PaidIsSettled` are about `Spec`, every
  interleaving. `DraftInv` adds that a request at work on a payment, or about to add a job, is on an invoice that is
  no longer a draft, and writes no DRAFT; `PaidInv` that columns about to be written have status PAID only with
  nothing due. `BooksBalance` is about `PaymentSerialSpec` with whole cents (`Cent = 1`): payment ids are unique
  (`IdsInv`), requests on the payments of one invoice are voids of one payment (`AloneOnInvoice`), so the columns a
  request computed still describe the row (`ColumnsFit` in `BalanceInv`), and the number of units of the payments
  table changes by the amount of the payment (`UnitsAdded`, `UnitsRemoved`).
- `LedgerAtomicProofs`. The inductive invariant of `SerialSpec` says that what a request remembers is what it would
  read or compute now (`UpToDate`): nobody else writes its row. So every commit is a step of `AtomicLedger` and every
  other step a stutter (`ImplementsAtomicLedger`), for any `Cent`. From what a step can do to a row (`RowsChange`)
  follow `PaidIsNotCancelled`, `OnlyDraftsAreEdited` and `CancelledIsFinal`. `StatusIsRight` adds the invariants of
  `BooksBalance`, which apply because requests that do not overlap handle one payment at a time, and needs
  `Cent = 1`. It says of a PARTIALLY_PAID invoice that something was received, and all of it only in more than one
  payment: `StatusInv` has that second part as `PaidTwice`, kept because `AfterPayment` leaves a settled invoice unpaid only when
  something was received before; `OrderedOnce` adds `DraftInv`.
- `InvoiceNumberingProofs`. The holder of a tenant's lock is the only request of that tenant between its read
  and its end, so the number it read is still the successor of a stored one; the unique index then makes it the
  successor of all. `ImplementsIssuer` maps a commit to an issue and everything else to a stutter.
- `AccountsProofs`. `RotatedStaysRevoked` holds in every interleaving: sessions of stored tokens never
  change and revocations are never taken back. `UsedOnceInTurn` and `OneKeyInTurn` need, for a session without
  overlap, that the one request at work knows the live token, has revoked it before it stores the next, and is
  no rotation once the session is closed (`InTurn`). These are about `Spec` of `RefreshTokens`.
  `SessionsAsSpecified`: every step of `AccountsSpec` is one of its steps or leaves the sessions alone, so they hold
  with registration, too. `AccountsAreWhole`: an open transaction that has inserted a slug is the only one, and no
  tenant has the slug.
- `InvoiceMathProofs`. The loop's sums stay within half a cent per line of the rounded lines (`LinesInv`);
  the bounds on the results follow from the rounding lemma.
- `CatalogueProofs`. `CustomersOfInvoicesStay` is inductive together with what the key-share lock is for: the customer
  of an open create is there too (`OpenCreatesHaveTheirCustomer`). `WalksFindWhatStays` is about the
  rows that share their stamp with no other (`Alone`): such a row has a place of its own, so that any page shows it
  just when its place is on it (`AloneOnPage`), whatever order the query gives to the others. It needs two counts that hold at every moment of a walk
  (`WalkCounts` in `WalkInv`): the steady rows the client has passed by or will not reach (`Missed`) are at most as
  many as the changes so far, and so are the repetitions so far and the rows shown that are ahead of the client again
  (`Again`), together. A row that comes or goes moves every other by at most one place, and no two of these rows have one place
  (`PlacesDiffer`); one that comes may tie with such a row but frees none (`AloneShrinks`), so it adds at most one to either (`RowComes`, `RowGoes`). Reading a page, the count before or
  after it, and asking for the next page add nothing. On the last page nothing is ahead, and `Missed` is all that was
  not seen. Before the last page is shown the property says nothing, so it is not inductive by itself.
- `DashboardProofs`. The figures are sums over finite sets, which the library defines by a fold over chosen elements.
  The library's induction over finite sets takes an operator; here it is a lemma about a family of subsets
  (`FiniteInduction`), from the least element of a set of numbers (`LeastNatural`, by well-foundedness). From it come
  that the fold is well defined (`FoldDefined`) and the laws of sums: any element can be taken out, sums are monotone,
  additive in the terms and in the set, and change with one term. They give the ledger's invariant `LedgerOK`: an
  invoice's row says what its payments add up to, and its status fits. Then every term of a sum lies between the
  credit and the bill of its invoice (`TermsOK`), and a commit changes the terms of one invoice only. A figure told
  belongs to the moment of its query; the invariant `ReportInv` compares it with the tables of now: the terms of
  steady invoices are exact, those of touched ones only bounded (`Mixed`). A commit moves one invoice from the exact
  part to the bounded one (`LedgerStepKeeps`), and `RevenueAndOutstandingAccount` and `WhatIsOverdueIsOutstanding`
  compare two such sums. `TopInvoicesOK` keeps what is known of the invoices cut off until they are grouped.
  `ListsCoverSummaries`: between its two reads what was paid for the invoice can only grow while no payment is voided
  (`ListOK`). These four have the hypothesis `Cent = 1`, whole cents, as `BooksBalance` has: with half cents the
  rounding leaves an amount due that is not the total less what was paid. `FiguresAreNumbers` needs no such hypothesis:
  it rests on an invariant of its own (`TypesInvariant`), that the rows read are typed and a sum of numbers is a
  number. `ReportInv` and `WalkInv` were checked by TLC as invariants before they were proved.
- `BillingSystemProofs`. The pipeline leaves the rows alone (`SystemRefinesLedger`), so `TypeInv` and `DraftInv` of
  `LedgerProofs` hold of the system: a job means that its invoice has left DRAFT, hence that its row has notes to
  show. `PipelineInv` says what a worker relies on at each step, and gives `SystemTypeCorrect`, `LinksLeadToPdfs` and
  `PdfsAreOfSentInvoices` in every interleaving. `PdfsAreUpToDate` is about `OrderlyEditsSpec`: an edit under way is of
  an invoice without jobs (`ShowsInv`), so what was rendered stays true.

Only model-checked: the liveness properties. Liveness and ENABLED are out of the prover's reach. Every other property
of a run that passes is a theorem.

## 5. Where code and documentation disagree

1. `payments.service.ts:39` "can't overpay": overlapping payments do (`LedgerOverpaid`). The second UPDATE also
   overwrites the amounts of the first.
2. `invoices.service.ts:26` "prevents duplicates": the lookup is by creation time (`InvoiceNumberTaken`). The unique
   index keeps the table right, and from then on every create of that tenant computes the same number and fails.
3. `README.md:54` "single-use": overlapping refreshes (`RefreshTokenTwice`).
4. `README.md:51` "Failed jobs are automatically retried": one attempt only (`FailedPdfJob`).

Also seen, without a run: `invoices.service.ts:235` refuses to cancel a paid invoice, on a status that may be old:
with `PaidNeverCancelled` checked under `Spec`, a payment commits between the read and the write of a cancellation,
and the paid invoice ends up cancelled. An invoice that has received everything may stay PARTIALLY_PAID with 0.00 due, the
comparison being of doubles (`payments.service.ts:66`); it can be cancelled, and no payment settles it. The lists
(`invoices.service.ts:154` and the two others) are ordered by `createdAt` alone: rows with one stamp may change places
between two pages, so that a client misses some and sees others twice without any change. `reports.service.ts:61` says "Top 5 customers by revenue", and the query
keeps the ten invoices with the largest sums before they are grouped: a customer with many smaller invoices is
missing or shown with a part of its revenue, and ten large invoices of one customer leave a list of one. `README.md:57` says amounts are rounded at every step, and the totals are rounded once
(the total is then not the sum of the line totals; `LinesAddUp` bounds the difference). VIEWED, OVERDUE and
REFUNDED are never written. A crash between `send`'s UPDATE and the queue leaves an invoice that cannot be sent
again and has no PDF.

## 6. Not modelled

- Metrics: counters and gauges for Prometheus that nothing in the system reads.
- Authentication of requests: checks of a signed token by libraries, without state of their own. `tenant.guard.ts`
  is attached to no route.
- Row-level policies: no code sets the tenant they read.
- The shell (`main.ts`, `app.*`): start-up and wiring. The controllers hand their arguments on; what they add, the
  first page and the page size, is in `Catalogue`.
- Columns no property reads: names, addresses, descriptions, the recent invoices of the dashboard, the filters of the
  invoice list. Of the PDF its layout is left out, and the columns of the customer it prints
  (`pdf.service.ts:25-27`), which can be edited at any time after it is stored.
- More decimals than the columns keep, in the lines of an invoice: their DTO limits them as little as that of payments.
  `InvoiceMath` takes quantities, prices and rates in hundredths. Of payments they are modelled (`Cent = 2`): the balance
  then fails even without overlap, and `Balanced` and the theorems that rest on it are about whole cents.
- Reads of one row (findOne, getPdfUrl) change nothing; what getPdfUrl relies on is `DownloadsExist`.
- Several tenants outside `InvoiceNumbering`: every other operation works on the rows of one tenant,
  except that create takes `dto.customerId` without asking whose it is (`invoices.service.ts:51`).

## 7. Order, and what could follow

Built in this order: `Ledger`, its proofs, `InvoiceNumbering` with its abstract specification and proofs,
`RefreshTokens`, `PdfPipeline` and `BillingSystem`, `InvoiceMath` and proofs, `AtomicLedger`, the proof
that `Ledger` implements it, `Dashboard` over it, `Accounts` over `RefreshTokens` and the proofs of both, `Catalogue`
and its proofs, the proofs about `BillingSystem`, the proof about the walk through a list, and that about `Dashboard`.

What could follow: which properties of `SerialSpec` survive under weaker assumptions, such as payments that do not
overlap cancellations; what the figures of `Dashboard` are worth with half cents, where rows and payments differ by
the rounding.
