--------------------------- MODULE InvoiceNumbering ---------------------------
(***************************************************************************)
(* How InvoicesService.create gives an invoice its number: the transaction *)
(* takes an advisory lock of the tenant, reads the invoice that was        *)
(* created last, and inserts a row with the next number.  The lock is a    *)
(* transaction lock: commit and rollback release it.                       *)
(*                                                                         *)
(* created_at has a resolution of one millisecond, the unit of now here.   *)
(* The stamp of a row is read at some moment of its transaction: when it   *)
(* began if PostgreSQL fills in the column's CURRENT_TIMESTAMP default, at *)
(* the INSERT if the Prisma engine does.                                   *)
(*                                                                         *)
(* "INV-%05d" is read back by parseInt, so numbers are numbers here: the   *)
(* padding is never cut and the prefix holds no other dash.                *)
(***************************************************************************)
EXTENDS Integers, FiniteSets

CONSTANTS
    Tenants,
    Requests,      \* the create requests that can be in flight
    LockOf,        \* hashtext: tenants may share a lock
    MaxNow,        \* bound on the clock
    MaxInvoices,   \* bound on the invoices of a tenant
    None

Locks == {LockOf[t] : t \in Tenants}

ASSUME NumberingAssumption ==
    /\ LockOf \in [Tenants -> Locks]
    /\ MaxNow \in Nat
    /\ MaxInvoices \in Nat
    /\ None \notin Requests
    /\ None \notin Tenants

VARIABLES
    now,       \* the clock
    invoices,  \* the committed rows, as far as numbering reads them
    holder,    \* the request whose transaction holds an advisory lock
    create     \* what each create request has done and remembers

vars == <<now, invoices, holder, create>>

Invoice == [tenant : Tenants, number : Nat, createdAt : Nat]

Steps == {"idle", "lock", "read", "insert", "commit"}

Request == [step : Steps, tenant : Tenants \cup {None}, began : Nat,
            number : Nat, createdAt : Nat]

Idle == [step |-> "idle", tenant |-> None, began |-> 0, number |-> 0, createdAt |-> 0]

-----------------------------------------------------------------------------

InvoicesOf(t) == {v \in invoices : v.tenant = t}
NumbersOf(t)  == {v.number : v \in InvoicesOf(t)}

\* Fault: orderBy createdAt asc.
LatestFault(t) == {v \in InvoicesOf(t) : \A w \in InvoicesOf(t) : v.createdAt <= w.createdAt}

\* The rows findFirst with orderBy createdAt desc may return: of rows with equal
\* stamps PostgreSQL returns any.
Latest(t) == {v \in InvoicesOf(t) : \A w \in InvoicesOf(t) : w.createdAt <= v.createdAt}

\* Faults: the first number is 0; the number of a first invoice is left empty.
NextNumbersFault(t) ==
    IF InvoicesOf(t) = {} THEN {0} ELSE {v.number + 1 : v \in Latest(t)}
NextNumbersTypeFault(t) ==
    IF InvoicesOf(t) = {} THEN {None} ELSE {v.number + 1 : v \in Latest(t)}

\* The numbers getNextInvoiceNumber may return.
NextNumbers(t) ==
    IF InvoicesOf(t) = {} THEN {1} ELSE {v.number + 1 : v \in Latest(t)}

-----------------------------------------------------------------------------

At(r, step) == create[r].step = step

Lock(r) == LockOf[create[r].tenant]

ReleaseLocks(r) == holder' = [k \in Locks |-> IF holder[k] = r THEN None ELSE holder[k]]

Finish(r) == create' = [create EXCEPT ![r] = Idle]

Init ==
    /\ now = 0
    /\ invoices = {}
    /\ holder = [k \in Locks |-> None]
    /\ create = [r \in Requests |-> Idle]

Tick == now < MaxNow /\ now' = now + 1 /\ UNCHANGED <<invoices, holder, create>>

\* BEGIN of the transaction.
Begin(r) ==
    /\ At(r, "idle")
    /\ \E t \in Tenants :
         /\ Cardinality(InvoicesOf(t)) < MaxInvoices
         /\ create' = [create EXCEPT ![r] =
                [Idle EXCEPT !.step = "lock", !.tenant = t, !.began = now]]
    /\ UNCHANGED <<now, invoices, holder>>

\* SELECT pg_advisory_xact_lock(hashtext(tenantId)): waits until the lock is free.
AcquireLock(r) ==
    /\ At(r, "lock")
    /\ holder[Lock(r)] = None
    /\ holder' = [holder EXCEPT ![Lock(r)] = r]
    /\ create' = [create EXCEPT ![r].step = "read"]
    /\ UNCHANGED <<now, invoices>>

ReadLast(r) ==
    /\ At(r, "read")
    /\ \E n \in NextNumbers(create[r].tenant) :
         create' = [create EXCEPT ![r].step = "insert", ![r].number = n]
    /\ UNCHANGED <<now, invoices, holder>>

\* INSERT: the unique index on (tenant_id, invoice_number) accepts the row.
Insert(r) ==
    /\ At(r, "insert")
    /\ create[r].number \notin NumbersOf(create[r].tenant)
    /\ \E stamp \in create[r].began .. now :
         create' = [create EXCEPT ![r].step = "commit", ![r].createdAt = stamp]
    /\ UNCHANGED <<now, invoices, holder>>

\* The unique index refuses it: the request fails and rolls back.
InsertDuplicate(r) ==
    /\ At(r, "insert")
    /\ create[r].number \in NumbersOf(create[r].tenant)
    /\ ReleaseLocks(r)
    /\ Finish(r)
    /\ UNCHANGED <<now, invoices>>

Commit(r) ==
    /\ At(r, "commit")
    /\ invoices' = invoices \cup {[tenant    |-> create[r].tenant,
                                   number    |-> create[r].number,
                                   createdAt |-> create[r].createdAt]}
    /\ ReleaseLocks(r)
    /\ Finish(r)
    /\ UNCHANGED now

\* Fault: a session lock (pg_advisory_lock), which a rollback does not release.
FailFault(r) ==
    /\ ~At(r, "idle")
    /\ Finish(r)
    /\ UNCHANGED <<now, invoices, holder>>

\* A crash, a lost connection, a line item the INSERT refuses or the transaction
\* timeout rolls the transaction back at any step.
Fail(r) ==
    /\ ~At(r, "idle")
    /\ ReleaseLocks(r)
    /\ Finish(r)
    /\ UNCHANGED <<now, invoices>>

-----------------------------------------------------------------------------

Proceed(r) == ReadLast(r) \/ Insert(r) \/ InsertDuplicate(r) \/ Commit(r)

Next ==
    \/ Tick
    \/ \E r \in Requests : Begin(r) \/ AcquireLock(r) \/ Proceed(r) \/ Fail(r)

Spec == Init /\ [][Next]_vars

\* PostgreSQL queues the waiters of an advisory lock; a running transaction
\* proceeds.  Nothing has to begin or to fail.
FairSpec == Spec /\ \A r \in Requests : SF_vars(AcquireLock(r)) /\ WF_vars(Proceed(r))

-----------------------------------------------------------------------------
(* Properties. *)

\* Every row, lock and request stays well formed.
TypeOK ==
    /\ now \in Nat
    /\ invoices \subseteq Invoice
    /\ holder \in [Locks -> Requests \cup {None}]
    /\ create \in [Requests -> Request]

\* Whatever the clock does and whichever creates fail: the numbers of a tenant
\* are 1 to n, each on one invoice.  A number read and not used is not lost.
GapFree == \A t \in Tenants :
    /\ NumbersOf(t) = 1 .. Cardinality(InvoicesOf(t))
    /\ \A v, w \in InvoicesOf(t) : v.number = w.number => v = w

\* The stamps of a tenant's invoices put them in the order of their numbers.
StampsInOrder(t) == \A v, w \in InvoicesOf(t) :
    v.number < w.number => v.createdAt < w.createdAt

\* As long as that is so, no create is refused by the unique index: the number
\* a transaction read under the lock is still free when it inserts.
NumberIsFresh == \A r \in Requests :
    (At(r, "insert") /\ StampsInOrder(create[r].tenant))
        => create[r].number \notin NumbersOf(create[r].tenant)

\* invoices.service.ts:26 "Generate invoice number with advisory lock (prevents
\* duplicates)": no create arrives at its INSERT with a number already in use.
NoDuplicates == \A r \in Requests :
    At(r, "insert") => create[r].number \notin NumbersOf(create[r].tenant)

\* A create that has begun ends, although others hold its lock before it.
RequestsEnd == \A r \in Requests : ~At(r, "idle") ~> At(r, "idle")

\* The invoices are numbered as NumberIssuer promises, for every tenant.
Issuer == INSTANCE NumberIssuer WITH numbers <- [t \in Tenants |-> NumbersOf(t)]
NumbersAsPromised == Issuer!Spec

=============================================================================
