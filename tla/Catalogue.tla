------------------------------- MODULE Catalogue -------------------------------
(***************************************************************************)
(* Customers and products (customers.service.ts, products.service.ts), the *)
(* invoices that refer to them, and the paged lists of all three.          *)
(*                                                                         *)
(* An update or removal reads its row in one statement and writes it in    *)
(* another, without a transaction.  Customers are deleted, which the       *)
(* foreign key of invoices restricts; products are deactivated.  A list    *)
(* is read a page at a time, newest row first, by two queries that run in  *)
(* parallel: the page and the number of rows.                              *)
(*                                                                         *)
(* A row may get the creation stamp of another, or an older one: stamps    *)
(* are of a millisecond, several processes give them, and an invoice has   *)
(* its stamp before its transaction commits.  Rows of one stamp come in    *)
(* any order, and in another one the next time.  Of the other columns only *)
(* those that the properties read are kept.                                *)
(***************************************************************************)
EXTENDS Integers, FiniteSets, Sequences

CONSTANTS
    MaxCustomers, MaxProducts, MaxInvoices,   \* bounds on the rows created
    Operators,                                \* the requests in flight
    Limit,                                    \* the rows on a page
    Stamps,                                   \* the values of createdAt
    None

ASSUME CatalogueAssumption ==
    /\ MaxCustomers \in Nat
    /\ MaxProducts \in Nat
    /\ MaxInvoices \in Nat
    /\ Limit \in Nat \ {0}
    /\ Stamps \subseteq Nat
    /\ None \notin Nat

VARIABLES
    customers,   \* the customers created, in the order of their commits
    products,    \* the products created
    invoices,    \* the invoices created
    op,          \* what each request has done and remembers
    walk         \* a client that reads a list page by page

tables == <<customers, products, invoices>>
catalogueVars == <<tables, op, walk>>

Customer == [stamp : Stamps, exists : BOOLEAN]
Product  == [stamp : Stamps, isActive : BOOLEAN]
Invoice  == [stamp : Stamps, customer : Nat]

Lists == {"customers", "products", "invoices"}

NoOp   == [step |-> "idle", row |-> None]
NoWalk == [list |-> None, page |-> 0, total |-> None, rowsRead |-> FALSE, seen |-> {},
           repeated |-> 0, steady |-> {}, changes |-> 0]

At(o, step) == op[o].step = step
Finish(o)   == op' = [op EXCEPT ![o] = NoOp]

Exists(c)      == c \in DOMAIN customers /\ customers[c].exists
InvoicesOf(c)  == {n \in DOMAIN invoices : invoices[n].customer = c}

CatalogueInit ==
    /\ customers = <<>>
    /\ products = <<>>
    /\ invoices = <<>>
    /\ op = [o \in Operators |-> NoOp]
    /\ walk = NoWalk

-----------------------------------------------------------------------------
(* Customers. *)

CreateCustomer ==
    /\ Len(customers) < MaxCustomers
    /\ \E t \in Stamps : customers' = Append(customers, [stamp |-> t, exists |-> TRUE])
    /\ UNCHANGED <<products, invoices, op>>

\* findOne returns the row; update or remove goes on.
FindCustomer(o) ==
    /\ At(o, "idle")
    /\ \E c \in DOMAIN customers, step \in {"customer.update", "customer.delete"} :
         /\ Exists(c)
         /\ op' = [op EXCEPT ![o] = [step |-> step, row |-> c]]
    /\ UNCHANGED tables

\* UPDATE of columns that no property reads; of a row that is gone it throws.
UpdateCustomer(o) ==
    /\ At(o, "customer.update")
    /\ Finish(o)
    /\ UNCHANGED tables

\* An open create has inserted an invoice of the customer: a key-share lock.
KeyShared(c) == \E o \in Operators : At(o, "create.commit") /\ op[o].row = c

\* Fault: no foreign key, the relation is kept by the client only.
DeleteCustomerFault(o) ==
    /\ At(o, "customer.delete")
    /\ customers' = [customers EXCEPT ![op[o].row].exists = FALSE]
    /\ Finish(o)
    /\ UNCHANGED <<products, invoices>>

\* DELETE waits for the key-share locks; the foreign key lets a customer without
\* invoices go.
DeleteCustomer(o) ==
    /\ At(o, "customer.delete")
    /\ ~KeyShared(op[o].row)
    /\ InvoicesOf(op[o].row) = {}
    /\ customers' = [customers EXCEPT ![op[o].row].exists = FALSE]
    /\ Finish(o)
    /\ UNCHANGED <<products, invoices>>

-----------------------------------------------------------------------------
(* Products. *)

CreateProduct ==
    /\ Len(products) < MaxProducts
    /\ \E t \in Stamps : products' = Append(products, [stamp |-> t, isActive |-> TRUE])
    /\ UNCHANGED <<customers, invoices, op>>

\* findOne returns the row, active or not; update or remove goes on.
FindProduct(o) ==
    /\ At(o, "idle")
    /\ \E p \in DOMAIN products, step \in {"product.update", "product.remove"} :
         op' = [op EXCEPT ![o] = [step |-> step, row |-> p]]
    /\ UNCHANGED tables

\* UPDATE of columns that no property reads; isActive is not among them.
UpdateProduct(o) ==
    /\ At(o, "product.update")
    /\ Finish(o)
    /\ UNCHANGED tables

\* UPDATE of isActive only.
RemoveProduct(o) ==
    /\ At(o, "product.remove")
    /\ products' = [products EXCEPT ![op[o].row].isActive = FALSE]
    /\ Finish(o)
    /\ UNCHANGED <<customers, invoices>>

-----------------------------------------------------------------------------
(* Invoices that refer to them; their numbers and amounts are modelled elsewhere. *)

\* A form is sent with a customer that existed when it was filled in.
BeginCreate(o) ==
    /\ At(o, "idle")
    /\ \E c \in DOMAIN customers : op' = [op EXCEPT ![o] = [step |-> "create.insert", row |-> c]]
    /\ UNCHANGED tables

\* INSERT of the invoice: the foreign key finds the customer and locks it against
\* deletion until the transaction ends.  The products of its lines are never deleted.
InsertInvoice(o) ==
    /\ At(o, "create.insert")
    /\ Exists(op[o].row)
    /\ op' = [op EXCEPT ![o].step = "create.commit"]
    /\ UNCHANGED tables

CommitInvoice(o) ==
    /\ At(o, "create.commit")
    /\ Len(invoices) < MaxInvoices
    /\ \E t \in Stamps :
         invoices' = Append(invoices, [stamp |-> t, customer |-> op[o].row])
    /\ Finish(o)
    /\ UNCHANGED <<customers, products>>

\* A statement throws, since its row is gone or a foreign key forbids it, or the
\* server crashes: an open transaction is rolled back.
Fail(o) ==
    /\ ~At(o, "idle")
    /\ Finish(o)
    /\ UNCHANGED tables

-----------------------------------------------------------------------------
(* The lists. *)

\* What orders the rows of a table.
Entries(table) == {[row |-> n, stamp |-> table[n].stamp] : n \in DOMAIN table}

Created == [list \in Lists |->
    CASE list = "customers" -> Entries(customers)
      [] list = "products"  -> Entries(products)
      [] list = "invoices"  -> Entries(invoices)]

\* The rows findAll selects: deleted customers and removed products are not listed.
Listed == [list \in Lists |->
    CASE list = "customers" -> {r \in Created[list] : customers[r.row].exists}
      [] list = "products"  -> {r \in Created[list] : products[r.row].isActive}
      [] list = "invoices"  -> Created[list]]

\* The places, from 0, that the rows of one stamp share, newest stamp first.
Newer(r, rows)  == {s \in rows : s.stamp > r.stamp}
Tied(r, rows)   == {s \in rows : s.stamp = r.stamp}
Places(r, rows) ==
    LET first == Cardinality(Newer(r, rows))
    IN  first .. first + Cardinality(Tied(r, rows)) - 1

\* Fault: pages are counted from 0.
WindowFault(page) == page * Limit .. (page + 1) * Limit - 1

\* skip (page - 1) * limit, take limit.
Window(page) == (page - 1) * Limit .. page * Limit - 1

\* What a page may show: of the rows of one stamp, as many as have their places on it.
Pages(rows, page) ==
    {shown \in SUBSET rows : \A r \in rows :
        Cardinality(Tied(r, shown)) = Cardinality(Places(r, rows) \cap Window(page))}

\* The rows whose stamp no other row has.
Alone(rows) == {r \in rows : Tied(r, rows) = {r}}

\* Math.ceil(total / limit)
TotalPages(total) == (total + Limit - 1) \div Limit

Walking == walk.list # None

StartWalk ==
    /\ ~Walking
    /\ \E list \in Lists :
         walk' = [NoWalk EXCEPT !.list = list, !.page = 1, !.steady = Listed[list]]

\* findMany of Promise.all.
ReadRows ==
    /\ Walking /\ ~walk.rowsRead
    /\ \E shown \in Pages(Listed[walk.list], walk.page) :
         LET again == shown \cap walk.seen \cap Alone(Created[walk.list])
         IN  walk' = [walk EXCEPT !.rowsRead = TRUE,
                                  !.seen     = @ \cup shown,
                                  !.repeated = @ + Cardinality(again)]

\* count of Promise.all.
ReadTotal ==
    /\ Walking /\ walk.total = None
    /\ walk' = [walk EXCEPT !.total = Cardinality(Listed[walk.list])]

Answered == Walking /\ walk.rowsRead /\ walk.total # None
LastPage == walk.page >= TotalPages(walk.total)

\* The client asks for the next page while there is one.
NextPage ==
    /\ Answered /\ ~LastPage
    /\ walk' = [walk EXCEPT !.page = @ + 1, !.rowsRead = FALSE, !.total = None]

EndWalk == Answered /\ LastPage /\ walk' = NoWalk

\* History of a walk under way: the rows listed all the time, the rows that came or went.
Watch ==
    walk' = IF ~Walking \/ (Answered /\ LastPage) THEN walk
            ELSE LET before == Listed[walk.list]
                     after  == Listed'[walk.list]
                 IN  [walk EXCEPT !.steady  = @ \cap after,
                                  !.changes = @ + Cardinality(before \ after)
                                                + Cardinality(after \ before)]

-----------------------------------------------------------------------------

Request(o) ==
    \/ FindCustomer(o) \/ UpdateCustomer(o) \/ DeleteCustomer(o)
    \/ FindProduct(o) \/ UpdateProduct(o) \/ RemoveProduct(o)
    \/ BeginCreate(o) \/ InsertInvoice(o) \/ CommitInvoice(o)
    \/ Fail(o)

CatalogueNext ==
    \/ (CreateCustomer \/ CreateProduct \/ \E o \in Operators : Request(o)) /\ Watch
    \/ (StartWalk \/ ReadRows \/ ReadTotal \/ NextPage \/ EndWalk) /\ UNCHANGED <<tables, op>>

CatalogueSpec == CatalogueInit /\ [][CatalogueNext]_catalogueVars

-----------------------------------------------------------------------------
(* Properties. *)

CustomerSteps == {"customer.update", "customer.delete", "create.insert", "create.commit"}
ProductSteps  == {"product.update", "product.remove"}

\* A request under way remembers a row of the table it works on.
CatalogueTypeOK ==
    /\ customers \in Seq(Customer)
    /\ products \in Seq(Product)
    /\ invoices \in Seq(Invoice)
    /\ op \in [Operators -> [step : {"idle"} \cup CustomerSteps \cup ProductSteps,
                            row : Nat \cup {None}]]
    /\ \A o \in Operators :
         /\ op[o].step \in CustomerSteps => op[o].row \in DOMAIN customers
         /\ op[o].step \in ProductSteps => op[o].row \in DOMAIN products

\* However deletions and creates overlap, the customer of a committed invoice, whose
\* name and address its PDF and its page show, is still there.
InvoicesKeepTheirCustomer == \A n \in DOMAIN invoices : Exists(invoices[n].customer)

\* A client that reads a list to the end, while rows come and go between its pages and
\* between the two queries of one page, misses at most as many of the rows listed all
\* the time as rows came or went, and is shown at most as many twice: of the rows that
\* share their createdAt with no other, whatever ties the others have.
WalkFindsWhatStays ==
    (Answered /\ LastPage) =>
        /\ Cardinality((walk.steady \cap Alone(Created[walk.list])) \ walk.seen) <= walk.changes
        /\ walk.repeated <= walk.changes

=============================================================================
