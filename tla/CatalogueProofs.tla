---------------------------- MODULE CatalogueProofs ----------------------------
(***************************************************************************)
(* Proofs about the catalogue, for any number of requests and rows: no     *)
(* committed invoice loses its customer, and a client that reads a list to *)
(* its end finds what stays in it.                                         *)
(*                                                                         *)
(* The first is inductive together with what the key-share lock is for:    *)
(* the customer of an open create is there too.  The other follows from    *)
(* two counts that hold at every moment of the walk.  They are of the rows *)
(* that share their stamp with no other: each of these has a place of its  *)
(* own, whatever order a query gives to the others.  A row that comes or   *)
(* goes moves them by one place, and so puts at most one steady row out of *)
(* the client's reach, or one row shown back into it.                      *)
(***************************************************************************)
EXTENDS Catalogue, FiniteSetTheorems, TLAPS

OpenCreatesHaveTheirCustomer ==
    \A o \in Operators : At(o, "create.commit") => Exists(op[o].row)

CatalogueInv ==
    /\ CatalogueTypeOK
    /\ InvoicesKeepTheirCustomer
    /\ OpenCreatesHaveTheirCustomer

\* What a step of a request or a new row does, the walk of a client left aside.
TablesStep == CreateCustomer \/ CreateProduct \/ \E o \in Operators : Request(o)

-----------------------------------------------------------------------------

\* The types hold initially.
LEMMA InitCatalogueInv == CatalogueInit => CatalogueInv
BY DEF CatalogueInit, CatalogueInv, CatalogueTypeOK, InvoicesKeepTheirCustomer,
       OpenCreatesHaveTheirCustomer, NoOp, At, CustomerSteps, ProductSteps

\* The stamps are naturals.
LEMMA RowTypes ==
    /\ \A c \in Customer : c.stamp \in Nat /\ [c EXCEPT !.exists = FALSE] \in Customer
    /\ \A p \in Product : p.stamp \in Nat /\ [p EXCEPT !.isActive = FALSE] \in Product
    /\ \A n \in Invoice : n.stamp \in Nat
BY CatalogueAssumption DEF Customer, Product, Invoice

\* A row that is appended leaves the rows before it as they are.
LEMMA NewRows ==
    CatalogueInv /\ (CreateCustomer \/ CreateProduct) => CatalogueInv'
<1> SUFFICES ASSUME CatalogueInv, CreateCustomer \/ CreateProduct PROVE CatalogueInv'
    OBVIOUS
<1> USE DEF CatalogueInv, CatalogueTypeOK, InvoicesKeepTheirCustomer,
            OpenCreatesHaveTheirCustomer, At, Exists, CustomerSteps, ProductSteps
<1>1. CASE CreateCustomer
    BY <1>1 DEF CreateCustomer, Customer
<1>2. CASE CreateProduct
    BY <1>2 DEF CreateProduct, Product
<1> QED BY <1>1, <1>2

\* A request that only remembers or forgets a row keeps the invariant.
LEMMA RequestsThatOnlyRead ==
    ASSUME CatalogueInv, NEW o \in Operators,
           \/ FindCustomer(o) \/ UpdateCustomer(o) \/ FindProduct(o) \/ UpdateProduct(o)
           \/ BeginCreate(o) \/ InsertInvoice(o) \/ Fail(o)
    PROVE  CatalogueInv'
<1> USE DEF CatalogueInv, CatalogueTypeOK, InvoicesKeepTheirCustomer, Finish,
            OpenCreatesHaveTheirCustomer, At, Exists, CustomerSteps, ProductSteps, tables, NoOp
<1>1. CASE FindCustomer(o)
    <2>1. PICK c \in DOMAIN customers, step \in {"customer.update", "customer.delete"} :
             op' = [op EXCEPT ![o] = [step |-> step, row |-> c]]
        BY <1>1 DEF FindCustomer
    <2>2. UNCHANGED <<customers, products, invoices>> /\ c \in Nat
        BY <1>1 DEF FindCustomer
    <2> QED BY <2>1, <2>2
<1>2. CASE UpdateCustomer(o)
    BY <1>2 DEF UpdateCustomer
<1>3. CASE FindProduct(o)
    <2>1. PICK p \in DOMAIN products, step \in ProductSteps :
             op' = [op EXCEPT ![o] = [step |-> step, row |-> p]]
        BY <1>3 DEF FindProduct
    <2>2. UNCHANGED <<customers, products, invoices>> /\ p \in Nat
        BY <1>3 DEF FindProduct
    <2> QED BY <2>1, <2>2
<1>4. CASE BeginCreate(o)
    BY <1>4 DEF BeginCreate
<1>5. CASE InsertInvoice(o)
    BY <1>5 DEF InsertInvoice
<1>6. CASE Fail(o)
    BY <1>6 DEF Fail
<1>7. CASE UpdateProduct(o)
    BY <1>7 DEF UpdateProduct
<1> QED BY <1>1, <1>2, <1>3, <1>4, <1>5, <1>6, <1>7

\* Nor does a write: a deletion finds neither an invoice of the customer nor the lock
\* of an open create, a commit finds the customer there.
LEMMA RequestsThatWrite ==
    ASSUME CatalogueInv, NEW o \in Operators,
           \/ DeleteCustomer(o) \/ RemoveProduct(o) \/ CommitInvoice(o)
    PROVE  CatalogueInv'
<1> USE DEF CatalogueInv, CatalogueTypeOK, InvoicesKeepTheirCustomer, Finish,
            OpenCreatesHaveTheirCustomer, At, Exists, CustomerSteps, ProductSteps, NoOp
<1>1. CASE DeleteCustomer(o)
    <2> DEFINE c == op[o].row
    <2>1. /\ c \in DOMAIN customers /\ customers \in Seq(Customer)
          /\ customers' = [customers EXCEPT ![c] = [customers[c] EXCEPT !.exists = FALSE]]
        BY <1>1 DEF DeleteCustomer
    <2>2. [customers[c] EXCEPT !.exists = FALSE] \in Customer
        BY <2>1, RowTypes
    <2>3. customers' \in Seq(Customer) /\ DOMAIN customers' = DOMAIN customers
        <3> HIDE DEF c
        <3> QED BY <2>1, <2>2
    <2>4. \A d \in DOMAIN customers : d # c => customers'[d] = customers[d]
        BY <2>1
    <2>5. /\ \A n \in DOMAIN invoices : invoices[n].customer # c
          /\ \A q \in Operators : At(q, "create.commit") => op[q].row # c
        BY <1>1 DEF DeleteCustomer, KeyShared, InvoicesOf
    <2> QED BY <1>1, <2>3, <2>4, <2>5 DEF DeleteCustomer
<1>2. CASE RemoveProduct(o)
    <2> DEFINE p == op[o].row
    <2>1. /\ p \in DOMAIN products /\ products \in Seq(Product)
          /\ products' = [products EXCEPT ![p] = [products[p] EXCEPT !.isActive = FALSE]]
        BY <1>2 DEF RemoveProduct
    <2>2. [products[p] EXCEPT !.isActive = FALSE] \in Product
        BY <2>1, RowTypes
    <2>3. products' \in Seq(Product) /\ DOMAIN products' = DOMAIN products
        <3> HIDE DEF p
        <3> QED BY <2>1, <2>2
    <2> QED BY <1>2, <2>3 DEF RemoveProduct
<1>3. CASE CommitInvoice(o)
    <2>1. PICK t \in Stamps : invoices' = Append(invoices, [stamp |-> t, customer |-> op[o].row])
        BY <1>3 DEF CommitInvoice
    <2>2. Exists(op[o].row) /\ op[o].row \in Nat /\ invoices \in Seq(Invoice)
        BY <1>3 DEF CommitInvoice
    <2> DEFINE n == [stamp |-> t, customer |-> op[o].row]
    <2>3. n \in Invoice /\ n.customer = op[o].row
        BY <2>2 DEF Invoice
    <2> HIDE DEF n
    <2>4. /\ invoices' \in Seq(Invoice)
          /\ \A i \in DOMAIN invoices' : invoices'[i] = n \/ (i \in DOMAIN invoices /\ invoices'[i] = invoices[i])
        BY <2>1, <2>2, <2>3 DEF n
    <2> QED BY <1>3, <2>2, <2>3, <2>4 DEF CommitInvoice
<1> QED BY <1>1, <1>2, <1>3

\* Every step keeps the invariant; the client's walk changes no table.
LEMMA NextCatalogueInv == CatalogueInv /\ [CatalogueNext]_catalogueVars => CatalogueInv'
<1> SUFFICES ASSUME CatalogueInv, [CatalogueNext]_catalogueVars PROVE CatalogueInv'
    OBVIOUS
<1>1. CASE CreateCustomer \/ CreateProduct
    BY <1>1, NewRows
<1>2. CASE \E o \in Operators : Request(o)
    BY <1>2, RequestsThatOnlyRead, RequestsThatWrite DEF Request
<1>3. CASE UNCHANGED <<tables, op>>
    BY <1>3 DEF CatalogueInv, CatalogueTypeOK, InvoicesKeepTheirCustomer,
                OpenCreatesHaveTheirCustomer, At, Exists, tables
<1> QED BY <1>1, <1>2, <1>3 DEF CatalogueNext, catalogueVars

\* The invariant holds in every state.
LEMMA CatalogueInvariant == CatalogueSpec => []CatalogueInv
BY InitCatalogueInv, NextCatalogueInv, PTL DEF CatalogueSpec

-----------------------------------------------------------------------------

\* customers.service.ts:80 deletes without asking for invoices: the foreign key and
\* its lock alone see to it that every committed invoice keeps its customer.
THEOREM CustomersOfInvoicesStay == CatalogueSpec => []InvoicesKeepTheirCustomer
BY CatalogueInvariant, PTL DEF CatalogueInv

-----------------------------------------------------------------------------
\* What a client sees of a row.
Entry == [row : Nat, stamp : Nat]

\* How many rows are newer than r.
Place(r, rows) == Cardinality(Newer(r, rows))

\* The types of a walk.
WalkTyped ==
    /\ walk \in [list : Lists \cup {None}, page : Nat, total : Nat \cup {None},
                 rowsRead : BOOLEAN, seen : SUBSET Entry, repeated : Nat,
                 steady : SUBSET Entry, changes : Nat]
    /\ IsFiniteSet(walk.seen)
    /\ IsFiniteSet(walk.steady)
    /\ Walking => walk.page > 0

\* The list the client reads.
Rows == Listed[walk.list]

\* Where the page that is read next begins, and where the page shown ends.
Begin == (IF walk.rowsRead THEN walk.page ELSE walk.page - 1) * Limit
End   == walk.page * Limit

\* The rows that a walk has passed by, or will not come to any more.
MissedIn(rows, steady, seen, begin, end, over) ==
    {r \in steady \ seen : Place(r, rows) < begin \/ (over /\ Place(r, rows) >= end)}

\* The rows shown that it may come to again.
AgainIn(rows, seen, begin) == {r \in seen \cap rows : Place(r, rows) >= begin}

\* No page is left after the one shown.
Over == walk.total # None /\ walk.total <= End

Missed == MissedIn(Rows, walk.steady \cap Alone(Created[walk.list]), walk.seen, Begin, End, Over)
Again  == AgainIn(Rows, walk.seen \cap Alone(Created[walk.list]), Begin)

\* Of the rows that share their stamp with no other no more are missed, or shown twice by
\* now and from now on, than rows came or went.
WalkCounts ==
    /\ walk.seen \subseteq Created[walk.list]
    /\ walk.steady \subseteq Rows
    /\ Cardinality(Missed) <= walk.changes
    /\ Cardinality(Again) + walk.repeated <= walk.changes

\* No row is steady that never was.
SteadyAreCreated == Walking => walk.steady \subseteq Created[walk.list]

WalkInv ==
    /\ WalkTyped
    /\ SteadyAreCreated
    /\ Walking /\ ~(Answered /\ LastPage) => WalkCounts
    /\ WalkFindsWhatStays

-----------------------------------------------------------------------------
(* Places in a list. *)

\* A place is a natural number, below the number of rows.
LEMMA PlaceNatural ==
    ASSUME NEW rows \in SUBSET Entry, IsFiniteSet(rows), NEW r \in Entry
    PROVE  /\ Place(r, rows) \in Nat
           /\ IsFiniteSet(Newer(r, rows))
           /\ r \in rows => Place(r, rows) < Cardinality(rows)
<1>. DEFINE A == Newer(r, rows)
<1>1. IsFiniteSet(A) /\ A \in SUBSET rows
  BY FS_Subset DEF Newer
<1>2. Place(r, rows) = Cardinality(A)
  BY DEF Place
<1>3. r \notin A
  BY DEF Newer, Entry
<1>. HIDE DEF A
<1>4. r \in rows => Cardinality(A) < Cardinality(rows)
  <2>. SUFFICES ASSUME r \in rows PROVE Cardinality(A) < Cardinality(rows)
    OBVIOUS
  <2>1. /\ IsFiniteSet(A \cup {r}) /\ Cardinality(A \cup {r}) = Cardinality(A) + 1
    BY <1>1, <1>3, FS_AddElement
  <2>2. Cardinality(A \cup {r}) <= Cardinality(rows)
    BY <1>1, FS_Subset
  <2>. QED
    BY <1>1, <2>1, <2>2, FS_CardinalityType
<1>. QED
  BY <1>1, <1>2, <1>4, FS_CardinalityType DEF A

\* No two of the rows have the same stamp.
Distinct(rows) == \A r, s \in rows : r.stamp = s.stamp => r = s

\* A newer row has a smaller place, so that no two rows of different stamps share one.
LEMMA PlacesDiffer ==
    ASSUME NEW rows \in SUBSET Entry, IsFiniteSet(rows), NEW alone \in SUBSET rows,
           Distinct(alone), NEW k
    PROVE  /\ IsFiniteSet({r \in alone : Place(r, rows) = k})
           /\ Cardinality({r \in alone : Place(r, rows) = k}) <= 1
<1>. DEFINE S == {r \in alone : Place(r, rows) = k}
<1>1. ASSUME NEW r \in rows, NEW s \in rows, r.stamp < s.stamp
      PROVE  Place(s, rows) < Place(r, rows)
  <2>. DEFINE A == Newer(s, rows)
              B == Newer(r, rows)
  <2>1. IsFiniteSet(A) /\ IsFiniteSet(B)
    BY PlaceNatural
  <2>2. s \notin A /\ A \cup {s} \in SUBSET B
    <3>1. \A x \in rows : x.stamp \in Int /\ (x.stamp > s.stamp => x.stamp > r.stamp)
      BY <1>1 DEF Entry
    <3>2. s.stamp > r.stamp /\ ~(s.stamp > s.stamp)
      BY <1>1 DEF Entry
    <3>3. \A x \in A \cup {s} : x \in B
      BY <3>1, <3>2 DEF Newer
    <3>. QED
      BY <3>2, <3>3 DEF Newer
  <2>3. Place(s, rows) = Cardinality(A) /\ Place(r, rows) = Cardinality(B)
    BY DEF Place
  <2>. HIDE DEF A, B
  <2>4. Cardinality(A \cup {s}) = Cardinality(A) + 1 /\ Cardinality(A \cup {s}) <= Cardinality(B)
    BY <2>1, <2>2, FS_AddElement, FS_Subset
  <2>. QED
    BY <2>1, <2>3, <2>4, FS_CardinalityType
<1>2. \A r, s \in S : r = s
  <2>. SUFFICES ASSUME NEW r \in S, NEW s \in S, r # s PROVE FALSE
    OBVIOUS
  <2>1. Place(r, rows) \in Nat /\ Place(s, rows) \in Nat /\ Place(r, rows) = Place(s, rows)
    BY PlaceNatural
  <2>2. r.stamp < s.stamp \/ s.stamp < r.stamp
    BY DEF Distinct, Entry
  <2>. QED
    BY <1>1, <2>1, <2>2
<1>3. S = {} \/ \E r : S = {r}
  BY <1>2
<1>. HIDE DEF S
<1>4. IsFiniteSet(S) /\ Cardinality(S) <= 1
  <2>1. CASE S = {}
    BY <2>1, FS_EmptySet
  <2>2. CASE \E r : S = {r}
    <3>1. PICK r : S = {r}
      BY <2>2
    <3>2. IsFiniteSet({r}) /\ Cardinality({r}) = 1
      BY FS_Singleton
    <3>. QED
      BY <3>1, <3>2
  <2>. QED
    BY <1>3, <2>1, <2>2
<1>. QED
  BY <1>4 DEF S

\* A row that comes moves the older ones back by one.
LEMMA PlaceInserted ==
    ASSUME NEW rows \in SUBSET Entry, IsFiniteSet(rows), NEW x \in Entry \ rows, NEW r \in Entry
    PROVE  Place(r, rows \cup {x}) = Place(r, rows) + (IF x.stamp > r.stamp THEN 1 ELSE 0)
<1>. DEFINE A == Newer(r, rows)
            B == Newer(r, rows \cup {x})
<1>1. IsFiniteSet(A) /\ x \notin A
  BY PlaceNatural DEF Newer
<1>2. B = IF x.stamp > r.stamp THEN A \cup {x} ELSE A
  BY DEF Newer
<1>3. Place(r, rows) = Cardinality(A) /\ Place(r, rows \cup {x}) = Cardinality(B)
  BY DEF Place
<1>. HIDE DEF A, B
<1>4. Cardinality(A \cup {x}) = Cardinality(A) + 1 /\ Cardinality(A) \in Nat
  BY <1>1, FS_AddElement, FS_CardinalityType
<1>. QED
  BY <1>2, <1>3, <1>4

\* One that goes moves them forward.
LEMMA PlaceRemoved ==
    ASSUME NEW rows \in SUBSET Entry, IsFiniteSet(rows), NEW x \in rows, NEW r \in Entry
    PROVE  Place(r, rows \ {x}) = Place(r, rows) - (IF x.stamp > r.stamp THEN 1 ELSE 0)
<1>. DEFINE Q == rows \ {x}
<1>1. Q \in SUBSET Entry /\ IsFiniteSet(Q) /\ x \in Entry \ Q /\ rows = Q \cup {x}
  BY FS_RemoveElement
<1>. HIDE DEF Q
<1>2. Place(r, Q \cup {x}) = Place(r, Q) + (IF x.stamp > r.stamp THEN 1 ELSE 0)
  BY <1>1, PlaceInserted
<1>3. Place(r, Q) \in Nat
  BY <1>1, PlaceNatural
<1>4. Place(r, Q) = Place(r, rows) - (IF x.stamp > r.stamp THEN 1 ELSE 0)
  BY <1>1, <1>2, <1>3
<1>. QED
  BY <1>4 DEF Q

\* A set that gains at most the row at one place gains at most one element.
LEMMA OneMore ==
    ASSUME NEW rows \in SUBSET Entry, IsFiniteSet(rows), NEW alone \in SUBSET rows,
           Distinct(alone), NEW k,
           NEW S, IsFiniteSet(S), NEW T \in SUBSET (S \cup {r \in alone : Place(r, rows) = k})
    PROVE  IsFiniteSet(T) /\ Cardinality(T) <= Cardinality(S) + 1
<1>. DEFINE A == {r \in alone : Place(r, rows) = k}
            B == S \cup A
<1>1. IsFiniteSet(A) /\ Cardinality(A) <= 1
  BY PlacesDiffer
<1>. HIDE DEF A
<1>2. IsFiniteSet(B) /\ Cardinality(B) = Cardinality(S) + Cardinality(A) - Cardinality(S \cap A)
  BY <1>1, FS_Union
<1>3. IsFiniteSet(S \cap A)
  BY FS_Subset
<1>. HIDE DEF B
<1>4. IsFiniteSet(T) /\ Cardinality(T) <= Cardinality(B)
  BY <1>2, FS_Subset DEF A, B
<1>. QED
  BY <1>1, <1>2, <1>3, <1>4, FS_CardinalityType

\* On the last page there are no rows beyond it.
LEMMA LastPageEnds ==
    ASSUME NEW total \in Nat, NEW page \in Nat, page >= TotalPages(total)
    PROVE  total <= page * Limit
<1>1. Limit \in Nat \ {0}
  BY CatalogueAssumption
<1>. DEFINE a == total + Limit - 1
            q == a \div Limit
<1>2. a \in Nat
  BY <1>1
<1>3. q \in Int /\ Limit * q <= a /\ a < Limit * q + Limit
  <2>. HIDE DEF a
  <2>1. \A n \in Nat, d \in Nat \ {0} : /\ n \div d \in Int
                                         /\ d * (n \div d) <= n
                                         /\ n < d * (n \div d) + d
    OBVIOUS
  <2>. QED
    BY <1>1, <1>2, <2>1
<1>4. page >= q
  BY DEF TotalPages
<1>. HIDE DEF q
<1>5. page * Limit \in Int /\ Limit * q \in Int /\ page * Limit >= Limit * q
  <2>1. \A x, y, z \in Int : z >= 0 /\ x >= y => x * z >= z * y
    OBVIOUS
  <2>. QED
    BY <1>1, <1>3, <1>4, <2>1
<1>. QED
  BY <1>1, <1>3, <1>5

-----------------------------------------------------------------------------
(* Rows come and go. *)

\* A row that comes pushes at most one row over each boundary.
LEMMA RowComes ==
    ASSUME NEW rows \in SUBSET Entry, IsFiniteSet(rows), NEW x \in Entry \ rows,
           NEW seen, NEW alone \in SUBSET rows, Distinct(alone),
           NEW steady \in SUBSET alone, NEW shown, shown \cap rows \in SUBSET alone, x \notin shown,
           NEW begin \in Int, NEW end \in Int, NEW over
    PROVE  /\ Cardinality(MissedIn(rows \cup {x}, steady, seen, begin, end, over))
                <= Cardinality(MissedIn(rows, steady, seen, begin, end, over)) + 1
           /\ Cardinality(AgainIn(rows \cup {x}, shown, begin))
                <= Cardinality(AgainIn(rows, shown, begin)) + 1
<1>. DEFINE S == MissedIn(rows, steady, seen, begin, end, over)
            T == MissedIn(rows \cup {x}, steady, seen, begin, end, over)
            U == AgainIn(rows, shown, begin)
            V == AgainIn(rows \cup {x}, shown, begin)
            At0(k) == {r \in alone : Place(r, rows) = k}
<1>1. \A r \in rows : /\ Place(r, rows) \in Nat
                      /\ Place(r, rows \cup {x}) = Place(r, rows) + (IF x.stamp > r.stamp THEN 1 ELSE 0)
  BY PlaceNatural, PlaceInserted
<1>2. \A r \in rows : \/ Place(r, rows \cup {x}) = Place(r, rows)
                      \/ Place(r, rows \cup {x}) = Place(r, rows) + 1
  <2>. SUFFICES ASSUME NEW r \in rows
                PROVE  \/ Place(r, rows \cup {x}) = Place(r, rows)
                       \/ Place(r, rows \cup {x}) = Place(r, rows) + 1
    OBVIOUS
  <2>. DEFINE before == Place(r, rows)
              after  == Place(r, rows \cup {x})
  <2>1. before \in Nat /\ after = before + (IF x.stamp > r.stamp THEN 1 ELSE 0)
    BY <1>1
  <2>. HIDE DEF before, after
  <2>2. after = before \/ after = before + 1
    BY <2>1
  <2>. QED
    BY <2>2 DEF before, after
<1>3. IsFiniteSet(steady) /\ IsFiniteSet(S) /\ IsFiniteSet(U)
  BY FS_Subset DEF MissedIn, AgainIn
<1>4. T \in SUBSET (S \cup At0(end - 1))
  <2>1. \A r \in rows : Place(r, rows \cup {x}) < begin => Place(r, rows) < begin
    BY <1>1, <1>2
  <2>2. \A r \in rows : Place(r, rows \cup {x}) >= end =>
                          Place(r, rows) >= end \/ Place(r, rows) = end - 1
    BY <1>1, <1>2
  <2>. QED
    BY <2>1, <2>2 DEF MissedIn
<1>5. V \in SUBSET (U \cup At0(begin - 1))
  <2>1. \A r \in rows : Place(r, rows \cup {x}) >= begin =>
                          Place(r, rows) >= begin \/ Place(r, rows) = begin - 1
    BY <1>1, <1>2
  <2>. QED
    BY <2>1 DEF AgainIn
<1>. HIDE DEF S, T, U, V
<1>6. Cardinality(T) <= Cardinality(S) + 1
  BY <1>3, <1>4, OneMore
<1>7. Cardinality(V) <= Cardinality(U) + 1
  BY <1>3, <1>5, OneMore
<1>. QED
  BY <1>6, <1>7 DEF S, T, U, V

\* One that goes pulls at most one row over a boundary, and only forward.
LEMMA RowGoes ==
    ASSUME NEW rows \in SUBSET Entry, IsFiniteSet(rows), NEW x \in rows,
           NEW seen, NEW alone \in SUBSET rows, Distinct(alone),
           NEW steady \in SUBSET alone, NEW shown, shown \cap rows \in SUBSET alone,
           NEW begin \in Int, NEW end \in Int, NEW over
    PROVE  /\ Cardinality(MissedIn(rows \ {x}, steady \ {x}, seen, begin, end, over))
                <= Cardinality(MissedIn(rows, steady, seen, begin, end, over)) + 1
           /\ Cardinality(AgainIn(rows \ {x}, shown, begin))
                <= Cardinality(AgainIn(rows, shown, begin))
<1>. DEFINE S == MissedIn(rows, steady, seen, begin, end, over)
            T == MissedIn(rows \ {x}, steady \ {x}, seen, begin, end, over)
            U == AgainIn(rows, shown, begin)
            V == AgainIn(rows \ {x}, shown, begin)
            At0(k) == {r \in alone : Place(r, rows) = k}
<1>1. \A r \in rows : /\ Place(r, rows) \in Nat
                      /\ Place(r, rows \ {x}) = Place(r, rows) - (IF x.stamp > r.stamp THEN 1 ELSE 0)
  BY PlaceNatural, PlaceRemoved
<1>2. \A r \in rows : \/ Place(r, rows \ {x}) = Place(r, rows)
                      \/ Place(r, rows \ {x}) = Place(r, rows) - 1
  <2>. SUFFICES ASSUME NEW r \in rows
                PROVE  \/ Place(r, rows \ {x}) = Place(r, rows)
                       \/ Place(r, rows \ {x}) = Place(r, rows) - 1
    OBVIOUS
  <2>. DEFINE before == Place(r, rows)
              after  == Place(r, rows \ {x})
  <2>1. before \in Nat /\ after = before - (IF x.stamp > r.stamp THEN 1 ELSE 0)
    BY <1>1
  <2>. HIDE DEF before, after
  <2>2. after = before \/ after = before - 1
    BY <2>1
  <2>. QED
    BY <2>2 DEF before, after
<1>3. IsFiniteSet(steady) /\ IsFiniteSet(S) /\ IsFiniteSet(U)
  BY FS_Subset DEF MissedIn, AgainIn
<1>4. T \in SUBSET (S \cup At0(begin))
  <2>1. \A r \in rows : Place(r, rows \ {x}) < begin =>
                          Place(r, rows) < begin \/ Place(r, rows) = begin
    BY <1>1, <1>2
  <2>2. \A r \in rows : Place(r, rows \ {x}) >= end => Place(r, rows) >= end
    BY <1>1, <1>2
  <2>. QED
    BY <2>1, <2>2 DEF MissedIn
<1>5. V \in SUBSET U
  <2>1. \A r \in rows : Place(r, rows \ {x}) >= begin => Place(r, rows) >= begin
    BY <1>1, <1>2
  <2>. QED
    BY <2>1 DEF AgainIn
<1>. HIDE DEF S, T, U, V
<1>6. Cardinality(T) <= Cardinality(S) + 1
  BY <1>3, <1>4, OneMore
<1>7. Cardinality(V) <= Cardinality(U)
  BY <1>3, <1>5, FS_Subset
<1>. QED
  BY <1>6, <1>7 DEF S, T, U, V

\* The entries of a table are finitely many.
LEMMA EntriesFinite ==
    ASSUME NEW R, \A e \in R : e.stamp \in Nat, NEW table \in Seq(R)
    PROVE  /\ Entries(table) \in SUBSET Entry /\ IsFiniteSet(Entries(table))
           /\ \A r \in Entries(table) : r.row \in DOMAIN table /\ r.stamp = table[r.row].stamp
<1>1. /\ DOMAIN table = 1 .. Len(table) /\ Len(table) \in Nat
      /\ \A n \in DOMAIN table : table[n].stamp \in Nat
  OBVIOUS
<1>2. IsFiniteSet(DOMAIN table) /\ DOMAIN table \in SUBSET Nat
  BY <1>1, FS_Interval
<1>. DEFINE f == [n \in DOMAIN table |-> [row |-> n, stamp |-> table[n].stamp]]
<1>3. f \in Surjection(DOMAIN table, Entries(table))
  BY DEF Entries, Surjection
<1>. HIDE DEF f
<1>4. IsFiniteSet(Entries(table))
  BY <1>2, <1>3, FS_Surjection
<1>. QED
  BY <1>1, <1>2, <1>4 DEF Entries, Entry

\* The new table has one entry more, of the row e.
EntryAdded(table, new, e) ==
    \E x \in Entry \ Entries(table) :
        /\ Entries(new) = Entries(table) \cup {x}
        /\ new[x.row] = e
        /\ \A r \in Entries(table) : new[r.row] = table[r.row]

\* A row appended to a table adds an entry and leaves the others as they are.
LEMMA EntriesChange ==
    ASSUME NEW R, \A e \in R : e.stamp \in Nat, NEW table \in Seq(R), NEW e \in R
    PROVE  EntryAdded(table, Append(table, e), e)
<1>. DEFINE new == Append(table, e)
<1>1. /\ DOMAIN table = 1 .. Len(table) /\ Len(table) \in Nat
      /\ DOMAIN new = DOMAIN table \cup {Len(table) + 1}
      /\ Len(table) + 1 \notin DOMAIN table
      /\ new[Len(table) + 1] = e
      /\ \A n \in DOMAIN table : new[n] = table[n]
  OBVIOUS
<1>2. e.stamp \in Nat
  OBVIOUS
<1>. DEFINE x == [row |-> Len(table) + 1, stamp |-> e.stamp]
<1>3. x \in Entry /\ x.row = Len(table) + 1 /\ x.row \notin DOMAIN table /\ x.stamp = e.stamp
  BY <1>1, <1>2 DEF Entry
<1>4. /\ DOMAIN new = DOMAIN table \cup {x.row} /\ new[x.row] = e
      /\ \A n \in DOMAIN table : new[n] = table[n]
  BY <1>1
<1>5. x = [row |-> x.row, stamp |-> e.stamp]
  OBVIOUS
<1>6. \A r \in Entries(table) : r.row \in DOMAIN table
  BY DEF Entries
<1>. HIDE DEF x
<1>7. Entries(new) = Entries(table) \cup {x}
  BY <1>3, <1>4, <1>5 DEF Entries
<1>8. x \notin Entries(table)
  BY <1>3, <1>6
<1>. HIDE DEF new
<1>9. EntryAdded(table, new, e)
  BY <1>3, <1>4, <1>6, <1>7, <1>8 DEF EntryAdded
<1>. QED
  BY <1>9 DEF new

\* The tables hold finitely many rows, and a list shows rows of its table.
LEMMA ListsAreFinite ==
    ASSUME CatalogueInv, NEW list \in Lists
    PROVE  /\ Created[list] \in SUBSET Entry /\ IsFiniteSet(Created[list])
           /\ Listed[list] \in SUBSET Created[list] /\ IsFiniteSet(Listed[list])
<1>1. /\ customers \in Seq(Customer) /\ products \in Seq(Product) /\ invoices \in Seq(Invoice)
  BY DEF CatalogueInv, CatalogueTypeOK
<1>2. /\ Entries(customers) \in SUBSET Entry /\ IsFiniteSet(Entries(customers))
      /\ Entries(products) \in SUBSET Entry /\ IsFiniteSet(Entries(products))
      /\ Entries(invoices) \in SUBSET Entry /\ IsFiniteSet(Entries(invoices))
  BY <1>1, RowTypes, EntriesFinite
<1>3. Created[list] \in SUBSET Entry /\ IsFiniteSet(Created[list])
  BY <1>2 DEF Created, Lists
<1>4. Listed[list] \in SUBSET Created[list]
  BY DEF Listed, Created, Lists
<1>. QED
  BY <1>3, <1>4, FS_Subset

\* A step changes at most one row of a list, and adds only rows that never were in it.
LEMMA ListsChange ==
    ASSUME CatalogueInv, NEW list \in Lists, TablesStep
    PROVE  /\ Created[list] \in SUBSET (Created')[list]
           /\ \/ (Listed')[list] = Listed[list]
              \/ \E x \in Entry \ Created[list] : (Listed')[list] = Listed[list] \cup {x}
              \/ \E x \in Listed[list] : (Listed')[list] = Listed[list] \ {x}
<1>. DEFINE Changes ==
       /\ Created[list] \in SUBSET (Created')[list]
       /\ \/ (Listed')[list] = Listed[list]
          \/ \E x \in Entry \ Created[list] : (Listed')[list] = Listed[list] \cup {x}
          \/ \E x \in Listed[list] : (Listed')[list] = Listed[list] \ {x}
<1>. DEFINE C  == Entries(customers)
            P  == Entries(products)
            N  == Entries(invoices)
            C1 == Entries(customers')
            P1 == Entries(products')
            N1 == Entries(invoices')
<1>0. /\ customers \in Seq(Customer) /\ products \in Seq(Product) /\ invoices \in Seq(Invoice)
      /\ list = "customers" => /\ Listed[list] = {r \in C : customers[r.row].exists}
                               /\ (Listed')[list] = {r \in C1 : customers'[r.row].exists}
                               /\ Created[list] = C /\ (Created')[list] = C1
      /\ list = "products" => /\ Listed[list] = {r \in P : products[r.row].isActive}
                              /\ (Listed')[list] = {r \in P1 : products'[r.row].isActive}
                              /\ Created[list] = P /\ (Created')[list] = P1
      /\ list = "invoices" => /\ Listed[list] = N /\ (Listed')[list] = N1
                              /\ Created[list] = N /\ (Created')[list] = N1
      /\ list \in {"customers", "products", "invoices"}
  BY DEF CatalogueInv, CatalogueTypeOK, Listed, Created, Lists
<1>a. /\ UNCHANGED customers => C1 = C
      /\ UNCHANGED products => P1 = P
      /\ UNCHANGED invoices => N1 = N
  OBVIOUS
<1>b. /\ \A r \in C : r.row \in DOMAIN customers
      /\ \A r \in P : r.row \in DOMAIN products
  BY <1>0, RowTypes, EntriesFinite
<1>. HIDE DEF C, P, N, C1, P1, N1
<1>1. CASE UNCHANGED tables
  BY <1>0, <1>1, <1>a DEF tables
<1>2. CASE CreateCustomer
  <2>1. PICK t \in Stamps : customers' = Append(customers, [stamp |-> t, exists |-> TRUE])
    BY <1>2 DEF CreateCustomer
  <2>. DEFINE e == [stamp |-> t, exists |-> TRUE]
  <2>2. e \in Customer /\ e.exists
    BY DEF Customer
  <2>3. PICK x \in Entry \ C :
          /\ C1 = C \cup {x}
          /\ customers'[x.row] = e
          /\ \A r \in C : customers'[r.row] = customers[r.row]
    <3>1. EntryAdded(customers, Append(customers, e), e)
      <4>. HIDE DEF e
      <4>. QED
        BY <1>0, <2>2, RowTypes, EntriesChange
    <3>2. EntryAdded(customers, customers', e)
      BY <2>1, <3>1
    <3>. QED
      BY <3>2 DEF EntryAdded, C, C1
  <2>. HIDE DEF e
  <2>4. {r \in C1 : customers'[r.row].exists} = {r \in C : customers[r.row].exists} \cup {x}
    BY <2>2, <2>3
  <2>5. CASE list = "customers"
    BY <1>0, <2>3, <2>4, <2>5
  <2>. QED
    BY <1>0, <1>2, <1>a, <2>5 DEF CreateCustomer
<1>3. CASE CreateProduct
  <2>1. PICK t \in Stamps : products' = Append(products, [stamp |-> t, isActive |-> TRUE])
    BY <1>3 DEF CreateProduct
  <2>. DEFINE e == [stamp |-> t, isActive |-> TRUE]
  <2>2. e \in Product /\ e.isActive
    BY DEF Product
  <2>3. PICK x \in Entry \ P :
          /\ P1 = P \cup {x}
          /\ products'[x.row] = e
          /\ \A r \in P : products'[r.row] = products[r.row]
    <3>1. EntryAdded(products, Append(products, e), e)
      <4>. HIDE DEF e
      <4>. QED
        BY <1>0, <2>2, RowTypes, EntriesChange
    <3>2. EntryAdded(products, products', e)
      BY <2>1, <3>1
    <3>. QED
      BY <3>2 DEF EntryAdded, P, P1
  <2>. HIDE DEF e
  <2>4. {r \in P1 : products'[r.row].isActive} = {r \in P : products[r.row].isActive} \cup {x}
    BY <2>2, <2>3
  <2>5. CASE list = "products"
    BY <1>0, <2>3, <2>4, <2>5
  <2>. QED
    BY <1>0, <1>3, <1>a, <2>5 DEF CreateProduct
<1>4. ASSUME NEW o \in Operators, DeleteCustomer(o) PROVE Changes
  <2>. DEFINE c == op[o].row
              x == [row |-> c, stamp |-> customers[c].stamp]
  <2>1. /\ customers' = [customers EXCEPT ![c].exists = FALSE] /\ UNCHANGED <<products, invoices>>
        /\ c \in DOMAIN customers
    BY <1>4 DEF DeleteCustomer, CatalogueInv, CatalogueTypeOK, CustomerSteps, At
  <2>. HIDE DEF c
  <2>2. /\ DOMAIN customers' = DOMAIN customers
        /\ \A d \in DOMAIN customers :
             /\ customers'[d].stamp = customers[d].stamp
             /\ customers'[d].exists = IF d = c THEN FALSE ELSE customers[d].exists
    BY <1>0, <2>1 DEF Customer
  <2>3. C1 = C
    BY <2>2 DEF C, C1, Entries
  <2>4. \A r \in C : r = x <=> r.row = c
    BY DEF C, Entries
  <2>5. {r \in C1 : customers'[r.row].exists} = {r \in C : customers[r.row].exists} \ {x}
    BY <1>b, <2>2, <2>3, <2>4
  <2>. HIDE DEF x
  <2>6. CASE list = "customers"
    <3>1. (Listed')[list] = Listed[list] \ {x}
      BY <1>0, <2>5, <2>6
    <3>2. x \notin Listed[list] => (Listed')[list] = Listed[list]
      BY <3>1
    <3>. QED
      BY <1>0, <2>3, <2>6, <3>1, <3>2
  <2>. QED
    BY <1>0, <1>a, <2>1, <2>6
<1>5. ASSUME NEW o \in Operators, RemoveProduct(o) PROVE Changes
  <2>. DEFINE p == op[o].row
              x == [row |-> p, stamp |-> products[p].stamp]
  <2>1. /\ products' = [products EXCEPT ![p].isActive = FALSE] /\ UNCHANGED <<customers, invoices>>
        /\ p \in DOMAIN products
    BY <1>5 DEF RemoveProduct, CatalogueInv, CatalogueTypeOK, ProductSteps, At
  <2>. HIDE DEF p
  <2>2. /\ DOMAIN products' = DOMAIN products
        /\ \A q \in DOMAIN products :
             /\ products'[q].stamp = products[q].stamp
             /\ products'[q].isActive = IF q = p THEN FALSE ELSE products[q].isActive
    BY <1>0, <2>1 DEF Product
  <2>3. P1 = P
    BY <2>2 DEF P, P1, Entries
  <2>4. \A r \in P : r = x <=> r.row = p
    BY DEF P, Entries
  <2>5. {r \in P1 : products'[r.row].isActive} = {r \in P : products[r.row].isActive} \ {x}
    BY <1>b, <2>2, <2>3, <2>4
  <2>. HIDE DEF x
  <2>6. CASE list = "products"
    <3>1. (Listed')[list] = Listed[list] \ {x}
      BY <1>0, <2>5, <2>6
    <3>2. x \notin Listed[list] => (Listed')[list] = Listed[list]
      BY <3>1
    <3>. QED
      BY <1>0, <2>3, <2>6, <3>1, <3>2
  <2>. QED
    BY <1>0, <1>a, <2>1, <2>6
<1>6. ASSUME NEW o \in Operators, CommitInvoice(o) PROVE Changes
  <2>1. PICK t \in Stamps : invoices' = Append(invoices, [stamp |-> t, customer |-> op[o].row])
    BY <1>6 DEF CommitInvoice
  <2>. DEFINE e == [stamp |-> t, customer |-> op[o].row]
  <2>2. e \in Invoice
    BY <1>6 DEF CommitInvoice, CatalogueInv, OpenCreatesHaveTheirCustomer, CatalogueTypeOK,
       CustomerSteps, At, Invoice
  <2>3. PICK x \in Entry \ N :
          /\ N1 = N \cup {x}
          /\ invoices'[x.row] = e
          /\ \A r \in N : invoices'[r.row] = invoices[r.row]
    <3>1. EntryAdded(invoices, Append(invoices, e), e)
      <4>. HIDE DEF e
      <4>. QED
        BY <1>0, <2>2, RowTypes, EntriesChange
    <3>2. EntryAdded(invoices, invoices', e)
      BY <2>1, <3>1
    <3>. QED
      BY <3>2 DEF EntryAdded, N, N1
  <2>4. CASE list = "invoices"
    BY <1>0, <2>3, <2>4
  <2>. QED
    BY <1>0, <1>6, <1>a, <2>4 DEF CommitInvoice
<1>. QED
  BY <1>1, <1>2, <1>3, <1>4, <1>5, <1>6
  DEF TablesStep, Request, FindCustomer, UpdateCustomer, FindProduct, UpdateProduct, BeginCreate,
      InsertInvoice, Fail, tables

-----------------------------------------------------------------------------
(* The walk. *)

\* The rows that share their stamp with no other have different stamps.
LEMMA AloneDistinct ==
    ASSUME NEW rows
    PROVE  Distinct(Alone(rows)) /\ Alone(rows) \in SUBSET rows
BY DEF Distinct, Alone, Tied

\* A row that comes may share the stamp of one that had it for itself, but frees none.
LEMMA AloneShrinks ==
    ASSUME NEW before, NEW after, before \in SUBSET after
    PROVE  before \cap Alone(after) \in SUBSET Alone(before)
BY DEF Alone, Tied

\* Whatever order a page gives to rows of one stamp, a row that has its stamp for itself
\* is on the page on which its place is.
LEMMA AloneOnPage ==
    ASSUME NEW rows \in SUBSET Entry, IsFiniteSet(rows), NEW page \in Nat,
           NEW shown \in Pages(rows, page), NEW r \in rows, Tied(r, rows) = {r}
    PROVE  r \in shown <=> Place(r, rows) \in Window(page)
<1>. DEFINE k == Place(r, rows)
            W == Window(page)
<1>1. Cardinality({r}) = 1 /\ Cardinality({k}) = 1 /\ Cardinality({}) = 0
  BY FS_Singleton, FS_EmptySet
<1>2. k \in Nat
  BY PlaceNatural
<1>3. Places(r, rows) = {k}
  <2>1. Places(r, rows) = k .. k + 1 - 1
    BY <1>1 DEF Places, Place
  <2>. HIDE DEF k
  <2>. QED
    BY <1>2, <2>1
<1>4. Cardinality(Tied(r, shown)) = Cardinality({k} \cap W)
  BY <1>3 DEF Pages
<1>5. Tied(r, shown) = IF r \in shown THEN {r} ELSE {}
  <2>1. shown \in SUBSET rows
    BY DEF Pages
  <2>. QED
    BY <2>1 DEF Tied
<1>. HIDE DEF k, W
<1>6. {k} \cap W = IF k \in W THEN {k} ELSE {}
  OBVIOUS
<1>7. r \in shown <=> k \in W
  BY <1>1, <1>4, <1>5, <1>6
<1>. QED
  BY <1>7 DEF k, W

\* Nobody reads a list at first.
LEMMA WalkInit == CatalogueInit => WalkInv
<1>. SUFFICES ASSUME CatalogueInit PROVE WalkInv
  OBVIOUS
<1>1. walk = NoWalk
  BY DEF CatalogueInit
<1>2. IsFiniteSet({})
  BY FS_EmptySet
<1>3. WalkTyped /\ ~Walking
  BY <1>1, <1>2 DEF NoWalk, WalkTyped, Walking
<1>. QED
  BY <1>1, <1>3 DEF WalkInv, SteadyAreCreated, WalkFindsWhatStays, Answered

\* What the counts say once the last page is shown: all of it was passed by.
LEMMA WalkEnds ==
    CatalogueInv /\ WalkTyped /\ Walking /\ WalkCounts => WalkFindsWhatStays
<1>. SUFFICES ASSUME CatalogueInv, WalkTyped, Walking, WalkCounts, Answered, LastPage
              PROVE  /\ Cardinality((walk.steady \cap Alone(Created[walk.list])) \ walk.seen) <= walk.changes
                     /\ walk.repeated <= walk.changes
  BY DEF WalkFindsWhatStays
<1>1. /\ walk.total \in Nat /\ walk.page \in Nat /\ walk.list \in Lists
      /\ walk.rowsRead /\ walk.total # None
      /\ walk.changes \in Nat /\ walk.repeated \in Nat /\ IsFiniteSet(walk.seen)
  BY DEF WalkTyped, Answered, Walking
<1>2. Over
  BY <1>1, LastPageEnds DEF LastPage, Over, End
<1>3. Begin = End /\ End \in Int
  BY <1>1, CatalogueAssumption DEF Begin, End
<1>4. Rows \in SUBSET Entry /\ IsFiniteSet(Rows)
  BY <1>1, ListsAreFinite DEF Rows
<1>5. \A r \in walk.steady : Place(r, Rows) \in Nat
  BY <1>4, PlaceNatural DEF WalkCounts
<1>6. \A r \in walk.steady : Place(r, Rows) < Begin \/ Place(r, Rows) >= End
  BY <1>3, <1>5
<1>7. Missed = (walk.steady \cap Alone(Created[walk.list])) \ walk.seen
  BY <1>2, <1>6 DEF Missed, MissedIn
<1>8. Cardinality(Again) \in Nat
  BY <1>1, FS_Subset, FS_CardinalityType DEF Again, AgainIn
<1>. QED
  BY <1>1, <1>7, <1>8 DEF WalkCounts

\* The rows listed all the time are rows of the table.
LEMMA SteadyOfList ==
    CatalogueInv /\ WalkTyped /\ Walking /\ WalkCounts => SteadyAreCreated
BY ListsAreFinite DEF WalkTyped, Walking, WalkCounts, SteadyAreCreated, Rows

\* The same after a step.
LEMMA WalkEndsNext ==
    (CatalogueInv /\ WalkTyped /\ Walking /\ WalkCounts)'
       => WalkFindsWhatStays' /\ SteadyAreCreated'
  BY WalkEnds, SteadyOfList, PTL

\* Rows that come and go while the client reads are counted.
LEMMA TablesKeepWalk ==
    ASSUME CatalogueInv, CatalogueInv', WalkInv, TablesStep, Watch
    PROVE  WalkInv'
<1>1. WalkTyped /\ WalkFindsWhatStays /\ SteadyAreCreated
  BY DEF WalkInv
<1>2. \A list \in Lists :
        /\ Created[list] \in SUBSET (Created')[list]
        /\ \/ (Listed')[list] = Listed[list]
           \/ \E x \in Entry \ Created[list] : (Listed')[list] = Listed[list] \cup {x}
           \/ \E x \in Listed[list] : (Listed')[list] = Listed[list] \ {x}
  BY ListsChange
<1>3. CASE ~Walking \/ (Answered /\ LastPage)
  <2>1. walk' = walk
    BY <1>3 DEF Watch
  <2>2. /\ WalkTyped' /\ (Answered /\ LastPage)' = (Answered /\ LastPage) /\ Walking' = Walking
    BY <1>1, <2>1 DEF WalkTyped, Answered, LastPage, Walking
  <2>3. CASE ~Walking
    BY <2>2, <2>3 DEF WalkInv, SteadyAreCreated, WalkFindsWhatStays, Answered
  <2>4. CASE Walking /\ Answered /\ LastPage
    <3>. DEFINE list == walk.list
                missed == (walk.steady \cap Alone(Created[list])) \ walk.seen
                missedNext == (walk.steady \cap Alone((Created')[list])) \ walk.seen
    <3>1. /\ list \in Lists /\ IsFiniteSet(walk.steady) /\ walk.changes \in Nat
          /\ walk.steady \in SUBSET Created[list]
          /\ Cardinality(missed) <= walk.changes /\ walk.repeated <= walk.changes
      BY <1>1, <2>4 DEF WalkTyped, Walking, SteadyAreCreated, WalkFindsWhatStays
    <3>2. Created[list] \in SUBSET (Created')[list]
      BY <1>2, <3>1
    <3>3. Created[list] \cap Alone((Created')[list]) \in SUBSET Alone(Created[list])
      BY <3>2, AloneShrinks
    <3>4. missedNext \in SUBSET missed /\ IsFiniteSet(missed)
      BY <3>1, <3>3, FS_Subset
    <3>5. Cardinality(missedNext) <= walk.changes
      <4>1. IsFiniteSet(missedNext) /\ Cardinality(missedNext) <= Cardinality(missed)
        BY <3>4, FS_Subset
      <4>. HIDE DEF missed, missedNext
      <4>. QED
        BY <3>1, <3>4, <4>1, FS_CardinalityType
    <3>6. Alone(Created[walk.list])' = Alone((Created')[list]) /\ Created[walk.list]' = (Created')[list]
      BY <2>1 DEF Alone
    <3>7. WalkFindsWhatStays'
      BY <2>1, <3>1, <3>5, <3>6 DEF WalkFindsWhatStays
    <3>8. SteadyAreCreated'
      BY <2>1, <3>1, <3>2, <3>6 DEF SteadyAreCreated
    <3>. QED
      BY <2>2, <2>4, <3>7, <3>8 DEF WalkInv
  <2>. QED
    BY <1>3, <2>3, <2>4
<1>4. CASE Walking /\ ~(Answered /\ LastPage)
  <2>. DEFINE list   == walk.list
              before == Listed[list]
              after  == (Listed')[list]
              gone   == before \ after
              come   == after \ before
              alone  == Alone(Created[list])
              steady == walk.steady \cap alone
              shown  == walk.seen \cap alone
              m(rows, kept) == MissedIn(rows, kept, walk.seen, Begin, End, Over)
              a(rows)       == AgainIn(rows, shown, Begin)
  <2>1. /\ list \in Lists /\ walk.page \in Nat /\ walk.rowsRead \in BOOLEAN
        /\ walk.seen \in SUBSET Entry /\ IsFiniteSet(walk.seen) /\ IsFiniteSet(walk.steady)
        /\ walk.changes \in Nat /\ walk.repeated \in Nat
        /\ walk.steady \in SUBSET Entry
    BY <1>1, <1>4 DEF WalkTyped, Walking
  <2>2. walk' = [walk EXCEPT !.steady  = walk.steady \cap after,
                             !.changes = walk.changes + Cardinality(gone) + Cardinality(come)]
    BY <1>4 DEF Watch
  <2>3. /\ walk'.list = list /\ walk'.page = walk.page /\ walk'.total = walk.total
        /\ walk'.rowsRead = walk.rowsRead /\ walk'.seen = walk.seen
        /\ walk'.repeated = walk.repeated /\ walk'.steady = walk.steady \cap after
        /\ walk'.changes = walk.changes + Cardinality(gone) + Cardinality(come)
    BY <1>1, <2>2 DEF WalkTyped
  <2>4. /\ before \in SUBSET Created[list] /\ before \in SUBSET Entry /\ IsFiniteSet(before)
        /\ Created[list] \in SUBSET (Created')[list]
        /\ \/ after = before
           \/ \E x \in Entry \ Created[list] : after = before \cup {x}
           \/ \E x \in before : after = before \ {x}
    BY <1>1, <1>2, <2>1, ListsAreFinite
  <2>5. /\ walk.seen \in SUBSET Created[list] /\ walk.steady \in SUBSET before
        /\ Cardinality(m(before, steady)) <= walk.changes
        /\ Cardinality(a(before)) + walk.repeated <= walk.changes
    BY <1>4 DEF WalkInv, WalkCounts, Missed, Again, Rows
  <2>a. /\ Distinct(before \cap alone)
        /\ steady \in SUBSET (before \cap alone) /\ shown \cap before \in SUBSET (before \cap alone)
        /\ IsFiniteSet(steady) /\ IsFiniteSet(shown) /\ shown \in SUBSET Created[list]
        /\ walk'.steady \cap Alone((Created')[list]) \in SUBSET (steady \cap after)
        /\ walk.seen \cap Alone((Created')[list]) \in SUBSET shown
    <3>1. Created[list] \cap Alone((Created')[list]) \in SUBSET alone
      <4>1. Created[list] \in SUBSET (Created')[list]
        BY <2>4
      <4>. QED
        BY <4>1, AloneShrinks
    <3>2. Distinct(before \cap alone)
      BY AloneDistinct DEF Distinct
    <3>3. IsFiniteSet(steady) /\ IsFiniteSet(shown)
      BY <2>1, FS_Subset
    <3>. HIDE DEF alone, before, after
    <3>. QED
      BY <2>3, <2>4, <2>5, <3>1, <3>2, <3>3
  <2>6. /\ Begin \in Int /\ End \in Int /\ Rows' = after
        /\ Missed' \in SUBSET m(after, steady \cap after)
        /\ Again' \in SUBSET a(after)
    <3>1. Limit \in Int
      BY CatalogueAssumption
    <3>2. Begin \in Int /\ End \in Int
      BY <2>1, <3>1 DEF Begin, End
    <3>3. Begin' = Begin /\ End' = End /\ Over' = Over /\ Rows' = after
      BY <2>3 DEF Begin, End, Over, Rows
    <3>4. Alone(Created[walk.list])' = Alone((Created')[list])
      BY <2>3 DEF Alone
    <3>5. /\ Missed' = m(after, walk'.steady \cap Alone((Created')[list]))
          /\ Again' = AgainIn(after, walk.seen \cap Alone((Created')[list]), Begin)
      BY <2>3, <3>3, <3>4 DEF Missed, Again
    <3>. HIDE DEF alone, before, after, steady, shown
    <3>. QED
      BY <2>a, <3>2, <3>3, <3>5 DEF MissedIn, AgainIn
  <2>7. /\ Cardinality(m(before, steady)) \in Nat /\ Cardinality(a(before)) \in Nat
    <3>. HIDE DEF steady, shown
    <3>. QED
      BY <2>a, FS_Subset, FS_CardinalityType DEF MissedIn, AgainIn
  <2>8. /\ IsFiniteSet(m(after, steady \cap after)) /\ IsFiniteSet(a(after))
        /\ Cardinality(m(after, steady \cap after)) \in Nat /\ Cardinality(a(after)) \in Nat
        /\ IsFiniteSet(walk'.steady)
    <3>1. IsFiniteSet(walk'.steady) /\ IsFiniteSet(steady \cap after)
      BY <2>1, <2>3, <2>a, FS_Subset
    <3>. HIDE DEF steady, shown, after
    <3>2. IsFiniteSet(m(after, steady \cap after)) /\ IsFiniteSet(a(after))
      BY <2>a, <3>1, FS_Subset DEF MissedIn, AgainIn
    <3>. QED
      BY <3>1, <3>2, FS_CardinalityType
  <2>. DEFINE Counted == /\ walk'.steady \in SUBSET after
                         /\ walk'.changes \in Nat
                         /\ Cardinality(m(after, steady \cap after)) <= walk'.changes
                         /\ Cardinality(a(after)) + walk.repeated <= walk'.changes
  <2>9. Counted
    <3>1. CASE after = before
      <4>1. gone = {} /\ come = {} /\ walk'.steady = walk.steady /\ steady \cap after = steady
        BY <2>3, <2>5, <3>1
      <4>2. walk'.changes = walk.changes
        <5>1. Cardinality(gone) = 0 /\ Cardinality(come) = 0
          BY <4>1, FS_EmptySet
        <5>. HIDE DEF gone, come
        <5>. QED
          BY <2>1, <2>3, <5>1
      <4>. HIDE DEF m, a, after, before, steady, shown
      <4>. QED
        BY <2>1, <2>5, <3>1, <4>1, <4>2
    <3>2. ASSUME NEW x \in Entry \ Created[list], after = before \cup {x} PROVE Counted
      <4>1. /\ gone = {} /\ come = {x} /\ x \in Entry \ before /\ x \notin shown
            /\ steady \cap after = steady
        BY <2>3, <2>4, <2>5, <3>2
      <4>2. walk'.changes = walk.changes + 1
        <5>1. Cardinality({}) = 0 /\ Cardinality({x}) = 1
          BY FS_EmptySet, FS_Singleton
        <5>2. Cardinality(gone) = 0 /\ Cardinality(come) = 1
          BY <4>1, <5>1
        <5>. HIDE DEF gone, come
        <5>. QED
          BY <2>1, <2>3, <5>2
      <4>3. /\ Cardinality(m(after, steady)) <= Cardinality(m(before, steady)) + 1
            /\ Cardinality(a(after)) <= Cardinality(a(before)) + 1
        <5>. DEFINE here == before \cap alone
        <5>1. here \in SUBSET before
          OBVIOUS
        <5>2. /\ before \in SUBSET Entry /\ IsFiniteSet(before) /\ x \in Entry \ before
              /\ Distinct(here) /\ steady \in SUBSET here /\ shown \cap before \in SUBSET here
              /\ x \notin shown /\ Begin \in Int /\ End \in Int
          BY <2>4, <2>6, <2>a, <4>1
        <5>. HIDE DEF before, after, here, steady, shown
        <5>. QED
          BY <3>2, <5>1, <5>2, RowComes
      <4>4. walk'.steady \in SUBSET after
        BY <2>3
      <4>5. Cardinality(m(after, steady \cap after)) <= Cardinality(m(before, steady)) + 1
        <5>. HIDE DEF m, after, before, steady
        <5>. QED
          BY <4>1, <4>3
      <4>. DEFINE m0 == Cardinality(m(before, steady))
                  m1 == Cardinality(m(after, steady \cap after))
                  a0 == Cardinality(a(before))
                  a1 == Cardinality(a(after))
      <4>6. /\ m0 \in Nat /\ m1 \in Nat /\ a0 \in Nat /\ a1 \in Nat
            /\ m0 <= walk.changes /\ a0 + walk.repeated <= walk.changes
            /\ m1 <= m0 + 1 /\ a1 <= a0 + 1
        <5>. HIDE DEF m, a, after, before, steady, shown
        <5>. QED
          BY <2>5, <2>7, <2>8, <4>3, <4>5
      <4>. HIDE DEF m0, m1, a0, a1
      <4>7. m1 <= walk'.changes /\ a1 + walk.repeated <= walk'.changes /\ walk'.changes \in Nat
        BY <2>1, <4>2, <4>6
      <4>. QED
        BY <4>4, <4>7 DEF m1, a1
    <3>3. ASSUME NEW x \in before, after = before \ {x} PROVE Counted
      <4>1. gone = {x} /\ come = {} /\ steady \cap after = steady \ {x}
        BY <2>3, <2>5, <3>3
      <4>2. walk'.changes = walk.changes + 1
        <5>1. Cardinality({}) = 0 /\ Cardinality({x}) = 1
          BY FS_EmptySet, FS_Singleton
        <5>2. Cardinality(gone) = 1 /\ Cardinality(come) = 0
          BY <4>1, <5>1
        <5>. HIDE DEF gone, come
        <5>. QED
          BY <2>1, <2>3, <5>2
      <4>3. /\ Cardinality(m(after, steady \ {x})) <= Cardinality(m(before, steady)) + 1
            /\ Cardinality(a(after)) <= Cardinality(a(before))
        <5>. DEFINE here == before \cap alone
        <5>1. here \in SUBSET before
          OBVIOUS
        <5>2. /\ before \in SUBSET Entry /\ IsFiniteSet(before)
              /\ Distinct(here) /\ steady \in SUBSET here /\ shown \cap before \in SUBSET here
              /\ Begin \in Int /\ End \in Int
          BY <2>4, <2>6, <2>a
        <5>. HIDE DEF before, after, here, steady, shown
        <5>. QED
          BY <3>3, <5>1, <5>2, RowGoes
      <4>4. walk'.steady \in SUBSET after
        BY <2>3
      <4>5. Cardinality(m(after, steady \cap after)) <= Cardinality(m(before, steady)) + 1
        <5>. HIDE DEF m, after, before, steady
        <5>. QED
          BY <4>1, <4>3
      <4>. DEFINE m0 == Cardinality(m(before, steady))
                  m1 == Cardinality(m(after, steady \cap after))
                  a0 == Cardinality(a(before))
                  a1 == Cardinality(a(after))
      <4>6. /\ m0 \in Nat /\ m1 \in Nat /\ a0 \in Nat /\ a1 \in Nat
            /\ m0 <= walk.changes /\ a0 + walk.repeated <= walk.changes
            /\ m1 <= m0 + 1 /\ a1 <= a0 + 1
        <5>. HIDE DEF m, a, after, before, steady, shown
        <5>. QED
          BY <2>5, <2>7, <2>8, <4>3, <4>5
      <4>. HIDE DEF m0, m1, a0, a1
      <4>7. m1 <= walk'.changes /\ a1 + walk.repeated <= walk'.changes /\ walk'.changes \in Nat
        BY <2>1, <4>2, <4>6
      <4>. QED
        BY <4>4, <4>7 DEF m1, a1
    <3>. QED
      BY <2>4, <3>1, <3>2, <3>3
  <2>b. Cardinality(Missed') <= walk'.changes /\ Cardinality(Again') + walk'.repeated <= walk'.changes
    <3>. HIDE DEF m, a, after, before, steady, shown
    <3>1. /\ Cardinality(Missed') <= Cardinality(m(after, steady \cap after))
          /\ Cardinality(Again') <= Cardinality(a(after))
          /\ IsFiniteSet(Missed') /\ IsFiniteSet(Again')
      BY <2>6, <2>8, FS_Subset
    <3>2. Cardinality(Missed') \in Nat /\ Cardinality(Again') \in Nat
      BY <3>1, FS_CardinalityType
    <3>. QED
      BY <2>1, <2>3, <2>8, <2>9, <3>1, <3>2
  <2>10. WalkTyped'
    <3>1. /\ walk'.steady \in SUBSET Entry /\ walk'.changes \in Nat /\ IsFiniteSet(walk'.steady)
      BY <2>1, <2>3, <2>8, <2>9
    <3>2. walk' = [walk EXCEPT !.steady = walk'.steady, !.changes = walk'.changes]
      BY <2>2, <2>3
    <3>3. walk' \in [list : Lists \cup {None}, page : Nat, total : Nat \cup {None},
                     rowsRead : BOOLEAN, seen : SUBSET Entry, repeated : Nat,
                     steady : SUBSET Entry, changes : Nat]
      <4>. DEFINE s == walk'.steady
                  c == walk'.changes
      <4>1. walk' = [walk EXCEPT !.steady = s, !.changes = c]
        BY <3>2
      <4>2. s \in SUBSET Entry /\ c \in Nat
        BY <3>1
      <4>. HIDE DEF s, c
      <4>. QED
        BY <1>1, <4>1, <4>2 DEF WalkTyped
    <3>. QED
      BY <1>1, <2>3, <3>1, <3>3 DEF WalkTyped, Walking
  <2>11. /\ (Walking /\ ~(Answered /\ LastPage))'
         /\ WalkFindsWhatStays'
    BY <1>4, <2>3 DEF Walking, Answered, LastPage, WalkFindsWhatStays
  <2>12. WalkCounts'
    <3>1. walk'.seen \subseteq (Created')[list]
      BY <2>3, <2>4, <2>5
    <3>2. Created[walk.list]' = (Created')[list]
      BY <2>3
    <3>. HIDE DEF m, a, after, before
    <3>. QED
      BY <2>3, <2>6, <2>9, <2>b, <3>1, <3>2 DEF WalkCounts
  <2>. QED
    BY <2>10, <2>11, <2>12, WalkEndsNext DEF WalkInv
<1>. QED
  BY <1>3, <1>4

-----------------------------------------------------------------------------
(* The client's own steps: the tables stay. *)

\* At the start nothing was passed by or shown.
LEMMA StartKeeps ==
    ASSUME CatalogueInv, WalkInv, StartWalk, UNCHANGED tables
    PROVE  WalkInv'
<1>1. PICK list \in Lists :
        walk' = [NoWalk EXCEPT !.list = list, !.page = 1, !.steady = Listed[list]]
  BY DEF StartWalk
<1>2. walk' = [list |-> list, page |-> 1, total |-> None, rowsRead |-> FALSE, seen |-> {},
               repeated |-> 0, steady |-> Listed[list], changes |-> 0]
  BY <1>1 DEF NoWalk
<1>3. (Listed')[list] = Listed[list] /\ (Created')[list] = Created[list]
  BY DEF tables, Listed, Created
<1>4. Listed[list] \in SUBSET Entry /\ IsFiniteSet(Listed[list]) /\ IsFiniteSet({})
  BY ListsAreFinite, FS_EmptySet
<1>5. WalkTyped'
  <2>. DEFINE rows == Listed[list]
  <2>1. /\ walk' = [list |-> list, page |-> 1, total |-> None, rowsRead |-> FALSE, seen |-> {},
                    repeated |-> 0, steady |-> rows, changes |-> 0]
        /\ rows \in SUBSET Entry /\ IsFiniteSet(rows) /\ IsFiniteSet({})
    BY <1>2, <1>4
  <2>. HIDE DEF rows
  <2>. QED
    BY <2>1 DEF WalkTyped
<1>6. WalkCounts'
  <2>1. Begin' = 0 /\ Over' = FALSE /\ Rows' = Listed[list]
    BY <1>2, <1>3, CatalogueAssumption DEF Begin, Over, Rows
  <2>2. \A r \in Listed[list] : Place(r, Listed[list]) \in Nat
    BY <1>4, PlaceNatural
  <2>3. Missed' = {}
    BY <1>2, <2>1, <2>2 DEF Missed, MissedIn
  <2>4. Again' = {}
    BY <1>2 DEF Again, AgainIn
  <2>5. Cardinality({}) = 0
    BY FS_EmptySet
  <2>. QED
    BY <1>2, <2>1, <2>3, <2>4, <2>5 DEF WalkCounts
<1>7. ~Answered'
  BY <1>2 DEF Answered
<1>8. SteadyAreCreated'
  BY <1>2, <1>3, ListsAreFinite DEF SteadyAreCreated
<1>. QED
  BY <1>5, <1>6, <1>7, <1>8 DEF WalkInv, WalkFindsWhatStays

\* A step of a walk under way keeps the invariant if it keeps the counts.
LEMMA WalkGoesOn ==
    ASSUME CatalogueInv', WalkInv, UNCHANGED tables, WalkTyped', Walking', WalkCounts'
    PROVE  WalkInv'
BY WalkEndsNext DEF WalkInv

\* What the invariant says of a walk under way, in one place.
LEMMA WalkFacts ==
    ASSUME CatalogueInv, WalkInv, Walking, ~(Answered /\ LastPage)
    PROVE  /\ walk.list \in Lists /\ walk.page \in Nat /\ walk.page > 0
           /\ walk.total \in Nat \cup {None}
           /\ walk.rowsRead \in BOOLEAN
           /\ walk.seen \in SUBSET Entry /\ IsFiniteSet(walk.seen)
           /\ walk.steady \in SUBSET Rows
           /\ walk.changes \in Nat /\ walk.repeated \in Nat
           /\ Rows \in SUBSET Entry /\ IsFiniteSet(Rows) /\ Rows \in SUBSET Created[walk.list]
           /\ Begin \in Int /\ End \in Int /\ Limit \in Nat \ {0}
           /\ IsFiniteSet(Missed) /\ Cardinality(Missed) \in Nat
           /\ IsFiniteSet(Again) /\ Cardinality(Again) \in Nat
           /\ \A r \in Rows : Place(r, Rows) \in Nat /\ Place(r, Rows) < Cardinality(Rows)
           /\ WalkCounts /\ WalkTyped
<1>1. /\ walk.list \in Lists /\ walk.page \in Nat /\ walk.page > 0 /\ walk.rowsRead \in BOOLEAN
      /\ walk.total \in Nat \cup {None}
      /\ walk.seen \in SUBSET Entry /\ IsFiniteSet(walk.seen) /\ IsFiniteSet(walk.steady)
      /\ walk.changes \in Nat /\ walk.repeated \in Nat
      /\ WalkCounts /\ WalkTyped
  BY DEF WalkInv, WalkTyped, Walking
<1>2. Rows \in SUBSET Entry /\ IsFiniteSet(Rows) /\ Rows \in SUBSET Created[walk.list]
  BY <1>1, ListsAreFinite DEF Rows
<1>3. Begin \in Int /\ End \in Int /\ Limit \in Nat \ {0}
  BY <1>1, CatalogueAssumption DEF Begin, End
<1>4. /\ IsFiniteSet(Missed) /\ Cardinality(Missed) \in Nat
      /\ IsFiniteSet(Again) /\ Cardinality(Again) \in Nat
  BY <1>1, FS_Subset, FS_CardinalityType DEF Missed, MissedIn, Again, AgainIn
<1>5. \A r \in Rows : Place(r, Rows) \in Nat /\ Place(r, Rows) < Cardinality(Rows)
  BY <1>2, PlaceNatural
<1>. QED
  BY <1>1, <1>2, <1>3, <1>4, <1>5 DEF WalkCounts

\* A page shows what is left between its ends, and what it shows again it owed.
LEMMA ReadRowsKeeps ==
    ASSUME CatalogueInv, CatalogueInv', WalkInv, ReadRows, UNCHANGED tables
    PROVE  WalkInv'
<1>. DEFINE alone == Alone(Created[walk.list])
<1>a. PICK shown \in Pages(Rows, walk.page) :
        walk' = [walk EXCEPT !.rowsRead = TRUE, !.seen = walk.seen \cup shown,
                             !.repeated = walk.repeated
                                            + Cardinality(shown \cap walk.seen \cap alone)]
  BY DEF ReadRows, Rows
<1>. DEFINE again  == shown \cap walk.seen \cap alone
            later  == {r \in ((walk.seen \cup shown) \cap alone) \cap Rows : Place(r, Rows) >= End}
<1>0. Walking /\ ~walk.rowsRead /\ ~(Answered /\ LastPage)
  BY DEF ReadRows, Answered
<1>1. /\ walk.list \in Lists /\ walk.page \in Nat /\ walk.page > 0
      /\ walk.seen \in SUBSET Entry /\ IsFiniteSet(walk.seen)
      /\ walk.steady \in SUBSET Rows
      /\ walk.changes \in Nat /\ walk.repeated \in Nat
      /\ Rows \in SUBSET Entry /\ IsFiniteSet(Rows) /\ Rows \in SUBSET Created[walk.list]
      /\ Begin \in Int /\ End \in Int /\ Limit \in Nat \ {0}
      /\ IsFiniteSet(Missed) /\ Cardinality(Missed) \in Nat
      /\ IsFiniteSet(Again) /\ Cardinality(Again) \in Nat
      /\ \A r \in Rows : Place(r, Rows) \in Nat
      /\ WalkCounts /\ WalkTyped
  BY <1>0, WalkFacts
<1>2. walk' = [walk EXCEPT !.rowsRead = TRUE, !.seen = walk.seen \cup shown,
                           !.repeated = walk.repeated + Cardinality(again)]
  BY <1>a
<1>3. /\ walk'.list = walk.list /\ walk'.page = walk.page /\ walk'.total = walk.total
      /\ walk'.rowsRead = TRUE /\ walk'.seen = walk.seen \cup shown
      /\ walk'.repeated = walk.repeated + Cardinality(again)
      /\ walk'.steady = walk.steady /\ walk'.changes = walk.changes
  BY <1>1, <1>2 DEF WalkTyped
<1>4. /\ Begin = (walk.page - 1) * Limit /\ End = walk.page * Limit /\ Begin + Limit = End
  BY <1>0, <1>1 DEF Begin, End
<1>5. /\ shown \in SUBSET Rows
      /\ \A r \in Rows \cap alone : r \in shown <=> Begin <= Place(r, Rows) /\ Place(r, Rows) < End
  <2>1. shown \in SUBSET Rows
    BY <1>a DEF Pages
  <2>2. \A r \in Rows \cap alone : Tied(r, Rows) = {r}
    BY <1>1 DEF Alone, Tied
  <2>3. \A r \in Rows \cap alone : r \in shown <=> Place(r, Rows) \in Window(walk.page)
    BY <1>a, <1>1, <2>2, AloneOnPage
  <2>4. \A r \in Rows : Place(r, Rows) \in (walk.page - 1) * Limit .. walk.page * Limit - 1
                          <=> Begin <= Place(r, Rows) /\ Place(r, Rows) < End
    BY <1>1, <1>4
  <2>. QED
    BY <2>1, <2>3, <2>4 DEF Window
<1>6. /\ Begin' = End /\ End' = End /\ Over' = Over /\ Rows' = Rows
      /\ Created[walk.list]' = Created[walk.list] /\ Alone(Created[walk.list])' = alone
  <2>1. Listed' = Listed /\ Created' = Created
    BY DEF tables, Listed, Created
  <2>. QED
    BY <1>3, <2>1 DEF Begin, End, Over, Rows, Alone
<1>7. Missed' \in SUBSET Missed
  <2>1. Missed' = MissedIn(Rows, walk.steady \cap alone, walk.seen \cup shown, End, End, Over)
    BY <1>3, <1>6 DEF Missed
  <2>2. \A r \in Rows \cap alone : Place(r, Rows) < End /\ r \notin shown => Place(r, Rows) < Begin
    BY <1>1, <1>5
  <2>. HIDE DEF alone
  <2>3. Missed = MissedIn(Rows, walk.steady \cap alone, walk.seen, Begin, End, Over)
    BY DEF Missed, alone
  <2>. QED
    BY <1>1, <2>1, <2>2, <2>3 DEF MissedIn
<1>8. Again' = later
  BY <1>3, <1>6 DEF Again, AgainIn
<1>9. /\ later \in SUBSET Again /\ again \in SUBSET Again /\ later \cap again = {}
  <2>1. later \in SUBSET Again
    BY <1>1, <1>4, <1>5 DEF Again, AgainIn
  <2>2. again \in SUBSET Again
    BY <1>1, <1>5 DEF Again, AgainIn
  <2>3. later \cap again = {}
    BY <1>1, <1>5
  <2>. QED
    BY <2>1, <2>2, <2>3
<1>10. /\ IsFiniteSet(shown) /\ IsFiniteSet(again) /\ IsFiniteSet(later)
       /\ IsFiniteSet(walk.seen \cup shown)
       /\ Cardinality(again) \in Nat /\ Cardinality(later) \in Nat
       /\ Cardinality(later) + Cardinality(again) <= Cardinality(Again)
  <2>1. IsFiniteSet(shown)
    BY <1>1, <1>5, FS_Subset
  <2>2. IsFiniteSet(again) /\ IsFiniteSet(later)
    BY <1>1, <1>9, FS_Subset
  <2>3. IsFiniteSet(walk.seen \cup shown)
    BY <1>1, <2>1, FS_Union
  <2>. HIDE DEF later, again
  <2>4. /\ Cardinality(later \cup again)
             = Cardinality(later) + Cardinality(again) - Cardinality({})
        /\ Cardinality({}) = 0
    BY <1>9, <2>2, FS_Union, FS_EmptySet
  <2>5. later \cup again \in SUBSET Again
    BY <1>9
  <2>6. Cardinality(later \cup again) <= Cardinality(Again)
    BY <1>1, <2>5, FS_Subset
  <2>7. Cardinality(again) \in Nat /\ Cardinality(later) \in Nat
    BY <2>2, FS_CardinalityType
  <2>. QED
    BY <2>1, <2>2, <2>3, <2>4, <2>6, <2>7
<1>11. Cardinality(Missed') <= walk.changes
  <2>1. Cardinality(Missed') <= Cardinality(Missed) /\ Cardinality(Missed') \in Nat
    BY <1>1, <1>7, FS_Subset, FS_CardinalityType
  <2>. QED
    BY <1>1, <2>1 DEF WalkCounts
<1>12. walk.seen \cup shown \in SUBSET Created[walk.list] /\ walk.seen \cup shown \in SUBSET Entry
  BY <1>1, <1>5 DEF WalkCounts
<1>. HIDE DEF again, later, alone
<1>13. WalkTyped' /\ Walking'
  <2>. DEFINE s == walk.seen \cup shown
              n == walk.repeated + Cardinality(again)
  <2>1. /\ walk' = [walk EXCEPT !.rowsRead = TRUE, !.seen = s, !.repeated = n]
        /\ s \in SUBSET Entry /\ IsFiniteSet(s) /\ n \in Nat /\ walk'.seen = s
    BY <1>1, <1>2, <1>3, <1>10, <1>12
  <2>. HIDE DEF s, n
  <2>. QED
    BY <1>0, <1>1, <1>3, <2>1 DEF WalkTyped, Walking
<1>14. WalkCounts'
  <2>1. /\ walk'.seen \subseteq Created[walk.list]'
        /\ walk'.steady \subseteq Rows'
    BY <1>1, <1>3, <1>6, <1>12
  <2>2. Cardinality(Again') + walk'.repeated <= walk'.changes
    <3>1. Cardinality(Again) + walk.repeated <= walk.changes
      BY <1>1 DEF WalkCounts
    <3>. QED
      BY <1>1, <1>3, <1>8, <1>10, <3>1
  <2>. QED
    BY <1>3, <1>11, <2>1, <2>2 DEF WalkCounts
<1>. QED
  BY <1>13, <1>14, WalkGoesOn

\* A page count of now has no rows beyond it.
LEMMA ReadTotalKeeps ==
    ASSUME CatalogueInv, CatalogueInv', WalkInv, ReadTotal, UNCHANGED tables
    PROVE  WalkInv'
<1>. DEFINE total == Cardinality(Rows)
<1>0. Walking /\ ~(Answered /\ LastPage)
  BY DEF ReadTotal, Answered
<1>1. /\ walk.list \in Lists
      /\ walk.steady \in SUBSET Rows /\ walk.changes \in Nat
      /\ Rows \in SUBSET Entry /\ IsFiniteSet(Rows)
      /\ Begin \in Int /\ End \in Int
      /\ IsFiniteSet(Missed) /\ Cardinality(Missed) \in Nat
      /\ \A r \in Rows : Place(r, Rows) \in Nat /\ Place(r, Rows) < Cardinality(Rows)
      /\ WalkCounts /\ WalkTyped
  BY <1>0, WalkFacts
<1>2. walk' = [walk EXCEPT !.total = total] /\ total \in Nat
  BY <1>1, FS_CardinalityType DEF ReadTotal, Rows
<1>. HIDE DEF total
<1>3. /\ walk'.list = walk.list /\ walk'.page = walk.page /\ walk'.total = total
      /\ walk'.rowsRead = walk.rowsRead /\ walk'.seen = walk.seen
      /\ walk'.repeated = walk.repeated
      /\ walk'.steady = walk.steady /\ walk'.changes = walk.changes
  BY <1>1, <1>2 DEF WalkTyped
<1>4. /\ Begin' = Begin /\ End' = End /\ Rows' = Rows
      /\ Over' => total <= End
      /\ Created[walk.list]' = Created[walk.list] /\ Alone(Created[walk.list])' = Alone(Created[walk.list])
  <2>1. Listed' = Listed /\ Created' = Created
    BY DEF tables, Listed, Created
  <2>. QED
    <3>1. Begin' = Begin /\ End' = End /\ Rows' = Rows
      BY <1>3, <2>1 DEF Begin, End, Rows
    <3>2. Over' => total <= End'
      BY <1>3 DEF Over, End
    <3>3. Alone(Created[walk.list])' = Alone(Created[walk.list])
      BY <1>3, <2>1 DEF Alone
    <3>. QED
      BY <1>3, <2>1, <3>1, <3>2, <3>3
<1>5. Missed' \in SUBSET Missed
  <2>1. Missed' = {r \in (walk.steady \cap Alone(Created[walk.list])) \ walk.seen :
                     Place(r, Rows) < Begin \/ (Over' /\ Place(r, Rows) >= End)}
    BY <1>3, <1>4 DEF Missed, MissedIn
  <2>2. \A r \in Rows : ~(Over' /\ Place(r, Rows) >= End)
    BY <1>1, <1>2, <1>4 DEF total
  <2>3. \A r \in Missed' : r \in Missed
    BY <1>1, <2>1, <2>2 DEF Missed, MissedIn
  <2>. QED
    BY <2>3
<1>6. Again' = Again
  BY <1>3, <1>4 DEF Again
<1>7. Cardinality(Missed') <= walk.changes
  <2>1. Cardinality(Missed') <= Cardinality(Missed) /\ Cardinality(Missed') \in Nat
    BY <1>1, <1>5, FS_Subset, FS_CardinalityType
  <2>. QED
    BY <1>1, <2>1 DEF WalkCounts
<1>8. WalkTyped' /\ Walking'
  <2>1. IsFiniteSet(walk'.seen) /\ IsFiniteSet(walk'.steady) /\ Walking' /\ walk'.page > 0
    BY <1>0, <1>1, <1>3 DEF WalkTyped, Walking
  <2>2. walk' \in [list : Lists \cup {None}, page : Nat, total : Nat \cup {None},
                   rowsRead : BOOLEAN, seen : SUBSET Entry, repeated : Nat,
                   steady : SUBSET Entry, changes : Nat]
    BY <1>1, <1>2 DEF WalkTyped
  <2>. QED
    BY <2>1, <2>2 DEF WalkTyped
<1>9. WalkCounts'
  BY <1>1, <1>3, <1>4, <1>6, <1>7 DEF WalkCounts
<1>. QED
  BY <1>8, <1>9, WalkGoesOn

\* The next page begins where the page shown ended.
LEMMA NextPageKeeps ==
    ASSUME CatalogueInv, CatalogueInv', WalkInv, NextPage, UNCHANGED tables
    PROVE  WalkInv'
<1>0. Walking /\ walk.rowsRead /\ ~(Answered /\ LastPage)
  BY DEF NextPage, Answered
<1>1. /\ walk.list \in Lists /\ walk.page \in Nat
      /\ walk.steady \in SUBSET Rows /\ walk.changes \in Nat
      /\ Limit \in Nat \ {0}
      /\ IsFiniteSet(Missed) /\ Cardinality(Missed) \in Nat
      /\ WalkCounts /\ WalkTyped
  BY <1>0, WalkFacts
<1>2. walk' = [walk EXCEPT !.page = walk.page + 1, !.rowsRead = FALSE, !.total = None]
  BY DEF NextPage
<1>3. /\ walk'.list = walk.list /\ walk'.page = walk.page + 1 /\ walk'.total = None
      /\ walk'.rowsRead = FALSE /\ walk'.seen = walk.seen
      /\ walk'.repeated = walk.repeated
      /\ walk'.steady = walk.steady /\ walk'.changes = walk.changes
  BY <1>1, <1>2 DEF WalkTyped
<1>4. /\ Begin' = Begin /\ Rows' = Rows /\ Over' = FALSE
      /\ Created[walk.list]' = Created[walk.list] /\ Alone(Created[walk.list])' = Alone(Created[walk.list])
  <2>1. Listed' = Listed /\ Created' = Created
    BY DEF tables, Listed, Created
  <2>2. /\ Begin' = (IF walk'.rowsRead THEN walk'.page ELSE walk'.page - 1) * Limit
        /\ Begin = (IF walk.rowsRead THEN walk.page ELSE walk.page - 1) * Limit
    BY DEF Begin
  <2>3. walk'.page - 1 = walk.page
    BY <1>1, <1>3
  <2>4. Begin' = Begin
    BY <1>0, <1>3, <2>2, <2>3
  <2>. QED
    BY <1>3, <2>1, <2>4 DEF Over, Rows, Alone
<1>5. Missed' \in SUBSET Missed /\ Again' = Again
  BY <1>3, <1>4 DEF Missed, MissedIn, Again, AgainIn
<1>6. Cardinality(Missed') <= walk.changes
  <2>1. Cardinality(Missed') <= Cardinality(Missed) /\ Cardinality(Missed') \in Nat
    BY <1>1, <1>5, FS_Subset, FS_CardinalityType
  <2>. QED
    BY <1>1, <2>1 DEF WalkCounts
<1>7. WalkTyped' /\ Walking'
  <2>1. IsFiniteSet(walk'.seen) /\ IsFiniteSet(walk'.steady) /\ Walking'
    BY <1>0, <1>1, <1>3 DEF WalkTyped, Walking
  <2>2. walk' \in [list : Lists \cup {None}, page : Nat, total : Nat \cup {None},
                   rowsRead : BOOLEAN, seen : SUBSET Entry, repeated : Nat,
                   steady : SUBSET Entry, changes : Nat]
    <3>. DEFINE page == walk.page + 1
    <3>1. walk' = [walk EXCEPT !.page = page, !.rowsRead = FALSE, !.total = None] /\ page \in Nat
      BY <1>1, <1>2
    <3>. HIDE DEF page
    <3>. QED
      BY <1>1, <3>1 DEF WalkTyped
  <2>3. walk'.page > 0
    BY <1>1, <1>3
  <2>. QED
    BY <2>1, <2>2, <2>3 DEF WalkTyped
<1>8. WalkCounts'
  BY <1>1, <1>3, <1>4, <1>5, <1>6 DEF WalkCounts
<1>. QED
  BY <1>7, <1>8, WalkGoesOn

\* The walk is over.
LEMMA EndKeeps ==
    ASSUME WalkInv, EndWalk, UNCHANGED tables
    PROVE  WalkInv'
<1>1. walk' = NoWalk
  BY DEF EndWalk
<1>2. IsFiniteSet({})
  BY FS_EmptySet
<1>3. WalkTyped' /\ ~Walking'
  BY <1>1, <1>2 DEF NoWalk, WalkTyped, Walking
<1>. QED
  BY <1>1, <1>3 DEF WalkInv, SteadyAreCreated, WalkFindsWhatStays, Answered

\* The invariant is about the variables of the specification only.
LEMMA StutterKeeps ==
    ASSUME WalkInv, UNCHANGED catalogueVars
    PROVE  WalkInv'
<1>1. /\ walk' = walk /\ Listed' = Listed /\ Created' = Created
  BY DEF catalogueVars, tables, Listed, Created
<1>2. /\ Missed' = Missed /\ Again' = Again /\ Rows' = Rows
      /\ Alone(Created[walk.list])' = Alone(Created[walk.list])
  BY <1>1 DEF Missed, Again, Rows, Begin, End, Over, Alone
<1>. QED
  BY <1>1, <1>2
  DEF WalkInv, WalkTyped, WalkCounts, SteadyAreCreated, WalkFindsWhatStays, Walking, Answered,
      LastPage

\* The counts hold throughout every walk.
LEMMA WalkInvariant == CatalogueSpec => [](CatalogueInv /\ WalkInv)
<1>1. CatalogueInv /\ WalkInv /\ CatalogueInv' /\ [CatalogueNext]_catalogueVars => WalkInv'
  <2>. SUFFICES ASSUME CatalogueInv, WalkInv, CatalogueInv', [CatalogueNext]_catalogueVars
                PROVE  WalkInv'
    OBVIOUS
  <2>1. CASE TablesStep /\ Watch
    BY <2>1, TablesKeepWalk
  <2>2. CASE StartWalk /\ UNCHANGED tables
    BY <2>2, StartKeeps
  <2>3. CASE ReadRows /\ UNCHANGED tables
    BY <2>3, ReadRowsKeeps
  <2>4. CASE ReadTotal /\ UNCHANGED tables
    BY <2>4, ReadTotalKeeps
  <2>5. CASE NextPage /\ UNCHANGED tables
    BY <2>5, NextPageKeeps
  <2>6. CASE EndWalk /\ UNCHANGED tables
    BY <2>6, EndKeeps
  <2>7. CASE UNCHANGED catalogueVars
    BY <2>7, StutterKeeps
  <2>. QED
    BY <2>1, <2>2, <2>3, <2>4, <2>5, <2>6, <2>7 DEF CatalogueNext, TablesStep
<1>. QED
  BY <1>1, WalkInit, CatalogueInvariant, PTL DEF CatalogueSpec

\* A client that reads a list to its end, while rows come and go between and within its
\* pages, misses at most as many of the rows listed all the time as came or went, and sees at
\* most as many twice (the paged findAll of customers, products and invoices).
THEOREM WalksFindWhatStays == CatalogueSpec => []WalkFindsWhatStays
  BY WalkInvariant, PTL DEF WalkInv
=============================================================================
