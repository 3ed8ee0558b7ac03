------------------------ MODULE InvoiceNumberingProofs ------------------------
(***************************************************************************)
(* What is proved about InvoiceNumbering, for any number of tenants and    *)
(* requests, any assignment of advisory locks to tenants and any clock.    *)
(***************************************************************************)
EXTENDS InvoiceNumbering, FiniteSetTheorems, TLAPS

-----------------------------------------------------------------------------
(* Types, and the advisory lock. *)

LockedSteps == {"read", "insert", "commit"}

TenantOK == \A r \in Requests : ~At(r, "idle") => create[r].tenant \in Tenants

\* A transaction that has taken its advisory lock holds it until it ends.
LockInv == \A r \in Requests :
    create[r].step \in LockedSteps => holder[Lock(r)] = r

TypeInv == TypeOK /\ TenantOK /\ LockInv

LEMMA TypeInvInit == Init => TypeInv
  BY DEF Init, TypeInv, TypeOK, TenantOK, LockInv, LockedSteps, Idle, Request, Steps, At

LEMMA TypeInvStep == TypeInv /\ [Next]_vars => TypeInv'
<1>. SUFFICES ASSUME TypeInv, [Next]_vars PROVE TypeInv'
  OBVIOUS
<1>. USE DEF TypeInv
<1>0. Idle \in Request /\ Idle.step = "idle"
  BY DEF Idle, Request, Steps
<1>1. \A t \in Tenants : LockOf[t] \in Locks
  BY DEF Locks
<1>2. CASE Tick
  BY <1>2, NumberingAssumption DEF Tick, TypeOK, TenantOK, LockInv, Lock, At
<1>3. ASSUME NEW r \in Requests, Begin(r) PROVE TypeInv'
  <2>1. PICK t \in Tenants :
          create' = [create EXCEPT ![r] =
             [Idle EXCEPT !.step = "lock", !.tenant = t, !.began = now]]
    BY <1>3 DEF Begin
  <2>2. /\ [Idle EXCEPT !.step = "lock", !.tenant = t, !.began = now] \in Request
        /\ [Idle EXCEPT !.step = "lock", !.tenant = t, !.began = now].step = "lock"
        /\ [Idle EXCEPT !.step = "lock", !.tenant = t, !.began = now].tenant = t
    BY DEF Idle, Request, Steps, TypeOK
  <2>. QED
    BY <1>3, <2>1, <2>2 DEF Begin, TypeOK, TenantOK, LockInv, LockedSteps, Lock, At
<1>4. ASSUME NEW r \in Requests, AcquireLock(r) PROVE TypeInv'
  <2>1. create[r].tenant \in Tenants /\ Lock(r) \in Locks
    BY <1>1, <1>4 DEF AcquireLock, At, TenantOK, Lock
  <2>2. TypeOK' /\ TenantOK'
    BY <1>4, <2>1 DEF AcquireLock, At, TypeOK, TenantOK, Request, Steps
  <2>3. LockInv'
    BY <1>1, <1>4, <2>1, NumberingAssumption
    DEF AcquireLock, At, TypeOK, TenantOK, LockInv, LockedSteps, Lock, Request
  <2>. QED
    BY <2>2, <2>3
<1>5. ASSUME NEW r \in Requests, ReadLast(r) PROVE TypeInv'
  <2>1. PICK n \in NextNumbers(create[r].tenant) :
          create' = [create EXCEPT ![r].step = "insert", ![r].number = n]
    BY <1>5 DEF ReadLast
  <2>2. n \in Nat
    <3>1. \A v \in invoices : v.number + 1 \in Nat
      BY DEF TypeOK, Invoice
    <3>. QED
      BY <3>1 DEF NextNumbers, Latest, InvoicesOf
  <2>3. TypeOK'
    BY <1>5, <2>1, <2>2 DEF ReadLast, TypeOK, Request, Steps
  <2>4. TenantOK' /\ LockInv'
    BY <1>5, <2>1 DEF ReadLast, At, TypeOK, TenantOK, LockInv, LockedSteps, Lock, Request
  <2>. QED
    BY <2>3, <2>4
<1>6. ASSUME NEW r \in Requests, Insert(r) PROVE TypeInv'
  <2>1. PICK stamp \in create[r].began .. now :
          create' = [create EXCEPT ![r].step = "commit", ![r].createdAt = stamp]
    BY <1>6 DEF Insert
  <2>2. stamp \in Nat
    BY DEF TypeOK, Request
  <2>3. TypeOK'
    BY <1>6, <2>1, <2>2 DEF Insert, TypeOK, Request, Steps
  <2>4. TenantOK' /\ LockInv'
    BY <1>6, <2>1 DEF Insert, At, TypeOK, TenantOK, LockInv, LockedSteps, Lock, Request
  <2>. QED
    BY <2>3, <2>4
<1>7. ASSUME NEW r \in Requests, InsertDuplicate(r) \/ Commit(r) \/ Fail(r) PROVE TypeInv'
  <2>1. invoices' \subseteq Invoice
    BY <1>7 DEF InsertDuplicate, Commit, Fail, At, TypeOK, TenantOK, Invoice, Request
  <2>2. TypeOK' /\ TenantOK'
    BY <1>0, <1>7, <2>1 DEF InsertDuplicate, Commit, Fail, At, TypeOK, TenantOK,
       ReleaseLocks, Finish
  <2>3. LockInv'
    BY <1>0, <1>1, <1>7 DEF InsertDuplicate, Commit, Fail, At, TypeOK, TenantOK, LockInv,
       LockedSteps, Lock, ReleaseLocks, Finish
  <2>. QED
    BY <2>2, <2>3
<1>8. CASE UNCHANGED vars
  BY <1>8 DEF vars, TypeOK, TenantOK, LockInv, Lock, At
<1>. QED
  BY <1>2, <1>3, <1>4, <1>5, <1>6, <1>7, <1>8 DEF Next, Proceed

\* Two transactions of one tenant are never both between taking the lock and
\* committing.
LEMMA OneNumberAtATime ==
    ASSUME TypeInv, NEW r \in Requests, NEW s \in Requests, r # s,
           create[r].step \in LockedSteps, create[s].step \in LockedSteps
    PROVE  create[r].tenant # create[s].tenant
  BY DEF TypeInv, LockInv, Lock

\* Every reachable state is well formed.
THEOREM TypeCorrect == Spec => []TypeOK
<1>1. TypeInv => TypeOK
  BY DEF TypeInv
<1>. QED
  BY <1>1, TypeInvInit, TypeInvStep, PTL DEF Spec

-----------------------------------------------------------------------------
(* Numbers. *)

\* What a transaction read under the lock is still what it would read, and a row
\* the unique index accepted has the number after the last one.
NumberInv ==
    /\ GapFree
    /\ \A t \in Tenants : IsFiniteSet(InvoicesOf(t))
    /\ \A r \in Requests :
         /\ At(r, "insert") => create[r].number \in NextNumbers(create[r].tenant)
         /\ At(r, "commit") =>
              create[r].number = Cardinality(InvoicesOf(create[r].tenant)) + 1

\* The number after one of the latest invoices is in use or is the next one.
LEMMA NextNumberBound ==
    ASSUME TypeInv, NumberInv, NEW t \in Tenants, NEW k \in NextNumbers(t)
    PROVE  k \in NumbersOf(t) \/ k = Cardinality(InvoicesOf(t)) + 1
<1>1. Cardinality(InvoicesOf(t)) \in Nat
  BY FS_CardinalityType DEF NumberInv
<1>2. CASE InvoicesOf(t) = {}
  BY <1>2, FS_EmptySet DEF NextNumbers
<1>3. CASE InvoicesOf(t) # {}
  <2>1. PICK v \in InvoicesOf(t) : k = v.number + 1
    BY <1>3 DEF NextNumbers, Latest
  <2>2. v.number \in 1 .. Cardinality(InvoicesOf(t))
    BY DEF NumbersOf, NumberInv, GapFree
  <2>3. k \in 1 .. (Cardinality(InvoicesOf(t)) + 1)
    BY <1>1, <2>1, <2>2
  <2>. QED
    BY <1>1, <2>3 DEF NumberInv, GapFree
<1>. QED
  BY <1>2, <1>3

\* While stamps follow numbers, the latest invoice is the one with the last number.
LEMMA NextNumberFresh ==
    ASSUME TypeInv, NumberInv, NEW t \in Tenants, NEW k \in NextNumbers(t), StampsInOrder(t)
    PROVE  k \notin NumbersOf(t)
<1>1. Cardinality(InvoicesOf(t)) \in Nat
  BY FS_CardinalityType DEF NumberInv
<1>2. CASE InvoicesOf(t) = {}
  BY <1>2 DEF NumbersOf
<1>3. CASE InvoicesOf(t) # {}
  <2>1. PICK v \in Latest(t) : k = v.number + 1
    BY <1>3 DEF NextNumbers
  <2>2. v \in InvoicesOf(t) /\ v.number \in 1 .. Cardinality(InvoicesOf(t))
    BY DEF Latest, NumbersOf, NumberInv, GapFree
  <2>3. PICK w \in InvoicesOf(t) : w.number = Cardinality(InvoicesOf(t))
    <3>1. Cardinality(InvoicesOf(t)) \in NumbersOf(t)
      BY <1>1, <2>2 DEF NumberInv, GapFree
    <3>. QED
      BY <3>1 DEF NumbersOf
  <2>4. v.createdAt \in Nat /\ w.createdAt \in Nat
    BY <2>2 DEF TypeInv, TypeOK, InvoicesOf, Invoice
  <2>5. ~(v.number < w.number)
    BY <2>2, <2>4 DEF Latest, StampsInOrder
  <2>6. k = Cardinality(InvoicesOf(t)) + 1
    BY <1>1, <2>1, <2>2, <2>3, <2>5
  <2>. QED
    BY <1>1, <2>6 DEF NumberInv, GapFree
<1>. QED
  BY <1>2, <1>3

LEMMA NumberInvInit == Init => NumberInv
<1>. SUFFICES ASSUME Init PROVE NumberInv
  OBVIOUS
<1>1. \A t \in Tenants : InvoicesOf(t) = {} /\ NumbersOf(t) = {}
  BY DEF Init, InvoicesOf, NumbersOf
<1>2. 1 .. 0 = {}
  OBVIOUS
<1>. QED
  BY <1>1, <1>2, FS_EmptySet DEF Init, NumberInv, GapFree, Idle, At

\* The row a commit adds is the next one of its tenant and nothing to the others.
LEMMA CommitIssues ==
    ASSUME TypeInv, NumberInv, NEW r \in Requests, Commit(r)
    PROVE  \E t \in Tenants :
             /\ t = create[r].tenant
             /\ NumbersOf(t)' = 1 .. (Cardinality(InvoicesOf(t)) + 1)
             /\ IsFiniteSet(InvoicesOf(t)')
             /\ Cardinality(InvoicesOf(t)') = Cardinality(InvoicesOf(t)) + 1
             /\ \A v, w \in InvoicesOf(t)' : v.number = w.number => v = w
             /\ \A u \in Tenants \ {t} : InvoicesOf(u)' = InvoicesOf(u)
<1>1. PICK t \in Tenants, k \in Nat, m \in Nat :
        /\ t = create[r].tenant /\ k = create[r].number /\ m = Cardinality(InvoicesOf(t))
        /\ k = m + 1
  <2>1. create[r].tenant \in Tenants /\ create[r].number \in Nat
    BY DEF Commit, At, TypeInv, TypeOK, TenantOK, Request
  <2>2. Cardinality(InvoicesOf(create[r].tenant)) \in Nat
    BY <2>1, FS_CardinalityType DEF NumberInv
  <2>. QED
    BY <2>1, <2>2 DEF Commit, NumberInv
<1>2. PICK row : /\ row.tenant = t /\ row.number = k
                 /\ invoices' = invoices \cup {row}
  BY <1>1 DEF Commit
<1>3. InvoicesOf(t)' = InvoicesOf(t) \cup {row}
  BY <1>2 DEF InvoicesOf
<1>4. \A v \in InvoicesOf(t) : v.number \in 1 .. m
  BY <1>1 DEF NumberInv, GapFree, NumbersOf
<1>5. row \notin InvoicesOf(t)
  BY <1>1, <1>2, <1>4
<1>6. IsFiniteSet(InvoicesOf(t)') /\ Cardinality(InvoicesOf(t)') = m + 1
  BY <1>1, <1>3, <1>5, FS_AddElement DEF NumberInv
<1>7. NumbersOf(t)' = 1 .. (m + 1)
  <2>1. NumbersOf(t)' = NumbersOf(t) \cup {k}
    BY <1>2, <1>3 DEF NumbersOf
  <2>2. NumbersOf(t) = 1 .. m
    BY <1>1 DEF NumberInv, GapFree
  <2>. QED
    BY <1>1, <2>1, <2>2
<1>8. \A v, w \in InvoicesOf(t)' : v.number = w.number => v = w
  BY <1>1, <1>2, <1>3, <1>4 DEF NumberInv, GapFree
<1>9. \A u \in Tenants \ {t} : InvoicesOf(u)' = InvoicesOf(u)
  BY <1>2 DEF InvoicesOf
<1>. QED
  BY <1>1, <1>6, <1>7, <1>8, <1>9

LEMMA NumberInvStep == TypeInv /\ NumberInv /\ [Next]_vars => NumberInv'
<1>. SUFFICES ASSUME TypeInv, NumberInv, [Next]_vars PROVE NumberInv'
  OBVIOUS
<1>0. Idle.step = "idle"
  BY DEF Idle
\* A step that leaves the invoices, and gives no request a number to insert or a
\* row to commit that it did not have.
<1>1. ASSUME UNCHANGED invoices,
             \A r \in Requests :
               \/ create'[r] = create[r]
               \/ create'[r].step \notin {"insert", "commit"}
               \/ /\ create'[r].step = "insert"
                  /\ create'[r].tenant = create[r].tenant
                  /\ create[r].tenant \in Tenants
                  /\ create'[r].number \in NextNumbers(create[r].tenant)
               \/ /\ create'[r].step = "commit"
                  /\ create'[r].tenant = create[r].tenant
                  /\ create[r].tenant \in Tenants
                  /\ create'[r].number = Cardinality(InvoicesOf(create[r].tenant)) + 1
      PROVE  NumberInv'
  <2>1. \A t : InvoicesOf(t)' = InvoicesOf(t)
    BY <1>1 DEF InvoicesOf
  <2>2. \A t : NumbersOf(t)' = NumbersOf(t) /\ NextNumbers(t)' = NextNumbers(t)
    BY <2>1 DEF NumbersOf, NextNumbers, Latest
  <2>3. GapFree' /\ \A t \in Tenants : IsFiniteSet(InvoicesOf(t)')
    BY <2>1, <2>2 DEF GapFree, NumberInv
  <2>4. ASSUME NEW r \in Requests, At(r, "insert")'
        PROVE  create'[r].number \in NextNumbers(create[r].tenant)
               /\ create'[r].tenant = create[r].tenant
    BY <1>1, <2>4 DEF NumberInv, At
  <2>5. ASSUME NEW r \in Requests, At(r, "commit")'
        PROVE  create'[r].number = Cardinality(InvoicesOf(create[r].tenant)) + 1
               /\ create'[r].tenant = create[r].tenant
    BY <1>1, <2>5 DEF NumberInv, At
  <2>6. \A r \in Requests :
          /\ At(r, "insert")' => (create[r].number \in NextNumbers(create[r].tenant))'
          /\ At(r, "commit")' =>
               (create[r].number = Cardinality(InvoicesOf(create[r].tenant)) + 1)'
    <3>. SUFFICES ASSUME NEW r \in Requests, At(r, "insert")' \/ At(r, "commit")'
                  PROVE  /\ At(r, "insert")' =>
                              (create[r].number \in NextNumbers(create[r].tenant))'
                         /\ At(r, "commit")' =>
                              (create[r].number = Cardinality(InvoicesOf(create[r].tenant)) + 1)'
      BY DEF At
    <3>1. PICK t : t = create[r].tenant /\ t = create'[r].tenant
      BY <2>4, <2>5
    <3>2. NextNumbers(t)' = NextNumbers(t) /\ InvoicesOf(t)' = InvoicesOf(t)
      BY <2>1, <2>2
    <3>3. /\ At(r, "insert")' => create'[r].number \in NextNumbers(t)'
          /\ At(r, "commit")' => create'[r].number = Cardinality(InvoicesOf(t)') + 1
      BY <2>4, <2>5, <3>1, <3>2
    <3>. QED
      BY <3>1, <3>3 DEF NextNumbers, Latest, InvoicesOf
  <2>. QED
    BY <2>3, <2>6 DEF NumberInv
<1>2. CASE Tick
  BY <1>1, <1>2 DEF Tick
<1>3. ASSUME NEW r \in Requests, Begin(r) \/ AcquireLock(r) PROVE NumberInv'
  <2>1. create'[r].step \notin {"insert", "commit"}
    BY <1>3 DEF Begin, AcquireLock, Idle, TypeInv, TypeOK, Request
  <2>2. \A s \in Requests \ {r} : create'[s] = create[s]
    BY <1>3 DEF Begin, AcquireLock, TypeInv, TypeOK
  <2>. QED
    BY <1>1, <1>3, <2>1, <2>2 DEF Begin, AcquireLock
<1>4. ASSUME NEW r \in Requests, ReadLast(r) PROVE NumberInv'
  <2>1. PICK n \in NextNumbers(create[r].tenant) :
          create' = [create EXCEPT ![r].step = "insert", ![r].number = n]
    BY <1>4 DEF ReadLast
  <2>2. /\ create'[r].step = "insert" /\ create'[r].number = n
        /\ create'[r].tenant = create[r].tenant
        /\ \A s \in Requests \ {r} : create'[s] = create[s]
    BY <2>1 DEF TypeInv, TypeOK, Request
  <2>3. create[r].tenant \in Tenants
    BY <1>4 DEF ReadLast, At, TypeInv, TenantOK
  <2>. QED
    BY <1>1, <1>4, <2>2, <2>3 DEF ReadLast
<1>5. ASSUME NEW r \in Requests, Insert(r) PROVE NumberInv'
  <2>1. PICK stamp \in create[r].began .. now :
          create' = [create EXCEPT ![r].step = "commit", ![r].createdAt = stamp]
    BY <1>5 DEF Insert
  <2>2. /\ create'[r].step = "commit" /\ create'[r].number = create[r].number
        /\ create'[r].tenant = create[r].tenant
        /\ \A s \in Requests \ {r} : create'[s] = create[s]
    BY <2>1 DEF TypeInv, TypeOK, Request
  <2>3. create[r].tenant \in Tenants
    BY <1>5 DEF Insert, At, TypeInv, TenantOK
  <2>4. create[r].number \in NextNumbers(create[r].tenant)
    BY <1>5 DEF Insert, NumberInv
  <2>5. create[r].number = Cardinality(InvoicesOf(create[r].tenant)) + 1
    BY <1>5, <2>3, <2>4, NextNumberBound DEF Insert
  <2>. QED
    BY <1>1, <1>5, <2>2, <2>3, <2>5 DEF Insert
<1>6. ASSUME NEW r \in Requests, InsertDuplicate(r) \/ Fail(r) PROVE NumberInv'
  <2>1. /\ create'[r].step = "idle"
        /\ \A s \in Requests \ {r} : create'[s] = create[s]
    BY <1>0, <1>6 DEF InsertDuplicate, Fail, Finish, TypeInv, TypeOK
  <2>. QED
    BY <1>1, <1>6, <2>1 DEF InsertDuplicate, Fail
<1>7. ASSUME NEW r \in Requests, Commit(r) PROVE NumberInv'
  <2>1. PICK t \in Tenants :
          /\ t = create[r].tenant
          /\ NumbersOf(t)' = 1 .. (Cardinality(InvoicesOf(t)) + 1)
          /\ IsFiniteSet(InvoicesOf(t)')
          /\ Cardinality(InvoicesOf(t)') = Cardinality(InvoicesOf(t)) + 1
          /\ \A v, w \in InvoicesOf(t)' : v.number = w.number => v = w
          /\ \A u \in Tenants \ {t} : InvoicesOf(u)' = InvoicesOf(u)
    BY <1>7, CommitIssues
  <2>2. \A u \in Tenants \ {t} : NumbersOf(u)' = NumbersOf(u) /\ NextNumbers(u)' = NextNumbers(u)
    <3>. SUFFICES ASSUME NEW u \in Tenants \ {t}
                  PROVE  NumbersOf(u)' = NumbersOf(u) /\ NextNumbers(u)' = NextNumbers(u)
      OBVIOUS
    <3>1. InvoicesOf(u)' = InvoicesOf(u)
      BY <2>1
    <3>2. Latest(u)' = Latest(u)
      BY <3>1 DEF Latest
    <3>. QED
      BY <3>1, <3>2 DEF NumbersOf, NextNumbers
  <2>3. GapFree' /\ \A u \in Tenants : IsFiniteSet(InvoicesOf(u)')
    <3>1. ASSUME NEW u \in Tenants \ {t}
          PROVE  /\ NumbersOf(u)' = 1 .. Cardinality(InvoicesOf(u)')
                 /\ \A v, w \in InvoicesOf(u)' : v.number = w.number => v = w
                 /\ IsFiniteSet(InvoicesOf(u)')
      BY <2>1, <2>2 DEF NumberInv, GapFree
    <3>. QED
      BY <2>1, <3>1 DEF GapFree
  <2>4. /\ create'[r].step = "idle"
        /\ \A s \in Requests \ {r} : create'[s] = create[s]
    BY <1>0, <1>7 DEF Commit, Finish, TypeInv, TypeOK
  <2>5. ASSUME NEW s \in Requests \ {r}, create[s].step \in {"insert", "commit"}
        PROVE  create[s].tenant \in Tenants \ {t}
    <3>1. create[s].step \in LockedSteps /\ create[r].step \in LockedSteps
      BY <1>7, <2>5 DEF Commit, At, LockedSteps
    <3>2. create[s].tenant # create[r].tenant
      BY <3>1, OneNumberAtATime
    <3>3. create[s].tenant \in Tenants
      BY <2>5 DEF TypeInv, TenantOK, At
    <3>. QED
      BY <2>1, <3>2, <3>3
  <2>6. ASSUME NEW s \in Requests
        PROVE  /\ At(s, "insert")' => (create[s].number \in NextNumbers(create[s].tenant))'
               /\ At(s, "commit")' =>
                    (create[s].number = Cardinality(InvoicesOf(create[s].tenant)) + 1)'
    <3>1. CASE s = r
      BY <2>4, <3>1 DEF At
    <3>2. CASE s # r /\ create[s].step \in {"insert", "commit"}
      <4>1. PICK u \in Tenants \ {t} : u = create[s].tenant
        BY <2>5, <3>2
      <4>2. create'[s] = create[s]
        BY <2>4, <3>2
      <4>3. /\ At(s, "insert") => create[s].number \in NextNumbers(u)
            /\ At(s, "commit") => create[s].number = Cardinality(InvoicesOf(u)) + 1
        BY <4>1 DEF NumberInv
      <4>4. NextNumbers(u)' = NextNumbers(u) /\ InvoicesOf(u)' = InvoicesOf(u)
        BY <2>1, <2>2
      <4>5. /\ At(s, "insert")' => create'[s].number \in NextNumbers(u)'
            /\ At(s, "commit")' => create'[s].number = Cardinality(InvoicesOf(u)') + 1
        BY <4>2, <4>3, <4>4 DEF At
      <4>6. create'[s].tenant = u
        BY <4>1, <4>2
      <4>. QED
        BY <4>5, <4>6 DEF NextNumbers, Latest, InvoicesOf
    <3>3. CASE s # r /\ create[s].step \notin {"insert", "commit"}
      BY <2>4, <3>3 DEF At
    <3>. QED
      BY <3>1, <3>2, <3>3
  <2>. QED
    BY <2>3, <2>6 DEF NumberInv
<1>8. CASE UNCHANGED vars
  BY <1>1, <1>8 DEF vars
<1>. QED
  BY <1>2, <1>3, <1>4, <1>5, <1>6, <1>7, <1>8 DEF Next, Proceed

\* Every reachable state of Spec, for the theorems below.
LEMMA NumberInvHolds == Spec => [](TypeInv /\ NumberInv)
<1>1. Init => TypeInv /\ NumberInv
  BY TypeInvInit, NumberInvInit
<1>2. TypeInv /\ NumberInv /\ [Next]_vars => (TypeInv /\ NumberInv)'
  BY TypeInvStep, NumberInvStep
<1>. QED
  BY <1>1, <1>2, PTL DEF Spec

\* The numbers of a tenant are always 1 to n, each on one invoice: whatever the
\* clock does, however many tenants share a lock and whichever creates fail.
THEOREM NumbersHaveNoGaps == Spec => []GapFree
<1>1. NumberInv => GapFree
  BY DEF NumberInv
<1>. QED
  BY <1>1, NumberInvHolds, PTL

\* A number read under the lock is free when it is inserted, as long as the stamps
\* of the tenant's invoices put them in the order of their numbers.
THEOREM FreshWhileInOrder == Spec => []NumberIsFresh
<1>1. TypeInv /\ NumberInv => NumberIsFresh
  <2>. SUFFICES ASSUME TypeInv, NumberInv, NEW r \in Requests, At(r, "insert"),
                       StampsInOrder(create[r].tenant)
                PROVE  create[r].number \notin NumbersOf(create[r].tenant)
    BY DEF NumberIsFresh
  <2>1. create[r].tenant \in Tenants
    BY DEF TypeInv, TenantOK, At
  <2>2. create[r].number \in NextNumbers(create[r].tenant)
    BY DEF NumberInv
  <2>. QED
    BY <2>1, <2>2, NextNumberFresh
<1>. QED
  BY <1>1, NumberInvHolds, PTL

-----------------------------------------------------------------------------
(* Implementation of NumberIssuer. *)

\* Every commit issues the next number of one tenant and every other step none.
THEOREM ImplementsIssuer == Spec => NumbersAsPromised
<1>1. Init => Issuer!Init
  BY DEF Init, Issuer!Init, NumbersOf, InvoicesOf
<1>2. ASSUME TypeInv, NumberInv, [Next]_vars
      PROVE  [Issuer!Next]_([t \in Tenants |-> NumbersOf(t)])
  <2>1. ASSUME NEW r \in Requests, Commit(r) PROVE Issuer!Next
    <3>1. PICK t \in Tenants :
            /\ NumbersOf(t)' = 1 .. (Cardinality(InvoicesOf(t)) + 1)
            /\ \A u \in Tenants \ {t} : InvoicesOf(u)' = InvoicesOf(u)
      BY <1>2, <2>1, CommitIssues
    <3>2. \A u \in Tenants \ {t} : NumbersOf(u)' = NumbersOf(u)
      BY <3>1 DEF NumbersOf
    <3>3. PICK n \in Nat : n = Cardinality(InvoicesOf(t))
      BY <1>2, FS_CardinalityType DEF NumberInv
    <3>4. NumbersOf(t) = 1 .. n /\ n \in NumbersOf(t) \cup {0}
      BY <1>2, <3>3 DEF NumberInv, GapFree
    <3>5. [u \in Tenants |-> NumbersOf(u)]' =
            [[u \in Tenants |-> NumbersOf(u)] EXCEPT ![t] = 1 .. (n + 1)]
      BY <3>1, <3>2, <3>3
    <3>. QED
      BY <3>4, <3>5 DEF Issuer!Next, Issuer!Issue
  <2>2. ASSUME UNCHANGED invoices
        PROVE  UNCHANGED [t \in Tenants |-> NumbersOf(t)]
    BY <2>2 DEF NumbersOf, InvoicesOf
  <2>3. ASSUME NEW r \in Requests,
               Begin(r) \/ AcquireLock(r) \/ ReadLast(r) \/ Insert(r) \/ InsertDuplicate(r)
                 \/ Fail(r)
        PROVE  UNCHANGED invoices
    BY <2>3 DEF Begin, AcquireLock, ReadLast, Insert, InsertDuplicate, Fail
  <2>4. CASE Tick \/ UNCHANGED vars
    BY <2>2, <2>4 DEF Tick, vars
  <2>. QED
    BY <1>2, <2>1, <2>2, <2>3, <2>4 DEF Next, Proceed
<1>. QED
  BY <1>1, <1>2, NumberInvHolds, PTL DEF Spec, NumbersAsPromised, Issuer!Spec

=============================================================================
