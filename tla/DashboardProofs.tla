---------------------------- MODULE DashboardProofs ----------------------------
(***************************************************************************)
(* Proofs about the figures of the dashboard and the lists of payments,    *)
(* for any number of invoices, payments, customers and commits during a    *)
(* report.                                                                 *)
(*                                                                         *)
(* A figure is a sum over the invoices, and only the terms of invoices     *)
(* that changed since its query can be off: a term is between the credit   *)
(* and the bill of its invoice whenever it is read.  What is needed of the *)
(* ledger is that an invoice's row is the sum of its payments.             *)
(***************************************************************************)
EXTENDS Dashboard, FiniteSetTheorems, WellFoundedInduction, TLAPS

-----------------------------------------------------------------------------
(* Induction over a finite set.  The theorems of the library take the       *)
(* statement as an operator, these take the set of what it is true of.      *)

\* A set of natural numbers has a least element.
LEMMA LeastNatural ==
    ASSUME NEW T \in SUBSET Nat, T # {}
    PROVE  \E n \in T : \A m \in T : n <= m
<1>1. PICK n \in T : \A m \in T : ~(<<m, n>> \in OpToRel(<, Nat))
  BY NatLessThanWellFounded, WFMin DEF OpToRel
<1>2. \A m \in T : ~(m < n)
  BY <1>1 DEF OpToRel
<1>. QED
  BY <1>2

\* Induction over a finite set, as a fact about a family of its subsets: a smallest
\* subset that is not in the family would be one element larger than one that is.
LEMMA FiniteInduction ==
    ASSUME NEW S, IsFiniteSet(S), NEW F, {} \in F,
           \A T \in F : \A x \in S \ T : T \in SUBSET S => T \cup {x} \in F
    PROVE  S \in F
<1>. DEFINE Out   == (SUBSET S) \ F
            Sizes == {n \in Nat : \E T \in Out : Cardinality(T) = n}
<1>1. \A T \in SUBSET S : IsFiniteSet(T) /\ Cardinality(T) \in Nat
  BY FS_Subset, FS_CardinalityType
<1>. SUFFICES ASSUME S \notin F PROVE FALSE
  OBVIOUS
<1>2. Sizes # {}
  BY <1>1
<1>3. PICK n \in Sizes : \A m \in Sizes : n <= m
  BY <1>2, LeastNatural
<1>4. PICK T \in Out : Cardinality(T) = n
  OBVIOUS
<1>5. PICK x \in T : TRUE
  BY <1>4
<1>6. Cardinality(T \ {x}) = n - 1 /\ n - 1 \in Nat
  BY <1>1, <1>4, <1>5, FS_RemoveElement
<1>7. T \ {x} \in F
  BY <1>3, <1>6
<1>8. (T \ {x}) \cup {x} = T
  BY <1>5
<1>. QED
  BY <1>4, <1>7, <1>8

-----------------------------------------------------------------------------
(* Sums over finite sets: SumFunctionOnSet is well defined. *)

\* One step of the fold.
Step(f, g, s) ==
    IF s = {} THEN 0 ELSE f[CHOOSE x \in s : TRUE] + g[s \ {CHOOSE x \in s : TRUE}]

Fold(f, S) == CHOOSE g : g = [s \in SUBSET S |-> Step(f, g, s)]

\* What the library's sum unfolds to.
LEMMA SumIsFold == \A f, S : SumFunctionOnSet(f, S) = Fold(f, S)[S]
BY DEF SumFunctionOnSet, FoldFunctionOnSet, MapThenFoldSet, Fold, Step

\* The fold is well defined: it can be built from the small subsets up.
LEMMA FoldDefined ==
    ASSUME NEW f, NEW S, IsFiniteSet(S)
    PROVE  Fold(f, S) = [s \in SUBSET S |-> Step(f, Fold(f, S), s)]
<1>. DEFINE Small(n) == {s \in SUBSET S : Cardinality(s) <= n}
            Bad == {n \in Nat : ~ \E g : g = [s \in Small(n) |-> Step(f, g, s)]}
<1>1. \A T \in SUBSET S : IsFiniteSet(T) /\ Cardinality(T) \in Nat
  BY FS_Subset, FS_CardinalityType
<1>2. ASSUME NEW n \in Nat, NEW s \in Small(n + 1), s # {}
      PROVE  s \ {CHOOSE x \in s : TRUE} \in Small(n)
  <2>. DEFINE c == CHOOSE x \in s : TRUE
  <2>1. c \in s
    BY <1>2
  <2>2. IsFiniteSet(s) /\ Cardinality(s) \in Nat /\ s \in SUBSET S /\ Cardinality(s) <= n + 1
    BY <1>1
  <2>. HIDE DEF c
  <2>3. Cardinality(s \ {c}) = Cardinality(s) - 1
    BY <2>1, <2>2, FS_RemoveElement
  <2>4. s \ {c} \in Small(n)
    BY <2>2, <2>3
  <2>. QED
    BY <2>4 DEF c
<1>3. 0 \notin Bad
  <2>1. \A s \in Small(0) : s = {}
    BY <1>1, FS_EmptySet
  <2>2. [s \in Small(0) |-> 0] = [s \in Small(0) |-> Step(f, [t \in Small(0) |-> 0], s)]
    BY <2>1 DEF Step
  <2>. QED
    BY <2>2
<1>4. ASSUME NEW n \in Nat, n \notin Bad PROVE n + 1 \notin Bad
  <2>1. PICK g : g = [s \in Small(n) |-> Step(f, g, s)]
    BY <1>4
  <2>. DEFINE h == [s \in Small(n + 1) |-> Step(f, g, s)]
  <2>2. Small(n) \subseteq Small(n + 1)
    BY <1>1
  <2>3. \A s \in Small(n) : h[s] = g[s]
    BY <2>1, <2>2
  <2>4. \A s \in Small(n + 1) : Step(f, g, s) = Step(f, h, s)
    <3>. SUFFICES ASSUME NEW s \in Small(n + 1) PROVE Step(f, g, s) = Step(f, h, s)
      OBVIOUS
    <3>1. s # {} => s \ {CHOOSE x \in s : TRUE} \in Small(n)
      BY <1>2
    <3>2. s # {} => h[s \ {CHOOSE x \in s : TRUE}] = g[s \ {CHOOSE x \in s : TRUE}]
      BY <2>3, <3>1
    <3>. HIDE DEF h, Small
    <3>. QED
      BY <3>2 DEF Step
  <2>5. h = [s \in Small(n + 1) |-> Step(f, h, s)]
    <3>1. h = [s \in Small(n + 1) |-> Step(f, g, s)]
      OBVIOUS
    <3>. HIDE DEF h, Small
    <3>. QED
      BY <2>4, <3>1
  <2>. QED
    <3>. HIDE DEF h
    <3>. QED
      BY <2>5
<1>5. Bad = {}
  <2>. SUFFICES ASSUME Bad # {} PROVE FALSE
    OBVIOUS
  <2>. HIDE DEF Bad
  <2>1. Bad \in SUBSET Nat
    BY DEF Bad
  <2>2. PICK n \in Bad : \A m \in Bad : n <= m
    BY <2>1, LeastNatural
  <2>3. n # 0 /\ n - 1 \in Nat /\ n - 1 \notin Bad
    BY <1>3, <2>1, <2>2
  <2>4. (n - 1) + 1 = n
    BY <2>1
  <2>. QED
    BY <1>4, <2>2, <2>3, <2>4
<1>6. Cardinality(S) \in Nat /\ Small(Cardinality(S)) = SUBSET S
  BY <1>1, FS_Subset
<1>7. \E g : g = [s \in SUBSET S |-> Step(f, g, s)]
  <2>1. \E g : g = [s \in Small(Cardinality(S)) |-> Step(f, g, s)]
    BY <1>5, <1>6
  <2>. HIDE DEF Small
  <2>. QED
    BY <1>6, <2>1
<1>. QED
  BY <1>7 DEF Fold

\* Folds over two sets agree on what is a subset of both.
LEMMA FoldsAgree ==
    ASSUME NEW f, NEW S, IsFiniteSet(S), NEW T \in SUBSET S
    PROVE  Fold(f, S)[T] = Fold(f, T)[T]
<1>1. \A U \in SUBSET S : IsFiniteSet(U) /\ Cardinality(U) \in Nat
  BY FS_Subset, FS_CardinalityType
<1>. DEFINE Bad == {n \in Nat : \E U \in SUBSET T :
                      Cardinality(U) = n /\ Fold(f, S)[U] # Fold(f, T)[U]}
<1>. SUFFICES ASSUME Fold(f, S)[T] # Fold(f, T)[T] PROVE FALSE
  OBVIOUS
<1>2. Bad # {}
  BY <1>1
<1>3. PICK n \in Bad : \A m \in Bad : n <= m
  BY <1>2, LeastNatural
<1>4. PICK U \in SUBSET T : Cardinality(U) = n /\ Fold(f, S)[U] # Fold(f, T)[U]
  BY <1>3
<1>5. /\ Fold(f, S)[U] = Step(f, Fold(f, S), U)
      /\ Fold(f, T)[U] = Step(f, Fold(f, T), U)
  <2>1. Fold(f, S) = [s \in SUBSET S |-> Step(f, Fold(f, S), s)]
    BY FoldDefined
  <2>2. Fold(f, T) = [s \in SUBSET T |-> Step(f, Fold(f, T), s)]
    BY <1>1, FoldDefined
  <2>. QED
    BY <2>1, <2>2
<1>6. U # {}
  BY <1>4, <1>5 DEF Step
<1>. DEFINE x == CHOOSE x \in U : TRUE
<1>7. x \in U
  BY <1>6
<1>8. Cardinality(U \ {x}) = n - 1 /\ n - 1 \in Nat /\ U \ {x} \in SUBSET T
  <2>1. IsFiniteSet(U) /\ Cardinality(U) \in Nat
    BY <1>1
  <2>. HIDE DEF x
  <2>2. U \ {x} \in SUBSET T
    OBVIOUS
  <2>3. IsFiniteSet(U \ {x}) /\ Cardinality(U \ {x}) = Cardinality(U) - 1
    BY <1>7, <2>1, FS_RemoveElement
  <2>4. Cardinality(U \ {x}) \in Nat
    BY <2>3, FS_CardinalityType
  <2>. QED
    BY <1>4, <2>2, <2>3, <2>4
<1>9. Fold(f, S)[U \ {x}] = Fold(f, T)[U \ {x}]
  BY <1>3, <1>8
<1>. QED
  BY <1>4, <1>5, <1>6, <1>9 DEF Step

-----------------------------------------------------------------------------
(* Laws of sums. *)

\* The empty sum is 0.
LEMMA SumEmpty == \A f : SumFunctionOnSet(f, {}) = 0
<1>. SUFFICES ASSUME NEW f PROVE Fold(f, {})[{}] = 0
  BY SumIsFold
<1>1. Fold(f, {}) = [s \in SUBSET {} |-> Step(f, Fold(f, {}), s)]
  BY FoldDefined, FS_EmptySet
<1>2. Fold(f, {})[{}] = Step(f, Fold(f, {}), {})
  BY <1>1
<1>. QED
  BY <1>2 DEF Step

\* One of the elements, the chosen one, can be split off.
LEMMA SumChosen ==
    ASSUME NEW f, NEW S, IsFiniteSet(S), S # {}
    PROVE  \E x \in S : SumFunctionOnSet(f, S) = f[x] + SumFunctionOnSet(f, S \ {x})
<1>. DEFINE x == CHOOSE y \in S : TRUE
<1>1. x \in S
  OBVIOUS
<1>2. Fold(f, S) = [s \in SUBSET S |-> Step(f, Fold(f, S), s)]
  BY FoldDefined
<1>3. Fold(f, S)[S] = Step(f, Fold(f, S), S)
  BY <1>2
<1>4. Fold(f, S)[S] = f[x] + Fold(f, S)[S \ {x}]
  BY <1>3 DEF Step
<1>. HIDE DEF x
<1>5. Fold(f, S)[S \ {x}] = Fold(f, S \ {x})[S \ {x}]
  BY FoldsAgree
<1>. QED
  BY <1>1, <1>4, <1>5, SumIsFold

\* A sum of integers is an integer.
LEMMA SumInt ==
    ASSUME NEW S, IsFiniteSet(S), NEW f, \A x \in S : f[x] \in Int
    PROVE  SumFunctionOnSet(f, S) \in Int
<1>. DEFINE F == {T \in SUBSET S : SumFunctionOnSet(f, T) \in Int}
            Bad == {n \in Nat : \E T \in (SUBSET S) \ F : Cardinality(T) = n}
<1>1. \A T \in SUBSET S : IsFiniteSet(T) /\ Cardinality(T) \in Nat
  BY FS_Subset, FS_CardinalityType
<1>. SUFFICES ASSUME S \notin F PROVE FALSE
  OBVIOUS
<1>2. Bad # {}
  BY <1>1
<1>3. PICK n \in Bad : \A m \in Bad : n <= m
  BY <1>2, LeastNatural
<1>4. PICK T \in (SUBSET S) \ F : Cardinality(T) = n
  OBVIOUS
<1>5. T # {}
  BY <1>4, SumEmpty
<1>6. PICK x \in T : SumFunctionOnSet(f, T) = f[x] + SumFunctionOnSet(f, T \ {x})
  BY <1>1, <1>4, <1>5, SumChosen
<1>7. Cardinality(T \ {x}) = n - 1 /\ n - 1 \in Nat
  BY <1>1, <1>4, <1>6, FS_RemoveElement
<1>8. T \ {x} \in F
  BY <1>3, <1>4, <1>7
<1>. QED
  BY <1>4, <1>6, <1>8

\* The order does not matter: any element can be taken out first.
LEMMA SumTakeOut ==
    ASSUME NEW S, IsFiniteSet(S), NEW f, \A y \in S : f[y] \in Int, NEW x \in S
    PROVE  SumFunctionOnSet(f, S) = f[x] + SumFunctionOnSet(f, S \ {x})
<1>. DEFINE Good(T) == \A y \in T :
              SumFunctionOnSet(f, T) = f[y] + SumFunctionOnSet(f, T \ {y})
            Bad == {n \in Nat : \E T \in SUBSET S : ~Good(T) /\ Cardinality(T) = n}
<1>1. \A T \in SUBSET S : IsFiniteSet(T) /\ Cardinality(T) \in Nat
  BY FS_Subset, FS_CardinalityType
<1>2. \A T \in SUBSET S : SumFunctionOnSet(f, T) \in Int
  BY <1>1, SumInt
<1>. SUFFICES ASSUME ~Good(S) PROVE FALSE
  OBVIOUS
<1>3. Bad # {}
  BY <1>1
<1>4. PICK n \in Bad : \A m \in Bad : n <= m
  BY <1>3, LeastNatural
<1>5. PICK T \in SUBSET S : ~Good(T) /\ Cardinality(T) = n
  BY <1>4
<1>6. PICK y \in T : SumFunctionOnSet(f, T) # f[y] + SumFunctionOnSet(f, T \ {y})
  BY <1>5
<1>7. PICK z \in T : SumFunctionOnSet(f, T) = f[z] + SumFunctionOnSet(f, T \ {z})
  BY <1>1, <1>6, SumChosen
<1>8. /\ Cardinality(T \ {y}) = n - 1
      /\ Cardinality(T \ {z}) = n - 1
      /\ n - 1 \in Nat
  <2>1. IsFiniteSet(T)
    BY <1>1
  <2>2. IsFiniteSet(T \ {y}) /\ Cardinality(T \ {y}) \in Nat
    BY <1>1
  <2>. QED
    BY <1>5, <1>6, <1>7, <2>1, <2>2, FS_RemoveElement
<1>9. Good(T \ {y}) /\ Good(T \ {z})
  <2>. HIDE DEF Good
  <2>. QED
    BY <1>4, <1>8
<1>10. y # z
  BY <1>6, <1>7
<1>11. /\ SumFunctionOnSet(f, T \ {y}) = f[z] + SumFunctionOnSet(f, (T \ {y}) \ {z})
       /\ SumFunctionOnSet(f, T \ {z}) = f[y] + SumFunctionOnSet(f, (T \ {z}) \ {y})
  BY <1>9, <1>10
<1>12. SumFunctionOnSet(f, T \ {z}) = f[y] + SumFunctionOnSet(f, (T \ {y}) \ {z})
  <2>1. (T \ {y}) \ {z} = (T \ {z}) \ {y}
    OBVIOUS
  <2>. QED
    BY <1>11, <2>1
<1>13. /\ f[y] \in Int /\ f[z] \in Int
       /\ SumFunctionOnSet(f, (T \ {y}) \ {z}) \in Int
  BY <1>2
<1>. QED
  BY <1>6, <1>7, <1>11, <1>12, <1>13

\* A further element adds its term.
LEMMA SumAdd ==
    ASSUME NEW S, IsFiniteSet(S), NEW x, x \notin S, NEW f,
           \A y \in S \cup {x} : f[y] \in Int
    PROVE  SumFunctionOnSet(f, S \cup {x}) = f[x] + SumFunctionOnSet(f, S)
<1>1. IsFiniteSet(S \cup {x}) /\ (S \cup {x}) \ {x} = S
  BY FS_AddElement
<1>2. SumFunctionOnSet(f, S \cup {x}) = f[x] + SumFunctionOnSet(f, (S \cup {x}) \ {x})
  BY <1>1, SumTakeOut
<1>. QED
  BY <1>1, <1>2

\* Larger terms have a larger sum.
LEMMA SumMonotone ==
    ASSUME NEW S, IsFiniteSet(S), NEW f, NEW g,
           \A x \in S : f[x] \in Int /\ g[x] \in Int /\ f[x] <= g[x]
    PROVE  SumFunctionOnSet(f, S) <= SumFunctionOnSet(g, S)
<1>. DEFINE F == {T \in SUBSET S : SumFunctionOnSet(f, T) <= SumFunctionOnSet(g, T)}
<1>1. {} \in F
  BY SumEmpty
<1>2. ASSUME NEW T \in F, NEW x \in S \ T PROVE T \cup {x} \in F
  <2>1. IsFiniteSet(T) /\ T \cup {x} \in SUBSET S
    BY FS_Subset
  <2>2. /\ SumFunctionOnSet(f, T \cup {x}) = f[x] + SumFunctionOnSet(f, T)
        /\ SumFunctionOnSet(g, T \cup {x}) = g[x] + SumFunctionOnSet(g, T)
    BY <2>1, SumAdd
  <2>3. SumFunctionOnSet(f, T) \in Int /\ SumFunctionOnSet(g, T) \in Int
    BY <2>1, SumInt
  <2>. QED
    BY <2>1, <2>2, <2>3
<1>3. S \in F
  <2>. HIDE DEF F
  <2>. QED
    BY <1>1, <1>2, FiniteInduction
<1>. QED
  BY <1>3

\* A sum depends on the terms of its set only.
LEMMA SumSame ==
    ASSUME NEW S, IsFiniteSet(S), NEW f, NEW g,
           \A x \in S : f[x] \in Int /\ f[x] = g[x]
    PROVE  SumFunctionOnSet(f, S) = SumFunctionOnSet(g, S)
<1>1. /\ SumFunctionOnSet(f, S) <= SumFunctionOnSet(g, S)
      /\ SumFunctionOnSet(g, S) <= SumFunctionOnSet(f, S)
  BY SumMonotone
<1>2. SumFunctionOnSet(f, S) \in Int /\ SumFunctionOnSet(g, S) \in Int
  BY SumInt
<1>. QED
  BY <1>1, <1>2

\* Two sums over one set are added term by term.
LEMMA SumPlus ==
    ASSUME NEW S, IsFiniteSet(S), NEW f, NEW g, NEW h,
           \A x \in S : f[x] \in Int /\ g[x] \in Int /\ h[x] = f[x] + g[x]
    PROVE  SumFunctionOnSet(h, S) = SumFunctionOnSet(f, S) + SumFunctionOnSet(g, S)
<1>. DEFINE F == {T \in SUBSET S : SumFunctionOnSet(h, T)
                                     = SumFunctionOnSet(f, T) + SumFunctionOnSet(g, T)}
<1>1. {} \in F
  BY SumEmpty
<1>2. ASSUME NEW T \in F, NEW x \in S \ T PROVE T \cup {x} \in F
  <2>1. IsFiniteSet(T) /\ T \cup {x} \in SUBSET S
    BY FS_Subset
  <2>2. /\ SumFunctionOnSet(f, T \cup {x}) = f[x] + SumFunctionOnSet(f, T)
        /\ SumFunctionOnSet(g, T \cup {x}) = g[x] + SumFunctionOnSet(g, T)
        /\ SumFunctionOnSet(h, T \cup {x}) = h[x] + SumFunctionOnSet(h, T)
    <3>1. \A y \in T \cup {x} : f[y] \in Int /\ g[y] \in Int /\ h[y] \in Int
      BY <2>1
    <3>. QED
      BY <2>1, <3>1, SumAdd
  <2>3. SumFunctionOnSet(f, T) \in Int /\ SumFunctionOnSet(g, T) \in Int
    BY <2>1, SumInt
  <2>. QED
    BY <2>1, <2>2, <2>3
<1>3. S \in F
  <2>. HIDE DEF F
  <2>. QED
    BY <1>1, <1>2, FiniteInduction
<1>. QED
  BY <1>3

\* The sums over two disjoint sets add up to the sum over both.
LEMMA SumUnion ==
    ASSUME NEW S, IsFiniteSet(S), NEW T, IsFiniteSet(T), S \cap T = {}, NEW f,
           \A x \in S \cup T : f[x] \in Int
    PROVE  SumFunctionOnSet(f, S \cup T) = SumFunctionOnSet(f, S) + SumFunctionOnSet(f, T)
<1>. DEFINE F == {U \in SUBSET T : SumFunctionOnSet(f, S \cup U)
                                     = SumFunctionOnSet(f, S) + SumFunctionOnSet(f, U)}
<1>0. SumFunctionOnSet(f, S) \in Int
  BY SumInt
<1>1. {} \in F
  <2>1. S \cup {} = S
    OBVIOUS
  <2>. QED
    BY <1>0, <2>1, SumEmpty
<1>2. ASSUME NEW U \in F, NEW x \in T \ U PROVE U \cup {x} \in F
  <2>1. IsFiniteSet(U) /\ IsFiniteSet(S \cup U) /\ U \cup {x} \in SUBSET T
    BY FS_Subset, FS_Union
  <2>2. x \notin S \cup U /\ S \cup (U \cup {x}) = (S \cup U) \cup {x}
    OBVIOUS
  <2>3. SumFunctionOnSet(f, (S \cup U) \cup {x}) = f[x] + SumFunctionOnSet(f, S \cup U)
    BY <2>1, <2>2, SumAdd
  <2>4. SumFunctionOnSet(f, U \cup {x}) = f[x] + SumFunctionOnSet(f, U)
    BY <2>1, SumAdd
  <2>5. SumFunctionOnSet(f, U) \in Int
    BY <2>1, SumInt
  <2>6. SumFunctionOnSet(f, S \cup (U \cup {x})) = f[x] + SumFunctionOnSet(f, S \cup U)
    BY <2>2, <2>3
  <2>7. f[x] \in Int /\ SumFunctionOnSet(f, S \cup U)
                            = SumFunctionOnSet(f, S) + SumFunctionOnSet(f, U)
    OBVIOUS
  <2>. QED
    BY <1>0, <2>1, <2>4, <2>5, <2>6, <2>7
<1>3. T \in F
  <2>. HIDE DEF F
  <2>. QED
    BY <1>1, <1>2, FiniteInduction
<1>. QED
  BY <1>3

\* A sum of zeros is 0.
LEMMA SumZero ==
    ASSUME NEW S, IsFiniteSet(S), NEW f, \A x \in S : f[x] = 0
    PROVE  SumFunctionOnSet(f, S) = 0
<1>1. SumFunctionOnSet(f, S) = SumFunctionOnSet(f, S) + SumFunctionOnSet(f, S)
  BY SumPlus
<1>. QED
  BY <1>1, SumInt

\* A sum of natural numbers is natural.
LEMMA SumNat ==
    ASSUME NEW S, IsFiniteSet(S), NEW f, \A x \in S : f[x] \in Nat
    PROVE  SumFunctionOnSet(f, S) \in Nat
<1>. DEFINE z == [x \in S |-> 0]
<1>1. SumFunctionOnSet(z, S) <= SumFunctionOnSet(f, S)
  BY SumMonotone
<1>2. SumFunctionOnSet(z, S) = 0
  <2>1. \A x \in S : z[x] = 0
    OBVIOUS
  <2>. HIDE DEF z
  <2>. QED
    BY <2>1, SumZero
<1>. QED
  BY <1>1, <1>2, SumInt

\* A part of a set adds up to no more than the set.
LEMMA SumPart ==
    ASSUME NEW T, IsFiniteSet(T), NEW S \in SUBSET T, NEW f,
           \A x \in T : f[x] \in Int, \A x \in T \ S : f[x] >= 0
    PROVE  /\ SumFunctionOnSet(f, S) <= SumFunctionOnSet(f, T)
           /\ (\A x \in T \ S : f[x] = 0) => SumFunctionOnSet(f, S) = SumFunctionOnSet(f, T)
<1>1. IsFiniteSet(S) /\ IsFiniteSet(T \ S) /\ T = S \cup (T \ S) /\ S \cap (T \ S) = {}
  BY FS_Subset
<1>2. SumFunctionOnSet(f, T) = SumFunctionOnSet(f, S) + SumFunctionOnSet(f, T \ S)
  <2>. DEFINE U == T \ S
  <2>1. T = S \cup U /\ S \cap U = {} /\ IsFiniteSet(U)
    BY <1>1
  <2>. HIDE DEF U
  <2>2. SumFunctionOnSet(f, S \cup U) = SumFunctionOnSet(f, S) + SumFunctionOnSet(f, U)
    BY <1>1, <2>1, SumUnion
  <2>. QED
    BY <2>1, <2>2 DEF U
<1>3. SumFunctionOnSet(f, S) \in Int /\ SumFunctionOnSet(f, T \ S) \in Nat
  BY <1>1, SumInt, SumNat
<1>4. (\A x \in T \ S : f[x] = 0) => SumFunctionOnSet(f, T \ S) = 0
  BY <1>1, SumZero
<1>. QED
  BY <1>2, <1>3, <1>4

\* A term that changes changes the sum by as much.
LEMMA SumChanged ==
    ASSUME NEW S, IsFiniteSet(S), NEW x \in S, NEW f, NEW g,
           \A y \in S : f[y] \in Int /\ g[y] \in Int,
           \A y \in S \ {x} : f[y] = g[y]
    PROVE  SumFunctionOnSet(g, S) = SumFunctionOnSet(f, S) + (g[x] - f[x])
<1>1. IsFiniteSet(S \ {x})
  BY FS_RemoveElement
<1>2. SumFunctionOnSet(f, S \ {x}) = SumFunctionOnSet(g, S \ {x})
  BY <1>1, SumSame
<1>3. /\ SumFunctionOnSet(f, S) = f[x] + SumFunctionOnSet(f, S \ {x})
      /\ SumFunctionOnSet(g, S) = g[x] + SumFunctionOnSet(g, S \ {x})
  BY SumTakeOut
<1>4. SumFunctionOnSet(f, S \ {x}) \in Int
  BY <1>1, SumInt
<1>. QED
  BY <1>2, <1>3, <1>4

-----------------------------------------------------------------------------
(* What the payments of a table add up to. *)

AmountIn(P)  == [p \in P |-> p.amount]
PaidIn(P, i) == SumFunctionOnSet(AmountIn(P), {p \in P : p.invoice = i})

\* A table of payments that can be summed.
Summable(P) ==
    /\ IsFiniteSet(P)
    /\ \A p \in P : p.amount \in Nat

\* What was paid for an invoice is a natural number, of finitely many payments.
LEMMA PaidIsNatural ==
    ASSUME NEW P, Summable(P), NEW i
    PROVE  PaidIn(P, i) \in Nat /\ IsFiniteSet({p \in P : p.invoice = i})
<1>1. IsFiniteSet({p \in P : p.invoice = i})
  BY FS_Subset DEF Summable
<1>. QED
  BY <1>1, SumNat DEF PaidIn, AmountIn, Summable

\* A further payment is added to what was paid for its invoice, and to no other.
LEMMA PaidAdded ==
    ASSUME NEW P, Summable(P), NEW p, p \notin P, p.amount \in Nat, NEW i
    PROVE  PaidIn(P \cup {p}, i) = PaidIn(P, i) + (IF p.invoice = i THEN p.amount ELSE 0)
<1>. DEFINE Q == {q \in P : q.invoice = i}
            R == {q \in P \cup {p} : q.invoice = i}
            f == AmountIn(P)
            g == AmountIn(P \cup {p})
<1>1. IsFiniteSet(Q) /\ p \notin Q
  BY PaidIsNatural
<1>2. \A q \in Q : f[q] \in Int /\ f[q] = g[q]
  BY DEF Summable, AmountIn
<1>3. g[p] = p.amount /\ \A q \in Q \cup {p} : g[q] \in Int
  BY DEF Summable, AmountIn
<1>4. R = IF p.invoice = i THEN Q \cup {p} ELSE Q
  OBVIOUS
<1>5. PaidIn(P, i) = SumFunctionOnSet(f, Q) /\ PaidIn(P \cup {p}, i) = SumFunctionOnSet(g, R)
  BY DEF PaidIn
<1>. HIDE DEF Q, R, f, g
<1>6. SumFunctionOnSet(f, Q) = SumFunctionOnSet(g, Q) /\ SumFunctionOnSet(g, Q) \in Int
  BY <1>1, <1>2, SumSame, SumInt
<1>7. SumFunctionOnSet(g, Q \cup {p}) = p.amount + SumFunctionOnSet(g, Q)
  BY <1>1, <1>3, SumAdd
<1>. QED
  BY <1>4, <1>5, <1>6, <1>7

\* A voided one is taken off.
LEMMA PaidRemoved ==
    ASSUME NEW P, Summable(P), NEW p \in P, NEW i
    PROVE  PaidIn(P \ {p}, i) = PaidIn(P, i) - (IF p.invoice = i THEN p.amount ELSE 0)
<1>1. Summable(P \ {p}) /\ (P \ {p}) \cup {p} = P /\ p.amount \in Nat
  BY FS_RemoveElement DEF Summable
<1>. DEFINE Q == P \ {p}
<1>2. p \notin Q
  OBVIOUS
<1>. HIDE DEF Q
<1>3. PaidIn(Q \cup {p}, i) = PaidIn(Q, i) + (IF p.invoice = i THEN p.amount ELSE 0)
  BY <1>1, <1>2, PaidAdded DEF Q
<1>4. PaidIn(Q, i) \in Nat /\ Q \cup {p} = P
  BY <1>1, PaidIsNatural DEF Q
<1>5. PaidIn(P, i) = PaidIn(Q, i) + (IF p.invoice = i THEN p.amount ELSE 0)
  BY <1>3, <1>4
<1>6. PaidIn(Q, i) = PaidIn(P, i) - (IF p.invoice = i THEN p.amount ELSE 0)
  BY <1>1, <1>4, <1>5
<1>. QED
  BY <1>6 DEF Q

\* The payments of all invoices are all payments.
LEMMA PaidAltogether ==
    ASSUME NEW P, Summable(P), \A p \in P : p.invoice \in Invoices
    PROVE  SumFunction(AmountIn(P)) = SumFunctionOnSet([i \in Invoices |-> PaidIn(P, i)], Invoices)
<1>. DEFINE paid(T) == [i \in Invoices |-> PaidIn(T, i)]
            F == {T \in SUBSET P :
                    SumFunctionOnSet(AmountIn(T), T) = SumFunctionOnSet(paid(T), Invoices)}
<1>0. IsFiniteSet(Invoices)
  BY DashboardAssumption
<1>1. {} \in F
  <2>1. \A i \in Invoices : paid({})[i] = 0
    <3>1. \A i : {p \in {} : p.invoice = i} = {}
      OBVIOUS
    <3>. QED
      BY <3>1, SumEmpty DEF PaidIn
  <2>. QED
    BY <1>0, <2>1, SumZero, SumEmpty
<1>2. ASSUME NEW T \in F, NEW p \in P \ T PROVE T \cup {p} \in F
  <2>1. Summable(T) /\ T \cup {p} \in SUBSET P /\ p.amount \in Nat /\ p.invoice \in Invoices
    BY FS_Subset DEF Summable
  <2>2. /\ \A i \in Invoices : PaidIn(T, i) \in Int /\ PaidIn(T \cup {p}, i) \in Int
        /\ \A i \in Invoices : PaidIn(T \cup {p}, i)
             = PaidIn(T, i) + (IF p.invoice = i THEN p.amount ELSE 0)
    <3>1. Summable(T \cup {p})
      BY <2>1, FS_AddElement DEF Summable
    <3>2. \A i \in Invoices : PaidIn(T, i) \in Int /\ PaidIn(T \cup {p}, i) \in Int
      <4>1. \A i : PaidIn(T, i) \in Nat
        BY <2>1, PaidIsNatural
      <4>2. \A i : PaidIn(T \cup {p}, i) \in Nat
        BY <3>1, PaidIsNatural
      <4>3. \A i : PaidIn(T, i) \in Int /\ PaidIn(T \cup {p}, i) \in Int
        BY <4>1, <4>2, SMT
      <4>. QED
        BY <4>3
    <3>3. \A i \in Invoices : PaidIn(T \cup {p}, i)
             = PaidIn(T, i) + (IF p.invoice = i THEN p.amount ELSE 0)
      BY <2>1, PaidAdded
    <3>. QED
      BY <3>2, <3>3
  <2>3. SumFunctionOnSet(paid(T \cup {p}), Invoices)
          = SumFunctionOnSet(paid(T), Invoices) + p.amount
    <3>. DEFINE f == paid(T)
                g == paid(T \cup {p})
    <3>1. \A i \in Invoices : f[i] = PaidIn(T, i) /\ g[i] = PaidIn(T \cup {p}, i)
      OBVIOUS
    <3>. HIDE DEF f, g
    <3>2. /\ \A i \in Invoices : f[i] \in Int /\ g[i] \in Int
          /\ \A i \in Invoices \ {p.invoice} : f[i] = g[i]
          /\ g[p.invoice] - f[p.invoice] = p.amount
      <4>1. \A i \in Invoices : f[i] \in Int /\ g[i] \in Int
        BY <2>2, <3>1
      <4>2. \A i \in Invoices : g[i] = f[i] + (IF p.invoice = i THEN p.amount ELSE 0)
        BY <2>2, <3>1
      <4>. QED
        BY <2>1, <4>1, <4>2
    <3>3. SumFunctionOnSet(g, Invoices)
            = SumFunctionOnSet(f, Invoices) + (g[p.invoice] - f[p.invoice])
      BY <1>0, <2>1, <3>2, SumChanged
    <3>. QED
      BY <3>2, <3>3 DEF f, g
  <2>4. SumFunctionOnSet(AmountIn(T \cup {p}), T \cup {p})
          = p.amount + SumFunctionOnSet(AmountIn(T), T)
    <3>. DEFINE f == AmountIn(T)
                g == AmountIn(T \cup {p})
    <3>1. /\ \A q \in T : f[q] \in Int /\ f[q] = g[q]
          /\ \A q \in T \cup {p} : g[q] \in Int
          /\ g[p] = p.amount
      BY <2>1 DEF AmountIn, Summable
    <3>. HIDE DEF f, g
    <3>2. /\ SumFunctionOnSet(g, T \cup {p}) = g[p] + SumFunctionOnSet(g, T)
          /\ SumFunctionOnSet(g, T) = SumFunctionOnSet(f, T)
      BY <2>1, <3>1, SumAdd, SumSame DEF Summable
    <3>. QED
      BY <3>1, <3>2 DEF f, g
  <2>5. SumFunctionOnSet(paid(T), Invoices) \in Int
    <3>. DEFINE f == paid(T)
    <3>1. \A i \in Invoices : f[i] \in Int
      BY <2>2
    <3>. HIDE DEF f
    <3>. QED
      BY <1>0, <3>1, SumInt DEF f
  <2>. QED
    BY <2>1, <2>3, <2>4, <2>5
<1>3. P \in F
  <2>. HIDE DEF F
  <2>. QED
    BY <1>1, <1>2, FiniteInduction DEF Summable
<1>4. DOMAIN AmountIn(P) = P
  BY DEF AmountIn
<1>. QED
  BY <1>3, <1>4 DEF SumFunction

\* Received counts the units of payments with different ids: their sum.
LEMMA UnitsAddUp ==
    ASSUME NEW P, Summable(P), \A p, q \in P : p.id = q.id => p = q
    PROVE  \A Q \in SUBSET P :
             Cardinality(UNION {Units(p) : p \in Q}) = SumFunctionOnSet(AmountIn(P), Q)
<1>. SUFFICES ASSUME NEW Q \in SUBSET P
              PROVE  Cardinality(UNION {Units(p) : p \in Q}) = SumFunctionOnSet(AmountIn(P), Q)
  OBVIOUS
<1>. DEFINE units(T) == UNION {Units(p) : p \in T}
            F == {T \in SUBSET Q : /\ IsFiniteSet(units(T))
                                    /\ Cardinality(units(T)) = SumFunctionOnSet(AmountIn(P), T)}
<1>0. IsFiniteSet(Q)
  BY FS_Subset DEF Summable
<1>1. {} \in F
  <2>1. units({}) = {}
    OBVIOUS
  <2>. QED
    BY <2>1, SumEmpty, FS_EmptySet
<1>2. ASSUME NEW T \in F, NEW p \in Q \ T PROVE T \cup {p} \in F
  <2>1. IsFiniteSet(T) /\ T \cup {p} \in SUBSET Q /\ p.amount \in Nat
    BY <1>0, FS_Subset DEF Summable
  <2>2. IsFiniteSet(Units(p)) /\ Cardinality(Units(p)) = p.amount
    <3>1. IsFiniteSet({p.id}) /\ Cardinality({p.id}) = 1
      BY FS_Singleton
    <3>2. IsFiniteSet(1 .. p.amount) /\ Cardinality(1 .. p.amount) = p.amount
      BY <2>1, FS_Interval
    <3>3. /\ IsFiniteSet({p.id} \X (1 .. p.amount))
          /\ Cardinality({p.id} \X (1 .. p.amount)) = 1 * p.amount
      BY <3>1, <3>2, FS_Product
    <3>. QED
      BY <2>1, <3>3 DEF Units
  <2>3. units(T \cup {p}) = units(T) \cup Units(p) /\ units(T) \cap Units(p) = {}
    <3>1. \A q \in T : q.id # p.id
      OBVIOUS
    <3>. QED
      BY <3>1 DEF Units
  <2>4. IsFiniteSet(units(T)) /\ Cardinality(units(T)) \in Nat
    BY FS_CardinalityType
  <2>5. /\ IsFiniteSet(units(T) \cup Units(p))
        /\ Cardinality(units(T) \cup Units(p)) = Cardinality(units(T)) + p.amount
    <3>. DEFINE U == units(T)
                V == Units(p)
    <3>1. /\ IsFiniteSet(U) /\ IsFiniteSet(V) /\ U \cap V = {}
          /\ Cardinality(U) \in Nat /\ Cardinality(V) = p.amount
      BY <2>2, <2>3, <2>4
    <3>. HIDE DEF U, V
    <3>2. /\ IsFiniteSet(U \cup V)
          /\ Cardinality(U \cup V) = Cardinality(U) + Cardinality(V) - Cardinality(U \cap V)
      BY <3>1, FS_Union
    <3>3. Cardinality(U \cap V) = 0
      BY <3>1, FS_EmptySet
    <3>4. IsFiniteSet(U \cup V) /\ Cardinality(U \cup V) = Cardinality(U) + p.amount
      BY <2>1, <3>1, <3>2, <3>3
    <3>. QED
      BY <3>4 DEF U, V
  <2>6. SumFunctionOnSet(AmountIn(P), T \cup {p}) = p.amount + SumFunctionOnSet(AmountIn(P), T)
    <3>1. \A q \in T \cup {p} : AmountIn(P)[q] = q.amount /\ q.amount \in Int
      BY DEF AmountIn, Summable
    <3>. QED
      BY <2>1, <3>1, SumAdd
  <2>7. Cardinality(units(T)) = SumFunctionOnSet(AmountIn(P), T)
    OBVIOUS
  <2>8. /\ IsFiniteSet(units(T \cup {p}))
        /\ Cardinality(units(T \cup {p})) = SumFunctionOnSet(AmountIn(P), T \cup {p})
    <3>. DEFINE U == units(T)
                V == units(T \cup {p})
                total == SumFunctionOnSet(AmountIn(P), T \cup {p})
    <3>1. V = U \cup Units(p)
      BY <2>3
    <3>. HIDE DEF U, V, total
    <3>2. IsFiniteSet(V) /\ Cardinality(V) = Cardinality(U) + p.amount
      BY <2>5, <3>1 DEF U
    <3>3. Cardinality(U) \in Nat /\ total = p.amount + Cardinality(U)
      BY <2>4, <2>6, <2>7 DEF U, total
    <3>4. Cardinality(V) = total
      BY <2>1, <3>2, <3>3
    <3>. QED
      BY <3>2, <3>4 DEF V, total
  <2>. QED
    <3>. HIDE DEF units
    <3>. QED
      BY <2>1, <2>8
<1>3. Q \in F
  <2>. HIDE DEF F
  <2>. QED
    BY <1>0, <1>1, <1>2, FiniteInduction
<1>. QED
  BY <1>3

-----------------------------------------------------------------------------
(* The invariant of the ledger. *)

\* The row of an invoice its payments of which add up to paid.
RowOK(row, paid) ==
    /\ row.amountPaid = paid
    /\ row.amountDue = row.total - paid
    /\ row.status \in {"ABSENT", "DRAFT", "SENT", "PARTIALLY_PAID", "PAID", "CANCELLED"}
    /\ row.status \in {"ABSENT", "DRAFT", "SENT"} => paid = 0
    /\ row.status = "ABSENT" => row.total = 0
    /\ row.status = "PARTIALLY_PAID" => paid \in 1 .. row.total
    /\ row.status = "PAID" => paid = row.total
    /\ row.status = "CANCELLED" => paid <= AtLeastZero(row.total)

LedgerOK ==
    /\ invoice \in [Invoices -> Row]
    /\ payments \in SUBSET Payment /\ IsFiniteSet(payments)
    /\ \A p \in payments : p.amount \in Nat \ {0} /\ Exists(p.invoice)
    /\ \A p, q \in payments : p.id = q.id => p = q
    /\ \A i \in Invoices : RowOK(invoice[i], PaidIn(payments, i))

-----------------------------------------------------------------------------
(* The invariant of a report. *)

\* Fewer terms are known exactly while invoices change.
Mixed(changed, exact, bound) ==
    SumFunctionOnSet(exact, Invoices \ changed) + SumFunctionOnSet(bound, changed)

Nothing    == [i \in Invoices |-> 0]
DueNow     == [i \in Invoices |-> IF i \in Outstanding THEN invoice[i].amountDue ELSE 0]
OverdueNow == [i \in Invoices |-> IF i \in Overdue THEN invoice[i].amountDue ELSE 0]

Customers == {CustomerOf[i] : i \in Invoices}

\* The figures, when the groups are of the keys T and C.
Figures(T, C) == [totalRevenue : Nat, totalOutstanding : Int, totalOverdue : Int,
                  overdueCount : Nat, byStatus : [InvoiceStatus -> Nat],
                  topInvoices : [T -> Nat], topCustomers : [C -> Nat]]

List == [invoice : Invoices \cup {None}, amountPaid : Int, payments : SUBSET Payment,
         voided : BOOLEAN]

TypesOK ==
    /\ pending \in SUBSET Queries
    /\ phase \in {"idle", "queries", "answer", "findInvoice", "findPayments", "listed"}
    /\ phase # "queries" => pending = {}
    /\ touched \in SUBSET Invoices
    /\ \E T \in SUBSET Invoices, C \in SUBSET Customers : figures \in Figures(T, C)
    /\ list \in List
    /\ phase \in {"findInvoice", "findPayments", "listed"} => list.invoice \in Invoices

Told(q) == phase \in {"queries", "answer"} /\ q \notin pending

RevenueOK == Told("revenue") =>
    /\ Mixed(touched, Receipts, Nothing) <= figures.totalRevenue
    /\ figures.totalRevenue <= Mixed(touched, Receipts, Billed)

OutstandingOK == Told("outstanding") =>
    /\ Mixed(touched, DueNow, Credited) <= figures.totalOutstanding
    /\ figures.totalOutstanding <= Mixed(touched, DueNow, Billed)

OverdueOK == Told("overdue") =>
    /\ figures.totalOverdue <= Mixed(touched, OverdueNow, Billed)
    /\ figures.overdueCount <= Cardinality(Overdue \cup touched)

ByStatusOK == Told("byStatus") =>
    \A s \in InvoiceStatus : figures.byStatus[s] >= Cardinality(InvoicesIn({s}) \ touched)

\* The invoices kept have what was received for them, and at least as much as the others.
TopInvoicesOK == Told("topInvoices") =>
    LET top == figures.topInvoices
    IN  /\ \A i \in DOMAIN top :
             /\ Exists(i)
             /\ top[i] <= Billed[i]
             /\ i \in Steady => top[i] = Receipts[i]
        /\ \A i \in Steady \ DOMAIN top :
             Receipts[i] = 0 \/ \A j \in DOMAIN top : top[j] >= Receipts[i]
        /\ (touched = {} /\ Cardinality({p.invoice : p \in payments}) <= TopInvoices) =>
             \A i \in Invoices \ DOMAIN top : Receipts[i] = 0

ListOK == phase = "findPayments" =>
    LET paid == PaidIn(payments, list.invoice)
    IN  /\ ~list.voided => paid >= list.amountPaid
        /\ list.invoice \in Steady => paid = list.amountPaid

ReportInv ==
    /\ LedgerOK
    /\ TypesOK
    /\ RevenueOK
    /\ OutstandingOK
    /\ OverdueOK
    /\ ByStatusOK
    /\ TopInvoicesOK
    /\ TopCustomersDeserveIt
    /\ ListOK
    /\ ListCoversSummary
-----------------------------------------------------------------------------
(* The ledger keeps its invariant. *)

\* When amounts are whole cents nothing is rounded.
LEMMA WholeCents ==
    ASSUME NEW x \in Int, Cent = 1
    PROVE  Decimal2(x) = x
  BY DEF Decimal2

LEMMA WholeDoubles ==
    ASSUME NEW x \in Int, Cent = 1, NEW y \in DoubleStored(x)
    PROVE  y = x
<1>1. y \in {x, x + 1} /\ 2 * (y - x) \in -1 .. 1
  BY DEF DoubleStored
<1>. QED
  BY <1>1

\* Payments of an invoice that stay the same add up to the same.
LEMMA PaidSame ==
    ASSUME NEW P, Summable(P), NEW Q, NEW i,
           {p \in P : p.invoice = i} = {p \in Q : p.invoice = i}
    PROVE  PaidIn(P, i) = PaidIn(Q, i)
<1>. DEFINE S == {p \in P : p.invoice = i}
            f == AmountIn(P)
            g == AmountIn(Q)
<1>1. IsFiniteSet(S)
  BY PaidIsNatural
<1>2. \A p \in S : f[p] \in Int /\ f[p] = g[p]
  BY DEF Summable, AmountIn
<1>3. PaidIn(P, i) = SumFunctionOnSet(f, S) /\ PaidIn(Q, i) = SumFunctionOnSet(g, S)
  BY DEF PaidIn
<1>. HIDE DEF S, f, g
<1>. QED
  BY <1>1, <1>2, <1>3, SumSame

\* recordPayment adds the amount to what was paid and takes it off what is due.
LEMMA RowPaid ==
    ASSUME Cent = 1, NEW row \in Row, NEW paid \in Nat, RowOK(row, paid),
           row.status \notin {"ABSENT", "DRAFT", "CANCELLED", "REFUNDED"},
           NEW a \in Nat \ {0}, a <= row.amountDue, NEW columns \in AfterPayment(row, a)
    PROVE  LET new == WithColumns(row, columns)
           IN  new \in Row /\ RowOK(new, paid + a) /\ new.total = row.total
<1>1. row.total \in Int /\ row.amountPaid = paid /\ row.amountDue = row.total - paid
  BY DEF RowOK, Row
<1>2. /\ columns.amountPaid = paid + a
      /\ columns.amountDue = row.total - (paid + a)
      /\ \/ columns.status = "PAID" /\ row.total = paid + a
         \/ columns.status = "PARTIALLY_PAID"
  <2>1. row.total - (paid + a) \in Nat /\ paid + a \in Nat \ {0}
    BY <1>1
  <2>2. /\ \A y \in DoubleStored(paid + a) : y = paid + a
        /\ \A y \in DoubleStored(AtLeastZero(row.total - (paid + a))) :
             y = row.total - (paid + a)
    BY <2>1, WholeDoubles DEF AtLeastZero
  <2>3. /\ columns.amountPaid \in DoubleStored(paid + a)
        /\ columns.amountDue \in DoubleStored(AtLeastZero(row.total - (paid + a)))
        /\ \/ columns.status = "PAID" /\ row.total - (paid + a) <= 0
           \/ columns.status = "PARTIALLY_PAID"
    BY <1>1, <2>1 DEF AfterPayment
  <2>. QED
    BY <1>1, <2>1, <2>2, <2>3
<1>3. row.status = "SENT" \/ row.status = "PARTIALLY_PAID"
  BY <1>1 DEF RowOK
<1>4. WithColumns(row, columns) \in Row
  <2>1. /\ columns.amountPaid \in Int /\ columns.amountDue \in Int
        /\ columns.status \in InvoiceStatus
    BY <1>1, <1>2 DEF InvoiceStatus
  <2>. QED
    BY <2>1 DEF Row, WithColumns
<1>5. RowOK(WithColumns(row, columns), paid + a) /\ WithColumns(row, columns).total = row.total
  BY <1>1, <1>2, <1>4 DEF Row, WithColumns, RowOK
<1>. QED
  BY <1>4, <1>5

\* voidPayment takes it off again, and reopens the invoice.
LEMMA RowVoided ==
    ASSUME Cent = 1, NEW row \in Row, NEW paid \in Nat, RowOK(row, paid),
           NEW a \in Nat \ {0}, a <= paid
    PROVE  LET new == WithColumns(row, AfterVoid(row, a))
           IN  new \in Row /\ RowOK(new, paid - a) /\ new.total = row.total
<1>1. row.total \in Int /\ row.amountPaid = paid /\ row.amountDue = row.total - paid
  BY DEF RowOK, Row
<1>2. paid <= row.total
  BY <1>1 DEF RowOK, AtLeastZero
<1>. DEFINE columns == AfterVoid(row, a)
<1>3. /\ columns.amountPaid = paid - a
      /\ columns.amountDue = row.total - (paid - a)
      /\ columns.status = IF paid = a THEN "SENT" ELSE "PARTIALLY_PAID"
  <2>1. row.total - (paid - a) \in Int /\ paid - a \in Nat
    BY <1>1
  <2>2. /\ Decimal2(AtLeastZero(paid - a)) = paid - a
        /\ Decimal2(row.total - (paid - a)) = row.total - (paid - a)
    BY <2>1, WholeCents DEF AtLeastZero
  <2>. QED
    BY <1>1, <2>1, <2>2 DEF AfterVoid
<1>. HIDE DEF columns
<1>4. WithColumns(row, columns) \in Row
  <2>1. /\ columns.amountPaid \in Int /\ columns.amountDue \in Int
        /\ columns.status \in InvoiceStatus
    BY <1>1, <1>3 DEF InvoiceStatus
  <2>. QED
    BY <2>1 DEF Row, WithColumns
<1>5. RowOK(WithColumns(row, columns), paid - a) /\ WithColumns(row, columns).total = row.total
  BY <1>1, <1>2, <1>3, <1>4 DEF Row, WithColumns, RowOK
<1>. QED
  BY <1>4, <1>5 DEF columns

\* Without invoices nothing was paid.
LEMMA LedgerInit == Init => LedgerOK
<1>. SUFFICES ASSUME Init PROVE LedgerOK
  OBVIOUS
<1>1. Summable({}) /\ \A i \in Invoices : PaidIn({}, i) = 0
  <2>1. \A i : {p \in {} : p.invoice = i} = {}
    OBVIOUS
  <2>. QED
    BY <2>1, SumEmpty, FS_EmptySet DEF PaidIn, Summable
<1>. QED
  BY <1>1, FS_EmptySet DEF Init, LedgerOK, RowOK, AbsentRow, Row, Exists, AtLeastZero

\* What a committed step of the ledger changes.
LedgerChange ==
    /\ LedgerOK'
    /\ \A i \in Invoices :
         /\ invoice'[i].total = invoice[i].total \/ invoice[i].total = 0
         /\ invoice[i].status # "ABSENT" => invoice'[i].status # "ABSENT"
         /\ {p \in payments' : p.invoice = i} = {p \in payments : p.invoice = i} =>
              PaidIn(payments', i) = PaidIn(payments, i)
         /\ (\A p \in payments \ payments' : p.invoice # i) =>
              PaidIn(payments', i) >= PaidIn(payments, i)

\* The payments of a ledger can be summed.
LEMMA LedgerPaid ==
    LedgerOK => /\ Summable(payments)
                /\ \A i \in Invoices : PaidIn(payments, i) \in Nat
BY PaidIsNatural DEF LedgerOK, Summable

\* Steps that change one row and no payment.
LEMMA RowChanges ==
    ASSUME LedgerOK, NEW i \in Invoices, NEW row \in Row,
           invoice' = [invoice EXCEPT ![i] = row], UNCHANGED payments,
           RowOK(row, PaidIn(payments, i)),
           row.total = invoice[i].total \/ invoice[i].total = 0,
           row.status # "ABSENT"
    PROVE  LedgerChange
<1>1. LedgerOK'
  BY DEF LedgerOK, Exists
<1>. QED
  BY <1>1, LedgerPaid DEF LedgerChange, LedgerOK, Exists

\* Every request that commits keeps the rows and the payments in step.
LEMMA LedgerSteps ==
    ASSUME Cent = 1, LedgerOK, Next
    PROVE  LedgerChange
<1>0. /\ Summable(payments)
      /\ \A i \in Invoices : PaidIn(payments, i) \in Nat
      /\ \A i \in Invoices : invoice[i] \in Row /\ RowOK(invoice[i], PaidIn(payments, i))
  BY LedgerPaid DEF LedgerOK
<1>1. ASSUME NEW i \in Invoices, Create(i) PROVE LedgerChange
  <2>1. PICK t \in Totals, n \in Notes :
          invoice' = [invoice EXCEPT ![i] =
             [total |-> Decimal2(t), amountPaid |-> 0, amountDue |-> Decimal2(t),
              status |-> "DRAFT", notes |-> n]]
    BY <1>1 DEF Create
  <2>. DEFINE row == [total |-> Decimal2(t), amountPaid |-> 0, amountDue |-> Decimal2(t),
                      status |-> "DRAFT", notes |-> n]
  <2>2. t \in Int /\ Decimal2(t) = t
    BY WholeCents, MoneyAssumption
  <2>3. PaidIn(payments, i) = 0 /\ invoice[i].total = 0
    BY <1>0, <1>1 DEF Create, Exists, RowOK
  <2>4. row \in Row /\ RowOK(row, 0) /\ row.status # "ABSENT"
    BY <2>2 DEF Row, RowOK, InvoiceStatus
  <2>. HIDE DEF row
  <2>. QED
    BY <1>1, <2>1, <2>3, <2>4, RowChanges DEF Create, row
<1>2. ASSUME NEW i \in Invoices, Send(i) PROVE LedgerChange
  <2>. DEFINE row == [invoice[i] EXCEPT !.status = "SENT"]
  <2>1. row \in Row /\ row.total = invoice[i].total /\ row.status # "ABSENT"
    BY <1>0 DEF Row, InvoiceStatus
  <2>2. RowOK(row, PaidIn(payments, i))
    BY <1>0, <1>2 DEF Send, SetStatus, RowOK, Row
  <2>3. invoice' = [invoice EXCEPT ![i] = row] /\ UNCHANGED payments
    BY <1>2 DEF Send, SetStatus
  <2>. HIDE DEF row
  <2>. QED
    BY <2>1, <2>2, <2>3, RowChanges
<1>3. ASSUME NEW i \in Invoices, Cancel(i) PROVE LedgerChange
  <2>. DEFINE row == [invoice[i] EXCEPT !.status = "CANCELLED"]
  <2>1. row \in Row /\ row.total = invoice[i].total /\ row.status # "ABSENT"
    BY <1>0 DEF Row, InvoiceStatus
  <2>2. RowOK(row, PaidIn(payments, i))
    BY <1>0, <1>3 DEF Cancel, SetStatus, RowOK, Row, AtLeastZero, InvoiceStatus
  <2>3. invoice' = [invoice EXCEPT ![i] = row] /\ UNCHANGED payments
    BY <1>3 DEF Cancel, SetStatus
  <2>. HIDE DEF row
  <2>. QED
    BY <2>1, <2>2, <2>3, RowChanges
<1>4. ASSUME NEW i \in Invoices, Edit(i) PROVE LedgerChange
  <2>1. PICK n \in Notes : invoice' = [invoice EXCEPT ![i].notes = n]
    BY <1>4 DEF Edit
  <2>. DEFINE row == [invoice[i] EXCEPT !.notes = n]
  <2>2. row \in Row /\ row.total = invoice[i].total /\ row.status # "ABSENT"
    BY <1>0, <1>4 DEF Row, Edit
  <2>3. RowOK(row, PaidIn(payments, i))
    BY <1>0 DEF RowOK, Row
  <2>4. invoice' = [invoice EXCEPT ![i] = row] /\ UNCHANGED payments
    BY <1>4, <2>1 DEF Edit
  <2>. HIDE DEF row
  <2>. QED
    BY <2>2, <2>3, <2>4, RowChanges
<1>5. ASSUME NEW i \in Invoices, RecordPayment(i) PROVE LedgerChange
  <2>1. PICK a \in Amounts, id \in PaymentIds \ {p.id : p \in payments} :
          /\ a <= invoice[i].amountDue
          /\ payments' = payments \cup {[id |-> id, invoice |-> i, amount |-> Decimal2(a)]}
          /\ \E columns \in AfterPayment(invoice[i], a) :
               invoice' = [invoice EXCEPT ![i] = WithColumns(@, columns)]
    BY <1>5 DEF RecordPayment
  <2>0. PICK columns \in AfterPayment(invoice[i], a) :
          invoice' = [invoice EXCEPT ![i] = WithColumns(@, columns)]
    BY <2>1
  <2>. DEFINE p   == [id |-> id, invoice |-> i, amount |-> a]
              row == WithColumns(invoice[i], columns)
  <2>2. a \in Nat \ {0} /\ Decimal2(a) = a
    BY WholeCents, MoneyAssumption
  <2>3. /\ p \in Payment /\ p \notin payments
        /\ p.amount = a /\ p.invoice = i
        /\ \A q \in payments : q.id # p.id
    BY <2>1, <2>2 DEF Payment
  <2>4. row \in Row /\ RowOK(row, PaidIn(payments, i) + a) /\ row.total = invoice[i].total
    BY <1>0, <1>5, <2>1, <2>2, RowPaid DEF RecordPayment, Payable, Exists
  <2>5. payments' = payments \cup {p} /\ invoice' = [invoice EXCEPT ![i] = row]
    BY <2>0, <2>1, <2>2
  <2>. HIDE DEF p, row
  <2>6. \A j : PaidIn(payments', j) = PaidIn(payments, j) + (IF i = j THEN a ELSE 0)
    BY <1>0, <2>2, <2>3, <2>5, PaidAdded
  <2>7. row.status # "ABSENT"
    BY <1>0, <2>2, <2>4 DEF RowOK
  <2>8. \A j \in Invoices : invoice'[j] \in Row /\ RowOK(invoice'[j], PaidIn(payments', j))
    <3>. SUFFICES ASSUME NEW j \in Invoices
                  PROVE  invoice'[j] \in Row /\ RowOK(invoice'[j], PaidIn(payments', j))
      OBVIOUS
    <3>1. CASE i = j
      <4>1. invoice'[j] = row /\ PaidIn(payments', j) = PaidIn(payments, i) + a
        BY <2>5, <2>6, <3>1 DEF LedgerOK
      <4>. QED
        BY <2>4, <4>1
    <3>2. CASE i # j
      <4>1. invoice'[j] = invoice[j]
        BY <2>5, <3>2 DEF LedgerOK
      <4>2. PaidIn(payments', j) = PaidIn(payments, j)
        BY <1>0, <2>6, <3>2
      <4>. QED
        BY <1>0, <4>1, <4>2
    <3>. QED
      BY <3>1, <3>2
  <2>9. /\ payments' \in SUBSET Payment /\ IsFiniteSet(payments')
        /\ \A q \in payments' : q.amount \in Nat \ {0} /\ Exists(q.invoice)'
        /\ \A q, r \in payments' : q.id = r.id => q = r
    <3>1. IsFiniteSet(payments')
      BY <2>5, FS_AddElement DEF LedgerOK
    <3>2. \A j \in Invoices : Exists(j) => Exists(j)'
      BY <2>5, <2>7 DEF LedgerOK, Exists
    <3>3. \A q \in payments : q.invoice \in Invoices
      BY DEF LedgerOK, Payment
    <3>4. Exists(i)'
      BY <2>5, <2>7 DEF LedgerOK, Exists
    <3>. QED
      BY <2>2, <2>3, <2>5, <3>1, <3>2, <3>3, <3>4 DEF LedgerOK
  <2>10. LedgerOK'
    BY <2>5, <2>8, <2>9, <2>4 DEF LedgerOK
  <2>11. \A j \in Invoices :
            /\ invoice'[j].total = invoice[j].total
            /\ Exists(j) => Exists(j)'
    BY <2>4, <2>5, <2>7 DEF LedgerOK, Exists
  <2>12. {q \in payments' : q.invoice = i} # {q \in payments : q.invoice = i}
    BY <2>3, <2>5
  <2>13. \A j \in Invoices : PaidIn(payments', j) >= PaidIn(payments, j)
    BY <1>0, <2>2, <2>6
  <2>14. \A j \in Invoices : i # j => PaidIn(payments', j) = PaidIn(payments, j)
    BY <1>0, <2>6
  <2>. QED
    BY <2>10, <2>11, <2>12, <2>13, <2>14 DEF LedgerChange, Exists
<1>6. ASSUME NEW p \in payments, VoidPayment(p) PROVE LedgerChange
  <2>. DEFINE i   == p.invoice
              a   == p.amount
              row == WithColumns(invoice[i], AfterVoid(invoice[i], a))
  <2>1. i \in Invoices /\ a \in Nat \ {0}
    BY DEF LedgerOK, Payment
  <2>2. payments' = payments \ {p} /\ invoice' = [invoice EXCEPT ![i] = row]
    BY <1>6 DEF VoidPayment
  <2>. HIDE DEF i, a, row
  <2>3. \A j : PaidIn(payments', j) = PaidIn(payments, j) - (IF i = j THEN a ELSE 0)
    BY <1>0, <2>2, PaidRemoved DEF i, a
  <2>4. Summable(payments') /\ \A j : PaidIn(payments', j) \in Nat
    <3>1. Summable(payments')
      BY <1>0, <2>2, FS_RemoveElement DEF Summable
    <3>. QED
      BY <3>1, PaidIsNatural
  <2>5. a <= PaidIn(payments, i)
    BY <1>0, <2>1, <2>3, <2>4
  <2>6. row \in Row /\ RowOK(row, PaidIn(payments, i) - a) /\ row.total = invoice[i].total
    BY <1>0, <2>1, <2>5, RowVoided DEF row
  <2>7. row.status # "ABSENT"
    BY <1>0, <2>1, <2>5 DEF row, WithColumns, AfterVoid, Row
  <2>8. \A j \in Invoices : invoice'[j] \in Row /\ RowOK(invoice'[j], PaidIn(payments', j))
    <3>. SUFFICES ASSUME NEW j \in Invoices
                  PROVE  invoice'[j] \in Row /\ RowOK(invoice'[j], PaidIn(payments', j))
      OBVIOUS
    <3>1. CASE i = j
      <4>1. invoice'[j] = row /\ PaidIn(payments', j) = PaidIn(payments, i) - a
        BY <2>2, <2>3, <3>1 DEF LedgerOK
      <4>. QED
        BY <2>6, <4>1
    <3>2. CASE i # j
      <4>1. invoice'[j] = invoice[j]
        BY <2>2, <3>2 DEF LedgerOK
      <4>2. PaidIn(payments', j) = PaidIn(payments, j)
        BY <1>0, <2>3, <3>2
      <4>. QED
        BY <1>0, <4>1, <4>2
    <3>. QED
      BY <3>1, <3>2
  <2>9. \A j \in Invoices :
            /\ invoice'[j].total = invoice[j].total
            /\ Exists(j) => Exists(j)'
    BY <2>1, <2>2, <2>6, <2>7 DEF LedgerOK, Exists
  <2>10. LedgerOK'
    <3>1. IsFiniteSet(payments')
      BY <2>4 DEF Summable
    <3>2. \A q \in payments : q.invoice \in Invoices
      BY DEF LedgerOK, Payment
    <3>. QED
      BY <2>1, <2>2, <2>6, <2>8, <2>9, <3>1, <3>2 DEF LedgerOK
  <2>11. {q \in payments' : q.invoice = i} # {q \in payments : q.invoice = i}
    BY <2>2 DEF i
  <2>12. ~ \A q \in payments \ payments' : q.invoice # i
    BY <2>2 DEF i
  <2>13. \A j \in Invoices : i # j => /\ PaidIn(payments', j) = PaidIn(payments, j)
                                        /\ PaidIn(payments', j) >= PaidIn(payments, j)
    BY <1>0, <2>3
  <2>. QED
    BY <2>9, <2>10, <2>11, <2>12, <2>13 DEF LedgerChange, Exists
<1>. QED
  BY <1>1, <1>2, <1>3, <1>4, <1>5, <1>6 DEF Next

-----------------------------------------------------------------------------
(* Sums some terms of which are known exactly, and the others bounded. *)

\* Such a sum is the sum of one function, and an integer.
LEMMA MixedIsSum ==
    ASSUME NEW t \in SUBSET Invoices, NEW f, NEW g,
           \A i \in Invoices : f[i] \in Int /\ g[i] \in Int
    PROVE  /\ Mixed(t, f, g) \in Int
           /\ Mixed(t, f, g)
                = SumFunctionOnSet([i \in Invoices |-> IF i \in t THEN g[i] ELSE f[i]], Invoices)
<1>. DEFINE h == [i \in Invoices |-> IF i \in t THEN g[i] ELSE f[i]]
            s == Invoices \ t
<1>1. /\ IsFiniteSet(s) /\ IsFiniteSet(t)
      /\ s \cap t = {} /\ s \cup t = Invoices
  BY DashboardAssumption, FS_Subset
<1>2. /\ \A i \in s \cup t : h[i] \in Int
      /\ \A i \in s : h[i] = f[i]
      /\ \A i \in t : h[i] = g[i]
  OBVIOUS
<1>. HIDE DEF h, s
<1>3. SumFunctionOnSet(h, s \cup t) = SumFunctionOnSet(h, s) + SumFunctionOnSet(h, t)
  BY <1>1, <1>2, SumUnion
<1>4. SumFunctionOnSet(h, s) = SumFunctionOnSet(f, s) /\ SumFunctionOnSet(h, s) \in Int
  BY <1>1, <1>2, SumSame, SumInt
<1>5. SumFunctionOnSet(h, t) = SumFunctionOnSet(g, t) /\ SumFunctionOnSet(h, t) \in Int
  BY <1>1, <1>2, SumSame, SumInt
<1>6. Mixed(t, f, g) = SumFunctionOnSet(f, s) + SumFunctionOnSet(g, t)
  BY DEF Mixed, s
<1>7. Mixed(t, f, g) \in Int /\ Mixed(t, f, g) = SumFunctionOnSet(h, Invoices)
  BY <1>1, <1>3, <1>4, <1>5, <1>6
<1>. QED
  BY <1>7 DEF h

\* They compare as their terms do.
LEMMA MixedMonotone ==
    ASSUME NEW t \in SUBSET Invoices, NEW u \in SUBSET Invoices,
           NEW f, NEW g, NEW h, NEW k,
           \A i \in Invoices : f[i] \in Int /\ g[i] \in Int /\ h[i] \in Int /\ k[i] \in Int,
           \A i \in Invoices : (IF i \in t THEN g[i] ELSE f[i]) <= (IF i \in u THEN k[i] ELSE h[i])
    PROVE  Mixed(t, f, g) <= Mixed(u, h, k)
<1>. DEFINE a == [i \in Invoices |-> IF i \in t THEN g[i] ELSE f[i]]
            b == [i \in Invoices |-> IF i \in u THEN k[i] ELSE h[i]]
<1>1. \A i \in Invoices : a[i] \in Int /\ b[i] \in Int /\ a[i] <= b[i]
  OBVIOUS
<1>2. Mixed(t, f, g) = SumFunctionOnSet(a, Invoices) /\ Mixed(u, h, k) = SumFunctionOnSet(b, Invoices)
  BY MixedIsSum
<1>. HIDE DEF a, b
<1>. QED
  BY <1>1, <1>2, SumMonotone, DashboardAssumption

\* A whole sum is between its mixtures with smaller and larger terms.
LEMMA MixedWhole ==
    ASSUME NEW t \in SUBSET Invoices, NEW f, NEW g,
           \A i \in Invoices : f[i] \in Int /\ g[i] \in Int
    PROVE  /\ (\A i \in Invoices : g[i] <= f[i]) => Mixed(t, f, g) <= SumFunctionOnSet(f, Invoices)
           /\ (\A i \in Invoices : f[i] <= g[i]) => SumFunctionOnSet(f, Invoices) <= Mixed(t, f, g)
<1>1. Mixed({}, f, f) = SumFunctionOnSet(f, Invoices)
  <2>1. Invoices \ {} = Invoices
    OBVIOUS
  <2>2. SumFunctionOnSet(f, Invoices) \in Int /\ SumFunctionOnSet(f, {}) = 0
    BY SumInt, SumEmpty, DashboardAssumption
  <2>. QED
    BY <2>1, <2>2 DEF Mixed
<1>2. ASSUME \A i \in Invoices : g[i] <= f[i]
      PROVE  Mixed(t, f, g) <= Mixed({}, f, f)
  BY <1>2, MixedMonotone
<1>3. ASSUME \A i \in Invoices : f[i] <= g[i]
      PROVE  Mixed({}, f, f) <= Mixed(t, f, g)
  BY <1>3, MixedMonotone
<1>. QED
  BY <1>1, <1>2, <1>3

\* Mixtures add up term by term.
LEMMA MixedPlus ==
    ASSUME NEW t \in SUBSET Invoices, NEW f, NEW g, NEW h, NEW k, NEW m, NEW n,
           \A i \in Invoices : f[i] \in Int /\ g[i] \in Int /\ h[i] \in Int /\ k[i] \in Int,
           \A i \in Invoices : m[i] = f[i] + h[i] /\ n[i] = g[i] + k[i]
    PROVE  Mixed(t, m, n) = Mixed(t, f, g) + Mixed(t, h, k)
<1>1. IsFiniteSet(Invoices \ t) /\ IsFiniteSet(t)
  BY DashboardAssumption, FS_Subset
<1>2. SumFunctionOnSet(m, Invoices \ t)
        = SumFunctionOnSet(f, Invoices \ t) + SumFunctionOnSet(h, Invoices \ t)
  BY <1>1, SumPlus
<1>3. SumFunctionOnSet(n, t) = SumFunctionOnSet(g, t) + SumFunctionOnSet(k, t)
  BY <1>1, SumPlus
<1>4. /\ SumFunctionOnSet(f, Invoices \ t) \in Int /\ SumFunctionOnSet(h, Invoices \ t) \in Int
      /\ SumFunctionOnSet(g, t) \in Int /\ SumFunctionOnSet(k, t) \in Int
  <2>1. \A s : s \in SUBSET Invoices /\ IsFiniteSet(s) =>
          /\ SumFunctionOnSet(f, s) \in Int /\ SumFunctionOnSet(g, s) \in Int
          /\ SumFunctionOnSet(h, s) \in Int /\ SumFunctionOnSet(k, s) \in Int
    BY SumInt
  <2>. QED
    BY <1>1, <2>1
<1>. QED
  BY <1>2, <1>3, <1>4 DEF Mixed

-----------------------------------------------------------------------------
(* The terms of the figures. *)

\* The cardinality that Received counts is the sum of the payments.
LEMMA ReceivedIsPaid ==
    LedgerOK => \A i \in Invoices : Received(i) = PaidIn(payments, i)
<1>. SUFFICES ASSUME LedgerOK, NEW i \in Invoices PROVE Received(i) = PaidIn(payments, i)
  OBVIOUS
<1>1. Summable(payments) /\ \A p, q \in payments : p.id = q.id => p = q
  BY LedgerPaid DEF LedgerOK
<1>2. \A Q \in SUBSET payments :
        Cardinality(UNION {Units(p) : p \in Q}) = SumFunctionOnSet(AmountIn(payments), Q)
  BY <1>1, UnitsAddUp
<1>. QED
  BY <1>2 DEF Received, UnitsOf, PaymentsOf, PaidIn

\* How the terms of the figures are bounded, and what they add up to.
TermsOK == \A i \in Invoices :
    /\ Receipts[i] = PaidIn(payments, i)
    /\ Receipts[i] \in Nat /\ Billed[i] \in Nat /\ Credited[i] \in Int
    /\ DueNow[i] \in Int /\ OverdueNow[i] \in Int /\ Nothing[i] = 0
    /\ Receipts[i] <= Billed[i]
    /\ Credited[i] <= 0
    /\ Credited[i] <= DueNow[i] /\ DueNow[i] <= Billed[i]
    /\ OverdueNow[i] <= Billed[i] /\ OverdueNow[i] <= DueNow[i] - Credited[i]
    /\ Accounted[i] = Receipts[i] + DueNow[i]

\* The bounds of the terms follow from the rows: what is received is billed, and what is
\* due is between the credit and the bill.
LEMMA Terms == LedgerOK => TermsOK
<1>. SUFFICES ASSUME LedgerOK, NEW i \in Invoices
              PROVE  /\ Receipts[i] = PaidIn(payments, i)
                     /\ Receipts[i] \in Nat /\ Billed[i] \in Nat /\ Credited[i] \in Int
                     /\ DueNow[i] \in Int /\ OverdueNow[i] \in Int /\ Nothing[i] = 0
                     /\ Receipts[i] <= Billed[i]
                     /\ Credited[i] <= 0
                     /\ Credited[i] <= DueNow[i] /\ DueNow[i] <= Billed[i]
                     /\ OverdueNow[i] <= Billed[i] /\ OverdueNow[i] <= DueNow[i] - Credited[i]
                     /\ Accounted[i] = Receipts[i] + DueNow[i]
  BY DEF TermsOK
<1>. DEFINE paid == PaidIn(payments, i)
            row  == invoice[i]
<1>1. paid \in Nat /\ row.total \in Int /\ RowOK(row, paid)
  BY LedgerPaid DEF LedgerOK, Row
<1>2. /\ Receipts[i] = paid
      /\ Billed[i] = AtLeastZero(row.total)
      /\ Credited[i] = Least(row.total, 0)
      /\ Nothing[i] = 0
  BY ReceivedIsPaid DEF Receipts, Billed, Credited, Nothing
<1>3. /\ DueNow[i] = IF row.status \in {"SENT", "PARTIALLY_PAID", "OVERDUE"}
                     THEN row.amountDue ELSE 0
      /\ OverdueNow[i] = IF i \in PastDue /\ row.status \in {"SENT", "PARTIALLY_PAID"}
                         THEN row.amountDue ELSE 0
      /\ Accounted[i] = IF row.status \in {"ABSENT", "DRAFT"} THEN 0
                        ELSE IF row.status = "CANCELLED" THEN row.amountPaid
                        ELSE row.total
  BY DEF DueNow, OverdueNow, Accounted, Outstanding, Overdue, InvoicesIn
<1>. HIDE DEF paid, row
<1>4. /\ Billed[i] \in Nat /\ Credited[i] \in Int /\ Credited[i] <= 0
      /\ row.total <= Billed[i] /\ Credited[i] <= row.total
  BY <1>1, <1>2 DEF AtLeastZero, Least
<1>5. paid <= Billed[i]
  BY <1>1, <1>2, <1>4 DEF RowOK, AtLeastZero
<1>6. row.amountDue = row.total - paid /\ row.amountPaid = paid
  BY <1>1 DEF RowOK
<1>7. CASE row.status = "SENT"
  <2>1. paid = 0
    BY <1>1, <1>7 DEF RowOK
  <2>. QED
    BY <1>1, <1>2, <1>3, <1>4, <1>5, <1>6, <1>7, <2>1 DEF paid
<1>8. CASE row.status = "PARTIALLY_PAID"
  <2>1. paid \in 1 .. row.total
    BY <1>1, <1>8 DEF RowOK
  <2>. QED
    BY <1>1, <1>2, <1>3, <1>4, <1>5, <1>6, <1>8, <2>1 DEF paid
<1>9. CASE row.status \in {"ABSENT", "DRAFT", "PAID", "CANCELLED"}
  <2>1. /\ row.status \in {"ABSENT", "DRAFT"} => paid = 0
        /\ row.status = "PAID" => paid = row.total
    BY <1>1 DEF RowOK
  <2>2. DueNow[i] = 0 /\ OverdueNow[i] = 0 /\ Accounted[i] = paid
    BY <1>3, <1>6, <1>9, <2>1
  <2>. QED
    BY <1>1, <1>2, <1>4, <1>5, <2>2 DEF paid
<1>. QED
  BY <1>1, <1>7, <1>8, <1>9 DEF RowOK

\* What the queries return, as sums over all invoices.
LEMMA QueriedSums ==
    LedgerOK => /\ TotalRevenue = SumFunctionOnSet(Receipts, Invoices)
                /\ SumFunctionOnSet(AmountDue, Outstanding) = SumFunctionOnSet(DueNow, Invoices)
                /\ SumFunctionOnSet(AmountDue, Overdue) = SumFunctionOnSet(OverdueNow, Invoices)
<1>. SUFFICES ASSUME LedgerOK
              PROVE  /\ TotalRevenue = SumFunctionOnSet(Receipts, Invoices)
                     /\ SumFunctionOnSet(AmountDue, Outstanding)
                          = SumFunctionOnSet(DueNow, Invoices)
                     /\ SumFunctionOnSet(AmountDue, Overdue)
                          = SumFunctionOnSet(OverdueNow, Invoices)
  OBVIOUS
<1>0. IsFiniteSet(Invoices)
  BY DashboardAssumption
<1>1. TotalRevenue = SumFunctionOnSet(Receipts, Invoices)
  <2>. DEFINE paid == [i \in Invoices |-> PaidIn(payments, i)]
  <2>1. Summable(payments) /\ \A p \in payments : p.invoice \in Invoices
    BY LedgerPaid DEF LedgerOK, Payment
  <2>2. SumFunction(AmountIn(payments)) = SumFunctionOnSet(paid, Invoices)
    BY <2>1, PaidAltogether
  <2>3. \A i \in Invoices : paid[i] \in Int /\ paid[i] = Receipts[i]
    BY Terms DEF TermsOK
  <2>4. TotalRevenue = SumFunction(AmountIn(payments))
    BY DEF TotalRevenue, Amount, AmountIn
  <2>. HIDE DEF paid
  <2>. QED
    BY <1>0, <2>2, <2>3, <2>4, SumSame
<1>2. ASSUME NEW S \in SUBSET Invoices, NEW f, \A i \in Invoices : f[i] \in Int,
             \A i \in S : f[i] = AmountDue[i], \A i \in Invoices \ S : f[i] = 0
      PROVE  SumFunctionOnSet(AmountDue, S) = SumFunctionOnSet(f, Invoices)
  <2>1. IsFiniteSet(S)
    BY <1>0, FS_Subset
  <2>2. SumFunctionOnSet(f, S) = SumFunctionOnSet(AmountDue, S)
    BY <1>2, <2>1, SumSame
  <2>3. SumFunctionOnSet(f, S) = SumFunctionOnSet(f, Invoices)
    <3>1. \A i \in Invoices \ S : f[i] >= 0
      BY <1>2
    <3>. QED
      BY <1>0, <1>2, <3>1, SumPart
  <2>. QED
    BY <2>2, <2>3
<1>3. SumFunctionOnSet(AmountDue, Outstanding) = SumFunctionOnSet(DueNow, Invoices)
  <2>1. Outstanding \in SUBSET Invoices
    BY DEF Outstanding, InvoicesIn
  <2>2. /\ \A i \in Outstanding : DueNow[i] = AmountDue[i]
        /\ \A i \in Invoices \ Outstanding : DueNow[i] = 0
    BY <2>1 DEF DueNow, AmountDue
  <2>. QED
    BY <1>2, <2>1, <2>2, Terms DEF TermsOK
<1>4. SumFunctionOnSet(AmountDue, Overdue) = SumFunctionOnSet(OverdueNow, Invoices)
  <2>1. Overdue \in SUBSET Invoices
    BY DEF Overdue, InvoicesIn
  <2>2. /\ \A i \in Overdue : OverdueNow[i] = AmountDue[i]
        /\ \A i \in Invoices \ Overdue : OverdueNow[i] = 0
    BY <2>1 DEF OverdueNow, AmountDue
  <2>. QED
    BY <1>2, <2>1, <2>2, Terms DEF TermsOK
<1>. QED
  BY <1>1, <1>3, <1>4

\* They hold after a step that keeps the ledger, too.
LEMMA TermsNext == LedgerOK' => TermsOK'
BY Terms, PTL

-----------------------------------------------------------------------------
(* Types, for amounts of any precision. *)

\* The rows are typed, and amounts of payments natural.
TablesTyped ==
    /\ invoice \in [Invoices -> Row]
    /\ payments \in SUBSET Payment /\ IsFiniteSet(payments)
    /\ \A p \in payments : p.amount \in Nat

\* A rounded amount is an amount.
LEMMA RoundedType ==
    ASSUME NEW x \in Int
    PROVE  Decimal2(x) \in Int /\ (x >= 0 => Decimal2(x) \in Nat)
<1>. DEFINE cents(y) == (2 * y + Cent) \div (2 * Cent)
<1>1. Cent \in Nat \ {0} /\ 2 * Cent \in Nat \ {0}
  BY MoneyAssumption
<1>2. \A n \in Nat, d \in Nat \ {0} : n \div d \in Nat
  OBVIOUS
<1>3. \A y \in Nat : cents(y) \in Nat
  <2>1. \A y \in Nat : 2 * y + Cent \in Nat
    BY <1>1
  <2>. QED
    BY <1>1, <1>2, <2>1
<1>. HIDE DEF cents
<1>4. \A m, n \in Nat : m * n \in Nat /\ m * n \in Int /\ -(m * n) \in Int
  OBVIOUS
<1>5. CASE x >= 0
  <2>1. Decimal2(x) = Cent * cents(x)
    BY <1>5 DEF Decimal2, cents
  <2>2. x \in Nat
    BY <1>5
  <2>. QED
    BY <1>1, <1>3, <1>4, <2>1, <2>2
<1>6. CASE ~(x >= 0)
  <2>1. Decimal2(x) = -(Cent * cents(-x))
    BY <1>6 DEF Decimal2, cents
  <2>2. -x \in Nat
    BY <1>6
  <2>3. cents(-x) \in Nat
    BY <1>3, <2>2
  <2>. QED
    BY <1>1, <1>4, <1>6, <2>1, <2>3
<1>. QED
  BY <1>5, <1>6

LEMMA DoublesTyped ==
    ASSUME NEW x \in Int PROVE DoubleStored(x) \subseteq Int
<1>1. \A n \in Int, d \in Nat \ {0} : n \div d \in Int
  OBVIOUS
<1>2. \A d \in Nat, k \in Int : d * k \in Int
  OBVIOUS
<1>3. Cent * (x \div Cent) \in Int /\ Cent \in Int
  BY <1>1, <1>2, MoneyAssumption
<1>. QED
  BY <1>3 DEF DoubleStored

\* Every request that commits writes typed rows.
LEMMA TablesStayTyped ==
    ASSUME TablesTyped, Next
    PROVE  TablesTyped'
<1>0. \A i \in Invoices : invoice[i] \in Row
  BY DEF TablesTyped
<1>1. ASSUME NEW i \in Invoices, Create(i) PROVE TablesTyped'
  <2>1. PICK t \in Totals, n \in Notes :
          invoice' = [invoice EXCEPT ![i] =
             [total |-> Decimal2(t), amountPaid |-> 0, amountDue |-> Decimal2(t),
              status |-> "DRAFT", notes |-> n]]
    BY <1>1 DEF Create
  <2>. DEFINE total == Decimal2(t)
              row   == [total |-> total, amountPaid |-> 0, amountDue |-> total,
                        status |-> "DRAFT", notes |-> n]
  <2>2. total \in Int
    BY RoundedType, MoneyAssumption
  <2>. HIDE DEF total
  <2>3. row \in Row
    BY <2>2 DEF Row, InvoiceStatus
  <2>4. invoice' = [invoice EXCEPT ![i] = row] /\ UNCHANGED payments
    BY <1>1, <2>1 DEF Create, total
  <2>. HIDE DEF row
  <2>. QED
    BY <2>3, <2>4 DEF TablesTyped
<1>2. ASSUME NEW i \in Invoices, RecordPayment(i) PROVE TablesTyped'
  <2>1. PICK a \in Amounts, id \in PaymentIds \ {p.id : p \in payments} :
          /\ payments' = payments \cup {[id |-> id, invoice |-> i, amount |-> Decimal2(a)]}
          /\ \E columns \in AfterPayment(invoice[i], a) :
               invoice' = [invoice EXCEPT ![i] = WithColumns(@, columns)]
    BY <1>2 DEF RecordPayment
  <2>0. PICK columns \in AfterPayment(invoice[i], a) :
          invoice' = [invoice EXCEPT ![i] = WithColumns(@, columns)]
    BY <2>1
  <2>. DEFINE amount == Decimal2(a)
              p      == [id |-> id, invoice |-> i, amount |-> amount]
              row    == WithColumns(invoice[i], columns)
  <2>2. amount \in Nat /\ amount \in Int
    BY RoundedType, MoneyAssumption
  <2>3. columns.amountPaid \in Int /\ columns.amountDue \in Int
    <3>1. /\ invoice[i].amountPaid + a \in Int
          /\ AtLeastZero(invoice[i].total - (invoice[i].amountPaid + a)) \in Int
      BY <1>0, MoneyAssumption DEF Row, AtLeastZero
    <3>. QED
      BY <3>1, DoublesTyped DEF AfterPayment
  <2>4. columns.status \in InvoiceStatus \cup {"ABSENT"}
    BY <1>0 DEF AfterPayment, Row, InvoiceStatus
  <2>5. row \in Row
    BY <1>0, <2>3, <2>4 DEF Row, WithColumns
  <2>. HIDE DEF amount
  <2>6. p \in Payment /\ p.amount \in Nat
    BY <2>2 DEF Payment
  <2>7. payments' = payments \cup {p} /\ invoice' = [invoice EXCEPT ![i] = row]
    BY <2>0, <2>1 DEF amount
  <2>8. IsFiniteSet(payments')
    BY <2>7, FS_AddElement DEF TablesTyped
  <2>. HIDE DEF p, row
  <2>. QED
    BY <2>5, <2>6, <2>7, <2>8 DEF TablesTyped
<1>3. ASSUME NEW i \in Invoices, Send(i) \/ Cancel(i) PROVE TablesTyped'
  <2>1. PICK s \in InvoiceStatus : invoice' = [invoice EXCEPT ![i].status = s]
    BY <1>3 DEF Send, Cancel, SetStatus, InvoiceStatus
  <2>2. UNCHANGED payments
    BY <1>3 DEF Send, Cancel, SetStatus
  <2>3. [invoice[i] EXCEPT !.status = s] \in Row
    BY <1>0 DEF Row
  <2>. QED
    BY <2>1, <2>2, <2>3 DEF TablesTyped
<1>4. ASSUME NEW i \in Invoices, Edit(i) PROVE TablesTyped'
  <2>1. PICK n \in Notes : invoice' = [invoice EXCEPT ![i].notes = n]
    BY <1>4 DEF Edit
  <2>2. UNCHANGED payments
    BY <1>4 DEF Edit
  <2>3. [invoice[i] EXCEPT !.notes = n] \in Row
    BY <1>0 DEF Row
  <2>. QED
    BY <2>1, <2>2, <2>3 DEF TablesTyped
<1>5. ASSUME NEW p \in payments, VoidPayment(p) PROVE TablesTyped'
  <2>. DEFINE i       == p.invoice
              columns == AfterVoid(invoice[i], p.amount)
              row     == WithColumns(invoice[i], columns)
  <2>1. i \in Invoices /\ p.amount \in Nat
    BY DEF TablesTyped, Payment
  <2>2. columns.amountPaid \in Int /\ columns.amountDue \in Int /\ columns.status \in InvoiceStatus
    <3>1. /\ AtLeastZero(invoice[i].amountPaid - p.amount) \in Int
          /\ invoice[i].total - (invoice[i].amountPaid - p.amount) \in Int
      BY <1>0, <2>1 DEF Row, AtLeastZero
    <3>. QED
      BY <3>1, RoundedType DEF AfterVoid, InvoiceStatus
  <2>3. payments' = payments \ {p} /\ invoice' = [invoice EXCEPT ![i] = row]
    BY <1>5 DEF VoidPayment
  <2>. HIDE DEF columns
  <2>4. row \in Row
    BY <1>0, <2>1, <2>2 DEF Row, WithColumns
  <2>5. IsFiniteSet(payments')
    BY <2>3, FS_RemoveElement DEF TablesTyped
  <2>. HIDE DEF row, i
  <2>. QED
    BY <2>3, <2>4, <2>5 DEF TablesTyped
<1>. QED
  BY <1>1, <1>2, <1>3, <1>4, <1>5 DEF Next

\* What is received is natural, whatever is due.
LEMMA ReceiptsTyped ==
    ASSUME TablesTyped
    PROVE  /\ TotalRevenue \in Nat
           /\ \A i : Received(i) \in Nat
           /\ {p.invoice : p \in payments} \in SUBSET Invoices
<1>1. IsFiniteSet(payments) /\ \A p \in payments : p.amount \in Nat /\ p.invoice \in Invoices
  BY DEF TablesTyped, Payment
<1>2. TotalRevenue \in Nat
  <2>1. DOMAIN Amount = payments /\ \A p \in payments : Amount[p] \in Nat
    BY <1>1 DEF Amount
  <2>2. SumFunctionOnSet(Amount, payments) \in Nat
    BY <1>1, <2>1, SumNat
  <2>. QED
    BY <2>1, <2>2 DEF TotalRevenue, SumFunction
<1>3. ASSUME NEW i PROVE Received(i) \in Nat
  <2>1. IsFiniteSet(PaymentsOf(i)) /\ PaymentsOf(i) \in SUBSET payments
    BY <1>1, FS_Subset DEF PaymentsOf
  <2>2. \A p \in payments : IsFiniteSet(Units(p))
    <3>. SUFFICES ASSUME NEW p \in payments PROVE IsFiniteSet(Units(p))
      OBVIOUS
    <3>1. IsFiniteSet({p.id})
      BY FS_Singleton
    <3>2. p.amount \in Int
      BY <1>1
    <3>3. IsFiniteSet(1 .. p.amount)
      BY <3>2, FS_Interval
    <3>. DEFINE one  == {p.id}
                many == 1 .. p.amount
    <3>4. IsFiniteSet(one) /\ IsFiniteSet(many) /\ Units(p) = one \X many
      BY <3>1, <3>3 DEF Units
    <3>. HIDE DEF one, many
    <3>. QED
      BY <3>4, FS_Product
  <2>. DEFINE units(S) == UNION {Units(p) : p \in S}
              F == {S \in SUBSET PaymentsOf(i) : IsFiniteSet(units(S))}
  <2>3. {} \in F
    <3>1. units({}) = {}
      OBVIOUS
    <3>. QED
      BY <3>1, FS_EmptySet
  <2>4. ASSUME NEW S \in F, NEW p \in PaymentsOf(i) \ S PROVE S \cup {p} \in F
    <3>1. units(S \cup {p}) = units(S) \cup Units(p)
      OBVIOUS
    <3>2. IsFiniteSet(units(S)) /\ IsFiniteSet(Units(p))
      BY <2>1, <2>2
    <3>. DEFINE A == units(S)
                B == units(S \cup {p})
    <3>3. IsFiniteSet(B)
      <4>1. B = A \cup Units(p) /\ IsFiniteSet(A) /\ IsFiniteSet(Units(p))
        BY <3>1, <3>2
      <4>. HIDE DEF A, B
      <4>. QED
        BY <4>1, FS_Union
    <3>. QED
      BY <3>3
  <2>5. PaymentsOf(i) \in F
    <3>. HIDE DEF F
    <3>. QED
      BY <2>1, <2>3, <2>4, FiniteInduction
  <2>6. IsFiniteSet(UnitsOf(i))
    BY <2>5 DEF UnitsOf
  <2>. QED
    BY <2>6, FS_CardinalityType DEF Received
<1>. QED
  BY <1>1, <1>2, <1>3

\* Every step keeps the types, the rows and what a report has been told.
LEMMA TypesStep ==
    ASSUME TablesTyped, TypesOK, [DashboardNext]_allVars
    PROVE  TablesTyped' /\ TypesOK'
<1>0. /\ IsFiniteSet(Invoices) /\ \A i \in Invoices : invoice[i] \in Row
      /\ pending \in SUBSET Queries /\ touched \in SUBSET Invoices /\ list \in List
  BY DashboardAssumption DEF TablesTyped, TypesOK
<1>1. PICK T \in SUBSET Invoices, C \in SUBSET Customers : figures \in Figures(T, C)
  BY DEF TypesOK
<1>2. CASE LedgerStep
  <2>1. TablesTyped'
    BY <1>2, TablesStayTyped DEF LedgerStep
  <2>2. touched' \in SUBSET Invoices
    BY <1>0, <1>2 DEF LedgerStep
  <2>3. list' \in List /\ list'.invoice = list.invoice
    <3>. DEFINE gone == \E p \in payments \ payments' : p.invoice = list.invoice
    <3>1. list' = [list EXCEPT !.voided = list.voided \/ gone]
      BY <1>2 DEF LedgerStep
    <3>2. gone \in BOOLEAN
      OBVIOUS
    <3>. HIDE DEF gone
    <3>. QED
      BY <1>0, <3>1, <3>2 DEF List
  <2>4. UNCHANGED <<pending, phase, figures>>
    BY <1>2 DEF LedgerStep
  <2>. QED
    BY <2>1, <2>2, <2>3, <2>4 DEF TypesOK
<1>3. CASE Report /\ UNCHANGED tables
  <2>1. UNCHANGED <<invoice, payments>> /\ TablesTyped'
    BY <1>3 DEF tables, TablesTyped
  <2>. SUFFICES TypesOK'
    BY <2>1
  <2>2. ASSUME NEW q, Answer(q), NEW U \in SUBSET Invoices, figures' \in Figures(U, C)
        PROVE  TypesOK'
    <3>1. /\ phase = "queries" /\ pending' \in SUBSET Queries
          /\ UNCHANGED <<phase, list, touched>>
      BY <1>0, <2>2 DEF Answer, TypesOK
    <3>. QED
      BY <1>0, <2>2, <3>1 DEF TypesOK
  <2>3. CASE GetDashboard
    BY <2>3 DEF GetDashboard, TypesOK
  <2>4. CASE QueryRevenue
    <3>1. figures' \in Figures(T, C)
      BY <1>1, <2>4, ReceiptsTyped DEF QueryRevenue, Figures
    <3>. QED
      BY <2>2, <2>4, <3>1 DEF QueryRevenue
  <2>5. ASSUME NEW S \in SUBSET Invoices
        PROVE  SumFunctionOnSet(AmountDue, S) \in Int /\ Cardinality(S) \in Nat
    <3>1. IsFiniteSet(S) /\ \A i \in S : AmountDue[i] \in Int
      BY <1>0, FS_Subset DEF AmountDue, Row
    <3>. QED
      BY <3>1, SumInt, FS_CardinalityType
  <2>6. \A statuses : InvoicesIn(statuses) \in SUBSET Invoices
    BY DEF InvoicesIn
  <2>7. CASE QueryOutstanding
    <3>. DEFINE sum == SumFunctionOnSet(AmountDue, Outstanding)
    <3>1. sum \in Int
      BY <2>5, <2>6 DEF Outstanding
    <3>. HIDE DEF sum
    <3>2. figures' = [figures EXCEPT !.totalOutstanding = sum]
      BY <2>7 DEF QueryOutstanding, sum
    <3>3. figures' \in Figures(T, C)
      BY <1>1, <3>1, <3>2 DEF Figures
    <3>. QED
      BY <2>2, <2>7, <3>3 DEF QueryOutstanding
  <2>8. CASE QueryOverdue
    <3>. DEFINE sum == SumFunctionOnSet(AmountDue, Overdue)
                n   == Cardinality(Overdue)
    <3>1. sum \in Int /\ n \in Nat
      BY <2>5, <2>6 DEF Overdue
    <3>. HIDE DEF sum, n
    <3>2. figures' = [figures EXCEPT !.totalOverdue = sum, !.overdueCount = n]
      BY <2>8 DEF QueryOverdue, sum, n
    <3>3. figures' \in Figures(T, C)
      BY <1>1, <3>1, <3>2 DEF Figures
    <3>. QED
      BY <2>2, <2>8, <3>3 DEF QueryOverdue
  <2>9. CASE QueryByStatus
    <3>. DEFINE counts == [s \in InvoiceStatus |-> Cardinality(InvoicesIn({s}))]
    <3>1. counts \in [InvoiceStatus -> Nat]
      BY <2>5, <2>6
    <3>. HIDE DEF counts
    <3>2. figures' = [figures EXCEPT !.byStatus = counts]
      BY <2>9 DEF QueryByStatus, counts
    <3>3. figures' \in Figures(T, C)
      BY <1>1, <3>1, <3>2 DEF Figures
    <3>. QED
      BY <2>2, <2>9, <3>3 DEF QueryByStatus
  <2>10. CASE QueryTopInvoices
    <3>. DEFINE D   == {p.invoice : p \in payments}
                sum == [i \in D |-> Received(i)]
    <3>1. PICK U \in First(TopInvoices, sum) :
            figures' = [figures EXCEPT !.topInvoices = [i \in U |-> sum[i]]]
      BY <2>10 DEF QueryTopInvoices
    <3>2. U \in SUBSET D /\ D \in SUBSET Invoices
      BY <3>1, ReceiptsTyped DEF First
    <3>. DEFINE top == [i \in U |-> sum[i]]
    <3>3. top \in [U -> Nat]
      BY <3>2, ReceiptsTyped
    <3>4. U \in SUBSET Invoices
      BY <3>2
    <3>. HIDE DEF top, D, sum
    <3>5. figures' = [figures EXCEPT !.topInvoices = top]
      BY <3>1 DEF top
    <3>6. figures' \in Figures(U, C)
      BY <1>1, <3>3, <3>5 DEF Figures
    <3>. QED
      BY <2>2, <2>10, <3>4, <3>6 DEF QueryTopInvoices
  <2>11. CASE QueryCustomers
    <3>. DEFINE top     == figures.topInvoices
                revenue == RevenueByCustomer(top)
                K       == {i \in T : Exists(i)}
                of(c)   == {i \in T : Exists(i) /\ CustomerOf[i] = c}
    <3>1. top \in [T -> Nat]
      BY <1>1 DEF Figures
    <3>2. PICK U \in First(TopCustomers, revenue) :
            figures' = [figures EXCEPT !.topCustomers = [c \in U |-> revenue[c]]]
      BY <2>11 DEF QueryCustomers
    <3>3. revenue = [c \in {CustomerOf[i] : i \in K} |-> SumFunctionOnSet(top, of(c))]
      <4>. HIDE DEF top
      <4>1. DOMAIN top = T
        BY <3>1
      <4>. QED
        BY <4>1 DEF RevenueByCustomer
    <3>4. \A c : SumFunctionOnSet(top, of(c)) \in Nat
      <4>. SUFFICES ASSUME NEW c PROVE SumFunctionOnSet(top, of(c)) \in Nat
        OBVIOUS
      <4>1. IsFiniteSet(of(c)) /\ of(c) \in SUBSET T
        BY <1>0, FS_Subset
      <4>2. \A i \in of(c) : top[i] \in Nat
        BY <3>1, <4>1
      <4>. QED
        BY <4>1, <4>2, SumNat
    <3>. DEFINE told == [c \in U |-> revenue[c]]
    <3>5. U \in SUBSET {CustomerOf[i] : i \in K}
      BY <3>2, <3>3 DEF First
    <3>6. U \in SUBSET Customers
      BY <3>5 DEF Customers
    <3>7. told \in [U -> Nat]
      BY <3>3, <3>4, <3>5
    <3>. HIDE DEF told, revenue, top
    <3>8. figures' = [figures EXCEPT !.topCustomers = told]
      BY <3>2 DEF told
    <3>9. figures' \in Figures(T, U)
      BY <1>1, <3>7, <3>8 DEF Figures
    <3>10. phase' = "answer" /\ UNCHANGED <<pending, list, touched>> /\ pending = {}
      BY <2>11 DEF QueryCustomers
    <3>. QED
      BY <1>0, <3>6, <3>9, <3>10 DEF TypesOK
  <2>12. CASE FindByInvoice
    <3>1. phase' = "findInvoice" /\ phase = "idle" /\ UNCHANGED <<pending, figures, touched>>
      BY <2>12 DEF FindByInvoice, ListQueries
    <3>2. PICK i \in Invoices : list' = [NoList EXCEPT !.invoice = i]
      BY <2>12 DEF FindByInvoice
    <3>3. list' = [invoice |-> i, amountPaid |-> 0, payments |-> {}, voided |-> FALSE]
      BY <3>2 DEF NoList
    <3>4. list' \in List /\ list'.invoice \in Invoices
      BY <3>3 DEF List
    <3>. QED
      BY <3>1, <3>4 DEF TypesOK
  <2>13. CASE FindInvoice
    <3>1. /\ phase = "findInvoice" /\ phase' = "findPayments"
          /\ UNCHANGED <<pending, figures, touched>>
          /\ list' = [list EXCEPT !.amountPaid = invoice[list.invoice].amountPaid]
      BY <2>13 DEF FindInvoice, Answered, ListQueries
    <3>2. list.invoice \in Invoices
      BY <3>1 DEF TypesOK
    <3>3. invoice[list.invoice].amountPaid \in Int
      BY <1>0, <3>2 DEF Row
    <3>4. list' \in List /\ list'.invoice = list.invoice
      BY <1>0, <3>1, <3>3 DEF List
    <3>. QED
      BY <3>1, <3>2, <3>4 DEF TypesOK
  <2>14. CASE FindPayments
    <3>1. /\ phase = "findPayments" /\ phase' = "listed"
          /\ UNCHANGED <<pending, figures, touched>>
          /\ list' = [list EXCEPT !.payments = PaymentsOf(list.invoice)]
      BY <2>14 DEF FindPayments, Answered, ListQueries
    <3>2. PaymentsOf(list.invoice) \in SUBSET Payment
      BY DEF PaymentsOf, TablesTyped
    <3>3. list' \in List /\ list'.invoice = list.invoice
      BY <1>0, <3>1, <3>2 DEF List
    <3>. QED
      BY <3>1, <3>3 DEF TypesOK
  <2>15. CASE Respond
    <3>1. figures' \in Figures({}, {}) /\ list' \in List
      BY <2>15 DEF Respond, NoFigures, Figures, NoList, List
    <3>. QED
      BY <2>15, <3>1 DEF TypesOK, Respond
  <2>. QED
    BY <1>3, <2>3, <2>4, <2>7, <2>8, <2>9, <2>10, <2>11, <2>12, <2>13, <2>14, <2>15
    DEF Report
<1>4. CASE UNCHANGED allVars
  BY <1>4 DEF allVars, tables, dashboardVars, TablesTyped, TypesOK
<1>. QED
  BY <1>2, <1>3, <1>4 DEF DashboardNext

\* The types hold in every state.
LEMMA TypesInvariant == DashboardSpec => [](TablesTyped /\ TypesOK)
<1>1. DashboardInit => TablesTyped /\ TypesOK
  <2>. SUFFICES ASSUME DashboardInit PROVE TablesTyped /\ TypesOK
    OBVIOUS
  <2>1. TablesTyped
    BY FS_EmptySet DEF DashboardInit, Init, TablesTyped, AbsentRow, Row
  <2>2. figures \in Figures({}, {}) /\ list \in List
    BY DEF DashboardInit, NoFigures, Figures, NoList, List
  <2>. QED
    BY <2>1, <2>2 DEF DashboardInit, TypesOK
<1>2. (TablesTyped /\ TypesOK) /\ [DashboardNext]_allVars => (TablesTyped /\ TypesOK)'
  BY TypesStep
<1>. QED
  BY <1>1, <1>2, PTL DEF DashboardSpec

-----------------------------------------------------------------------------
(* The ledger goes on while a report is made. *)

\* Before any report nothing is told.
LEMMA ReportInit == DashboardInit => ReportInv
<1>. SUFFICES ASSUME DashboardInit PROVE ReportInv
  OBVIOUS
<1>1. LedgerOK
  BY LedgerInit DEF DashboardInit
<1>2. figures \in Figures({}, {}) /\ list \in List
  BY DEF DashboardInit, NoFigures, Figures, NoList, List
<1>3. TypesOK
  BY <1>2 DEF DashboardInit, TypesOK
<1>4. phase = "idle"
  BY DEF DashboardInit
<1>. QED
  BY <1>1, <1>3, <1>4
  DEF ReportInv, RevenueOK, OutstandingOK, OverdueOK, ByStatusOK, TopInvoicesOK, Told,
      TopCustomersDeserveIt, ListOK, ListCoversSummary

\* An invoice that a step of the ledger does not touch has the terms it had, and the
\* bounds of the others only get wider.
LEMMA Drift ==
    ASSUME Cent = 1, ReportInv, LedgerStep, phase # "idle"
    PROVE  /\ LedgerChange
           /\ touched' \in SUBSET Invoices /\ touched \in SUBSET touched'
           /\ touched' = {} => UNCHANGED payments
           /\ \A i \in Invoices :
                /\ Billed[i] <= (Billed')[i]
                /\ (Credited')[i] <= Credited[i]
           /\ \A i \in Invoices \ touched' :
                /\ invoice'[i] = invoice[i]
                /\ (Receipts')[i] = Receipts[i]
                /\ (DueNow')[i] = DueNow[i]
                /\ (OverdueNow')[i] = OverdueNow[i]
<1>1. LedgerOK /\ LedgerChange /\ LedgerOK'
  BY LedgerSteps DEF ReportInv, LedgerStep, LedgerChange
<1>2. touched' = touched \cup {i \in Invoices :
                         invoice'[i] # invoice[i] \/ PaymentsOf(i)' # PaymentsOf(i)}
  BY DEF LedgerStep
<1>3. touched \in SUBSET Invoices
  BY DEF ReportInv, TypesOK
<1>4. touched' \in SUBSET Invoices /\ touched \in SUBSET touched'
  BY <1>2, <1>3
<1>5. \A i \in Invoices \ touched' :
        /\ invoice'[i] = invoice[i]
        /\ {p \in payments' : p.invoice = i} = {p \in payments : p.invoice = i}
  BY <1>2 DEF PaymentsOf
<1>6. \A i \in Invoices \ touched' : PaidIn(payments', i) = PaidIn(payments, i)
  BY <1>1, <1>5 DEF LedgerChange
<1>7. TermsOK /\ TermsOK'
  BY <1>1, Terms, TermsNext
<1>8. \A i \in Invoices : /\ Receipts[i] = PaidIn(payments, i)
                          /\ (Receipts')[i] = PaidIn(payments', i)
  BY <1>7 DEF TermsOK
<1>9. \A i \in Invoices \ touched' :
        /\ (DueNow')[i] = DueNow[i]
        /\ (OverdueNow')[i] = OverdueNow[i]
  BY <1>5 DEF DueNow, OverdueNow, Outstanding, Overdue, InvoicesIn
<1>10. \A i \in Invoices : /\ Billed[i] <= (Billed')[i]
                           /\ (Credited')[i] <= Credited[i]
  <2>. SUFFICES ASSUME NEW i \in Invoices
                PROVE  /\ Billed[i] <= (Billed')[i]
                       /\ (Credited')[i] <= Credited[i]
    OBVIOUS
  <2>1. invoice[i].total \in Int /\ invoice'[i].total \in Int
    BY <1>1 DEF LedgerOK, Row
  <2>2. invoice'[i].total = invoice[i].total \/ invoice[i].total = 0
    BY <1>1 DEF LedgerChange
  <2>3. /\ Billed[i] = AtLeastZero(invoice[i].total)
        /\ (Billed')[i] = AtLeastZero(invoice'[i].total)
        /\ Credited[i] = Least(invoice[i].total, 0)
        /\ (Credited')[i] = Least(invoice'[i].total, 0)
    BY DEF Billed, Credited
  <2>. QED
    BY <2>1, <2>2, <2>3 DEF AtLeastZero, Least
<1>11. touched' = {} => UNCHANGED payments
  <2>1. \A p \in payments \cup payments' : p.invoice \in Invoices
    BY <1>1 DEF LedgerOK, Payment
  <2>. QED
    BY <1>5, <2>1
<1>. QED
  BY <1>1, <1>4, <1>5, <1>6, <1>8, <1>9, <1>10, <1>11

\* The sums that were told stay between their mixtures.
LEMMA SumsDrift ==
    ASSUME Cent = 1, ReportInv, LedgerStep, phase # "idle"
    PROVE  RevenueOK' /\ OutstandingOK' /\ OverdueOK'
<1>1. /\ LedgerOK /\ LedgerOK' /\ TermsOK /\ TermsOK'
      /\ touched \in SUBSET Invoices /\ touched' \in SUBSET Invoices
      /\ touched \in SUBSET touched'
      /\ IsFiniteSet(Invoices)
  BY Drift, Terms, TermsNext, DashboardAssumption DEF ReportInv, TypesOK, LedgerChange
<1>2. /\ \A i \in Invoices : /\ Billed[i] <= (Billed')[i]
                             /\ (Credited')[i] <= Credited[i]
      /\ \A i \in Invoices \ touched' : /\ invoice'[i] = invoice[i]
                                        /\ (Receipts')[i] = Receipts[i]
                                        /\ (DueNow')[i] = DueNow[i]
                                        /\ (OverdueNow')[i] = OverdueNow[i]
  BY Drift
<1>3. /\ UNCHANGED <<pending, phase, figures>>
      /\ figures.totalRevenue \in Int /\ figures.totalOutstanding \in Int
      /\ figures.totalOverdue \in Int /\ figures.overdueCount \in Nat
  BY DEF LedgerStep, ReportInv, TypesOK, Figures
<1>4. \A q : Told(q)' => Told(q)
  BY <1>3 DEF Told
<1>. DEFINE r1 == Receipts     r2 == Receipts'
            b1 == Billed       b2 == Billed'
            c1 == Credited     c2 == Credited'
            d1 == DueNow       d2 == DueNow'
            o1 == OverdueNow   o2 == OverdueNow'
            z  == Nothing
            t  == touched      u  == touched'
<1>5. \A i \in Invoices :
        /\ r1[i] \in Int /\ b1[i] \in Int /\ c1[i] \in Int /\ d1[i] \in Int /\ o1[i] \in Int
        /\ r2[i] \in Int /\ b2[i] \in Int /\ c2[i] \in Int /\ d2[i] \in Int /\ o2[i] \in Int
        /\ z[i] = 0
        /\ r1[i] >= 0 /\ r1[i] <= b1[i] /\ c1[i] <= d1[i] /\ d1[i] <= b1[i] /\ o1[i] <= b1[i]
  BY <1>1 DEF TermsOK
<1>6. /\ t \in SUBSET Invoices /\ u \in SUBSET Invoices /\ t \in SUBSET u
      /\ \A i \in Invoices : b1[i] <= b2[i] /\ c2[i] <= c1[i]
      /\ \A i \in Invoices \ u : r2[i] = r1[i] /\ d2[i] = d1[i] /\ o2[i] = o1[i]
  BY <1>1, <1>2
<1>. HIDE DEF r1, r2, b1, b2, c1, c2, d1, d2, o1, o2, z, t, u
<1>7. Mixed(u, r2, z) <= Mixed(t, r1, z)
  <2>1. \A i \in Invoices : (IF i \in u THEN z[i] ELSE r2[i]) <= (IF i \in t THEN z[i] ELSE r1[i])
    BY <1>5, <1>6
  <2>. QED
    BY <1>5, <1>6, <2>1, MixedMonotone
<1>8. Mixed(t, r1, b1) <= Mixed(u, r2, b2)
  <2>1. \A i \in Invoices : (IF i \in t THEN b1[i] ELSE r1[i]) <= (IF i \in u THEN b2[i] ELSE r2[i])
    BY <1>5, <1>6
  <2>. QED
    BY <1>5, <1>6, <2>1, MixedMonotone
<1>9. Mixed(u, d2, c2) <= Mixed(t, d1, c1)
  <2>1. \A i \in Invoices : (IF i \in u THEN c2[i] ELSE d2[i]) <= (IF i \in t THEN c1[i] ELSE d1[i])
    BY <1>5, <1>6
  <2>. QED
    BY <1>5, <1>6, <2>1, MixedMonotone
<1>10. Mixed(t, d1, b1) <= Mixed(u, d2, b2)
  <2>1. \A i \in Invoices : (IF i \in t THEN b1[i] ELSE d1[i]) <= (IF i \in u THEN b2[i] ELSE d2[i])
    BY <1>5, <1>6
  <2>. QED
    BY <1>5, <1>6, <2>1, MixedMonotone
<1>11. Mixed(t, o1, b1) <= Mixed(u, o2, b2)
  <2>1. \A i \in Invoices : (IF i \in t THEN b1[i] ELSE o1[i]) <= (IF i \in u THEN b2[i] ELSE o2[i])
    BY <1>5, <1>6
  <2>. QED
    BY <1>5, <1>6, <2>1, MixedMonotone
<1>12. /\ Mixed(t, r1, z) \in Int /\ Mixed(t, r1, b1) \in Int
       /\ Mixed(t, d1, c1) \in Int /\ Mixed(t, d1, b1) \in Int /\ Mixed(t, o1, b1) \in Int
       /\ Mixed(u, r2, z) \in Int /\ Mixed(u, r2, b2) \in Int
       /\ Mixed(u, d2, c2) \in Int /\ Mixed(u, d2, b2) \in Int /\ Mixed(u, o2, b2) \in Int
  <2>1. \A i \in Invoices : z[i] \in Int
    BY <1>5
  <2>. QED
    BY <1>5, <1>6, <2>1, MixedIsSum
<1>. USE DEF r1, r2, b1, b2, c1, c2, d1, d2, o1, o2, z, t, u
<1>13. Nothing' = Nothing
  BY DEF Nothing
<1>14. RevenueOK'
  <2>1. Told("revenue")' => /\ Mixed(t, r1, z) <= figures.totalRevenue
                            /\ figures.totalRevenue <= Mixed(t, r1, b1)
    BY <1>4 DEF ReportInv, RevenueOK
  <2>2. Told("revenue")' => /\ Mixed(u, r2, z) <= figures.totalRevenue
                            /\ figures.totalRevenue <= Mixed(u, r2, b2)
    <3>. HIDE DEF r1, r2, b1, b2, z, t, u
    <3>. QED
      BY <1>3, <1>7, <1>8, <1>12, <2>1
  <2>. QED
    BY <1>3, <1>13, <2>2 DEF RevenueOK
<1>15. OutstandingOK'
  <2>1. Told("outstanding")' => /\ Mixed(t, d1, c1) <= figures.totalOutstanding
                                /\ figures.totalOutstanding <= Mixed(t, d1, b1)
    BY <1>4 DEF ReportInv, OutstandingOK
  <2>2. Told("outstanding")' => /\ Mixed(u, d2, c2) <= figures.totalOutstanding
                                /\ figures.totalOutstanding <= Mixed(u, d2, b2)
    <3>. HIDE DEF d1, d2, b1, b2, c1, c2, t, u
    <3>. QED
      BY <1>3, <1>9, <1>10, <1>12, <2>1
  <2>. QED
    BY <1>3, <2>2 DEF OutstandingOK
<1>16. OverdueOK'
  <2>1. Told("overdue")' => /\ figures.totalOverdue <= Mixed(t, o1, b1)
                            /\ figures.overdueCount <= Cardinality(Overdue \cup touched)
    BY <1>4 DEF ReportInv, OverdueOK
  <2>2. Told("overdue")' => figures.totalOverdue <= Mixed(u, o2, b2)
    <3>. HIDE DEF o1, o2, b1, b2, t, u
    <3>. QED
      BY <1>3, <1>11, <1>12, <2>1
  <2>3. Told("overdue")' => figures.overdueCount <= Cardinality((Overdue \cup touched)')
    <3>. DEFINE A == Overdue \cup touched
                B == Overdue' \cup touched'
    <3>1. A \in SUBSET B /\ B \in SUBSET Invoices
      BY <1>1, <1>2 DEF Overdue, InvoicesIn
    <3>. HIDE DEF A, B
    <3>2. Cardinality(A) <= Cardinality(B) /\ Cardinality(A) \in Nat /\ Cardinality(B) \in Nat
      BY <1>1, <3>1, FS_Subset, FS_CardinalityType
    <3>. QED
      BY <1>3, <2>1, <3>2 DEF A, B
  <2>. QED
    BY <1>3, <2>2, <2>3 DEF OverdueOK
<1>. QED
  BY <1>14, <1>15, <1>16

\* So do the counts, and the invoices kept for the largest sums.
LEMMA GroupsDrift ==
    ASSUME Cent = 1, ReportInv, LedgerStep, phase # "idle"
    PROVE  ByStatusOK' /\ TopInvoicesOK'
<1>1. /\ LedgerOK /\ LedgerOK' /\ TermsOK /\ TermsOK'
      /\ touched \in SUBSET Invoices /\ touched' \in SUBSET Invoices
      /\ touched \in SUBSET touched'
      /\ IsFiniteSet(Invoices)
  BY Drift, Terms, TermsNext, DashboardAssumption DEF ReportInv, TypesOK, LedgerChange
<1>2. /\ \A i \in Invoices : Billed[i] <= (Billed')[i]
      /\ \A i \in Invoices \ touched' : invoice'[i] = invoice[i] /\ (Receipts')[i] = Receipts[i]
      /\ touched' = {} => UNCHANGED payments
  BY Drift
<1>3. UNCHANGED <<pending, phase, figures>>
  BY DEF LedgerStep
<1>4. \A q : Told(q)' => Told(q)
  BY <1>3 DEF Told
<1>5. PICK T \in SUBSET Invoices, C \in SUBSET Customers : figures \in Figures(T, C)
  BY DEF ReportInv, TypesOK
<1>6. ByStatusOK'
  <2>. SUFFICES ASSUME Told("byStatus")', NEW s \in InvoiceStatus
                PROVE  figures.byStatus[s] >= Cardinality((InvoicesIn({s}) \ touched)')
    BY <1>3 DEF ByStatusOK
  <2>. DEFINE A == InvoicesIn({s}) \ touched
              B == (InvoicesIn({s}) \ touched)'
  <2>1. figures.byStatus[s] >= Cardinality(A) /\ figures.byStatus[s] \in Nat
    BY <1>4, <1>5 DEF ReportInv, ByStatusOK, Figures
  <2>2. B \in SUBSET A /\ A \in SUBSET Invoices
    BY <1>1, <1>2 DEF InvoicesIn
  <2>. HIDE DEF A, B
  <2>3. Cardinality(B) <= Cardinality(A) /\ Cardinality(A) \in Nat /\ Cardinality(B) \in Nat
    <3>1. IsFiniteSet(A) /\ IsFiniteSet(B)
      BY <1>1, <2>2, FS_Subset
    <3>. QED
      BY <2>2, <3>1, FS_Subset, FS_CardinalityType
  <2>4. figures.byStatus[s] >= Cardinality(B)
    BY <2>1, <2>3
  <2>. QED
    BY <2>4 DEF B
<1>7. TopInvoicesOK'
  <2>. SUFFICES ASSUME Told("topInvoices")'
                PROVE  TopInvoicesOK'
    BY DEF TopInvoicesOK
  <2>. DEFINE top == figures.topInvoices
  <2>1. top \in [T -> Nat] /\ figures' = figures
    BY <1>3, <1>5 DEF Figures
  <2>2. /\ \A i \in T : /\ Exists(i)
                        /\ top[i] <= Billed[i]
                        /\ i \in Steady => top[i] = Receipts[i]
        /\ \A i \in Steady \ T : Receipts[i] = 0 \/ \A j \in T : top[j] >= Receipts[i]
        /\ (touched = {} /\ Cardinality({p.invoice : p \in payments}) <= TopInvoices) =>
             \A i \in Invoices \ T : Receipts[i] = 0
    BY <1>4, <2>1 DEF ReportInv, TopInvoicesOK
  <2>. HIDE DEF top
  <2>3. \A i \in Invoices : Billed[i] \in Int /\ (Billed')[i] \in Int
    BY <1>1 DEF TermsOK
  <2>4. \A i \in T : Exists(i)' /\ top[i] <= (Billed')[i]
    <3>1. \A i \in T : Exists(i)'
      BY <2>2, Drift DEF Exists, LedgerChange
    <3>2. \A i \in T : top[i] \in Int /\ top[i] <= Billed[i] /\ Billed[i] <= (Billed')[i]
      BY <1>2, <2>1, <2>2
    <3>. QED
      BY <2>3, <3>1, <3>2
  <2>5. Steady' = Invoices \ touched' /\ Steady' \in SUBSET Steady
    BY <1>1 DEF Steady
  <2>6. \A i \in Steady' : (Receipts')[i] = Receipts[i]
    BY <1>2, <2>5
  <2>7. \A i \in T : i \in Steady' => top[i] = (Receipts')[i]
    BY <2>2, <2>5, <2>6
  <2>8. \A i \in Steady' \ T : (Receipts')[i] = 0 \/ \A j \in T : top[j] >= (Receipts')[i]
    BY <2>2, <2>5, <2>6
  <2>9. (touched' = {} /\ Cardinality({p.invoice : p \in payments'}) <= TopInvoices) =>
             \A i \in Invoices \ T : (Receipts')[i] = 0
    BY <1>1, <1>2, <2>2
  <2>. QED
    BY <2>1, <2>4, <2>7, <2>8, <2>9 DEF TopInvoicesOK, top
<1>. QED
  BY <1>6, <1>7

\* A summary is left behind by payments recorded, and by voided ones.
LEMMA LedgerStepKeeps == ASSUME Cent = 1, ReportInv, LedgerStep PROVE ReportInv'
<1>1. LedgerOK' /\ LedgerChange
  BY LedgerSteps DEF ReportInv, LedgerStep, LedgerChange
<1>2. /\ UNCHANGED <<pending, phase, figures>>
      /\ phase \notin {"answer", "listed"}
      /\ list' = [list EXCEPT !.voided =
           @ \/ \E p \in payments \ payments' : p.invoice = list.invoice]
  BY DEF LedgerStep
<1>3. list' \in List
  BY <1>2 DEF ReportInv, TypesOK, List
<1>4. touched' \in SUBSET Invoices
  BY DEF LedgerStep, ReportInv, TypesOK
<1>5. TypesOK'
  BY <1>2, <1>3, <1>4 DEF ReportInv, TypesOK, List
<1>6. TopCustomersDeserveIt' /\ ListCoversSummary'
  BY <1>2 DEF TopCustomersDeserveIt, ListCoversSummary
<1>7. CASE phase = "idle"
  BY <1>1, <1>2, <1>5, <1>6, <1>7 
  DEF ReportInv, RevenueOK, OutstandingOK, OverdueOK, ByStatusOK, TopInvoicesOK, Told, ListOK
<1>8. CASE phase # "idle"
  <2>1. ListOK'
    <3>. SUFFICES ASSUME phase = "findPayments" PROVE ListOK'
      BY <1>2 DEF ListOK
    <3>. DEFINE i   == list.invoice
                old == PaidIn(payments, i)
                new == PaidIn(payments', i)
    <3>1. i \in Invoices /\ list'.invoice = i /\ list'.amountPaid = list.amountPaid
      BY <1>2 DEF ReportInv, TypesOK, List
    <3>2. list'.voided = (list.voided \/ \E p \in payments \ payments' : p.invoice = i)
      BY <1>2 DEF ReportInv, TypesOK, List
    <3>3. /\ ~list.voided => old >= list.amountPaid
          /\ i \in Steady => old = list.amountPaid
      BY DEF ReportInv, ListOK
    <3>4. (\A p \in payments \ payments' : p.invoice # i) => new >= old
      BY <1>1, <3>1 DEF LedgerChange
    <3>5. i \in Steady' => i \in Steady /\ new = old
      <4>1. LedgerOK /\ LedgerOK' /\ touched \in SUBSET touched'
        BY <1>1, <1>8, Drift DEF ReportInv
      <4>2. i \in Invoices \ touched' => (Receipts')[i] = Receipts[i]
        BY <1>8, Drift
      <4>3. Receipts[i] = old /\ (Receipts')[i] = new
        BY <3>1, <4>1, Terms, TermsNext DEF TermsOK
      <4>. QED
        BY <4>1, <4>2, <4>3 DEF Steady
    <3>6. old \in Int /\ new \in Int /\ list.amountPaid \in Int
      <4>1. LedgerOK /\ LedgerOK'
        BY <1>1 DEF ReportInv
      <4>2. Receipts[i] = old /\ (Receipts')[i] = new /\ Receipts[i] \in Nat /\ (Receipts')[i] \in Nat
        BY <3>1, <4>1, Terms, TermsNext DEF TermsOK
      <4>. QED
        BY <4>2 DEF ReportInv, TypesOK, List
    <3>. HIDE DEF i, old, new
    <3>7. ~list'.voided => /\ ~list.voided
                           /\ \A p \in payments \ payments' : p.invoice # i
      BY <3>2, Zenon
    <3>8. ~list'.voided => new >= list'.amountPaid
      BY <3>1, <3>3, <3>4, <3>6, <3>7
    <3>9. i \in Steady' => new = list'.amountPaid
      BY <3>1, <3>3, <3>5
    <3>. QED
      BY <3>1, <3>8, <3>9 DEF ListOK, i, new
  <2>. QED
    BY <1>1, <1>5, <1>6, <1>8, <2>1, SumsDrift, GroupsDrift DEF ReportInv
<1>. QED
  BY <1>7, <1>8

-----------------------------------------------------------------------------
(* The steps of the request. *)

\* A step of a request leaves the terms as they are.
LEMMA SameTables ==
    ASSUME ReportInv, UNCHANGED tables
    PROVE  /\ LedgerOK'
           /\ UNCHANGED <<invoice, payments>>
           /\ UNCHANGED <<Receipts, Billed, Credited, DueNow, OverdueNow, Nothing, Overdue>>
           /\ \A i : (Exists(i)' <=> Exists(i)) /\ Received(i)' = Received(i)
           /\ \A s : InvoicesIn(s)' = InvoicesIn(s)
<1>1. UNCHANGED <<invoice, payments>>
  BY DEF tables
<1>2. LedgerOK'
  BY <1>1 DEF ReportInv, LedgerOK, Exists
<1>3. \A i : (Exists(i)' <=> Exists(i)) /\ Received(i)' = Received(i)
  BY <1>1 DEF Exists, Received, UnitsOf, PaymentsOf
<1>4. \A s : InvoicesIn(s)' = InvoicesIn(s)
  BY <1>1 DEF InvoicesIn
<1>5. UNCHANGED <<Billed, Credited, Nothing>>
  BY <1>1 DEF Billed, Credited, Nothing
<1>6. UNCHANGED Receipts
  BY <1>1 DEF Receipts, Received, UnitsOf, PaymentsOf
<1>7. UNCHANGED <<DueNow, OverdueNow, Overdue>>
  BY <1>1 DEF DueNow, OverdueNow, Overdue, Outstanding, InvoicesIn
<1>. QED
  BY <1>1, <1>2, <1>3, <1>4, <1>5, <1>6, <1>7

\* A figure that was told before and is not told again keeps its part of the invariant.
LEMMA Frames ==
    ASSUME ReportInv, UNCHANGED <<tables, touched>>
    PROVE  /\ (Told("revenue")' =>
                 Told("revenue") /\ figures'.totalRevenue = figures.totalRevenue) => RevenueOK'
           /\ (Told("outstanding")' =>
                 Told("outstanding") /\ figures'.totalOutstanding = figures.totalOutstanding)
                 => OutstandingOK'
           /\ (Told("overdue")' =>
                 /\ Told("overdue")
                 /\ figures'.totalOverdue = figures.totalOverdue
                 /\ figures'.overdueCount = figures.overdueCount) => OverdueOK'
           /\ (Told("byStatus")' =>
                 Told("byStatus") /\ figures'.byStatus = figures.byStatus) => ByStatusOK'
           /\ (Told("topInvoices")' =>
                 Told("topInvoices") /\ figures'.topInvoices = figures.topInvoices)
                 => TopInvoicesOK'
<1>. USE SameTables
<1>1. UNCHANGED touched /\ UNCHANGED tables
  OBVIOUS
<1>2. (Told("revenue")' =>
         Told("revenue") /\ figures'.totalRevenue = figures.totalRevenue) => RevenueOK'
  BY <1>1 DEF ReportInv, RevenueOK
<1>3. (Told("outstanding")' =>
         Told("outstanding") /\ figures'.totalOutstanding = figures.totalOutstanding)
         => OutstandingOK'
  BY <1>1 DEF ReportInv, OutstandingOK
<1>4. (Told("overdue")' =>
         /\ Told("overdue")
         /\ figures'.totalOverdue = figures.totalOverdue
         /\ figures'.overdueCount = figures.overdueCount) => OverdueOK'
  BY <1>1 DEF ReportInv, OverdueOK
<1>5. (Told("byStatus")' =>
         Told("byStatus") /\ figures'.byStatus = figures.byStatus) => ByStatusOK'
  BY <1>1 DEF ReportInv, ByStatusOK
<1>6. (Told("topInvoices")' =>
         Told("topInvoices") /\ figures'.topInvoices = figures.topInvoices)
         => TopInvoicesOK'
  BY <1>1 DEF ReportInv, TopInvoicesOK, Steady
<1>. QED
  BY <1>2, <1>3, <1>4, <1>5, <1>6

\* The steps that begin and end a request, and those of a list of payments.
LEMMA RequestSteps ==
    ASSUME ReportInv, UNCHANGED tables,
           GetDashboard \/ FindByInvoice \/ FindInvoice \/ FindPayments \/ Respond
    PROVE  ReportInv'
<1>0. /\ LedgerOK /\ LedgerOK'
      /\ UNCHANGED <<invoice, payments>>
      /\ TypesOK
  BY SameTables DEF ReportInv
<1>1. PICK T \in SUBSET Invoices, C \in SUBSET Customers : figures \in Figures(T, C)
  BY <1>0 DEF TypesOK
<1>. USE DEF ReportInv, RevenueOK, OutstandingOK, OverdueOK, ByStatusOK, TopInvoicesOK,
             TopCustomersDeserveIt, ListOK, ListCoversSummary, Told
<1>2. CASE GetDashboard
  <2>1. TypesOK'
    BY <1>0, <1>2 DEF GetDashboard, TypesOK
  <2>2. phase' = "queries" /\ pending' = Queries
    BY <1>2 DEF GetDashboard
  <2>. QED
    BY <1>0, <2>1, <2>2 DEF Queries
<1>3. CASE FindByInvoice
  <2>1. phase' = "findInvoice"
    BY <1>3 DEF FindByInvoice, ListQueries
  <2>2. PICK i \in Invoices : list' = [NoList EXCEPT !.invoice = i]
    BY <1>3 DEF FindByInvoice
  <2>3. list' \in List /\ list'.invoice \in Invoices
    <3>1. list' = [invoice |-> i, amountPaid |-> 0, payments |-> {}, voided |-> FALSE]
      BY <2>2 DEF NoList
    <3>. QED
      BY <3>1 DEF List
  <2>4. UNCHANGED <<pending, figures, touched>> /\ phase = "idle"
    BY <1>3 DEF FindByInvoice
  <2>5. TypesOK'
    BY <1>0, <2>1, <2>3, <2>4 DEF TypesOK
  <2>. QED
    BY <1>0, <2>1, <2>5
<1>4. CASE FindInvoice
  <2>1. /\ phase = "findInvoice" /\ phase' = "findPayments"
        /\ UNCHANGED <<pending, figures, touched>>
        /\ list' = [list EXCEPT !.amountPaid = invoice[list.invoice].amountPaid]
    BY <1>4 DEF FindInvoice, Answered, ListQueries
  <2>. DEFINE i    == list.invoice
              paid == PaidIn(payments, i)
  <2>2. i \in Invoices /\ invoice[i].amountPaid = paid /\ paid \in Nat
    BY <1>0, <2>1, LedgerPaid DEF TypesOK, LedgerOK, RowOK
  <2>3. /\ list' \in List /\ list'.invoice = i /\ list'.amountPaid = paid
    BY <1>0, <2>1, <2>2 DEF TypesOK, List
  <2>4. TypesOK'
    BY <1>0, <2>1, <2>2, <2>3 DEF TypesOK
  <2>5. ListOK'
    <3>1. PaidIn(payments', list'.invoice) = list'.amountPaid
      BY <1>0, <2>3
    <3>2. list'.amountPaid \in Int
      BY <2>2, <2>3
    <3>. QED
      BY <3>1, <3>2
  <2>. QED
    BY <1>0, <2>1, <2>4, <2>5
<1>5. CASE FindPayments
  <2>1. /\ phase = "findPayments" /\ phase' = "listed"
        /\ UNCHANGED <<pending, figures, touched>>
        /\ list' = [list EXCEPT !.payments = PaymentsOf(list.invoice)]
    BY <1>5 DEF FindPayments, Answered, ListQueries
  <2>. DEFINE i    == list.invoice
              paid == PaidIn(payments, i)
  <2>2. PaymentsOf(i) \in SUBSET Payment
    BY <1>0 DEF PaymentsOf, LedgerOK
  <2>3. /\ list' \in List /\ list'.invoice = i /\ list'.amountPaid = list.amountPaid
        /\ list'.voided = list.voided /\ list'.payments = PaymentsOf(i) /\ i \in Invoices
    BY <1>0, <2>1, <2>2 DEF TypesOK, List
  <2>4. TypesOK'
    BY <1>0, <2>1, <2>3 DEF TypesOK
  <2>5. SumFunctionOnSet(Amount', list'.payments) = paid
    BY <1>0, <2>3 DEF Amount, AmountIn, PaidIn, PaymentsOf
  <2>6. ListCoversSummary'
    BY <2>1, <2>3, <2>5 DEF Steady
  <2>. QED
    BY <1>0, <2>1, <2>4, <2>6
<1>6. CASE Respond
  <2>1. phase' = "idle"
    BY <1>6 DEF Respond
  <2>2. figures' \in Figures({}, {}) /\ list' \in List
    BY <1>6 DEF Respond, NoFigures, Figures, NoList, List
  <2>3. TypesOK'
    BY <1>6, <2>1, <2>2 DEF TypesOK, Respond
  <2>. QED
    BY <1>0, <2>1, <2>3
<1>. QED
  BY <1>2, <1>3, <1>4, <1>5, <1>6

\* What all queries of the dashboard have in common.
LEMMA Answers ==
    ASSUME ReportInv, UNCHANGED tables, NEW q, Answer(q)
    PROVE  /\ phase = "queries" /\ q \in pending
           /\ UNCHANGED <<phase, list, touched>>
           /\ \A r : r # q => (Told(r)' <=> Told(r))
           /\ pending' \in SUBSET Queries
           /\ TopCustomersDeserveIt' /\ ListOK' /\ ListCoversSummary'
<1>1. phase = "queries" /\ q \in pending /\ pending' = pending \ {q} /\ UNCHANGED <<phase, list, touched>>
  BY DEF Answer, ReportInv, TypesOK
<1>. QED
  BY <1>1 DEF Told, ReportInv, TypesOK, TopCustomersDeserveIt, ListOK, ListCoversSummary

\* The sums told are those of the moment.
LEMMA SumQueries ==
    ASSUME ReportInv, UNCHANGED tables, QueryRevenue \/ QueryOutstanding \/ QueryOverdue
    PROVE  ReportInv'
<1>0. /\ LedgerOK /\ LedgerOK' /\ TermsOK /\ TypesOK
      /\ touched \in SUBSET Invoices /\ IsFiniteSet(Invoices)
  BY SameTables, Terms, DashboardAssumption DEF ReportInv, TypesOK
<1>1. PICK T \in SUBSET Invoices, C \in SUBSET Customers : figures \in Figures(T, C)
  BY <1>0 DEF TypesOK
<1>2. /\ UNCHANGED <<Receipts, Billed, Credited, DueNow, OverdueNow, Nothing, Overdue>>
      /\ UNCHANGED <<tables>>
  BY SameTables
<1>3. CASE QueryRevenue
  <2>1. /\ Answer("revenue")
        /\ figures' = [figures EXCEPT !.totalRevenue = TotalRevenue]
    BY <1>3 DEF QueryRevenue
  <2>2. TotalRevenue = SumFunctionOnSet(Receipts, Invoices) /\ TotalRevenue \in Nat
    <3>1. \A i \in Invoices : Receipts[i] \in Nat
      BY <1>0 DEF TermsOK
    <3>2. SumFunctionOnSet(Receipts, Invoices) \in Nat
      BY <1>0, <3>1, SumNat
    <3>. QED
      BY <1>0, <3>2, QueriedSums
  <2>3. /\ figures' \in Figures(T, C) /\ figures'.totalRevenue = TotalRevenue
        /\ figures'.totalOutstanding = figures.totalOutstanding
        /\ figures'.totalOverdue = figures.totalOverdue
        /\ figures'.overdueCount = figures.overdueCount
        /\ figures'.byStatus = figures.byStatus
        /\ figures'.topInvoices = figures.topInvoices
    BY <1>1, <2>1, <2>2 DEF Figures
  <2>4. UNCHANGED <<phase, list, touched>>
    BY <2>1, Answers
  <2>5. TypesOK'
    BY <1>0, <2>1, <2>3, Answers DEF TypesOK
  <2>6. /\ Mixed(touched, Receipts, Nothing) <= TotalRevenue
        /\ TotalRevenue <= Mixed(touched, Receipts, Billed)
    <3>1. \A i \in Invoices : /\ Receipts[i] \in Int /\ Nothing[i] \in Int /\ Billed[i] \in Int
                              /\ Nothing[i] <= Receipts[i] /\ Receipts[i] <= Billed[i]
      BY <1>0 DEF TermsOK
    <3>. QED
      BY <1>0, <2>2, <3>1, MixedWhole
  <2>7. RevenueOK'
    BY <1>2, <2>3, <2>4, <2>6 DEF RevenueOK
  <2>8. OutstandingOK' /\ OverdueOK' /\ ByStatusOK' /\ TopInvoicesOK'
    BY <1>2, <2>1, <2>3, <2>4, Answers, Frames
  <2>. QED
    BY <1>0, <2>1, <2>5, <2>7, <2>8, Answers DEF ReportInv
<1>4. CASE QueryOutstanding
  <2>1. /\ Answer("outstanding")
        /\ figures' = [figures EXCEPT !.totalOutstanding = SumFunctionOnSet(AmountDue, Outstanding)]
    BY <1>4 DEF QueryOutstanding
  <2>. DEFINE sum == SumFunctionOnSet(AmountDue, Outstanding)
  <2>2. sum = SumFunctionOnSet(DueNow, Invoices) /\ sum \in Int
    <3>1. \A i \in Invoices : DueNow[i] \in Int
      BY <1>0 DEF TermsOK
    <3>2. SumFunctionOnSet(DueNow, Invoices) \in Int
      BY <1>0, <3>1, SumInt
    <3>. QED
      BY <1>0, <3>2, QueriedSums
  <2>. HIDE DEF sum
  <2>3. /\ figures' \in Figures(T, C) /\ figures'.totalRevenue = figures.totalRevenue
        /\ figures'.totalOutstanding = sum
        /\ figures'.totalOverdue = figures.totalOverdue
        /\ figures'.overdueCount = figures.overdueCount
        /\ figures'.byStatus = figures.byStatus
        /\ figures'.topInvoices = figures.topInvoices
    BY <1>1, <2>1, <2>2 DEF Figures, sum
  <2>4. UNCHANGED <<phase, list, touched>>
    BY <2>1, Answers
  <2>5. TypesOK'
    BY <1>0, <2>1, <2>3, Answers DEF TypesOK
  <2>6. /\ Mixed(touched, DueNow, Credited) <= sum
        /\ sum <= Mixed(touched, DueNow, Billed)
    <3>1. \A i \in Invoices : /\ DueNow[i] \in Int /\ Credited[i] \in Int /\ Billed[i] \in Int
                              /\ Credited[i] <= DueNow[i] /\ DueNow[i] <= Billed[i]
      BY <1>0 DEF TermsOK
    <3>. QED
      BY <1>0, <2>2, <3>1, MixedWhole
  <2>7. OutstandingOK'
    BY <1>2, <2>3, <2>4, <2>6 DEF OutstandingOK
  <2>8. RevenueOK' /\ OverdueOK' /\ ByStatusOK' /\ TopInvoicesOK'
    BY <1>2, <2>1, <2>3, <2>4, Answers, Frames
  <2>. QED
    BY <1>0, <2>1, <2>5, <2>7, <2>8, Answers DEF ReportInv
<1>5. CASE QueryOverdue
  <2>1. /\ Answer("overdue")
        /\ figures' = [figures EXCEPT !.totalOverdue = SumFunctionOnSet(AmountDue, Overdue),
                                      !.overdueCount = Cardinality(Overdue)]
    BY <1>5 DEF QueryOverdue
  <2>. DEFINE sum == SumFunctionOnSet(AmountDue, Overdue)
  <2>2. sum = SumFunctionOnSet(OverdueNow, Invoices) /\ sum \in Int
    <3>1. \A i \in Invoices : OverdueNow[i] \in Int
      BY <1>0 DEF TermsOK
    <3>2. SumFunctionOnSet(OverdueNow, Invoices) \in Int
      BY <1>0, <3>1, SumInt
    <3>. QED
      BY <1>0, <3>2, QueriedSums
  <2>. HIDE DEF sum
  <2>3. /\ Cardinality(Overdue) \in Nat
        /\ Cardinality(Overdue) <= Cardinality(Overdue \cup touched)
    <3>1. Overdue \in SUBSET Invoices /\ Overdue \cup touched \in SUBSET Invoices
      BY <1>0 DEF Overdue, InvoicesIn
    <3>2. IsFiniteSet(Overdue) /\ IsFiniteSet(Overdue \cup touched)
      BY <1>0, <3>1, FS_Subset
    <3>. QED
      BY <3>2, FS_Subset, FS_CardinalityType
  <2>4. /\ figures' \in Figures(T, C) /\ figures'.totalRevenue = figures.totalRevenue
        /\ figures'.totalOutstanding = figures.totalOutstanding
        /\ figures'.totalOverdue = sum
        /\ figures'.overdueCount = Cardinality(Overdue)
        /\ figures'.byStatus = figures.byStatus
        /\ figures'.topInvoices = figures.topInvoices
    BY <1>1, <2>1, <2>2, <2>3 DEF Figures, sum
  <2>5. UNCHANGED <<phase, list, touched>>
    BY <2>1, Answers
  <2>6. TypesOK'
    BY <1>0, <2>1, <2>4, Answers DEF TypesOK
  <2>7. sum <= Mixed(touched, OverdueNow, Billed)
    <3>1. \A i \in Invoices : /\ OverdueNow[i] \in Int /\ Billed[i] \in Int
                              /\ OverdueNow[i] <= Billed[i]
      BY <1>0 DEF TermsOK
    <3>. QED
      BY <1>0, <2>2, <3>1, MixedWhole
  <2>8. OverdueOK'
    BY <1>2, <2>3, <2>4, <2>5, <2>7 DEF OverdueOK
  <2>9. RevenueOK' /\ OutstandingOK' /\ ByStatusOK' /\ TopInvoicesOK'
    BY <1>2, <2>1, <2>4, <2>5, Answers, Frames
  <2>. QED
    BY <1>0, <2>1, <2>6, <2>8, <2>9, Answers DEF ReportInv
<1>. QED
  BY <1>3, <1>4, <1>5

\* The groups told are those of the moment: the invoices kept are the first by amount.
LEMMA GroupQueries ==
    ASSUME ReportInv, UNCHANGED tables, QueryByStatus \/ QueryTopInvoices
    PROVE  ReportInv'
<1>0. /\ LedgerOK /\ LedgerOK' /\ TermsOK /\ TypesOK
      /\ touched \in SUBSET Invoices /\ IsFiniteSet(Invoices)
  BY SameTables, Terms, DashboardAssumption DEF ReportInv, TypesOK
<1>1. PICK T \in SUBSET Invoices, C \in SUBSET Customers : figures \in Figures(T, C)
  BY <1>0 DEF TypesOK
<1>2. /\ UNCHANGED <<Receipts, Billed, payments, tables>>
      /\ \A i : Exists(i)' <=> Exists(i)
      /\ \A s : InvoicesIn(s)' = InvoicesIn(s)
  BY SameTables
<1>3. CASE QueryByStatus
  <2>. DEFINE counts == [s \in InvoiceStatus |-> Cardinality(InvoicesIn({s}))]
  <2>1. Answer("byStatus") /\ figures' = [figures EXCEPT !.byStatus = counts]
    BY <1>3 DEF QueryByStatus
  <2>2. \A s \in InvoiceStatus :
          /\ Cardinality(InvoicesIn({s})) \in Nat
          /\ Cardinality(InvoicesIn({s})) >= Cardinality(InvoicesIn({s}) \ touched)
    <3>. SUFFICES ASSUME NEW s \in InvoiceStatus
                  PROVE  /\ Cardinality(InvoicesIn({s})) \in Nat
                         /\ Cardinality(InvoicesIn({s})) >= Cardinality(InvoicesIn({s}) \ touched)
      OBVIOUS
    <3>. DEFINE A == InvoicesIn({s})
                B == A \ touched
    <3>1. A \in SUBSET Invoices /\ B \in SUBSET A
      BY DEF InvoicesIn
    <3>. HIDE DEF A, B
    <3>2. IsFiniteSet(A) /\ IsFiniteSet(B)
      BY <1>0, <3>1, FS_Subset
    <3>3. Cardinality(A) \in Nat /\ Cardinality(B) \in Nat /\ Cardinality(B) <= Cardinality(A)
      BY <3>1, <3>2, FS_Subset, FS_CardinalityType
    <3>4. Cardinality(A) \in Nat /\ Cardinality(A) >= Cardinality(B)
      BY <3>3
    <3>. QED
      BY <3>4 DEF A, B
  <2>3. counts \in [InvoiceStatus -> Nat]
    BY <2>2
  <2>4. \A s \in InvoiceStatus : counts[s] >= Cardinality(InvoicesIn({s}) \ touched)
    BY <2>2
  <2>. HIDE DEF counts
  <2>5. /\ figures' \in Figures(T, C) /\ figures'.totalRevenue = figures.totalRevenue
        /\ figures'.totalOutstanding = figures.totalOutstanding
        /\ figures'.totalOverdue = figures.totalOverdue
        /\ figures'.overdueCount = figures.overdueCount
        /\ figures'.byStatus = counts
        /\ figures'.topInvoices = figures.topInvoices
    BY <1>1, <2>1, <2>3 DEF Figures
  <2>6. UNCHANGED <<phase, list, touched>>
    BY <2>1, Answers
  <2>7. TypesOK'
    BY <1>0, <2>1, <2>5, Answers DEF TypesOK
  <2>8. ByStatusOK'
    BY <1>2, <2>4, <2>5, <2>6 DEF ByStatusOK
  <2>9. RevenueOK' /\ OutstandingOK' /\ OverdueOK' /\ TopInvoicesOK'
    BY <1>2, <2>1, <2>5, <2>6, Answers, Frames
  <2>. QED
    BY <1>0, <2>1, <2>7, <2>8, <2>9, Answers DEF ReportInv
<1>4. CASE QueryTopInvoices
  <2>. DEFINE D   == {p.invoice : p \in payments}
              sum == [i \in D |-> Received(i)]
  <2>1. PICK U \in First(TopInvoices, sum) :
          figures' = [figures EXCEPT !.topInvoices = [i \in U |-> sum[i]]]
    BY <1>4 DEF QueryTopInvoices
  <2>2. Answer("topInvoices")
    BY <1>4 DEF QueryTopInvoices
  <2>3. /\ D \in SUBSET Invoices /\ IsFiniteSet(D)
        /\ \A i \in D : Exists(i)
    <3>1. \A p \in payments : p.invoice \in Invoices /\ Exists(p.invoice)
      BY <1>0 DEF LedgerOK, Payment
    <3>. QED
      BY <1>0, <3>1, FS_Subset
  <2>4. \A i \in D : sum[i] = Receipts[i]
    BY <2>3 DEF Receipts
  <2>5. \A i \in Invoices \ D : Receipts[i] = 0
    <3>. SUFFICES ASSUME NEW i \in Invoices \ D PROVE Receipts[i] = 0
      OBVIOUS
    <3>1. {p \in payments : p.invoice = i} = {}
      OBVIOUS
    <3>2. PaidIn(payments, i) = 0
      BY <3>1, SumEmpty DEF PaidIn
    <3>. QED
      BY <1>0, <3>2 DEF TermsOK
  <2>6. /\ U \in SUBSET D
        /\ Cardinality(U) = Least(TopInvoices, Cardinality(D))
        /\ \A x \in U, y \in D \ U : sum[x] >= sum[y]
    BY <2>1 DEF First
  <2>. DEFINE top == [i \in U |-> sum[i]]
  <2>7. top \in [U -> Nat] /\ \A i \in U : top[i] = Receipts[i]
    BY <1>0, <2>3, <2>4, <2>6 DEF TermsOK
  <2>8. \A i \in Invoices \ U : Receipts[i] = 0 \/ \A j \in U : top[j] >= Receipts[i]
    BY <2>4, <2>5, <2>6
  <2>9. Cardinality(D) <= TopInvoices => \A i \in Invoices \ U : Receipts[i] = 0
    <3>. SUFFICES ASSUME Cardinality(D) <= TopInvoices PROVE U = D
      BY <2>5
    <3>. HIDE DEF D
    <3>1. Cardinality(D) \in Nat /\ TopInvoices \in Nat
      BY <2>3, FS_CardinalityType, DashboardAssumption
    <3>2. Cardinality(U) = Cardinality(D)
      BY <2>6, <3>1 DEF Least
    <3>. QED
      BY <2>3, <2>6, <3>2, FS_Subset
  <2>10. figures' = [figures EXCEPT !.topInvoices = top]
    BY <2>1
  <2>11. \A i \in U : Exists(i) /\ top[i] <= Billed[i]
    BY <1>0, <2>3, <2>6, <2>7 DEF TermsOK
  <2>12. D = {p.invoice : p \in payments} /\ U \in SUBSET Invoices
    BY <2>3, <2>6
  <2>. HIDE DEF top, D, sum
  <2>13. /\ figures' \in Figures(U, C) /\ figures'.totalRevenue = figures.totalRevenue
         /\ figures'.totalOutstanding = figures.totalOutstanding
         /\ figures'.totalOverdue = figures.totalOverdue
         /\ figures'.overdueCount = figures.overdueCount
         /\ figures'.byStatus = figures.byStatus
         /\ figures'.topInvoices = top
    BY <1>1, <2>7, <2>10 DEF Figures
  <2>14. UNCHANGED <<phase, list, touched>>
    BY <2>2, Answers
  <2>15. TypesOK'
    BY <1>0, <2>2, <2>12, <2>13, Answers DEF TypesOK
  <2>16. DOMAIN top = U
    BY <2>7
  <2>17. TopInvoicesOK'
    BY <1>2, <2>7, <2>8, <2>9, <2>11, <2>12, <2>13, <2>14, <2>16 DEF TopInvoicesOK, Steady
  <2>18. RevenueOK' /\ OutstandingOK' /\ OverdueOK' /\ ByStatusOK'
    BY <1>2, <2>2, <2>13, <2>14, Answers, Frames
  <2>. QED
    BY <1>0, <2>2, <2>15, <2>17, <2>18, Answers DEF ReportInv
<1>. QED
  BY <1>3, <1>4

-----------------------------------------------------------------------------
(* The customers with the largest sums. *)

\* A term of a sum of natural numbers is at most the sum.
LEMMA TermOfSum ==
    ASSUME NEW S, IsFiniteSet(S), NEW f, \A x \in S : f[x] \in Nat, NEW x \in S
    PROVE  f[x] <= SumFunctionOnSet(f, S)
<1>1. IsFiniteSet(S \ {x})
  BY FS_RemoveElement
<1>2. SumFunctionOnSet(f, S) = f[x] + SumFunctionOnSet(f, S \ {x})
  BY SumTakeOut
<1>3. SumFunctionOnSet(f, S \ {x}) \in Nat
  BY <1>1, SumNat
<1>. QED
  BY <1>2, <1>3

\* What the invoices kept of a customer add up to, compared with all its invoices.
LEMMA CustomerSums ==
    ASSUME LedgerOK, TypesOK, TopInvoicesOK, Told("topInvoices"),
           NEW T \in SUBSET Invoices, figures.topInvoices \in [T -> Nat],
           NEW S \in SUBSET Invoices
    PROVE  LET top == figures.topInvoices
           IN  /\ SumFunctionOnSet(top, S \cap T) \in Nat
               /\ SumFunctionOnSet(top, S \cap T)
                    <= SumFunctionOnSet(Receipts, S \ touched)
                         + SumFunctionOnSet(Billed, S \cap touched)
               /\ (touched = {} /\ Cardinality({p.invoice : p \in payments}) <= TopInvoices) =>
                    SumFunctionOnSet(top, S \cap T) = SumFunctionOnSet(Receipts, S)
<1>. DEFINE top == figures.topInvoices
            m   == [i \in Invoices |-> IF i \in touched THEN Billed[i] ELSE Receipts[i]]
            K   == S \cap T
            A   == S \ touched
            B   == S \cap touched
<1>0. /\ TermsOK /\ IsFiniteSet(Invoices) /\ touched \in SUBSET Invoices
  BY Terms, DashboardAssumption DEF TypesOK
<1>1. /\ IsFiniteSet(S) /\ IsFiniteSet(K) /\ IsFiniteSet(A) /\ IsFiniteSet(B)
      /\ K \in SUBSET S /\ K \in SUBSET T
      /\ A \cup B = S /\ A \cap B = {} /\ A \in SUBSET S /\ B \in SUBSET S
  BY <1>0, FS_Subset
<1>2. /\ DOMAIN top = T /\ \A i \in T : top[i] \in Nat
      /\ \A i \in T : top[i] <= m[i]
      /\ \A i \in Invoices : m[i] \in Nat /\ Receipts[i] \in Nat /\ Billed[i] \in Nat
      /\ \A i \in A : m[i] = Receipts[i]
      /\ \A i \in B : m[i] = Billed[i]
  BY <1>0 DEF TopInvoicesOK, Steady, TermsOK
<1>3. (touched = {} /\ Cardinality({p.invoice : p \in payments}) <= TopInvoices) =>
        /\ \A i \in T : top[i] = Receipts[i]
        /\ \A i \in Invoices \ T : Receipts[i] = 0
  BY <1>2 DEF TopInvoicesOK, Steady
<1>. HIDE DEF top, m, K, A, B
<1>4. SumFunctionOnSet(top, K) \in Nat
  <2>1. \A i \in K : top[i] \in Nat
    BY <1>1, <1>2
  <2>. QED
    BY <1>1, <2>1, SumNat
<1>5. SumFunctionOnSet(top, K) <= SumFunctionOnSet(Receipts, A) + SumFunctionOnSet(Billed, B)
  <2>1. SumFunctionOnSet(top, K) <= SumFunctionOnSet(m, K)
    <3>1. \A i \in K : top[i] \in Int /\ m[i] \in Int /\ top[i] <= m[i]
      BY <1>1, <1>2
    <3>. QED
      BY <1>1, <3>1, SumMonotone
  <2>2. SumFunctionOnSet(m, K) <= SumFunctionOnSet(m, S)
    <3>1. \A i \in S : m[i] \in Int /\ m[i] >= 0
      BY <1>2
    <3>. QED
      BY <1>1, <3>1, SumPart
  <2>3. SumFunctionOnSet(m, S) = SumFunctionOnSet(m, A) + SumFunctionOnSet(m, B)
    <3>1. \A i \in A \cup B : m[i] \in Int
      BY <1>1, <1>2
    <3>2. SumFunctionOnSet(m, A \cup B) = SumFunctionOnSet(m, A) + SumFunctionOnSet(m, B)
      BY <1>1, <3>1, SumUnion
    <3>. QED
      BY <1>1, <3>2
  <2>4. /\ SumFunctionOnSet(m, A) = SumFunctionOnSet(Receipts, A)
        /\ SumFunctionOnSet(m, B) = SumFunctionOnSet(Billed, B)
    <3>1. /\ \A i \in A : m[i] \in Int /\ m[i] = Receipts[i]
          /\ \A i \in B : m[i] \in Int /\ m[i] = Billed[i]
      BY <1>1, <1>2
    <3>. QED
      BY <1>1, <3>1, SumSame
  <2>5. /\ SumFunctionOnSet(m, K) \in Int /\ SumFunctionOnSet(m, S) \in Int
        /\ SumFunctionOnSet(m, A) \in Int /\ SumFunctionOnSet(m, B) \in Int
    <3>1. \A i \in S : m[i] \in Int
      BY <1>2
    <3>. QED
      BY <1>1, <3>1, SumInt
  <2>. QED
    BY <1>4, <2>1, <2>2, <2>3, <2>4, <2>5
<1>6. ASSUME touched = {}, Cardinality({p.invoice : p \in payments}) <= TopInvoices
      PROVE  SumFunctionOnSet(top, K) = SumFunctionOnSet(Receipts, S)
  <2>1. SumFunctionOnSet(top, K) = SumFunctionOnSet(Receipts, K)
    <3>1. \A i \in K : top[i] \in Int /\ top[i] = Receipts[i]
      BY <1>1, <1>2, <1>3, <1>6
    <3>. QED
      BY <1>1, <3>1, SumSame
  <2>2. SumFunctionOnSet(Receipts, K) = SumFunctionOnSet(Receipts, S)
    <3>1. /\ \A i \in S : Receipts[i] \in Int
          /\ \A i \in S \ K : Receipts[i] = 0
      BY <1>2, <1>3, <1>6 DEF K
    <3>2. \A i \in S \ K : Receipts[i] >= 0
      BY <3>1
    <3>. QED
      BY <1>1, <3>1, <3>2, SumPart
  <2>. QED
    BY <2>1, <2>2
<1>. QED
  BY <1>4, <1>5, <1>6 DEF top, K, A, B

\* The customers told are the first by what the invoices kept brought.
LEMMA CustomersQuery ==
    ASSUME ReportInv, UNCHANGED tables, QueryCustomers
    PROVE  ReportInv'
<1>0. /\ LedgerOK /\ LedgerOK' /\ TermsOK /\ TypesOK /\ TopInvoicesOK
      /\ touched \in SUBSET Invoices /\ IsFiniteSet(Invoices)
  BY SameTables, Terms, DashboardAssumption DEF ReportInv, TypesOK
<1>1. PICK T \in SUBSET Invoices, C \in SUBSET Customers : figures \in Figures(T, C)
  BY <1>0 DEF TypesOK
<1>2. /\ UNCHANGED <<Receipts, Billed, payments, tables>>
      /\ \A i : Exists(i)' <=> Exists(i)
      /\ \A i : Received(i)' = Received(i)
  BY SameTables
<1>. DEFINE top     == figures.topInvoices
            revenue == RevenueByCustomer(top)
            D       == {CustomerOf[i] : i \in T}
            of(c)   == {i \in Invoices : CustomerOf[i] = c}
            sum(c)  == SumFunctionOnSet(top, of(c) \cap T)
            uncut   == Cardinality({p.invoice : p \in payments}) <= TopInvoices
<1>3. PICK L \in First(TopCustomers, revenue) :
        figures' = [figures EXCEPT !.topCustomers = [c \in L |-> revenue[c]]]
  BY DEF QueryCustomers
<1>4. /\ phase = "queries" /\ phase' = "answer" /\ pending = {}
      /\ UNCHANGED <<pending, list, touched>>
      /\ \A q : Told(q) /\ Told(q)'
  BY DEF QueryCustomers, Told
<1>5. /\ top \in [T -> Nat] /\ DOMAIN top = T
      /\ \A i \in T : Exists(i)
      /\ \A i \in T : i \notin touched => top[i] = Receipts[i]
      /\ \A i \in Invoices \ T : i \notin touched =>
           Receipts[i] = 0 \/ \A j \in T : top[j] >= Receipts[i]
  BY <1>0, <1>1, <1>4 DEF TopInvoicesOK, Figures, Steady
<1>6. revenue = [c \in D |-> sum(c)]
  <2>1. {i \in DOMAIN top : Exists(i)} = T
    BY <1>5
  <2>2. \A c : {i \in DOMAIN top : Exists(i) /\ CustomerOf[i] = c} = of(c) \cap T
    BY <1>5
  <2>3. revenue = [c \in {CustomerOf[i] : i \in {j \in DOMAIN top : Exists(j)}} |->
            SumFunctionOnSet(top, {i \in DOMAIN top : Exists(i) /\ CustomerOf[i] = c})]
    BY DEF RevenueByCustomer
  <2>. HIDE DEF top, revenue
  <2>. QED
    BY <2>1, <2>2, <2>3
<1>7. \A c : /\ sum(c) \in Nat
             /\ sum(c) <= SumFunctionOnSet(Receipts, of(c) \ touched)
                            + SumFunctionOnSet(Billed, of(c) \cap touched)
             /\ (touched = {} /\ uncut) => sum(c) = SumFunctionOnSet(Receipts, of(c))
  <2>. SUFFICES ASSUME NEW c
                PROVE  /\ sum(c) \in Nat
                       /\ sum(c) <= SumFunctionOnSet(Receipts, of(c) \ touched)
                            + SumFunctionOnSet(Billed, of(c) \cap touched)
                       /\ (touched = {} /\ uncut) => sum(c) = SumFunctionOnSet(Receipts, of(c))
    OBVIOUS
  <2>. DEFINE S == of(c)
  <2>1. S \in SUBSET Invoices
    OBVIOUS
  <2>2. Told("topInvoices") /\ figures.topInvoices \in [T -> Nat]
    BY <1>4, <1>5
  <2>. HIDE DEF S
  <2>3. /\ SumFunctionOnSet(top, S \cap T) \in Nat
        /\ SumFunctionOnSet(top, S \cap T)
             <= SumFunctionOnSet(Receipts, S \ touched) + SumFunctionOnSet(Billed, S \cap touched)
        /\ (touched = {} /\ uncut) =>
             SumFunctionOnSet(top, S \cap T) = SumFunctionOnSet(Receipts, S)
    BY <1>0, <2>1, <2>2, CustomerSums
  <2>. QED
    BY <2>3 DEF S
<1>8. \A i \in T : CustomerOf[i] \in D /\ top[i] <= sum(CustomerOf[i])
  <2>. SUFFICES ASSUME NEW i \in T PROVE top[i] <= sum(CustomerOf[i])
    OBVIOUS
  <2>. DEFINE S == of(CustomerOf[i]) \cap T
  <2>1. i \in S /\ IsFiniteSet(S) /\ \A x \in S : top[x] \in Nat
    BY <1>0, <1>5, FS_Subset
  <2>. HIDE DEF S, top
  <2>2. top[i] <= SumFunctionOnSet(top, S)
    BY <2>1, TermOfSum
  <2>. QED
    BY <2>2 DEF S
<1>9. /\ L \in SUBSET D
      /\ \A c \in L, d \in D \ L : sum(c) >= sum(d)
      /\ [c \in L |-> revenue[c]] = [c \in L |-> sum(c)]
  <2>1. /\ L \in SUBSET DOMAIN revenue
        /\ \A x \in L, y \in DOMAIN revenue \ L : revenue[x] >= revenue[y]
    BY <1>3 DEF First
  <2>2. DOMAIN revenue = D /\ \A c \in D : revenue[c] = sum(c)
    BY <1>6
  <2>. HIDE DEF revenue, D, sum
  <2>. QED
    BY <2>1, <2>2
<1>. DEFINE listed == [c \in L |-> sum(c)]
<1>10. figures' = [figures EXCEPT !.topCustomers = listed]
  BY <1>3, <1>9
<1>11. listed \in [L -> Nat] /\ L \in SUBSET Customers
  BY <1>7, <1>9 DEF Customers
<1>12. /\ figures' \in Figures(T, L)
       /\ figures'.totalRevenue = figures.totalRevenue
       /\ figures'.totalOutstanding = figures.totalOutstanding
       /\ figures'.totalOverdue = figures.totalOverdue
       /\ figures'.overdueCount = figures.overdueCount
       /\ figures'.byStatus = figures.byStatus
       /\ figures'.topInvoices = figures.topInvoices
       /\ figures'.topCustomers = listed
  <2>. HIDE DEF listed
  <2>. QED
    BY <1>1, <1>10, <1>11 DEF Figures
<1>13. TypesOK'
  BY <1>0, <1>4, <1>11, <1>12 DEF TypesOK
<1>14. RevenueOK' /\ OutstandingOK' /\ OverdueOK' /\ ByStatusOK' /\ TopInvoicesOK'
  BY <1>4, <1>12, Frames
<1>15. ListOK' /\ ListCoversSummary'
  BY <1>4 DEF ListOK, ListCoversSummary
<1>16. ASSUME NEW c \in L
       PROVE  /\ \A i \in Steady : CustomerOf[i] \notin L => listed[c] >= Receipts[i]
              /\ listed[c] <= SumFunctionOnSet(Receipts, of(c) \ touched)
                                + SumFunctionOnSet(Billed, of(c) \cap touched)
              /\ (touched = {} /\ uncut) =>
                   /\ listed[c] = SumFunctionOnSet(Receipts, of(c))
                   /\ \A i \in Invoices : CustomerOf[i] \notin L =>
                        SumFunctionOnSet(Receipts, of(c))
                          >= SumFunctionOnSet(Receipts, of(CustomerOf[i]))
  <2>1. listed[c] = sum(c) /\ c \in D
    BY <1>9
  <2>2. \A i \in Invoices : Receipts[i] \in Nat
    BY <1>0 DEF TermsOK
  <2>3. ASSUME NEW i \in Steady, CustomerOf[i] \notin L PROVE sum(c) >= Receipts[i]
    <3>1. i \in Invoices /\ i \notin touched
      BY DEF Steady
    <3>2. CASE i \in T
      <4>1. CustomerOf[i] \in D \ L /\ top[i] <= sum(CustomerOf[i])
        BY <1>8, <2>3, <3>2
      <4>2. sum(c) >= sum(CustomerOf[i])
        BY <1>9, <4>1
      <4>3. top[i] = Receipts[i] /\ Receipts[i] \in Int
        BY <1>5, <2>2, <3>1, <3>2
      <4>4. sum(c) \in Int /\ sum(CustomerOf[i]) \in Int
        <5>1. sum(c) \in Nat /\ sum(CustomerOf[i]) \in Nat
          BY <1>7
        <5>. HIDE DEF sum
        <5>. QED
          BY <5>1
      <4>. HIDE DEF sum, top
      <4>. QED
        BY <4>1, <4>2, <4>3, <4>4
    <3>3. CASE i \notin T
      <4>1. PICK j \in T : CustomerOf[j] = c
        BY <2>1
      <4>2. top[j] <= sum(c) /\ top[j] \in Nat
        BY <1>5, <1>8, <4>1
      <4>3. Receipts[i] = 0 \/ top[j] >= Receipts[i]
        BY <1>5, <3>1, <3>3
      <4>4. sum(c) \in Nat /\ Receipts[i] \in Nat
        BY <1>7, <2>2, <3>1
      <4>. HIDE DEF sum, top
      <4>. QED
        BY <4>2, <4>3, <4>4
    <3>. QED
      BY <3>2, <3>3
  <2>4. ASSUME touched = {}, uncut, NEW i \in Invoices, CustomerOf[i] \notin L
        PROVE  SumFunctionOnSet(Receipts, of(c))
                 >= SumFunctionOnSet(Receipts, of(CustomerOf[i]))
    <3>. DEFINE d == CustomerOf[i]
    <3>1. /\ sum(c) = SumFunctionOnSet(Receipts, of(c))
          /\ sum(d) = SumFunctionOnSet(Receipts, of(d))
          /\ sum(c) \in Nat /\ sum(d) \in Nat
      BY <1>7, <2>4
    <3>2. CASE d \in D
      <4>1. sum(c) >= sum(d)
        BY <1>9, <2>4, <3>2
      <4>. HIDE DEF sum, of, d
      <4>2. SumFunctionOnSet(Receipts, of(c)) >= SumFunctionOnSet(Receipts, of(d))
        BY <3>1, <4>1
      <4>. QED
        BY <4>2 DEF d
    <3>3. CASE d \notin D
      <4>1. of(d) \cap T = {}
        BY <3>3
      <4>2. sum(d) = 0
        BY <4>1, SumEmpty
      <4>. HIDE DEF sum, of, d
      <4>3. SumFunctionOnSet(Receipts, of(c)) >= SumFunctionOnSet(Receipts, of(d))
        BY <3>1, <4>2
      <4>. QED
        BY <4>3 DEF d
    <3>. QED
      BY <3>2, <3>3
  <2>5. /\ sum(c) <= SumFunctionOnSet(Receipts, of(c) \ touched)
                            + SumFunctionOnSet(Billed, of(c) \cap touched)
        /\ (touched = {} /\ uncut) => sum(c) = SumFunctionOnSet(Receipts, of(c))
    BY <1>7
  <2>. HIDE DEF sum, listed, of, D, uncut, top, revenue
  <2>. QED
    BY <2>1, <2>3, <2>4, <2>5
<1>17. TopCustomersDeserveIt'
  <2>1. figures'.topCustomers = listed /\ DOMAIN listed = L
    BY <1>12
  <2>2. \A i \in Invoices : Received(i) = Receipts[i]
    BY DEF Receipts
  <2>3. \A i \in Steady : i \in Invoices
    BY DEF Steady
  <2>. HIDE DEF listed
  <2>. QED
    BY <1>2, <1>4, <1>16, <2>1, <2>2, <2>3 DEF TopCustomersDeserveIt, Steady
<1>. QED
  BY <1>0, <1>13, <1>14, <1>15, <1>17 DEF ReportInv

-----------------------------------------------------------------------------

\* Every step keeps the invariant of a report.
LEMMA ReportStep == ASSUME Cent = 1, ReportInv, [DashboardNext]_allVars PROVE ReportInv'
<1>1. CASE LedgerStep
  BY <1>1, LedgerStepKeeps
<1>2. CASE Report /\ UNCHANGED tables
  BY <1>2, RequestSteps, SumQueries, GroupQueries, CustomersQuery DEF Report
<1>3. CASE UNCHANGED allVars
  <2>1. UNCHANGED <<tables, pending, phase, figures, list, touched>>
    BY <1>3 DEF allVars, dashboardVars
  <2>2. \A q : Told(q)' <=> Told(q)
    BY <2>1 DEF Told
  <2>3. RevenueOK' /\ OutstandingOK' /\ OverdueOK' /\ ByStatusOK' /\ TopInvoicesOK'
    <3>1. /\ RevenueOK /\ OutstandingOK /\ OverdueOK /\ ByStatusOK /\ TopInvoicesOK
          /\ UNCHANGED <<tables, touched>> /\ figures' = figures
      BY <2>1 DEF ReportInv
    <3>. QED
      BY <2>2, <3>1, Frames
  <2>4. TypesOK' /\ LedgerOK'
    BY <2>1, SameTables DEF ReportInv, TypesOK
  <2>5. UNCHANGED <<invoice, payments, Receipts, Billed, Steady, Amount>>
    <3>1. UNCHANGED <<invoice, payments, Receipts, Billed>>
      BY <2>1, SameTables
    <3>. QED
      BY <2>1, <3>1 DEF Steady, Amount
  <2>6. TopCustomersDeserveIt'
    <3>1. \A i : Received(i)' = Received(i)
      BY <2>1, SameTables
    <3>2. UNCHANGED <<payments, Receipts, Billed, Steady, touched, phase, figures>>
      BY <2>1, <2>5
    <3>. QED
      BY <3>1, <3>2 DEF ReportInv, TopCustomersDeserveIt
  <2>7. ListOK' /\ ListCoversSummary'
    BY <2>1, <2>5 DEF ReportInv, ListOK, ListCoversSummary
  <2>. QED
    BY <2>3, <2>4, <2>6, <2>7 DEF ReportInv
<1>. QED
  BY <1>1, <1>2, <1>3 DEF DashboardNext

\* It holds in every state, when amounts are whole cents.
LEMMA ReportInvariant == ASSUME Cent = 1 PROVE DashboardSpec => []ReportInv
<1>1. ReportInv /\ [DashboardNext]_allVars => ReportInv'
  BY ReportStep
<1>. QED
  BY <1>1, ReportInit, PTL DEF DashboardSpec

-----------------------------------------------------------------------------

\* The figures are numbers whatever is committed meanwhile, for amounts of any precision.
THEOREM FiguresAreNumbers == DashboardSpec => []DashboardTypeOK
<1>1. TablesTyped /\ TypesOK => DashboardTypeOK
  <2>. SUFFICES ASSUME TablesTyped, TypesOK PROVE DashboardTypeOK
    OBVIOUS
  <2>1. PICK T \in SUBSET Invoices, C \in SUBSET Customers : figures \in Figures(T, C)
    BY DEF TypesOK
  <2>. QED
    BY <2>1 DEF TypesOK, DashboardTypeOK, Figures
<1>. QED
  BY <1>1, TypesInvariant, PTL

\* payments.service.ts:101 reads the invoice before its payments: the summary of a list
\* is covered by the payments listed with it.
THEOREM ListsCoverSummaries == ASSUME Cent = 1 PROVE DashboardSpec => []ListCoversSummary
BY ReportInvariant, PTL DEF ReportInv

\* The customers listed deserve it, however the queries and commits interleave.
THEOREM ListedCustomersDeserveIt ==
    ASSUME Cent = 1 PROVE DashboardSpec => []TopCustomersDeserveIt
BY ReportInvariant, PTL DEF ReportInv

\* Revenue and outstanding amounts of different moments account for every invoice that
\* did not change meanwhile.
THEOREM RevenueAndOutstandingAccount ==
    ASSUME Cent = 1 PROVE DashboardSpec => []RevenueAndOutstandingAddUp
<1>1. ReportInv => RevenueAndOutstandingAddUp
  <2>. SUFFICES ASSUME ReportInv, phase = "answer"
                PROVE  LET least == SumFunctionOnSet(Accounted, Steady)
                       IN  figures.totalRevenue + figures.totalOutstanding
                             \in least + SumFunctionOnSet(Credited, touched)
                                .. least + 2 * SumFunctionOnSet(Billed, touched)
    BY DEF RevenueAndOutstandingAddUp
  <2>1. /\ TermsOK /\ IsFiniteSet(Invoices) /\ touched \in SUBSET Invoices
        /\ figures.totalRevenue \in Int /\ figures.totalOutstanding \in Int
        /\ Told("revenue") /\ Told("outstanding")
    BY Terms, DashboardAssumption DEF ReportInv, TypesOK, Figures, Told
  <2>2. /\ Mixed(touched, Receipts, Nothing) <= figures.totalRevenue
        /\ figures.totalRevenue <= Mixed(touched, Receipts, Billed)
        /\ Mixed(touched, DueNow, Credited) <= figures.totalOutstanding
        /\ figures.totalOutstanding <= Mixed(touched, DueNow, Billed)
    BY <2>1 DEF ReportInv, RevenueOK, OutstandingOK
  <2>. DEFINE twice == [i \in Invoices |-> Billed[i] + Billed[i]]
  <2>3. \A i \in Invoices :
          /\ Receipts[i] \in Int /\ DueNow[i] \in Int /\ Nothing[i] \in Int
          /\ Credited[i] \in Int /\ Billed[i] \in Int /\ Accounted[i] \in Int
          /\ Accounted[i] = Receipts[i] + DueNow[i]
          /\ Credited[i] = Nothing[i] + Credited[i]
          /\ twice[i] = Billed[i] + Billed[i]
    BY <2>1 DEF TermsOK
  <2>. HIDE DEF twice
  <2>4. Mixed(touched, Accounted, Credited)
          = Mixed(touched, Receipts, Nothing) + Mixed(touched, DueNow, Credited)
    BY <2>1, <2>3, MixedPlus
  <2>5. Mixed(touched, Accounted, twice)
          = Mixed(touched, Receipts, Billed) + Mixed(touched, DueNow, Billed)
    BY <2>1, <2>3, MixedPlus
  <2>6. /\ IsFiniteSet(touched) /\ IsFiniteSet(Steady) /\ Steady \in SUBSET Invoices
    BY <2>1, FS_Subset DEF Steady
  <2>7. SumFunctionOnSet(twice, touched)
          = SumFunctionOnSet(Billed, touched) + SumFunctionOnSet(Billed, touched)
    BY <2>1, <2>3, <2>6, SumPlus
  <2>8. /\ SumFunctionOnSet(Accounted, Steady) \in Int
        /\ SumFunctionOnSet(Credited, touched) \in Int
        /\ SumFunctionOnSet(Billed, touched) \in Int
    BY <2>1, <2>3, <2>6, SumInt
  <2>9. /\ Mixed(touched, Receipts, Nothing) \in Int /\ Mixed(touched, DueNow, Credited) \in Int
        /\ Mixed(touched, Receipts, Billed) \in Int /\ Mixed(touched, DueNow, Billed) \in Int
    BY <2>1, <2>3, MixedIsSum
  <2>10. /\ Mixed(touched, Accounted, Credited)
              = SumFunctionOnSet(Accounted, Steady) + SumFunctionOnSet(Credited, touched)
         /\ Mixed(touched, Accounted, twice)
              = SumFunctionOnSet(Accounted, Steady) + SumFunctionOnSet(twice, touched)
    BY DEF Mixed, Steady
  <2>. QED
    BY <2>1, <2>2, <2>4, <2>5, <2>7, <2>8, <2>9, <2>10
<1>. QED
  BY <1>1, ReportInvariant, PTL

\* What is overdue is outstanding, up to credits and to what changed between the queries.
THEOREM WhatIsOverdueIsOutstanding ==
    ASSUME Cent = 1 PROVE DashboardSpec => []OverdueIsOutstanding
<1>1. ReportInv => OverdueIsOutstanding
  <2>. SUFFICES ASSUME ReportInv, phase = "answer"
                PROVE  /\ figures.totalOverdue <= figures.totalOutstanding
                            + SumFunctionOnSet(Billed, touched) - SumFunction(Credited)
                       /\ figures.overdueCount <= figures.byStatus["SENT"]
                            + figures.byStatus["PARTIALLY_PAID"] + Cardinality(touched)
    BY DEF OverdueIsOutstanding
  <2>0. PICK T \in SUBSET Invoices, C \in SUBSET Customers : figures \in Figures(T, C)
    BY DEF ReportInv, TypesOK
  <2>1. /\ TermsOK /\ IsFiniteSet(Invoices) /\ touched \in SUBSET Invoices
        /\ figures.totalOverdue \in Int /\ figures.totalOutstanding \in Int
        /\ figures.overdueCount \in Nat
        /\ figures.byStatus["SENT"] \in Nat /\ figures.byStatus["PARTIALLY_PAID"] \in Nat
        /\ Told("overdue") /\ Told("outstanding") /\ Told("byStatus")
    BY <2>0, Terms, DashboardAssumption DEF ReportInv, TypesOK, Figures, Told, InvoiceStatus
  <2>2. figures.totalOverdue <= figures.totalOutstanding
          + SumFunctionOnSet(Billed, touched) - SumFunction(Credited)
    <3>1. /\ Mixed(touched, DueNow, Credited) <= figures.totalOutstanding
          /\ figures.totalOverdue <= Mixed(touched, OverdueNow, Billed)
      BY <2>1 DEF ReportInv, OutstandingOK, OverdueOK
    <3>. DEFINE owed  == [i \in Invoices |-> -Credited[i]]
                other == [i \in Invoices |-> Billed[i] - Credited[i]]
                most  == [i \in Invoices |-> DueNow[i] - Credited[i]]
    <3>2. \A i \in Invoices :
            /\ owed[i] \in Int /\ other[i] \in Int /\ most[i] \in Int
            /\ DueNow[i] \in Int /\ Credited[i] \in Int /\ Billed[i] \in Int
            /\ OverdueNow[i] \in Int /\ Nothing[i] \in Int
            /\ most[i] = DueNow[i] + owed[i]
            /\ Billed[i] = Credited[i] + other[i]
            /\ other[i] = Billed[i] + owed[i]
            /\ owed[i] = Nothing[i] + owed[i]
            /\ Nothing[i] = Credited[i] + owed[i]
            /\ OverdueNow[i] <= most[i]
      <4>1. \A i \in Invoices :
              /\ owed[i] = -Credited[i] /\ other[i] = Billed[i] - Credited[i]
              /\ most[i] = DueNow[i] - Credited[i]
        OBVIOUS
      <4>2. \A i \in Invoices :
              /\ DueNow[i] \in Int /\ Credited[i] \in Int /\ Billed[i] \in Int
              /\ OverdueNow[i] \in Int /\ Nothing[i] = 0
              /\ OverdueNow[i] <= DueNow[i] - Credited[i]
        BY <2>1 DEF TermsOK
      <4>. HIDE DEF owed, other, most
      <4>3. \A i \in Invoices : owed[i] \in Int /\ other[i] \in Int /\ most[i] \in Int
        BY <4>1, <4>2
      <4>4. \A i \in Invoices :
              /\ most[i] = DueNow[i] + owed[i]
              /\ Billed[i] = Credited[i] + other[i]
              /\ other[i] = Billed[i] + owed[i]
        BY <4>1, <4>2
      <4>5. \A i \in Invoices :
              /\ owed[i] = Nothing[i] + owed[i]
              /\ Nothing[i] = Credited[i] + owed[i]
        BY <4>1, <4>2
      <4>. QED
        BY <4>1, <4>2, <4>3, <4>4, <4>5
    <3>. HIDE DEF owed, other, most
    <3>3. Mixed(touched, OverdueNow, Billed) <= Mixed(touched, most, Billed)
      <4>1. \A i \in Invoices : (IF i \in touched THEN Billed[i] ELSE OverdueNow[i])
                                  <= (IF i \in touched THEN Billed[i] ELSE most[i])
        BY <3>2
      <4>. QED
        BY <2>1, <3>2, <4>1, MixedMonotone
    <3>4. Mixed(touched, most, Billed)
            = Mixed(touched, DueNow, Credited) + Mixed(touched, owed, other)
      BY <2>1, <3>2, MixedPlus
    <3>5. Mixed(touched, owed, other) = Mixed(touched, Nothing, Billed) + Mixed(touched, owed, owed)
      BY <2>1, <3>2, MixedPlus
    <3>6. Mixed(touched, Nothing, Billed) = SumFunctionOnSet(Billed, touched)
      <4>1. IsFiniteSet(Invoices \ touched) /\ IsFiniteSet(touched)
        BY <2>1, FS_Subset
      <4>2. \A i \in Invoices \ touched : Nothing[i] = 0
        BY DEF Nothing
      <4>3. SumFunctionOnSet(Nothing, Invoices \ touched) = 0
        BY <4>1, <4>2, SumZero
      <4>4. SumFunctionOnSet(Billed, touched) \in Int
        BY <2>1, <3>2, <4>1, SumInt
      <4>. QED
        BY <4>3, <4>4 DEF Mixed
    <3>7. Mixed(touched, owed, owed) = SumFunctionOnSet(owed, Invoices)
      <4>1. Mixed(touched, owed, owed) <= SumFunctionOnSet(owed, Invoices)
        BY <2>1, <3>2, MixedWhole
      <4>2. SumFunctionOnSet(owed, Invoices) <= Mixed(touched, owed, owed)
        BY <2>1, <3>2, MixedWhole
      <4>3. SumFunctionOnSet(owed, Invoices) \in Int /\ Mixed(touched, owed, owed) \in Int
        BY <2>1, <3>2, SumInt, MixedIsSum
      <4>. QED
        BY <4>1, <4>2, <4>3
    <3>8. SumFunctionOnSet(Credited, Invoices) + SumFunctionOnSet(owed, Invoices) = 0
      <4>1. SumFunctionOnSet(Nothing, Invoices)
              = SumFunctionOnSet(Credited, Invoices) + SumFunctionOnSet(owed, Invoices)
        BY <2>1, <3>2, SumPlus
      <4>2. \A i \in Invoices : Nothing[i] = 0
        BY DEF Nothing
      <4>. QED
        BY <2>1, <4>1, <4>2, SumZero
    <3>9. SumFunction(Credited) = SumFunctionOnSet(Credited, Invoices)
      BY DEF SumFunction, Credited
    <3>10. /\ Mixed(touched, OverdueNow, Billed) \in Int /\ Mixed(touched, most, Billed) \in Int
           /\ Mixed(touched, DueNow, Credited) \in Int
      BY <2>1, <3>2, MixedIsSum
    <3>11. /\ SumFunctionOnSet(Billed, touched) \in Int
           /\ SumFunctionOnSet(Credited, Invoices) \in Int
           /\ SumFunctionOnSet(owed, Invoices) \in Int
      <4>1. IsFiniteSet(touched)
        BY <2>1, FS_Subset
      <4>. QED
        BY <2>1, <3>2, <4>1, SumInt
    <3>. QED
      BY <2>1, <3>1, <3>3, <3>4, <3>5, <3>6, <3>7, <3>8, <3>9, <3>10, <3>11
  <2>3. figures.overdueCount <= figures.byStatus["SENT"]
          + figures.byStatus["PARTIALLY_PAID"] + Cardinality(touched)
    <3>. DEFINE A == InvoicesIn({"SENT"}) \ touched
                B == InvoicesIn({"PARTIALLY_PAID"}) \ touched
                E == Overdue \cup touched
    <3>1. /\ figures.overdueCount <= Cardinality(E)
          /\ figures.byStatus["SENT"] >= Cardinality(A)
          /\ figures.byStatus["PARTIALLY_PAID"] >= Cardinality(B)
      BY <2>1 DEF ReportInv, OverdueOK, ByStatusOK, InvoiceStatus
    <3>2. /\ A \in SUBSET Invoices /\ B \in SUBSET Invoices /\ E \in SUBSET Invoices
          /\ E \in SUBSET ((A \cup B) \cup touched)
      BY <2>1 DEF Overdue, InvoicesIn
    <3>. HIDE DEF A, B, E
    <3>3. /\ IsFiniteSet(A) /\ IsFiniteSet(B) /\ IsFiniteSet(E) /\ IsFiniteSet(touched)
      BY <2>1, <3>2, FS_Subset
    <3>4. /\ IsFiniteSet(A \cup B) /\ Cardinality(A \cup B) <= Cardinality(A) + Cardinality(B)
      <4>1. /\ IsFiniteSet(A \cup B)
            /\ Cardinality(A \cup B) = Cardinality(A) + Cardinality(B) - Cardinality(A \cap B)
        BY <3>3, FS_Union
      <4>2. IsFiniteSet(A \cap B)
        BY <3>3, FS_Subset
      <4>. QED
        BY <3>3, <4>1, <4>2, FS_CardinalityType
    <3>5. /\ IsFiniteSet((A \cup B) \cup touched)
          /\ Cardinality((A \cup B) \cup touched) <= Cardinality(A \cup B) + Cardinality(touched)
      <4>. DEFINE G == A \cup B
      <4>0. IsFiniteSet(G)
        BY <3>4
      <4>. HIDE DEF G
      <4>1. /\ IsFiniteSet(G \cup touched)
            /\ Cardinality(G \cup touched) = Cardinality(G) + Cardinality(touched) - Cardinality(G \cap touched)
        BY <3>3, <4>0, FS_Union
      <4>2. IsFiniteSet(G \cap touched)
        BY <3>3, FS_Subset
      <4>3. IsFiniteSet(G \cup touched)
            /\ Cardinality(G \cup touched) <= Cardinality(G) + Cardinality(touched)
        BY <3>3, <4>0, <4>1, <4>2, FS_CardinalityType
      <4>. QED
        BY <4>3 DEF G
    <3>6. Cardinality(E) <= Cardinality((A \cup B) \cup touched)
      BY <3>2, <3>5, FS_Subset
    <3>7. /\ Cardinality(A) \in Nat /\ Cardinality(B) \in Nat /\ Cardinality(E) \in Nat
          /\ Cardinality(touched) \in Nat /\ Cardinality(A \cup B) \in Nat
          /\ Cardinality((A \cup B) \cup touched) \in Nat
      BY <3>3, <3>4, <3>5, FS_CardinalityType
    <3>. QED
      BY <2>1, <3>1, <3>4, <3>5, <3>6, <3>7
  <2>. QED
    BY <2>2, <2>3
<1>. QED
  BY <1>1, ReportInvariant, PTL
=============================================================================
