------------------------- MODULE TradeStore_proofs -------------------------
(***************************************************************************)
(* The rows of a window's life agree, and what is recorded of a trade      *)
(* stands, for any windows, sessions, amounts and bounds.                  *)
(*                                                                         *)
(* The first part is about sums over tables: SumFunctionOnSet of the       *)
(* community modules folds a function over a finite set in an order nobody *)
(* names, so that any element can be added or taken out has to be proved.  *)
(* Induction is by the least counterexample among the subsets of a finite  *)
(* set, which needs no operator parameter.                                 *)
(***************************************************************************)
EXTENDS TradeStore, Functions, FiniteSetTheorems, WellFoundedInduction, TLAPS

\* A set of subsets of a finite set has a minimal one.
LEMMA LeastSubset ==
  ASSUME NEW S, IsFiniteSet(S), NEW C, C \subseteq SUBSET S, C # {}
  PROVE  \E T \in C : \A U \in C : U \subseteq T => U = T
<1>1. IsWellFoundedOn(StrictSubsetOrdering(S), SUBSET S)
  BY FS_StrictSubsetOrderingWellFounded, FS_FiniteSubsetsOfFinite
<1>2. PICK T \in C : \A U \in C : ~(<<U, T>> \in StrictSubsetOrdering(S))
  BY <1>1, WFMin
<1> QED
  BY <1>2 DEF StrictSubsetOrdering

\* The least-number principle, for a set of naturals.
LEMMA LeastNat ==
  ASSUME NEW T, T \subseteq Nat, T # {}
  PROVE  \E n \in T : \A m \in T : n <= m
<1> PICK k \in T : TRUE
  OBVIOUS
<1> DEFINE C == {0..n : n \in {n \in T : n <= k}}
<1>1. IsFiniteSet(0..k)
  BY FS_Interval
<1>2. C \subseteq SUBSET (0..k) /\ C # {}
  OBVIOUS
<1>3. \E A \in C : \A B \in C : B \subseteq A => B = A
  <2> DEFINE I == 0..k
  <2>1. IsFiniteSet(I) /\ C \subseteq SUBSET I /\ C # {}
    BY <1>1, <1>2
  <2> HIDE DEF C, I
  <2> QED
    BY <2>1, LeastSubset
<1>p. PICK A \in C : \A B \in C : B \subseteq A => B = A
  BY <1>3
<1>4. PICK n \in T : n <= k /\ A = 0..n
  OBVIOUS
<1>5. ASSUME NEW m \in T, m < n PROVE FALSE
  <2>1. 0..m \in C /\ 0..m \subseteq A
    BY <1>4, <1>5
  <2>2. 0..m = 0..n
    BY <2>1, <1>p, <1>4
  <2>3. n \in 0..n /\ n \notin 0..m
    BY <1>5
  <2> QED
    BY <2>2, <2>3
<1> QED
  BY <1>5

-----------------------------------------------------------------------------
Chosen(s) == CHOOSE x \in s : TRUE

\* The function the fold computes with.
IsSum(it, f, S) ==
  it = [s \in SUBSET S |-> IF s = {} THEN 0 ELSE f[Chosen(s)] + it[s \ {Chosen(s)}]]

SumUpTo(g, f, S, n) ==
  \A s \in SUBSET S : Cardinality(s) <= n =>
    g[s] = IF s = {} THEN 0 ELSE f[Chosen(s)] + g[s \ {Chosen(s)}]

LEMMA ChosenIn == ASSUME NEW s, s # {} PROVE Chosen(s) \in s
  BY DEF Chosen

LEMMA SmallerWithout ==
  ASSUME NEW s, IsFiniteSet(s), NEW x \in s
  PROVE  /\ IsFiniteSet(s \ {x})
         /\ Cardinality(s) \in Nat /\ Cardinality(s \ {x}) \in Nat
         /\ Cardinality(s \ {x}) = Cardinality(s) - 1
  BY FS_RemoveElement, FS_CardinalityType

\* Subsets of at most n elements can be summed, for every n.
LEMMA SumUpToExists ==
  ASSUME NEW S, IsFiniteSet(S), NEW f
  PROVE  \A n \in Nat : \E g : SumUpTo(g, f, S, n)
<1> DEFINE Bad == {n \in Nat : ~\E g : SumUpTo(g, f, S, n)}
<1> SUFFICES ASSUME Bad # {} PROVE FALSE
  OBVIOUS
<1>1. PICK n \in Bad : \A m \in Bad : n <= m
  <2>1. Bad \subseteq Nat
    OBVIOUS
  <2> HIDE DEF Bad
  <2> QED
    BY <2>1, LeastNat
<1>f. \A s \in SUBSET S : IsFiniteSet(s) /\ Cardinality(s) \in Nat
  BY FS_Subset, FS_CardinalityType
<1>2. n # 0
  <2> DEFINE g == [s \in SUBSET S |-> 0]
  <2>1. \A s \in SUBSET S : Cardinality(s) <= 0 => s = {}
    BY <1>f, FS_EmptySet
  <2>2. SumUpTo(g, f, S, 0)
    BY <2>1 DEF SumUpTo
  <2> QED
    BY <2>2
<1>3. n \in Nat /\ n - 1 \in Nat /\ n - 1 \notin Bad
  BY <1>1, <1>2
<1>4. PICK g : SumUpTo(g, f, S, n - 1)
  BY <1>3
<1> DEFINE h == [s \in SUBSET S |->
                   IF Cardinality(s) <= n - 1 THEN g[s]
                   ELSE f[Chosen(s)] + g[s \ {Chosen(s)}]]
<1>5. ASSUME NEW s \in SUBSET S, Cardinality(s) <= n
      PROVE  h[s] = IF s = {} THEN 0 ELSE f[Chosen(s)] + h[s \ {Chosen(s)}]
  <2>1. CASE s = {}
    <3>1. Cardinality(s) <= n - 1
      BY <2>1, <1>3, FS_EmptySet
    <3> QED
      BY <2>1, <3>1, <1>4 DEF SumUpTo
  <2>2. CASE s # {}
    <3>1. Chosen(s) \in s /\ s \ {Chosen(s)} \in SUBSET S
      BY <2>2, ChosenIn
    <3>2. Cardinality(s \ {Chosen(s)}) <= n - 1
      BY <3>1, <1>3, <1>5, <1>f, SmallerWithout
    <3>3. h[s \ {Chosen(s)}] = g[s \ {Chosen(s)}]
      BY <3>1, <3>2
    <3>4. h[s] = f[Chosen(s)] + g[s \ {Chosen(s)}]
      BY <1>4, <2>2 DEF SumUpTo
    <3> QED
      BY <2>2, <3>3, <3>4
  <2> QED
    BY <2>1, <2>2
<1>6. SumUpTo(h, f, S, n)
  BY <1>5 DEF SumUpTo
<1> QED
  BY <1>6

LEMMA SumExists ==
  ASSUME NEW S, IsFiniteSet(S), NEW f
  PROVE  \E it : IsSum(it, f, S)
<1>1. Cardinality(S) \in Nat
  BY FS_CardinalityType
<1>2. PICK g : SumUpTo(g, f, S, Cardinality(S))
  BY <1>1, SumUpToExists
<1> DEFINE it == [s \in SUBSET S |-> g[s]]
<1>3. \A s \in SUBSET S : Cardinality(s) <= Cardinality(S)
  BY FS_Subset
<1>4. ASSUME NEW s \in SUBSET S
      PROVE  it[s] = IF s = {} THEN 0 ELSE f[Chosen(s)] + it[s \ {Chosen(s)}]
  BY <1>2, <1>3, ChosenIn DEF SumUpTo
<1>5. IsSum(it, f, S)
  BY <1>4 DEF IsSum
<1> QED
  BY <1>5

LEMMA SumUnfolds ==
  ASSUME NEW S, IsFiniteSet(S), NEW f
  PROVE  \E it : IsSum(it, f, S) /\ SumFunctionOnSet(f, S) = it[S]
<1> DEFINE it == CHOOSE it : IsSum(it, f, S)
<1>1. IsSum(it, f, S)
  BY SumExists
<1>2. SumFunctionOnSet(f, S) = it[S]
  BY DEF SumFunctionOnSet, FoldFunctionOnSet, MapThenFoldSet, IsSum, Chosen
<1> QED
  BY <1>1, <1>2

\* What is summed is the values on the set, and nothing else.
LEMMA SumUnique ==
  ASSUME NEW S1, NEW S2, NEW f, NEW g, NEW i1, NEW i2, NEW T,
         IsSum(i1, f, S1), IsSum(i2, g, S2),
         IsFiniteSet(T), T \subseteq S1, T \subseteq S2, \A x \in T : f[x] = g[x]
  PROVE  i1[T] = i2[T]
<1> DEFINE Bad == {U \in SUBSET T : i1[U] # i2[U]}
<1> SUFFICES ASSUME Bad # {} PROVE FALSE
  OBVIOUS
<1>1. PICK U \in Bad : \A V \in Bad : V \subseteq U => V = U
  <2>1. Bad \subseteq SUBSET T
    OBVIOUS
  <2> HIDE DEF Bad
  <2> QED
    BY <2>1, LeastSubset
<1>2. /\ i1[U] = IF U = {} THEN 0 ELSE f[Chosen(U)] + i1[U \ {Chosen(U)}]
      /\ i2[U] = IF U = {} THEN 0 ELSE g[Chosen(U)] + i2[U \ {Chosen(U)}]
  BY DEF IsSum
<1>3. U # {}
  BY <1>2
<1>4. Chosen(U) \in U
  BY <1>3, ChosenIn
<1>5. i1[U \ {Chosen(U)}] = i2[U \ {Chosen(U)}]
  BY <1>1, <1>4
<1> QED
  BY <1>2, <1>3, <1>4, <1>5

-----------------------------------------------------------------------------
LEMMA SumAgrees ==
  ASSUME NEW S, IsFiniteSet(S), NEW f, NEW g, \A x \in S : f[x] = g[x]
  PROVE  SumFunctionOnSet(f, S) = SumFunctionOnSet(g, S)
<1>1. PICK i1 : IsSum(i1, f, S) /\ SumFunctionOnSet(f, S) = i1[S]
  BY SumUnfolds
<1>2. PICK i2 : IsSum(i2, g, S) /\ SumFunctionOnSet(g, S) = i2[S]
  BY SumUnfolds
<1>3. ASSUME NEW T, T \subseteq S, IsFiniteSet(T) PROVE i1[T] = i2[T]
  <2>1. IsSum(i1, f, S) /\ IsSum(i2, g, S)
    BY <1>1, <1>2
  <2>2. \A x \in T : f[x] = g[x]
    BY <1>3
  <2> QED
    BY <2>1, <2>2, <1>3, SumUnique
<1>4. S \subseteq S
  OBVIOUS
<1>5. i1[S] = i2[S]
  BY <1>3, <1>4
<1> QED
  BY <1>1, <1>2, <1>5

LEMMA SumEmpty == ASSUME NEW f PROVE SumFunctionOnSet(f, {}) = 0
<1>1. IsFiniteSet({})
  BY FS_EmptySet
<1>2. PICK it : IsSum(it, f, {}) /\ SumFunctionOnSet(f, {}) = it[{}]
  BY <1>1, SumUnfolds
<1> QED
  BY <1>2 DEF IsSum

LEMMA SumStep ==
  ASSUME NEW S, IsFiniteSet(S), S # {}, NEW f
  PROVE  SumFunctionOnSet(f, S) = f[Chosen(S)] + SumFunctionOnSet(f, S \ {Chosen(S)})
<1> DEFINE R == S \ {Chosen(S)}
<1>1. IsFiniteSet(R)
  BY FS_Subset
<1>2. PICK i1 : IsSum(i1, f, S) /\ SumFunctionOnSet(f, S) = i1[S]
  BY SumUnfolds
<1>3. PICK i2 : IsSum(i2, f, R) /\ SumFunctionOnSet(f, R) = i2[R]
  BY <1>1, SumUnfolds
<1>4. i1[R] = i2[R]
  BY <1>1, <1>2, <1>3, SumUnique
<1>5. i1[S] = f[Chosen(S)] + i1[R]
  BY <1>2 DEF IsSum
<1> QED
  BY <1>2, <1>3, <1>4, <1>5

\* A sum of integers is an integer.
LEMMA SumType ==
  ASSUME NEW S, IsFiniteSet(S), NEW f, \A x \in S : f[x] \in Int
  PROVE  SumFunctionOnSet(f, S) \in Int
<1> DEFINE Bad == {U \in SUBSET S : SumFunctionOnSet(f, U) \notin Int}
<1> SUFFICES ASSUME Bad # {} PROVE FALSE
  OBVIOUS
<1>1. PICK U \in Bad : \A V \in Bad : V \subseteq U => V = U
  <2>1. Bad \subseteq SUBSET S
    OBVIOUS
  <2> HIDE DEF Bad
  <2> QED
    BY <2>1, LeastSubset
<1>2. U # {}
  BY SumEmpty
<1>3. Chosen(U) \in U
  BY <1>2, ChosenIn
<1>4. SumFunctionOnSet(f, U \ {Chosen(U)}) \in Int
  BY <1>1, <1>3
<1>5. IsFiniteSet(U)
  BY FS_Subset
<1>6. SumFunctionOnSet(f, U) = f[Chosen(U)] + SumFunctionOnSet(f, U \ {Chosen(U)})
  BY <1>2, <1>5, SumStep
<1>7. f[Chosen(U)] \in Int
  BY <1>3
<1> QED
  BY <1>4, <1>6, <1>7

\* Any element can be taken out.
LEMMA SumWithout ==
  ASSUME NEW S, IsFiniteSet(S), NEW f, \A x \in S : f[x] \in Int, NEW w \in S
  PROVE  SumFunctionOnSet(f, S) = f[w] + SumFunctionOnSet(f, S \ {w})
<1> DEFINE Bad == {U \in SUBSET S : \E x \in U :
                     SumFunctionOnSet(f, U) # f[x] + SumFunctionOnSet(f, U \ {x})}
<1> SUFFICES ASSUME Bad # {} PROVE FALSE
  OBVIOUS
<1>1. PICK U \in Bad : \A V \in Bad : V \subseteq U => V = U
  <2>1. Bad \subseteq SUBSET S
    OBVIOUS
  <2> HIDE DEF Bad
  <2> QED
    BY <2>1, LeastSubset
<1>2. PICK x \in U : SumFunctionOnSet(f, U) # f[x] + SumFunctionOnSet(f, U \ {x})
  OBVIOUS
<1> DEFINE c == Chosen(U)
           rest == SumFunctionOnSet(f, (U \ {c}) \ {x})
<1>3. c \in U
  BY ChosenIn
<1>4. IsFiniteSet(U) /\ IsFiniteSet(U \ {c}) /\ IsFiniteSet(U \ {x}) /\ IsFiniteSet((U \ {c}) \ {x})
  BY FS_Subset
<1>5. SumFunctionOnSet(f, U) = f[c] + SumFunctionOnSet(f, U \ {c})
  BY <1>3, <1>4, SumStep
<1>6. x # c
  BY <1>2, <1>5
<1>7. SumFunctionOnSet(f, U \ {c}) = f[x] + rest
  <2>1. U \ {c} \notin Bad /\ U \ {c} \in SUBSET S /\ x \in U \ {c}
    BY <1>1, <1>3, <1>6
  <2> QED
    BY <2>1
<1>8. SumFunctionOnSet(f, U \ {x}) = f[c] + rest
  <2>1. (U \ {x}) \ {c} = (U \ {c}) \ {x}
    OBVIOUS
  <2>2. U \ {x} \notin Bad /\ U \ {x} \in SUBSET S /\ c \in U \ {x}
    BY <1>1, <1>3, <1>6
  <2>3. SumFunctionOnSet(f, U \ {x}) = f[c] + SumFunctionOnSet(f, (U \ {x}) \ {c})
    BY <2>2
  <2> QED
    BY <2>1, <2>3
<1>9. rest \in Int /\ f[c] \in Int /\ f[x] \in Int
  <2>1. \A y \in (U \ {c}) \ {x} : f[y] \in Int
    OBVIOUS
  <2> QED
    BY <1>3, <1>4, <2>1, SumType
<1> HIDE DEF rest, c
<1> QED
  BY <1>2, <1>5, <1>7, <1>8, <1>9

\* A new element adds its value.
LEMMA SumWith ==
  ASSUME NEW S, IsFiniteSet(S), NEW f, NEW w, w \notin S, \A x \in S \cup {w} : f[x] \in Int
  PROVE  SumFunctionOnSet(f, S \cup {w}) = f[w] + SumFunctionOnSet(f, S)
<1>1. IsFiniteSet(S \cup {w})
  BY FS_AddElement
<1>2. (S \cup {w}) \ {w} = S
  OBVIOUS
<1> QED
  BY <1>1, <1>2, SumWithout

\* A sum of naturals is a natural.
LEMMA SumNat ==
  ASSUME NEW S, IsFiniteSet(S), NEW f, \A x \in S : f[x] \in Nat
  PROVE  SumFunctionOnSet(f, S) \in Nat
<1> DEFINE Bad == {U \in SUBSET S : SumFunctionOnSet(f, U) \notin Nat}
<1> SUFFICES ASSUME Bad # {} PROVE FALSE
  OBVIOUS
<1>1. PICK U \in Bad : \A V \in Bad : V \subseteq U => V = U
  <2>1. Bad \subseteq SUBSET S
    OBVIOUS
  <2> HIDE DEF Bad
  <2> QED
    BY <2>1, LeastSubset
<1>2. U # {}
  BY SumEmpty
<1>3. Chosen(U) \in U
  BY <1>2, ChosenIn
<1>4. SumFunctionOnSet(f, U \ {Chosen(U)}) \in Nat
  BY <1>1, <1>3
<1>5. IsFiniteSet(U)
  BY FS_Subset
<1>6. SumFunctionOnSet(f, U) = f[Chosen(U)] + SumFunctionOnSet(f, U \ {Chosen(U)})
  BY <1>2, <1>5, SumStep
<1>7. f[Chosen(U)] \in Nat
  BY <1>3
<1> QED
  BY <1>4, <1>6, <1>7

LEMMA SumZero ==
  ASSUME NEW S, IsFiniteSet(S), NEW f, \A x \in S : f[x] = 0
  PROVE  SumFunctionOnSet(f, S) = 0
<1> DEFINE Bad == {U \in SUBSET S : SumFunctionOnSet(f, U) # 0}
<1> SUFFICES ASSUME Bad # {} PROVE FALSE
  OBVIOUS
<1>1. PICK U \in Bad : \A V \in Bad : V \subseteq U => V = U
  <2>1. Bad \subseteq SUBSET S
    OBVIOUS
  <2> HIDE DEF Bad
  <2> QED
    BY <2>1, LeastSubset
<1>2. U # {}
  BY SumEmpty
<1>3. Chosen(U) \in U
  BY <1>2, ChosenIn
<1>4. SumFunctionOnSet(f, U \ {Chosen(U)}) = 0
  BY <1>1, <1>3
<1>5. IsFiniteSet(U)
  BY FS_Subset
<1>6. SumFunctionOnSet(f, U) = f[Chosen(U)] + SumFunctionOnSet(f, U \ {Chosen(U)})
  BY <1>2, <1>5, SumStep
<1>7. f[Chosen(U)] = 0
  BY <1>3
<1> QED
  BY <1>4, <1>6, <1>7

LEMMA SumSingle ==
  ASSUME NEW f, NEW x, f[x] \in Int
  PROVE  SumFunctionOnSet(f, {x}) = f[x]
<1>1. IsFiniteSet({x}) /\ {x} \ {x} = {}
  BY FS_Singleton
<1>2. SumFunctionOnSet(f, {x}) = f[x] + SumFunctionOnSet(f, {x} \ {x})
  BY <1>1, SumWithout
<1> QED
  BY <1>1, <1>2, SumEmpty

\* Sums of two functions that differ in one element, in three ways: the second
\* has it, the first has it, both have it.
LEMMA SumGrows ==
  ASSUME NEW S, IsFiniteSet(S), NEW f, NEW g, NEW w, w \notin S,
         \A x \in S : f[x] \in Int /\ g[x] = f[x], g[w] \in Int
  PROVE  SumFunctionOnSet(g, S \cup {w}) = SumFunctionOnSet(f, S) + g[w]
<1>1. SumFunctionOnSet(g, S) = SumFunctionOnSet(f, S)
  BY SumAgrees
<1>2. SumFunctionOnSet(f, S) \in Int
  BY SumType
<1>3. SumFunctionOnSet(g, S \cup {w}) = g[w] + SumFunctionOnSet(g, S)
  BY SumWith
<1> QED
  BY <1>1, <1>2, <1>3

LEMMA SumShrinks ==
  ASSUME NEW S, IsFiniteSet(S), NEW f, NEW g, NEW w \in S,
         \A x \in S : f[x] \in Int, \A x \in S \ {w} : g[x] = f[x]
  PROVE  SumFunctionOnSet(g, S \ {w}) = SumFunctionOnSet(f, S) - f[w]
<1>1. IsFiniteSet(S \ {w})
  BY FS_Subset
<1>2. SumFunctionOnSet(g, S \ {w}) = SumFunctionOnSet(f, S \ {w})
  BY <1>1, SumAgrees
<1>3. SumFunctionOnSet(f, S \ {w}) \in Int
  BY <1>1, SumType
<1>4. SumFunctionOnSet(f, S) = f[w] + SumFunctionOnSet(f, S \ {w})
  BY SumWithout
<1> QED
  BY <1>2, <1>3, <1>4

LEMMA SumChanges ==
  ASSUME NEW S, IsFiniteSet(S), NEW f, NEW g, NEW w \in S,
         \A x \in S : f[x] \in Int /\ g[x] \in Int, \A x \in S \ {w} : g[x] = f[x]
  PROVE  SumFunctionOnSet(g, S) = SumFunctionOnSet(f, S) - f[w] + g[w]
<1>1. SumFunctionOnSet(g, S \ {w}) = SumFunctionOnSet(f, S) - f[w]
  BY SumShrinks
<1>2. SumFunctionOnSet(g, S) = g[w] + SumFunctionOnSet(g, S \ {w})
  BY SumWithout
<1>3. SumFunctionOnSet(f, S) \in Int
  BY SumType
<1> QED
  BY <1>1, <1>2, <1>3

-----------------------------------------------------------------------------
\* The tables are tables, and histories are sequences: the part of TypeOK the
\* rest of the invariant leans on.
Tables ==
  /\ IsTable(lock, LockRow)
  /\ IsTable(entry, EntryRow)
  /\ IsTable(position, PositionRow)
  /\ exits \in [Windows -> Seq(ExitRow)]
  /\ decisions \in [Windows -> Seq(Actions)]

IInv == Tables /\ LifecyclesAgree

Side(w) == entry[w].side

-----------------------------------------------------------------------------
LEMMA InsertTable ==
  ASSUME NEW table, NEW Row, IsTable(table, Row), NEW w \in Windows, NEW row \in Row
  PROVE  /\ IsTable(Insert(table, w, row), Row)
         /\ DOMAIN Insert(table, w, row) = DOMAIN table \cup {w}
         /\ Insert(table, w, row)[w] = row
         /\ \A x \in DOMAIN table : x # w => Insert(table, w, row)[x] = table[x]
  BY DEF IsTable, Insert

LEMMA DeleteTable ==
  ASSUME NEW table, NEW Row, IsTable(table, Row), NEW W
  PROVE  /\ IsTable(Delete(table, W), Row)
         /\ DOMAIN Delete(table, W) = DOMAIN table \ W
         /\ \A x \in DOMAIN table \ W : Delete(table, W)[x] = table[x]
  BY DEF IsTable, Delete

LEMMA InitIInv == StoreInit => IInv
<1> SUFFICES ASSUME StoreInit PROVE IInv
  OBVIOUS
<1>1. DOMAIN lock = {} /\ DOMAIN entry = {} /\ DOMAIN position = {}
  BY DEF StoreInit
<1> QED
  BY <1>1 DEF StoreInit, IInv, Tables, IsTable, LifecyclesAgree

\* The amounts an entry is opened with are naturals.
LEMMA OpenRows ==
  ASSUME NEW side \in Sides, NEW s \in Sessions, NEW cost \in Costs, NEW fee \in Fees
  PROVE  /\ [status |-> "OPEN", side |-> side, cost |-> cost, fee |-> fee] \in EntryRow
         /\ [status |-> "OPEN", committed |-> cost + fee] \in PositionRow
         /\ [state |-> "ENTERED", side |-> side, session |-> s, reserved |-> 0] \in LockRow
  BY StoreAssumption DEF EntryRow, PositionRow, LockRow

\* A new entry of a window without one comes with its position and lock.
LEMMA OpenKeeps ==
  ASSUME IInv, NEW w \in Windows, NEW side \in Sides, NEW s \in Sessions,
         NEW cost \in Costs, NEW fee \in Fees,
         w \notin DOMAIN entry, OpenEntry(w, side, s, cost, fee)
  PROVE  IInv'
<1> DEFINE erow == [status |-> "OPEN", side |-> side, cost |-> cost, fee |-> fee]
           prow == [status |-> "OPEN", committed |-> cost + fee]
           lrow == [state |-> "ENTERED", side |-> side, session |-> s, reserved |-> 0]
<1>1. erow \in EntryRow /\ prow \in PositionRow /\ lrow \in LockRow
  BY OpenRows
<1>2. entry' = Insert(entry, w, erow) /\ position' = Insert(position, w, prow)
      /\ lock' = Insert(lock, w, lrow)
      /\ UNCHANGED <<exits, decisions, attempts>>
  BY DEF OpenEntry
<1>3. /\ erow.status = "OPEN" /\ erow.side = side /\ erow.cost = cost /\ erow.fee = fee
      /\ prow.status = "OPEN" /\ prow.committed = cost + fee
      /\ lrow.state = "ENTERED" /\ lrow.side = side
  OBVIOUS
<1> HIDE DEF erow, prow, lrow
<1>4. Tables'
  <2>1. IsTable(lock', LockRow)
    BY <1>1, <1>2, InsertTable DEF IInv, Tables
  <2>2. IsTable(entry', EntryRow)
    BY <1>1, <1>2, InsertTable DEF IInv, Tables
  <2>3. IsTable(position', PositionRow)
    BY <1>1, <1>2, InsertTable DEF IInv, Tables
  <2> QED
    BY <1>2, <2>1, <2>2, <2>3 DEF IInv, Tables
<1>5. /\ DOMAIN entry' = DOMAIN entry \cup {w} /\ entry'[w] = erow
      /\ \A x \in DOMAIN entry : x # w => entry'[x] = entry[x]
  BY <1>2 DEF Insert
<1>6. /\ DOMAIN position' = DOMAIN position \cup {w} /\ position'[w] = prow
      /\ \A x \in DOMAIN position : x # w => position'[x] = position[x]
  BY <1>2 DEF Insert
<1>7. /\ DOMAIN lock' = DOMAIN lock \cup {w} /\ lock'[w] = lrow
      /\ \A x \in DOMAIN lock : x # w => lock'[x] = lock[x]
  BY <1>2 DEF Insert
<1>8. exits[w] = <<>>
  BY DEF IInv, LifecyclesAgree
<1>9. LifecyclesAgree'
  BY <1>2, <1>3, <1>5, <1>6, <1>7, <1>8 DEF IInv, LifecyclesAgree
<1> QED
  BY <1>4, <1>9 DEF IInv

\* A settlement of an open position closes its rows together and leaves the
\* first exit.
LEMMA SettleKeeps ==
  ASSUME IInv, NEW w \in Windows, IsOpen(w),
         NEW source \in {"BOOK", "OFFICIAL_RESOLUTION"}, NEW outcome \in Verdicts,
         NEW payout \in Nat, NEW fee \in Nat,
         Settle(w, source, outcome, payout, fee),
         decisions' \in [Windows -> Seq(Actions)],
         \A x \in Windows \ DOMAIN entry : decisions'[x] = decisions[x]
  PROVE  IInv'
<1> DEFINE row == [source |-> source, outcome |-> outcome,
                   net |-> payout - entry[w].cost - entry[w].fee - fee]
<1>1. /\ w \in DOMAIN position /\ w \in DOMAIN entry /\ w \in DOMAIN lock
      /\ position[w].status = "OPEN" /\ entry[w].status = "OPEN"
      /\ Len(exits[w]) = 0
  BY DEF IInv, LifecyclesAgree, IsOpen
<1>2. entry[w] \in EntryRow /\ position[w] \in PositionRow /\ lock[w] \in LockRow
  BY <1>1 DEF IInv, Tables, IsTable
<1>3. row \in ExitRow
  BY <1>2 DEF EntryRow, ExitRow
<1>4. exits' = [exits EXCEPT ![w] = Append(@, row)]
  BY DEF Settle
<1> HIDE DEF row
<1>5. exits' \in [Windows -> Seq(ExitRow)] /\ Len(exits'[w]) = 1
      /\ \A x \in Windows : x # w => exits'[x] = exits[x]
  BY <1>1, <1>3, <1>4 DEF IInv, Tables
<1>6. /\ DOMAIN entry' = DOMAIN entry
      /\ entry'[w].status = "CLOSED" /\ entry'[w] \in EntryRow
      /\ entry'[w].side = entry[w].side
      /\ entry'[w].cost = entry[w].cost /\ entry'[w].fee = entry[w].fee
      /\ \A x \in DOMAIN entry : x # w => entry'[x] = entry[x]
  BY <1>1, <1>2 DEF Settle, EntryRow
<1>7. /\ DOMAIN position' = DOMAIN position
      /\ position'[w].status = "CLOSED" /\ position'[w] \in PositionRow
      /\ position'[w].committed = position[w].committed
      /\ \A x \in DOMAIN position : x # w => position'[x] = position[x]
  BY <1>1, <1>2 DEF Settle, PositionRow
<1>8. /\ DOMAIN lock' = DOMAIN lock
      /\ lock'[w].state = "COMPLETE" /\ lock'[w] \in LockRow
      /\ lock'[w].side = lock[w].side
      /\ \A x \in DOMAIN lock : x # w => lock'[x] = lock[x]
  BY <1>1, <1>2 DEF Settle, LockRow
<1>9. Tables'
  <2>1. IsTable(entry', EntryRow)
    BY <1>1, <1>6 DEF IInv, Tables, IsTable, Settle
  <2>2. IsTable(position', PositionRow)
    BY <1>1, <1>7 DEF IInv, Tables, IsTable, Settle
  <2>3. IsTable(lock', LockRow)
    BY <1>1, <1>8 DEF IInv, Tables, IsTable, Settle
  <2> QED
    BY <1>5, <2>1, <2>2, <2>3 DEF Tables
<1>10. ASSUME NEW x \in DOMAIN entry
       PROVE  /\ entry'[x].status = position'[x].status
              /\ position'[x].committed = entry'[x].cost + entry'[x].fee
              /\ x \in DOMAIN lock' /\ lock'[x].side = entry'[x].side
              /\ \/ /\ entry'[x].status = "OPEN" /\ lock'[x].state = "ENTERED"
                    /\ Len(exits'[x]) = 0
                 \/ /\ entry'[x].status = "CLOSED" /\ lock'[x].state = "COMPLETE"
                    /\ Len(exits'[x]) = 1
  <2>1. CASE x = w
    BY <1>1, <1>5, <1>6, <1>7, <1>8, <2>1 DEF IInv, LifecyclesAgree
  <2>2. CASE x # w
    <3>1. x \in Windows
      BY DEF IInv, Tables, IsTable
    <3> QED
      BY <1>5, <1>6, <1>7, <1>8, <2>2, <3>1 DEF IInv, LifecyclesAgree
  <2> QED
    BY <2>1, <2>2
<1>11. \A x \in Windows \ DOMAIN entry : exits'[x] = <<>> /\ decisions'[x] = <<>>
  BY <1>1, <1>5 DEF IInv, LifecyclesAgree
<1>12. LifecyclesAgree'
  BY <1>6, <1>7, <1>10, <1>11 DEF IInv, LifecyclesAgree
<1> QED
  BY <1>9, <1>12 DEF IInv

\* A management decision is added to a window that has an entry, and the
\* book exit it may bring settles an open position.
LEMMA ManageKeeps ==
  ASSUME IInv, NEW w \in Windows, NEW seq \in Nat, NEW action \in Actions,
         NEW close \in BOOLEAN, NEW price \in Prices, NEW fee \in Fees,
         ManageBundle(w, seq, action, close, price, fee)
  PROVE  IInv'
<1>1. w \in DOMAIN entry /\ decisions' = [decisions EXCEPT ![w] = Record(@, seq, action)]
  BY DEF ManageBundle, IInv, LifecyclesAgree
<1>2. Record(decisions[w], seq, action) \in Seq(Actions)
  BY DEF Record, IInv, Tables
<1>3. /\ decisions' \in [Windows -> Seq(Actions)]
      /\ \A x \in Windows \ DOMAIN entry : decisions'[x] = decisions[x]
  BY <1>1, <1>2 DEF IInv, Tables
<1>4. CASE close /\ IsOpen(w)
  <2>1. Settle(w, "BOOK", "PENDING", price, fee)
    BY <1>4 DEF ManageBundle
  <2>2. price \in Nat /\ fee \in Nat /\ "PENDING" \in Verdicts
    BY StoreAssumption DEF Verdicts
  <2> QED
    BY <1>3, <1>4, <2>1, <2>2, SettleKeeps
<1>5. CASE ~(close /\ IsOpen(w))
  <2>1. UNCHANGED <<exits, position, entry, lock>>
    BY <1>5 DEF ManageBundle, NoSettlement
  <2> QED
    BY <1>3, <2>1 DEF IInv, Tables, LifecyclesAgree
<1> QED
  BY <1>4, <1>5

LEMMA ResolveKeeps ==
  ASSUME IInv, NEW w \in Windows, NEW no \in Nat, NEW e \in Evidence,
         NEW close \in BOOLEAN, NEW outcome \in Sides,
         ResolveBundle(w, no, e, close, outcome)
  PROVE  IInv'
<1>1. CASE close /\ IsOpen(w)
  <2> DEFINE payout == IF outcome = entry[w].side THEN Payout ELSE 0
  <2>1. Settle(w, "OFFICIAL_RESOLUTION", outcome, payout, 0) /\ UNCHANGED decisions
    BY <1>1 DEF ResolveBundle
  <2>2. payout \in Nat /\ outcome \in Verdicts /\ 0 \in Nat
    BY StoreAssumption DEF Verdicts
  <2>3. decisions' \in [Windows -> Seq(Actions)]
    BY <2>1 DEF IInv, Tables
  <2> HIDE DEF payout
  <2> QED
    BY <1>1, <2>1, <2>2, <2>3, SettleKeeps
<1>2. CASE ~(close /\ IsOpen(w))
  <2>1. UNCHANGED <<exits, position, entry, lock, decisions>>
    BY <1>2 DEF ResolveBundle, NoSettlement
  <2> QED
    BY <2>1 DEF IInv, Tables, LifecyclesAgree
<1> QED
  BY <1>1, <1>2

\* Reconciliation deletes only locks of windows without an entry.
LEMMA ReconcileKeeps ==
  ASSUME IInv, NEW s, NEW absent, Reconcile(s, absent)
  PROVE  IInv'
<1>1. lock' = Delete(lock, Stale(s, absent))
      /\ UNCHANGED <<entry, position, exits, decisions>>
  BY DEF Reconcile
<1>2. Stale(s, absent) \cap DOMAIN entry = {}
  BY DEF Stale
<1>3. IsTable(lock', LockRow) /\ DOMAIN lock' = DOMAIN lock \ Stale(s, absent)
      /\ \A x \in DOMAIN entry : x \in DOMAIN lock => lock'[x] = lock[x]
  BY <1>1, <1>2, DeleteTable DEF IInv, Tables, Delete
<1>4. Tables'
  BY <1>1, <1>3 DEF IInv, Tables
<1>5. LifecyclesAgree'
  BY <1>1, <1>2, <1>3 DEF IInv, LifecyclesAgree
<1> QED
  BY <1>4, <1>5 DEF IInv

LEMMA TradeKeeps ==
  ASSUME IInv, NEW s \in Sessions, Trade(s)
  PROVE  IInv'
<1> PICK w \in Windows :
       \/ \E side \in Sides, cost \in Costs, fee \in Fees, expired \in BOOLEAN :
            EnterBundle(w, side, s, cost, fee, expired)
       \/ \E seq \in 1..MaxDecisions, action \in Actions, close \in BOOLEAN,
             price \in Prices, fee \in Fees :
            ManageBundle(w, seq, action, close, price, fee)
       \/ \E no \in 1..MaxAttempts, e \in Evidence, close \in BOOLEAN, outcome \in Sides :
            ResolveBundle(w, no, e, close, outcome)
  BY DEF Trade
<1>1. ASSUME NEW side \in Sides, NEW cost \in Costs, NEW fee \in Fees,
             NEW expired \in BOOLEAN, EnterBundle(w, side, s, cost, fee, expired)
      PROVE  IInv'
  <2>1. CASE EntryExists(w, side)
    BY <1>1, <2>1 DEF EnterBundle, rows, IInv, Tables, LifecyclesAgree
  <2>2. CASE ~EntryExists(w, side)
    <3>1. OpenEntry(w, side, s, cost, fee) /\ ~WindowConflict(w, side, s)
      BY <1>1, <2>2 DEF EnterBundle, EnterRefusal
    <3>2. w \notin DOMAIN entry
      BY <2>2, <3>1 DEF EntryExists, WindowConflict, IInv, LifecyclesAgree
    <3> QED
      BY <3>1, <3>2, OpenKeeps
  <2> QED
    BY <2>1, <2>2
<1>2. ASSUME NEW seq \in 1..MaxDecisions, NEW action \in Actions, NEW close \in BOOLEAN,
             NEW price \in Prices, NEW fee \in Fees,
             ManageBundle(w, seq, action, close, price, fee)
      PROVE  IInv'
  BY <1>2, ManageKeeps, StoreAssumption
<1>3. ASSUME NEW no \in 1..MaxAttempts, NEW e \in Evidence, NEW close \in BOOLEAN,
             NEW outcome \in Sides, ResolveBundle(w, no, e, close, outcome)
      PROVE  IInv'
  BY <1>3, ResolveKeeps, StoreAssumption
<1> QED
  BY <1>1, <1>2, <1>3

LEMMA NextIInv == IInv /\ [StoreNext]_storeVars => IInv'
<1> SUFFICES ASSUME IInv, [StoreNext]_storeVars PROVE IInv'
  OBVIOUS
<1>1. ASSUME NEW s \in Sessions, Trade(s) PROVE IInv'
  BY <1>1, TradeKeeps
<1>2. ASSUME NEW s \in Sessions, NEW absent \in SUBSET Sessions, Startup(s, absent)
      PROVE  IInv'
  BY <1>2, ReconcileKeeps DEF Startup
<1>3. ASSUME UNCHANGED rows PROVE IInv'
  BY <1>3 DEF rows, IInv, Tables, LifecyclesAgree
<1>4. ASSUME NEW s \in Sessions, End(s) PROVE UNCHANGED rows
  BY <1>4 DEF End
<1>5. ASSUME NEW w \in Windows, CloseWindow(w) PROVE UNCHANGED rows
  BY <1>5 DEF CloseWindow
<1>6. CASE UNCHANGED storeVars
  BY <1>3, <1>6 DEF storeVars
<1> QED
  BY <1>1, <1>2, <1>3, <1>4, <1>5, <1>6 DEF StoreNext, Surroundings

-----------------------------------------------------------------------------
\* Lock, entry, position and exit of every window agree for ever, whatever
\* the runs do and however often they are restarted.
THEOREM Lifecycles == StoreSpec => []LifecyclesAgree
<1>1. IInv => LifecyclesAgree
  BY DEF IInv
<1> QED
  BY InitIInv, NextIInv, <1>1, PTL DEF StoreSpec

\* An operation that leaves entries and exits alone leaves the record alone.
LEMMA UntouchedStands ==
  ASSUME UNCHANGED <<entry, exits>>
  PROVE  RecordStands
  BY DEF RecordStands

\* A settlement takes the status of the entry only, and only of a window
\* without an exit.
LEMMA SettleStands ==
  ASSUME IInv, NEW w \in Windows, IsOpen(w), NEW source, NEW outcome, NEW payout, NEW fee,
         Settle(w, source, outcome, payout, fee)
  PROVE  RecordStands
<1>1. /\ w \in DOMAIN entry /\ exits[w] = <<>>
  BY DEF IInv, Tables, LifecyclesAgree, IsOpen
<1>2. entry[w] \in EntryRow
  BY <1>1 DEF IInv, Tables, IsTable
<1>3. /\ DOMAIN entry' = DOMAIN entry
      /\ \A x \in DOMAIN entry : entry'[x].side = entry[x].side /\ entry'[x].cost = entry[x].cost
  BY <1>1, <1>2 DEF Settle, EntryRow
<1>4. \A x \in Windows : x # w => exits'[x] = exits[x]
  BY DEF Settle, IInv, Tables
<1> QED
  BY <1>1, <1>3, <1>4 DEF RecordStands

LEMMA OpenStands ==
  ASSUME IInv, NEW w \in Windows, NEW side, NEW s, NEW cost, NEW fee,
         w \notin DOMAIN entry, OpenEntry(w, side, s, cost, fee)
  PROVE  RecordStands
  BY DEF OpenEntry, Insert, RecordStands

LEMMA TradeStands ==
  ASSUME IInv, NEW s \in Sessions, Trade(s)
  PROVE  RecordStands
<1> PICK w \in Windows :
       \/ \E side \in Sides, cost \in Costs, fee \in Fees, expired \in BOOLEAN :
            EnterBundle(w, side, s, cost, fee, expired)
       \/ \E seq \in 1..MaxDecisions, action \in Actions, close \in BOOLEAN,
             price \in Prices, fee \in Fees :
            ManageBundle(w, seq, action, close, price, fee)
       \/ \E no \in 1..MaxAttempts, e \in Evidence, close \in BOOLEAN, outcome \in Sides :
            ResolveBundle(w, no, e, close, outcome)
  BY DEF Trade
<1>1. ASSUME NEW side \in Sides, NEW cost \in Costs, NEW fee \in Fees,
             NEW expired \in BOOLEAN, EnterBundle(w, side, s, cost, fee, expired)
      PROVE  RecordStands
  <2>1. CASE EntryExists(w, side)
    BY <1>1, <2>1, UntouchedStands DEF EnterBundle, rows
  <2>2. CASE ~EntryExists(w, side)
    <3>1. OpenEntry(w, side, s, cost, fee) /\ ~WindowConflict(w, side, s)
      BY <1>1, <2>2 DEF EnterBundle, EnterRefusal
    <3>2. w \notin DOMAIN entry
      BY <2>2, <3>1 DEF EntryExists, WindowConflict, IInv, LifecyclesAgree
    <3> QED
      BY <3>1, <3>2, OpenStands
  <2> QED
    BY <2>1, <2>2
<1>2. ASSUME NEW seq \in 1..MaxDecisions, NEW action \in Actions, NEW close \in BOOLEAN,
             NEW price \in Prices, NEW fee \in Fees,
             ManageBundle(w, seq, action, close, price, fee)
      PROVE  RecordStands
  <2>1. CASE close /\ IsOpen(w)
    BY <1>2, <2>1, SettleStands DEF ManageBundle
  <2>2. CASE ~(close /\ IsOpen(w))
    BY <1>2, <2>2, UntouchedStands DEF ManageBundle, NoSettlement
  <2> QED
    BY <2>1, <2>2
<1>3. ASSUME NEW no \in 1..MaxAttempts, NEW e \in Evidence, NEW close \in BOOLEAN,
             NEW outcome \in Sides, ResolveBundle(w, no, e, close, outcome)
      PROVE  RecordStands
  <2>1. CASE close /\ IsOpen(w)
    BY <1>3, <2>1, SettleStands DEF ResolveBundle
  <2>2. CASE ~(close /\ IsOpen(w))
    BY <1>3, <2>2, UntouchedStands DEF ResolveBundle, NoSettlement
  <2> QED
    BY <2>1, <2>2
<1> QED
  BY <1>1, <1>2, <1>3

\* No replay, retry, late resolution or restart rewrites an entry's side and
\* cost or adds a second exit.
THEOREM History == StoreSpec => HistoryStands
<1>1. IInv /\ [StoreNext]_storeVars => [RecordStands]_storeVars
  <2> SUFFICES ASSUME IInv, StoreNext PROVE RecordStands
    OBVIOUS
  <2>1. ASSUME NEW s \in Sessions, Trade(s) PROVE RecordStands
    BY <2>1, TradeStands
  <2>2. ASSUME NEW s \in Sessions, NEW absent \in SUBSET Sessions, Startup(s, absent)
        PROVE  RecordStands
    BY <2>2, UntouchedStands DEF Startup, Reconcile
  <2>3. ASSUME NEW s \in Sessions, End(s) PROVE RecordStands
    BY <2>3, UntouchedStands DEF End, rows
  <2>4. ASSUME NEW w \in Windows, CloseWindow(w) PROVE RecordStands
    BY <2>4, UntouchedStands DEF CloseWindow, rows
  <2> QED
    BY <2>1, <2>2, <2>3, <2>4 DEF StoreNext, Surroundings
<1> QED
  BY InitIInv, NextIInv, <1>1, PTL DEF StoreSpec, HistoryStands

-----------------------------------------------------------------------------
\* An operation after which no lock is missing needs no justification.
LEMMA NoneReleased ==
  ASSUME DOMAIN lock \subseteq DOMAIN lock'
  PROVE  ReleaseJustified
  BY DEF ReleaseJustified

LEMMA StartupReleases ==
  ASSUME NEW s \in Sessions, NEW absent \in SUBSET Sessions, Startup(s, absent)
  PROVE  ReleaseJustified
<1>1. DOMAIN lock \ DOMAIN lock' \subseteq Stale(s, absent)
  BY DEF Startup, Reconcile, Delete
<1>2. \A w \in Stale(s, absent) : w \notin DOMAIN entry /\ Gone(lock[w].session)
  BY DEF Startup, Stale
<1> QED
  BY <1>1, <1>2 DEF ReleaseJustified

LEMMA TradeReleasesNone ==
  ASSUME NEW s \in Sessions, Trade(s)
  PROVE  ReleaseJustified
<1> SUFFICES DOMAIN lock \subseteq DOMAIN lock'
  BY NoneReleased
<1> USE DEF OpenEntry, Insert, Settle, NoSettlement, rows
<1>1. ASSUME NEW w, NEW side, NEW cost, NEW fee, NEW expired,
             EnterBundle(w, side, s, cost, fee, expired)
      PROVE  DOMAIN lock \subseteq DOMAIN lock'
  BY <1>1 DEF EnterBundle
<1>2. ASSUME NEW w, NEW seq, NEW action, NEW close, NEW price, NEW fee,
             ManageBundle(w, seq, action, close, price, fee)
      PROVE  DOMAIN lock \subseteq DOMAIN lock'
  BY <1>2 DEF ManageBundle
<1>3. ASSUME NEW w, NEW no, NEW e, NEW close, NEW outcome, ResolveBundle(w, no, e, close, outcome)
      PROVE  DOMAIN lock \subseteq DOMAIN lock'
  BY <1>3 DEF ResolveBundle
<1> QED
  BY <1>1, <1>2, <1>3 DEF Trade

LEMMA UnusedReleases ==
  ASSUME NEW s \in Sessions, Unused(s)
  PROVE  ReleaseJustified
<1>1. ASSUME NEW w, NEW side, ReleaseReservation(w, side, s)
      PROVE  ReleaseJustified
  BY <1>1 DEF ReleaseReservation, Delete, Unused, ReleaseJustified
<1>2. ASSUME NEW w, NEW side, NEW amount, ReserveWindow(w, side, s, amount)
      PROVE  ReleaseJustified
  BY <1>2, NoneReleased DEF ReserveWindow, Insert
<1>3. ASSUME NEW w, NEW side, NEW cost, NEW fee, CreateEntry(w, side, s, cost, fee)
      PROVE  ReleaseJustified
  BY <1>3, NoneReleased DEF CreateEntry, OpenEntry, Insert
<1>4. ASSUME NEW w, MarkUnresolvedFinal(w) PROVE ReleaseJustified
  BY <1>4, NoneReleased DEF MarkUnresolvedFinal
<1> QED
  BY <1>1, <1>2, <1>3, <1>4 DEF Unused

\* Whatever operations of the store are used, a starting run releases only
\* reservations of runs that are gone, and no lock a trade came of goes.
THEOREM Conservative == ApiSpec => LiveReservationsKept
<1>1. [ApiNext]_storeVars => [ReleaseJustified]_storeVars
  <2> SUFFICES ASSUME ApiNext PROVE ReleaseJustified
    OBVIOUS
  <2>1. ASSUME NEW s \in Sessions, End(s) PROVE ReleaseJustified
    BY <2>1, NoneReleased DEF End, rows
  <2>2. ASSUME NEW w \in Windows, CloseWindow(w) PROVE ReleaseJustified
    BY <2>2, NoneReleased DEF CloseWindow, rows
  <2> QED
    BY <2>1, <2>2, StartupReleases, TradeReleasesNone, UnusedReleases
    DEF ApiNext, StoreNext, Surroundings
<1> QED
  BY <1>1, PTL DEF ApiSpec, LiveReservationsKept

-----------------------------------------------------------------------------
(* What settles a position, and what it cost.                              *)

\* Every lock is that of an entry, every entry's amounts are amounts there
\* can be, and every exit rests on its evidence.
Outcomes ==
  /\ attempts \in [Windows -> Seq(Evidence)]
  /\ DOMAIN lock = DOMAIN entry
  /\ \A w \in DOMAIN entry : entry[w].cost \in Costs /\ entry[w].fee \in Fees
  /\ EvidencedExit

\* One window's part of EvidencedExit.
ExitRests(w) ==
  LET x == exits[w][1]
      spent == entry[w].cost + entry[w].fee
  IN  IF x.source = "BOOK"
      THEN /\ Last(decisions[w]) = "EXIT_BOOK"
           /\ \E price \in Prices, fee \in Fees : x.net = price - fee - spent
      ELSE /\ \E i \in DOMAIN attempts[w] : VerdictOf[attempts[w][i]] = x.outcome
           /\ x.net = (IF x.outcome = entry[w].side THEN Payout ELSE 0) - spent

LEMMA ExitsRest == EvidencedExit <=> (\A w \in Windows : exits[w] # <<>> => ExitRests(w))
  BY DEF EvidencedExit, ExitRests

LEMMA OpenOutcomes ==
  ASSUME IInv, Outcomes, NEW w \in Windows, NEW side \in Sides, NEW s \in Sessions,
         NEW cost \in Costs, NEW fee \in Fees,
         w \notin DOMAIN entry, OpenEntry(w, side, s, cost, fee)
  PROVE  Outcomes'
<1>1. /\ DOMAIN entry' = DOMAIN entry \cup {w} /\ DOMAIN lock' = DOMAIN lock \cup {w}
      /\ entry'[w].cost = cost /\ entry'[w].fee = fee
      /\ \A x \in DOMAIN entry : entry'[x] = entry[x]
      /\ UNCHANGED <<exits, decisions, attempts>>
  BY DEF OpenEntry, Insert
<1>2. ASSUME NEW x \in Windows, exits'[x] # <<>> PROVE ExitRests(x)'
  <2>1. x \in DOMAIN entry
    BY <1>1, <1>2 DEF IInv, LifecyclesAgree
  <2>2. ExitRests(x)
    BY <1>1, <1>2, ExitsRest DEF Outcomes
  <2> QED
    BY <1>1, <2>1, <2>2 DEF ExitRests
<1>3. EvidencedExit'
  BY <1>2 DEF EvidencedExit, ExitRests
<1> QED
  BY <1>1, <1>3 DEF Outcomes

\* A settlement leaves the other windows alone, and the amounts of its own.
LEMMA SettleFacts ==
  ASSUME IInv, NEW w \in Windows, IsOpen(w), NEW source, NEW outcome, NEW payout, NEW fee,
         Settle(w, source, outcome, payout, fee)
  PROVE  /\ w \in DOMAIN entry /\ exits[w] = <<>>
         /\ exits'[w] = <<[source |-> source, outcome |-> outcome,
                           net |-> payout - entry[w].cost - entry[w].fee - fee]>>
         /\ \A x \in Windows : x # w => exits'[x] = exits[x]
         /\ DOMAIN entry' = DOMAIN entry /\ DOMAIN lock' = DOMAIN lock
         /\ \A x \in DOMAIN entry :
              /\ entry'[x].side = entry[x].side
              /\ entry'[x].cost = entry[x].cost /\ entry'[x].fee = entry[x].fee
<1>1. w \in DOMAIN entry /\ exits[w] = <<>>
  BY DEF IInv, Tables, LifecyclesAgree, IsOpen
<1>2. entry[w] \in EntryRow
  BY <1>1 DEF IInv, Tables, IsTable
<1>3. /\ DOMAIN entry' = DOMAIN entry
      /\ \A x \in DOMAIN entry :
           /\ entry'[x].side = entry[x].side
           /\ entry'[x].cost = entry[x].cost /\ entry'[x].fee = entry[x].fee
  BY <1>1, <1>2 DEF Settle, EntryRow
<1>4. DOMAIN lock' = DOMAIN lock
  BY DEF Settle
<1>5. \A x \in Windows : x # w => exits'[x] = exits[x]
  BY DEF Settle, IInv, Tables
<1>6. exits'[w] = Append(exits[w], [source |-> source, outcome |-> outcome,
                           net |-> payout - entry[w].cost - entry[w].fee - fee])
  BY DEF Settle, IInv, Tables
<1> QED
  BY <1>1, <1>3, <1>4, <1>5, <1>6

\* With the evidence of its own exit, a settlement keeps every exit evidenced.
LEMMA SettleOutcomes ==
  ASSUME IInv, Outcomes, NEW w \in Windows, IsOpen(w),
         NEW source, NEW outcome, NEW payout, NEW fee,
         Settle(w, source, outcome, payout, fee),
         attempts' \in [Windows -> Seq(Evidence)],
         \A x \in Windows : x # w => decisions'[x] = decisions[x] /\ attempts'[x] = attempts[x],
         ExitRests(w)'
  PROVE  Outcomes'
<1>1. ASSUME NEW x \in Windows, exits'[x] # <<>>, x # w PROVE ExitRests(x)'
  <2>1. exits'[x] = exits[x] /\ decisions'[x] = decisions[x] /\ attempts'[x] = attempts[x]
    BY <1>1, SettleFacts
  <2>2. x \in DOMAIN entry /\ ExitRests(x)
    BY <1>1, <2>1, ExitsRest DEF Outcomes, IInv, LifecyclesAgree
  <2>3. /\ entry'[x].side = entry[x].side
        /\ entry'[x].cost = entry[x].cost /\ entry'[x].fee = entry[x].fee
    BY <2>2, SettleFacts
  <2> QED
    BY <2>1, <2>2, <2>3 DEF ExitRests
<1>2. EvidencedExit'
  BY <1>1 DEF EvidencedExit, ExitRests
<1> QED
  BY <1>2, SettleFacts DEF Outcomes

LEMMA AmountsAreInt ==
  /\ Costs \subseteq Int /\ Fees \subseteq Int /\ Prices \subseteq Int
  /\ Payout \in Int /\ 0 \in Int
  BY StoreAssumption

LEMMA ManageOutcomes ==
  ASSUME IInv, Outcomes, NEW w \in Windows, NEW seq \in Nat, seq > 0,
         NEW action \in Actions, NEW close \in BOOLEAN,
         NEW price \in Prices, NEW fee \in Fees, ManageBundle(w, seq, action, close, price, fee)
  PROVE  Outcomes'
<1>1. /\ decisions'[w] = Record(decisions[w], seq, action)
      /\ \A x \in Windows : x # w => decisions'[x] = decisions[x]
      /\ attempts' = attempts
  BY DEF ManageBundle, IInv, Tables
<1>2. CASE close /\ IsOpen(w)
  <2>1. Settle(w, "BOOK", "PENDING", price, fee)
    BY <1>2 DEF ManageBundle
  <2>2. Last(decisions'[w]) = "EXIT_BOOK"
    BY <1>1, <1>2 DEF ManageBundle, ManageRefusal, AlreadySettled
  <2>3. ExitRests(w)'
    <3>1. /\ exits'[w][1].source = "BOOK"
          /\ exits'[w][1].net = price - entry[w].cost - entry[w].fee - fee
      <4>1. exits'[w] = <<[source |-> "BOOK", outcome |-> "PENDING",
                           net |-> price - entry[w].cost - entry[w].fee - fee]>>
        BY <1>2, <2>1, SettleFacts
      <4> QED
        BY <4>1
    <3>2. w \in DOMAIN entry /\ entry'[w].cost = entry[w].cost /\ entry'[w].fee = entry[w].fee
      BY <1>2, <2>1, SettleFacts
    <3>3. entry[w].cost \in Int /\ entry[w].fee \in Int /\ price \in Int /\ fee \in Int
      BY <3>2, AmountsAreInt DEF Outcomes
    <3>4. price - entry[w].cost - entry[w].fee - fee
            = price - fee - (entry[w].cost + entry[w].fee)
      BY <3>3
    <3> QED
      BY <2>2, <3>1, <3>2, <3>4 DEF ExitRests
  <2> QED
    BY <1>1, <1>2, <2>1, <2>3, SettleOutcomes DEF Outcomes
<1>3. CASE ~(close /\ IsOpen(w))
  <2>1. UNCHANGED <<exits, position, entry, lock>>
    BY <1>3 DEF ManageBundle, NoSettlement
  <2>2. ASSUME exits[w] # <<>> PROVE decisions'[w] = decisions[w]
    <3>1. ~IsOpen(w)
      BY <2>2 DEF IInv, LifecyclesAgree, IsOpen
    <3> QED
      BY <1>1, <3>1 DEF ManageBundle, ManageRefusal, Record
  <2>3. ASSUME NEW x \in Windows, exits'[x] # <<>> PROVE ExitRests(x)'
    BY <1>1, <2>1, <2>2, <2>3, ExitsRest DEF Outcomes, ExitRests
  <2>4. EvidencedExit'
    BY <2>3 DEF EvidencedExit, ExitRests
  <2> QED
    BY <1>1, <2>1, <2>4 DEF Outcomes
<1> QED
  BY <1>2, <1>3

LEMMA RecordFact ==
  ASSUME NEW S, NEW h \in Seq(S), NEW i \in Nat, NEW row \in S
  PROVE  /\ Record(h, i, row) \in Seq(S)
         /\ \A j \in DOMAIN h : j \in DOMAIN Record(h, i, row) /\ Record(h, i, row)[j] = h[j]
  BY DEF Record

LEMMA ResolveOutcomes ==
  ASSUME IInv, Outcomes, NEW w \in Windows, NEW no \in Nat, NEW e \in Evidence,
         NEW close \in BOOLEAN, NEW outcome \in Sides, ResolveBundle(w, no, e, close, outcome)
  PROVE  Outcomes'
<1>1. /\ attempts'[w] = Record(attempts[w], no, e)
      /\ \A x \in Windows : x # w => attempts'[x] = attempts[x]
      /\ attempts' \in [Windows -> Seq(Evidence)]
      /\ decisions' = decisions
  BY RecordFact DEF ResolveBundle, Outcomes
<1>2. CASE close /\ IsOpen(w)
  <2> DEFINE paid == IF outcome = entry[w].side THEN Payout ELSE 0
  <2>1. Settle(w, "OFFICIAL_RESOLUTION", outcome, paid, 0)
    BY <1>2 DEF ResolveBundle
  <2>2. LatestVerdict(attempts'[w], outcome)
    BY <1>1, <1>2 DEF ResolveBundle, ResolveRefusal, AlreadySettled
  <2>3. ExitRests(w)'
    <3>1. /\ exits'[w][1].source = "OFFICIAL_RESOLUTION" /\ exits'[w][1].outcome = outcome
          /\ exits'[w][1].net = paid - entry[w].cost - entry[w].fee - 0
      <4>1. exits'[w] = <<[source |-> "OFFICIAL_RESOLUTION", outcome |-> outcome,
                           net |-> paid - entry[w].cost - entry[w].fee - 0]>>
        BY <1>2, <2>1, SettleFacts
      <4> QED
        BY <4>1
    <3>2. w \in DOMAIN entry /\ entry'[w].cost = entry[w].cost /\ entry'[w].fee = entry[w].fee
          /\ entry'[w].side = entry[w].side
      BY <1>2, <2>1, SettleFacts
    <3>3. entry[w].cost \in Int /\ entry[w].fee \in Int /\ paid \in Int
      BY <3>2, AmountsAreInt DEF Outcomes
    <3>4. paid - entry[w].cost - entry[w].fee - 0 = paid - (entry[w].cost + entry[w].fee)
      BY <3>3
    <3>5. \E i \in DOMAIN attempts'[w] : VerdictOf[attempts'[w][i]] = outcome
      BY <2>2 DEF LatestVerdict
    <3> QED
      BY <3>1, <3>2, <3>4, <3>5 DEF ExitRests
  <2> QED
    BY <1>1, <1>2, <2>1, <2>3, SettleOutcomes
<1>3. CASE ~(close /\ IsOpen(w))
  <2>1. UNCHANGED <<exits, position, entry, lock>>
    BY <1>3 DEF ResolveBundle, NoSettlement
  <2>2. ASSUME NEW x \in Windows
        PROVE  \A i \in DOMAIN attempts[x] :
                 i \in DOMAIN attempts'[x] /\ attempts'[x][i] = attempts[x][i]
    <3>1. CASE x = w
      BY <1>1, <3>1, RecordFact DEF Outcomes
    <3>2. CASE x # w
      BY <1>1, <3>2
    <3> QED
      BY <3>1, <3>2
  <2>3. ASSUME NEW x \in Windows, exits'[x] # <<>> PROVE ExitRests(x)'
    <3>1. ExitRests(x)
      BY <2>1, <2>3, ExitsRest DEF Outcomes
    <3> QED
      BY <1>1, <2>1, <2>2, <3>1 DEF ExitRests
  <2>4. EvidencedExit'
    BY <2>3 DEF EvidencedExit, ExitRests
  <2> QED
    BY <1>1, <2>1, <2>4 DEF Outcomes
<1> QED
  BY <1>2, <1>3

LEMMA RowsOutcomes == ASSUME Outcomes, UNCHANGED rows PROVE Outcomes'
  BY DEF rows, Outcomes, EvidencedExit

\* A start finds no reservation to release: every lock is that of an entry.
LEMMA ReconcileOutcomes ==
  ASSUME IInv, Outcomes, NEW s, NEW absent, Reconcile(s, absent)
  PROVE  UNCHANGED rows
<1>1. Stale(s, absent) = {}
  BY DEF Stale, Outcomes
<1>2. lock' = lock
  BY <1>1 DEF Reconcile, Delete, IInv, Tables, IsTable
<1> QED
  BY <1>2 DEF Reconcile, rows

\* What a run's command does, as one of three kinds of step.
LEMMA TradeCases ==
  ASSUME IInv, NEW s \in Sessions, Trade(s)
  PROVE  \/ UNCHANGED rows
         \/ \E w \in Windows, side \in Sides, cost \in Costs, fee \in Fees :
              /\ w \notin DOMAIN entry /\ CapacityRefusal(w, cost, fee) = "none"
              /\ OpenEntry(w, side, s, cost, fee)
         \/ \E w \in Windows, seq \in 1..MaxDecisions, action \in Actions, close \in BOOLEAN,
               price \in Prices, fee \in Fees : ManageBundle(w, seq, action, close, price, fee)
         \/ \E w \in Windows, no \in 1..MaxAttempts, e \in Evidence, close \in BOOLEAN,
               outcome \in Sides : ResolveBundle(w, no, e, close, outcome)
<1>1. ASSUME NEW w \in Windows, NEW side \in Sides, NEW cost \in Costs, NEW fee \in Fees,
             NEW expired \in BOOLEAN, EnterBundle(w, side, s, cost, fee, expired),
             ~UNCHANGED rows
      PROVE  /\ w \notin DOMAIN entry /\ CapacityRefusal(w, cost, fee) = "none"
             /\ OpenEntry(w, side, s, cost, fee)
  <2>1. ~EntryExists(w, side) /\ OpenEntry(w, side, s, cost, fee)
    BY <1>1 DEF EnterBundle
  <2>2. ~WindowConflict(w, side, s) /\ CapacityRefusal(w, cost, fee) = "none"
    BY <1>1, <2>1 DEF EnterBundle, EnterRefusal
  <2> QED
    BY <2>1, <2>2 DEF EntryExists, WindowConflict, IInv, LifecyclesAgree
<1> QED
  BY <1>1 DEF Trade

LEMMA NextOutcomes == IInv /\ Outcomes /\ [StoreNext]_storeVars => Outcomes'
<1> SUFFICES ASSUME IInv, Outcomes, [StoreNext]_storeVars PROVE Outcomes'
  OBVIOUS
<1>1. ASSUME NEW s \in Sessions, Trade(s) PROVE Outcomes'
  <2>1. ASSUME NEW w \in Windows, NEW side \in Sides, NEW cost \in Costs, NEW fee \in Fees,
               w \notin DOMAIN entry, OpenEntry(w, side, s, cost, fee)
        PROVE  Outcomes'
    BY <2>1, OpenOutcomes
  <2>2. ASSUME NEW w \in Windows, NEW seq \in 1..MaxDecisions, NEW action \in Actions,
               NEW close \in BOOLEAN, NEW price \in Prices, NEW fee \in Fees,
               ManageBundle(w, seq, action, close, price, fee)
        PROVE  Outcomes'
    BY <2>2, ManageOutcomes, StoreAssumption
  <2>3. ASSUME NEW w \in Windows, NEW no \in 1..MaxAttempts, NEW e \in Evidence,
               NEW close \in BOOLEAN, NEW outcome \in Sides,
               ResolveBundle(w, no, e, close, outcome)
        PROVE  Outcomes'
    BY <2>3, ResolveOutcomes, StoreAssumption
  <2> QED
    BY <1>1, <2>1, <2>2, <2>3, TradeCases, RowsOutcomes
<1>2. ASSUME NEW s \in Sessions, NEW absent \in SUBSET Sessions, Startup(s, absent)
      PROVE  Outcomes'
  BY <1>2, ReconcileOutcomes, RowsOutcomes DEF Startup
<1>3. ASSUME NEW s \in Sessions, End(s) PROVE Outcomes'
  BY <1>3, RowsOutcomes DEF End
<1>4. ASSUME NEW w \in Windows, CloseWindow(w) PROVE Outcomes'
  BY <1>4, RowsOutcomes DEF CloseWindow
<1>5. CASE UNCHANGED storeVars
  BY <1>5, RowsOutcomes DEF storeVars
<1> QED
  BY <1>1, <1>2, <1>3, <1>4, <1>5 DEF StoreNext, Surroundings

LEMMA InitOutcomes == StoreInit => Outcomes
<1> SUFFICES ASSUME StoreInit PROVE Outcomes
  OBVIOUS
<1>1. DOMAIN lock = {} /\ DOMAIN entry = {}
  BY DEF StoreInit
<1> QED
  BY <1>1 DEF StoreInit, Outcomes, EvidencedExit

\* Every exit, whatever is replayed, retried or attempted after it, rests on
\* the evidence in the tables and pays what its amounts say.
THEOREM Evidenced == StoreSpec => []EvidencedExit
<1>1. Outcomes => EvidencedExit
  BY DEF Outcomes
<1> QED
  BY InitIInv, NextIInv, InitOutcomes, NextOutcomes, <1>1, PTL DEF StoreSpec

-----------------------------------------------------------------------------
(* The money: the tables implement the cohort ledger.                      *)

OpenPositions == WithStatus("OPEN")
CommittedBy == [w \in OpenPositions |-> position[w].committed]
NetResults == [w \in Windows |-> NetResult(w)]

LEMMA OpenFacts ==
  ASSUME IInv
  PROVE  /\ IsFiniteSet(OpenPositions) /\ OpenPositions \subseteq Windows
         /\ Cardinality(OpenPositions) \in Nat
         /\ \A w \in OpenPositions :
              w \in DOMAIN entry /\ CommittedBy[w] \in Nat
              /\ CommittedBy[w] = entry[w].cost + entry[w].fee
         /\ Committed(OpenPositions) = SumFunctionOnSet(CommittedBy, OpenPositions)
         /\ Committed(OpenPositions) \in Nat
<1>1. OpenPositions \subseteq Windows
  BY DEF OpenPositions, WithStatus, IInv, Tables, IsTable
<1>2. IsFiniteSet(OpenPositions)
  BY <1>1, StoreAssumption, FS_Subset
<1>3. ASSUME NEW w \in OpenPositions
      PROVE  w \in DOMAIN entry /\ CommittedBy[w] \in Nat
             /\ CommittedBy[w] = entry[w].cost + entry[w].fee
  <2>1. w \in DOMAIN position /\ w \in DOMAIN entry
    BY DEF OpenPositions, WithStatus, IInv, LifecyclesAgree
  <2>2. position[w] \in PositionRow
    BY <2>1 DEF IInv, Tables, IsTable
  <2> QED
    BY <2>1, <2>2 DEF CommittedBy, PositionRow, IInv, LifecyclesAgree
<1>4. Committed(OpenPositions) = SumFunctionOnSet(CommittedBy, OpenPositions)
  BY DEF Committed, CommittedBy
<1>5. Committed(OpenPositions) \in Nat
  BY <1>2, <1>3, <1>4, SumNat
<1>6. Cardinality(OpenPositions) \in Nat
  BY <1>2, FS_CardinalityType
<1> QED
  BY <1>1, <1>2, <1>3, <1>4, <1>5, <1>6

LEMMA NetOfRows ==
  ASSUME NEW h \in Seq(ExitRow)
  PROVE  SumFunction([i \in DOMAIN h |-> h[i].net]) \in Int
<1> DEFINE nets == [i \in DOMAIN h |-> h[i].net]
<1>1. DOMAIN h = 1..Len(h) /\ IsFiniteSet(1..Len(h))
  BY FS_Interval
<1>2. ASSUME NEW i \in DOMAIN h PROVE nets[i] \in Int
  <2>1. h[i] \in ExitRow
    BY <1>1
  <2> QED
    BY <2>1 DEF ExitRow
<1>3. SumFunction(nets) = SumFunctionOnSet(nets, DOMAIN h)
  BY DEF SumFunction
<1>4. IsFiniteSet(DOMAIN h) /\ \A i \in DOMAIN h : nets[i] \in Int
  BY <1>1, <1>2
<1> HIDE DEF nets
<1>5. SumFunctionOnSet(nets, DOMAIN h) \in Int
  BY <1>4, SumType
<1> QED
  BY <1>3, <1>5 DEF nets

LEMMA NetFacts ==
  ASSUME IInv
  PROVE  /\ \A w \in Windows : NetResult(w) \in Int /\ NetResults[w] = NetResult(w)
         /\ \A w \in Windows : exits[w] = <<>> => NetResult(w) = 0
         /\ Realized = SumFunctionOnSet(NetResults, Windows)
         /\ Realized \in Int /\ Equity \in Int
<1>1. ASSUME NEW w \in Windows PROVE NetResult(w) \in Int
  BY NetOfRows DEF NetResult, IInv, Tables
<1>2. ASSUME NEW w \in Windows, exits[w] = <<>> PROVE NetResult(w) = 0
  <2>1. DOMAIN exits[w] = {}
    BY <1>2
  <2> QED
    BY <2>1, SumEmpty DEF NetResult, SumFunction
<1>3. Realized = SumFunctionOnSet(NetResults, Windows)
  BY DEF Realized, NetResults, SumFunction
<1>4. Realized \in Int
  <2>1. \A w \in Windows : NetResults[w] \in Int
    BY <1>1 DEF NetResults
  <2> QED
    BY <1>3, <2>1, SumType, StoreAssumption
<1> QED
  BY <1>1, <1>2, <1>3, <1>4, StoreAssumption DEF NetResults, Equity

\* Nothing is reserved, and no position is left unresolved.
LEMMA NothingReserved ==
  ASSUME IInv, Outcomes
  PROVE  /\ \A W : Reserved(W) = 0
         /\ WithStatus("UNRESOLVED_FINAL") = {}
         /\ Committed(WithStatus("UNRESOLVED_FINAL")) = 0
<1>1. \A W : {w \in W \cap DOMAIN lock : lock[w].state = "RESERVED"} = {}
  BY DEF IInv, Outcomes, LifecyclesAgree
<1>2. WithStatus("UNRESOLVED_FINAL") = {}
  BY DEF WithStatus, IInv, LifecyclesAgree
<1>3. ASSUME NEW W PROVE Reserved(W) = 0
  BY <1>1, SumEmpty DEF Reserved, SumFunction
<1>4. Committed(WithStatus("UNRESOLVED_FINAL")) = 0
  BY <1>2, SumEmpty DEF Committed
<1> QED
  BY <1>2, <1>3, <1>4

\* Opening an entry is an admission of its cost.
LEMMA OpenAdmits ==
  ASSUME IInv, Outcomes, NEW w \in Windows, NEW side \in Sides, NEW s \in Sessions,
         NEW cost \in Costs, NEW fee \in Fees, w \notin DOMAIN entry,
         CapacityRefusal(w, cost, fee) = "none", OpenEntry(w, side, s, cost, fee), IInv'
  PROVE  Ledger!Admit(cost + fee)
<1> DEFINE O == OpenPositions
           P == OpenPositions'
           f == CommittedBy
           g == CommittedBy'
<1>1. P = O \cup {w} /\ w \notin O
  BY DEF OpenEntry, Insert, OpenPositions, WithStatus, IInv, LifecyclesAgree
<1>2. \A x \in O : g[x] = f[x]
  <2>1. \A x \in O : x \in P /\ position'[x].committed = position[x].committed
    BY <1>1 DEF OpenEntry, Insert, OpenPositions, WithStatus
  <2> QED
    BY <2>1 DEF CommittedBy
<1>3. g[w] = cost + fee
  BY <1>1 DEF OpenEntry, Insert, CommittedBy
<1>4. cost + fee \in Int
  BY AmountsAreInt
<1>5. Committed(O)' = Committed(O) + (cost + fee)
  <2>1. IsFiniteSet(O) /\ \A x \in O : f[x] \in Int
    BY OpenFacts
  <2>2. SumFunctionOnSet(g, O \cup {w}) = SumFunctionOnSet(f, O) + g[w]
    <3> HIDE DEF O, P, f, g
    <3> QED
      BY <1>1, <1>2, <1>3, <1>4, <2>1, SumGrows
  <2>3. Committed(O) = SumFunctionOnSet(f, O) /\ Committed(O)' = SumFunctionOnSet(g, P)
    BY DEF Committed, CommittedBy
  <2> QED
    BY <1>1, <1>3, <2>2, <2>3
<1>6. OpenCount' = OpenCount + 1
  <2>1. IsFiniteSet(O)
    BY OpenFacts
  <2> QED
    BY <1>1, <2>1, FS_AddElement DEF OpenCount, OpenPositions
<1>7. Equity' = Equity
  BY DEF OpenEntry, Equity, Realized, NetResult
<1>8. Committed(O) + OpenCount * Buffer + (cost + fee) + Buffer <= Equity
  <2>2. Committed(O) \in Int /\ OpenCount * Buffer \in Int /\ cost \in Int /\ fee \in Int
        /\ Buffer \in Int /\ Equity \in Int
    BY OpenFacts, NetFacts, AmountsAreInt, StoreAssumption DEF OpenCount, OpenPositions
  <2>1. Committed(O) + 0 + 0 + OpenCount * Buffer + cost + fee + Buffer <= Equity
    <3>1. Reserved(Windows \ {w}) = 0
      BY NothingReserved
    <3>2. ~(Committed(WithStatus("OPEN")) + Committed(WithStatus("UNRESOLVED_FINAL"))
              + Reserved(Windows \ {w}) + OpenCount * Buffer + cost + fee + Buffer > Equity)
      BY DEF CapacityRefusal
    <3>3. ~(Committed(O) + 0 + 0 + OpenCount * Buffer + cost + fee + Buffer > Equity)
      BY <3>1, <3>2, NothingReserved DEF OpenPositions
    <3> QED
      BY <3>3, <2>2
  <2> QED
    BY <2>1, <2>2
<1> QED
  BY <1>5, <1>6, <1>7, <1>8 DEF Ledger!Admit, OpenPositions

\* A settlement is a close: it gives back what was committed, and its net
\* result is what the ledger books.
LEMMA SettleCloses ==
  ASSUME IInv, Outcomes, NEW w \in Windows, IsOpen(w),
         NEW source, NEW outcome, NEW payout \in Int, NEW fee \in Int, fee <= Buffer,
         Settle(w, source, outcome, payout, fee), IInv'
  PROVE  Ledger!Close(entry[w].cost + entry[w].fee, payout, fee)
<1> DEFINE O == OpenPositions
           P == OpenPositions'
           f == CommittedBy
           g == CommittedBy'
           c == entry[w].cost + entry[w].fee
<1>1. w \in O /\ P = O \ {w}
  <2>1. position[w] \in PositionRow /\ w \in DOMAIN position
    BY DEF IsOpen, IInv, Tables, IsTable
  <2>2. DOMAIN position' = DOMAIN position /\ position'[w].status = "CLOSED"
        /\ \A x \in DOMAIN position : x # w => position'[x] = position[x]
    BY <2>1 DEF Settle, PositionRow
  <2> QED
    BY <2>1, <2>2 DEF OpenPositions, WithStatus, IsOpen
<1>2. \A x \in O \ {w} : g[x] = f[x]
  BY <1>1 DEF Settle, CommittedBy, OpenPositions, WithStatus
<1>3. /\ IsFiniteSet(O) /\ \A x \in O : f[x] \in Nat
      /\ f[w] = c /\ c \in Nat
  BY <1>1, OpenFacts
<1>4. Committed(O)' = Committed(O) - c /\ c <= Committed(O)
  <2>1. SumFunctionOnSet(g, O \ {w}) = SumFunctionOnSet(f, O) - f[w]
    <3> HIDE DEF O, P, f, g
    <3> QED
      BY <1>1, <1>2, <1>3, SumShrinks
  <2>2. Committed(O) = SumFunctionOnSet(f, O) /\ Committed(O)' = SumFunctionOnSet(g, P)
    BY DEF Committed, CommittedBy
  <2>3. SumFunctionOnSet(f, O) = f[w] + SumFunctionOnSet(f, O \ {w})
        /\ SumFunctionOnSet(f, O \ {w}) \in Nat
    <3>1. IsFiniteSet(O \ {w})
      BY <1>3, FS_Subset
    <3> HIDE DEF O, P, f, g
    <3> QED
      BY <1>1, <1>3, <3>1, SumWithout, SumNat
  <2> HIDE DEF f, g
  <2> QED
    BY <1>1, <1>3, <2>1, <2>2, <2>3
<1>5. OpenCount > 0 /\ OpenCount' = OpenCount - 1
  <2>1. Cardinality(O) \in Nat /\ Cardinality(O \ {w}) = Cardinality(O) - 1
        /\ Cardinality(O \ {w}) \in Nat
    BY <1>1, <1>3, FS_RemoveElement, FS_CardinalityType
  <2> QED
    BY <1>1, <2>1 DEF OpenCount, OpenPositions
<1>6. Equity' = Equity + payout - c - fee
  <2> DEFINE m == NetResults
             n == NetResults'
  <2>1. /\ exits[w] = <<>>
        /\ exits'[w] = <<[source |-> source, outcome |-> outcome,
                           net |-> payout - entry[w].cost - entry[w].fee - fee]>>
        /\ \A x \in Windows : x # w => exits'[x] = exits[x]
    BY SettleFacts
  <2>2. \A x \in Windows \ {w} : n[x] = m[x]
    BY <2>1 DEF NetResults, NetResult
  <2>3. \A x \in Windows : m[x] \in Int /\ n[x] \in Int
    <3> SUFFICES ASSUME NEW x \in Windows
                 PROVE  NetResult(x) \in Int /\ NetResult(x)' \in Int
      BY DEF NetResults
    <3>1. exits[x] \in Seq(ExitRow) /\ exits'[x] \in Seq(ExitRow)
      BY DEF IInv, Tables
    <3> QED
      BY <3>1, NetOfRows DEF NetResult
  <2>4. m[w] = 0
    BY <2>1, NetFacts
  <2>5. n[w] = payout - c - fee
    <3> DEFINE nets == [i \in {1} |-> payout - entry[w].cost - entry[w].fee - fee]
    <3>1. entry[w].cost \in Int /\ entry[w].fee \in Int
      BY SettleFacts, AmountsAreInt DEF Outcomes
    <3>2. DOMAIN exits'[w] = {1}
          /\ exits'[w][1].net = payout - entry[w].cost - entry[w].fee - fee
      BY <2>1
    <3>3. [i \in DOMAIN exits'[w] |-> exits'[w][i].net] = nets
      BY <3>2
    <3>4. NetResult(w)' = SumFunctionOnSet(nets, {1})
      BY <3>3 DEF NetResult, SumFunction
    <3>5. nets[1] = payout - entry[w].cost - entry[w].fee - fee
      OBVIOUS
    <3>6. SumFunctionOnSet(nets, {1}) = nets[1]
      <4>1. nets[1] \in Int
        BY <3>1
      <4> HIDE DEF nets
      <4> QED
        BY <4>1, SumSingle
    <3> QED
      BY <3>1, <3>4, <3>5, <3>6 DEF NetResults
  <2>6. SumFunctionOnSet(n, Windows) = SumFunctionOnSet(m, Windows) - m[w] + n[w]
    <3>1. IsFiniteSet(Windows)
      BY StoreAssumption
    <3>2. \A x \in Windows : m[x] \in Int /\ n[x] \in Int
      BY <2>3
    <3>3. \A x \in Windows \ {w} : n[x] = m[x]
      BY <2>2
    <3> HIDE DEF m, n
    <3> QED
      BY <3>1, <3>2, <3>3, SumChanges
  <2>7. Realized = SumFunctionOnSet(m, Windows) /\ Realized' = SumFunctionOnSet(n, Windows)
    BY DEF Realized, NetResults, SumFunction
  <2>8. Realized \in Int /\ StartEquity \in Int
    BY NetFacts, StoreAssumption
  <2> QED
    BY <1>3, <2>4, <2>5, <2>6, <2>7, <2>8 DEF Equity
<1> QED
  BY <1>4, <1>5, <1>6 DEF Ledger!Close, OpenPositions

\* Whatever leaves positions and exits alone leaves the ledger alone.
LEMMA LedgerStutters ==
  ASSUME UNCHANGED <<position, exits>>
  PROVE  UNCHANGED Ledger!ledger
  BY DEF Ledger!ledger, Equity, Realized, NetResult, Committed, OpenCount, WithStatus

Amounts == {cost + fee : cost \in Costs, fee \in Fees} \cup Prices \cup Fees \cup {0, Payout}

LEMMA LedgerSteps ==
  IInv /\ IInv' /\ Outcomes /\ [StoreNext]_storeVars => [Ledger!LedgerNext]_(Ledger!ledger)
<1> SUFFICES ASSUME IInv, IInv', Outcomes, [StoreNext]_storeVars
             PROVE  [Ledger!LedgerNext]_(Ledger!ledger)
  OBVIOUS
<1>1. ASSUME NEW c \in Amounts, Ledger!Admit(c) PROVE Ledger!LedgerNext
  BY <1>1 DEF Ledger!LedgerNext, Amounts
<1>2. ASSUME NEW c \in Amounts, NEW p \in Amounts, NEW fee \in Amounts, Ledger!Close(c, p, fee)
      PROVE  Ledger!LedgerNext
  BY <1>2 DEF Ledger!LedgerNext, Amounts
<1>3. ASSUME NEW w \in Windows, IsOpen(w)
      PROVE  entry[w].cost + entry[w].fee \in Amounts
  <2>1. w \in DOMAIN entry
    BY <1>3 DEF IsOpen, IInv, LifecyclesAgree
  <2> QED
    BY <2>1 DEF Outcomes, Amounts
<1>4. ASSUME NEW s \in Sessions, Trade(s) PROVE [Ledger!LedgerNext]_(Ledger!ledger)
  <2>1. ASSUME NEW w \in Windows, NEW side \in Sides, NEW cost \in Costs, NEW fee \in Fees,
               w \notin DOMAIN entry, CapacityRefusal(w, cost, fee) = "none",
               OpenEntry(w, side, s, cost, fee)
        PROVE  Ledger!LedgerNext
    <3>1. Ledger!Admit(cost + fee)
      BY <2>1, OpenAdmits
    <3> QED
      BY <1>1, <3>1 DEF Amounts
  <2>2. ASSUME NEW w \in Windows, NEW seq \in 1..MaxDecisions, NEW action \in Actions,
               NEW close \in BOOLEAN, NEW price \in Prices, NEW fee \in Fees,
               ManageBundle(w, seq, action, close, price, fee)
        PROVE  [Ledger!LedgerNext]_(Ledger!ledger)
    <3>1. CASE close /\ IsOpen(w)
      <4>1. Settle(w, "BOOK", "PENDING", price, fee)
        BY <2>2, <3>1 DEF ManageBundle
      <4>2. price \in Int /\ fee \in Int /\ fee <= Buffer
        BY StoreAssumption
      <4>3. Ledger!Close(entry[w].cost + entry[w].fee, price, fee)
        BY <3>1, <4>1, <4>2, SettleCloses
      <4>4. entry[w].cost + entry[w].fee \in Amounts
        BY <1>2, <1>3, <3>1 DEF Amounts
      <4>5. price \in Amounts /\ fee \in Amounts
        BY DEF Amounts
      <4> QED
        BY <1>2, <4>3, <4>4, <4>5
    <3>2. CASE ~(close /\ IsOpen(w))
      BY <2>2, <3>2, LedgerStutters DEF ManageBundle, NoSettlement
    <3> QED
      BY <3>1, <3>2
  <2>3. ASSUME NEW w \in Windows, NEW no \in 1..MaxAttempts, NEW e \in Evidence,
               NEW close \in BOOLEAN, NEW outcome \in Sides,
               ResolveBundle(w, no, e, close, outcome)
        PROVE  [Ledger!LedgerNext]_(Ledger!ledger)
    <3>1. CASE close /\ IsOpen(w)
      <4> DEFINE paid == IF outcome = entry[w].side THEN Payout ELSE 0
      <4>1. Settle(w, "OFFICIAL_RESOLUTION", outcome, paid, 0)
        BY <2>3, <3>1 DEF ResolveBundle
      <4>2. paid \in Int /\ 0 \in Int /\ 0 <= Buffer /\ paid \in Amounts /\ 0 \in Amounts
        BY StoreAssumption DEF Amounts
      <4> HIDE DEF paid
      <4>3. Ledger!Close(entry[w].cost + entry[w].fee, paid, 0)
        BY <3>1, <4>1, <4>2, SettleCloses
      <4> QED
        BY <1>2, <1>3, <3>1, <4>2, <4>3
    <3>2. CASE ~(close /\ IsOpen(w))
      BY <2>3, <3>2, LedgerStutters DEF ResolveBundle, NoSettlement
    <3> QED
      BY <3>1, <3>2
  <2> QED
    BY <1>4, <2>1, <2>2, <2>3, TradeCases, LedgerStutters DEF rows
<1>5. ASSUME NEW s \in Sessions, NEW absent \in SUBSET Sessions, Startup(s, absent)
      PROVE  UNCHANGED Ledger!ledger
  BY <1>5, LedgerStutters DEF Startup, Reconcile
<1>6. ASSUME NEW s \in Sessions, End(s) PROVE UNCHANGED Ledger!ledger
  BY <1>6, LedgerStutters DEF End, rows
<1>7. ASSUME NEW w \in Windows, CloseWindow(w) PROVE UNCHANGED Ledger!ledger
  BY <1>7, LedgerStutters DEF CloseWindow, rows
<1>8. CASE UNCHANGED storeVars
  BY <1>8, LedgerStutters DEF storeVars, rows
<1> QED
  BY <1>4, <1>5, <1>6, <1>7, <1>8 DEF StoreNext, Surroundings

LEMMA LedgerStarts == StoreInit => Ledger!LedgerInit
<1> SUFFICES ASSUME StoreInit PROVE Ledger!LedgerInit
  OBVIOUS
<1>1. WithStatus("OPEN") = {}
  BY DEF StoreInit, WithStatus
<1>2. Committed(WithStatus("OPEN")) = 0
  BY <1>1, SumEmpty DEF Committed
<1>3. OpenCount = 0
  BY <1>1, FS_EmptySet DEF OpenCount
<1>4. Equity = StartEquity
  <2>1. \A w \in Windows : NetResults[w] = 0
    BY InitIInv, NetFacts DEF StoreInit
  <2>2. Realized = SumFunctionOnSet(NetResults, Windows)
    BY InitIInv, NetFacts
  <2>3. SumFunctionOnSet(NetResults, Windows) = 0
    BY <2>1, StoreAssumption, SumZero
  <2> QED
    BY <2>2, <2>3, StoreAssumption DEF Equity
<1> QED
  BY <1>2, <1>3, <1>4 DEF Ledger!LedgerInit

\* The trade tables implement the cohort ledger: each admission is covered by
\* equity and each close books what it must (create_entry, close_position).
THEOREM Implements == StoreSpec => ImplementsLedger
<1> QED
  BY InitIInv, NextIInv, InitOutcomes, NextOutcomes, LedgerStarts, LedgerSteps, PTL
  DEF StoreSpec, ImplementsLedger, Ledger!LedgerSpec

LEMMA ConstantsFit == Ledger!LedgerConstants
<1>1. \A cost \in Costs, fee \in Fees : cost + fee \in Nat
  BY StoreAssumption
<1>2. Prices \subseteq Nat /\ Fees \subseteq Nat /\ {0, Payout} \subseteq Nat
  BY StoreAssumption
<1>3. Amounts \subseteq Nat
  <2> DEFINE Spent == {cost + fee : cost \in Costs, fee \in Fees}
  <2>1. Spent \subseteq Nat
    BY <1>1
  <2>2. Amounts = Spent \cup Prices \cup Fees \cup {0, Payout}
    BY DEF Amounts
  <2> HIDE DEF Spent
  <2> QED
    BY <1>2, <2>1, <2>2
<1> QED
  BY <1>3, StoreAssumption DEF Ledger!LedgerConstants, Amounts

Money == Ledger!Covered /\ Ledger!Solvent

\* What is committed to open positions, with a buffer for each, is covered by
\* equity at every moment, and equity is no debt.
THEOREM MoneyCovered == StoreSpec => []Money
<1>1. Ledger!LedgerInit => Ledger!LInv
  BY ConstantsFit, Ledger!InitLInv
<1>2. Ledger!LInv /\ [Ledger!LedgerNext]_(Ledger!ledger) => Ledger!LInv'
  BY ConstantsFit, Ledger!NextLInv
<1>3. Ledger!LInv => Money
  <2> SUFFICES ASSUME Ledger!LInv PROVE Money
    OBVIOUS
  <2>1. OpenCount * Buffer \in Nat
    BY StoreAssumption DEF Ledger!LInv, Ledger!TypeInv
  <2> QED
    BY <2>1 DEF Ledger!LInv, Ledger!TypeInv, Money, Ledger!Covered, Ledger!Solvent
<1> QED
  BY <1>1, <1>2, <1>3, Implements, PTL DEF ImplementsLedger, Ledger!LedgerSpec

\* No sequence of commands, restarts and closes brings the tables into a state
\* that startup reconciliation refuses, its ledger check included.
THEOREM Restartable == StoreSpec => []RestartAccepted
<1>1. IInv /\ Outcomes /\ Money => RestartAccepted
  <2> SUFFICES ASSUME IInv, Outcomes, Money PROVE Consistent
    BY DEF RestartAccepted
  <2>1. \A count \in DOMAIN Inconsistencies : Inconsistencies[count] = {}
    <3>1. DOMAIN Inconsistencies =
            {"entries_without_positions", "open_entry_position_mismatch",
             "closed_positions_without_exit", "exits_with_nonclosed_position",
             "duplicate_position_exits"}
      BY DEF Inconsistencies
    <3>2. Inconsistencies.entries_without_positions = {}
      BY DEF IInv, LifecyclesAgree, Inconsistencies
    <3>3. Inconsistencies.open_entry_position_mismatch = {}
      BY DEF IInv, LifecyclesAgree, Inconsistencies
    <3>4. Inconsistencies.closed_positions_without_exit = {}
      BY DEF IInv, LifecyclesAgree, Inconsistencies, WithStatus
    <3>5. Inconsistencies.exits_with_nonclosed_position = {}
      BY DEF IInv, LifecyclesAgree, Inconsistencies
    <3>6. Inconsistencies.duplicate_position_exits = {}
      <4>1. ASSUME NEW w \in Windows PROVE Len(exits[w]) <= 1
        <5>1. CASE w \in DOMAIN entry
          <6>1. Len(exits[w]) = 0 \/ Len(exits[w]) = 1
            BY <5>1 DEF IInv, LifecyclesAgree
          <6>2. Len(exits[w]) \in Nat
            BY DEF IInv, Tables
          <6>3. \A n \in Nat : n = 0 \/ n = 1 => n <= 1
            OBVIOUS
          <6> QED
            BY <6>1, <6>2, <6>3
        <5>2. CASE w \notin DOMAIN entry
          BY <5>2 DEF IInv, LifecyclesAgree
        <5> QED
          BY <5>1, <5>2
      <4> QED
        BY <4>1 DEF Inconsistencies
    <3> QED
      BY <3>1, <3>2, <3>3, <3>4, <3>5, <3>6
  <2>2. ~LedgerViolated
    <3>1. Committed(OpenPositions) + OpenCount * Buffer <= Equity
      BY DEF Money, Ledger!Covered, OpenPositions
    <3>2. /\ Committed(OpenPositions) \in Int /\ OpenCount * Buffer \in Nat
          /\ Equity \in Int
      BY OpenFacts, NetFacts, StoreAssumption DEF OpenCount, OpenPositions
    <3>3. WithStatus("OPEN") \cup WithStatus("UNRESOLVED_FINAL") = OpenPositions
          /\ Reserved(Windows) = 0
      BY NothingReserved DEF OpenPositions
    <3>4. Committed(OpenPositions) + 0 <= Equity
      BY <3>1, <3>2
    <3>5. ~(Committed(OpenPositions) + 0 > Equity)
      BY <3>2, <3>4
    <3> QED
      BY <3>3, <3>5 DEF LedgerViolated
  <2> QED
    BY <2>1, <2>2 DEF Consistent
<1> QED
  BY InitIInv, NextIInv, InitOutcomes, NextOutcomes, MoneyCovered, <1>1, PTL DEF StoreSpec
=============================================================================
