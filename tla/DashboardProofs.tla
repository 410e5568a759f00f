-------------------------- MODULE DashboardProofs --------------------------
(***************************************************************************)
(* Proofs about Insights and SummaryCache, for any accounts, campaigns,    *)
(* transactions, windows and requests: what a SUM over groups adds up to,  *)
(* the types and the two counting properties of the tables, the agreement  *)
(* of the reports, and the narratives that are replayed.                   *)
(***************************************************************************)
EXTENDS SummaryCache, FiniteSetTheorems, WellFoundedInduction, TLAPS

-----------------------------------------------------------------------------
(* Sums over finite sets.  The library's induction theorems take the        *)
(* predicate as a parameter, which the provers cannot instantiate.  That    *)
(* strict inclusion is well founded is a theorem about sets alone, and      *)
(* induction is an argument about a smallest counterexample.                *)

\* A set of finite sets has a member that has no other below it.
LEMMA SmallestSet ==
  ASSUME NEW S, IsFiniteSet(S), NEW Bad, Bad \subseteq SUBSET S, Bad # {}
  PROVE  \E T \in Bad : \A U \in Bad : U \subseteq T => U = T
<1>1. FiniteSubsetsOf(S) = SUBSET S
  BY FS_FiniteSubsetsOfFinite
<1>2. PICK T \in Bad : \A U \in Bad : <<U, T>> \notin StrictSubsetOrdering(S)
  BY <1>1, FS_StrictSubsetOrderingWellFounded, WFMin
<1> QED BY <1>2 DEF StrictSubsetOrdering

\* The sum of the second components of pairs, as SqlSum takes it: the recursive
\* function of MapThenFoldSet, whose definition is a CHOOSE.
PairSum(S) == MapThenSumSet(LAMBDA x : x[2], S)

Pick(S) == CHOOSE x \in S : TRUE

Unfolded(sum, s) == IF s = {} THEN 0 ELSE Pick(s)[2] + sum[s \ {Pick(s)}]

Sums(sum, S) == sum = [s \in SUBSET S |-> Unfolded(sum, s)]

Iter(S) == CHOOSE sum : Sums(sum, S)

\* The sum is the value of that function.
LEMMA PairSumIter == \A S : PairSum(S) = Iter(S)[S]
BY DEF PairSum, MapThenSumSet, MapThenFoldSet, Iter, Sums, Unfolded, Pick

\* Two functions that satisfy the recursion agree where both are defined.
LEMMA SumsAgree ==
  ASSUME NEW S, NEW T, NEW f, NEW g, Sums(f, S), Sums(g, T),
         NEW V \in SUBSET S, V \in SUBSET T, IsFiniteSet(V)
  PROVE  f[V] = g[V]
<1> DEFINE Bad == {U \in SUBSET V : f[U] # g[U]}
<1>1. SUFFICES ASSUME Bad # {} PROVE FALSE
  OBVIOUS
<1>2. PICK U \in Bad : \A W \in Bad : W \subseteq U => W = U
  <2>1. Bad \subseteq SUBSET V
    OBVIOUS
  <2> HIDE DEF Bad
  <2> QED BY <1>1, <2>1, SmallestSet
<1>3. /\ f[U] = Unfolded(f, U) /\ g[U] = Unfolded(g, U)
      /\ U \subseteq V /\ f[U] # g[U]
  BY <1>2 DEF Sums
<1>4. U # {}
  BY <1>3 DEF Unfolded
<1>5. Pick(U) \in U
  BY <1>4 DEF Pick
<1>6. f[U \ {Pick(U)}] = g[U \ {Pick(U)}]
  BY <1>2, <1>3, <1>5
<1> QED BY <1>3, <1>6 DEF Unfolded

\* Over a finite set there is such a function.
LEMMA SumsExist ==
  ASSUME NEW S, IsFiniteSet(S)
  PROVE  Sums(Iter(S), S)
<1> DEFINE Bad == {T \in SUBSET S : ~ \E sum : Sums(sum, T)}
<1>1. SUFFICES ASSUME Bad # {} PROVE FALSE
  BY DEF Iter
<1>2. PICK T \in Bad : \A U \in Bad : U \subseteq T => U = T
  <2>1. Bad \subseteq SUBSET S
    OBVIOUS
  <2> HIDE DEF Bad
  <2> QED BY <1>1, <2>1, SmallestSet
<1>3. ASSUME NEW U \in SUBSET T, U # T
      PROVE  Sums(Iter(U), U) /\ IsFiniteSet(U)
  <2>1. U \notin Bad /\ U \in SUBSET S
    BY <1>2, <1>3
  <2>2. \E sum : Sums(sum, U)
    BY <2>1
  <2> QED BY <2>1, <2>2, FS_Subset DEF Iter
<1> DEFINE
  below(s) == s \ {Pick(s)}
  sum == [s \in SUBSET T |-> IF s = {} THEN 0 ELSE Pick(s)[2] + Iter(below(s))[below(s)]]
<1>4. ASSUME NEW s \in SUBSET T, s # {}
      PROVE  sum[below(s)] = Iter(below(s))[below(s)]
  <2> DEFINE U == below(s)
  <2>1. Pick(s) \in s
    BY <1>4 DEF Pick
  <2>2. U \in SUBSET T /\ U # T
    BY <1>4, <2>1
  <2>3. Iter(U)[U] = Unfolded(Iter(U), U)
    BY <1>3, <2>2 DEF Sums
  <2>4. ASSUME U # {} PROVE Iter(U)[below(U)] = Iter(below(U))[below(U)]
    <3>1. Pick(U) \in U
      BY <2>4 DEF Pick
    <3>2. below(U) \in SUBSET U /\ below(U) \in SUBSET T /\ below(U) # T
      BY <2>2, <3>1
    <3>3. /\ Sums(Iter(U), U)
          /\ Sums(Iter(below(U)), below(U)) /\ IsFiniteSet(below(U))
      BY <1>3, <2>2, <3>2
    <3> HIDE DEF U, below
    <3> QED BY <3>2, <3>3, SumsAgree
  <2>5. sum[U] = IF U = {} THEN 0 ELSE Pick(U)[2] + Iter(below(U))[below(U)]
    BY <2>2
  <2> HIDE DEF U, sum
  <2>6. sum[U] = Iter(U)[U]
    BY <2>3, <2>4, <2>5 DEF Unfolded
  <2> QED BY <2>6 DEF U
<1>5. Sums(sum, T)
  <2>1. \A s \in SUBSET T :
          (IF s = {} THEN 0 ELSE Pick(s)[2] + Iter(below(s))[below(s)]) = Unfolded(sum, s)
    <3> HIDE DEF sum
    <3> QED BY <1>4 DEF Unfolded
  <2>2. sum = [s \in SUBSET T |-> Unfolded(sum, s)]
    <3> DEFINE body(s) == IF s = {} THEN 0 ELSE Pick(s)[2] + Iter(below(s))[below(s)]
    <3>1. sum = [s \in SUBSET T |-> body(s)]
      OBVIOUS
    <3> HIDE DEF sum
    <3>2. \A s \in SUBSET T : body(s) = Unfolded(sum, s)
      BY <2>1
    <3> HIDE DEF body
    <3> QED BY <3>1, <3>2
  <2> QED BY <2>2 DEF Sums
<1> QED BY <1>2, <1>5

\* A sum unfolds once.
LEMMA PairSumUnfolds ==
  ASSUME NEW S, IsFiniteSet(S)
  PROVE  PairSum(S) = IF S = {} THEN 0 ELSE Pick(S)[2] + PairSum(S \ {Pick(S)})
<1>1. PairSum(S) = Unfolded(Iter(S), S) /\ Sums(Iter(S), S)
  BY PairSumIter, SumsExist DEF Sums
<1>2. ASSUME S # {} PROVE Iter(S)[S \ {Pick(S)}] = PairSum(S \ {Pick(S)})
  <2>1. /\ IsFiniteSet(S \ {Pick(S)})
        /\ S \ {Pick(S)} \in SUBSET S /\ S \ {Pick(S)} \in SUBSET (S \ {Pick(S)})
    BY FS_Subset
  <2>2. Sums(Iter(S \ {Pick(S)}), S \ {Pick(S)})
    BY <2>1, SumsExist
  <2> QED BY <1>1, <2>1, <2>2, SumsAgree, PairSumIter
<1> QED BY <1>1, <1>2 DEF Unfolded

\* A sum of naturals is a natural.
LEMMA PairSumIsNat ==
  ASSUME NEW S, IsFiniteSet(S), \A x \in S : x[2] \in Nat
  PROVE  PairSum(S) \in Nat
<1> DEFINE Bad == {T \in SUBSET S : PairSum(T) \notin Nat}
<1>1. SUFFICES ASSUME Bad # {} PROVE FALSE
  OBVIOUS
<1>2. PICK T \in Bad : \A U \in Bad : U \subseteq T => U = T
  <2>1. Bad \subseteq SUBSET S
    OBVIOUS
  <2> HIDE DEF Bad
  <2> QED BY <1>1, <2>1, SmallestSet
<1>3. IsFiniteSet(T)
  BY FS_Subset
<1>4. T # {} /\ PairSum(T) = Pick(T)[2] + PairSum(T \ {Pick(T)})
  <2>1. PairSum(T) \notin Nat
    BY <1>2
  <2>2. PairSum(T) = IF T = {} THEN 0 ELSE Pick(T)[2] + PairSum(T \ {Pick(T)})
    BY <1>3, PairSumUnfolds
  <2> QED BY <2>1, <2>2
<1>5. Pick(T) \in T
  BY <1>4 DEF Pick
<1>6. PairSum(T \ {Pick(T)}) \in Nat
  BY <1>2, <1>5
<1> QED BY <1>2, <1>4, <1>5, <1>6

\* Any element may be taken first.
LEMMA PairSumAny ==
  ASSUME NEW S, IsFiniteSet(S), \A x \in S : x[2] \in Nat, NEW x \in S
  PROVE  PairSum(S) = x[2] + PairSum(S \ {x})
<1> DEFINE Bad == {T \in SUBSET S : \E y \in T : PairSum(T) # y[2] + PairSum(T \ {y})}
<1>1. SUFFICES ASSUME Bad # {} PROVE FALSE
  OBVIOUS
<1>2. PICK T \in Bad : \A U \in Bad : U \subseteq T => U = T
  <2>1. Bad \subseteq SUBSET S
    OBVIOUS
  <2> HIDE DEF Bad
  <2> QED BY <1>1, <2>1, SmallestSet
<1>3. PICK y \in T : PairSum(T) # y[2] + PairSum(T \ {y})
  BY <1>2
<1> DEFINE z == Pick(T)
<1>4. z \in T /\ T \subseteq S
  BY DEF Pick
<1>5. PairSum(T) = z[2] + PairSum(T \ {z})
  BY FS_Subset, PairSumUnfolds
<1> HIDE DEF z
<1>6. y # z
  BY <1>3, <1>5
<1>7. ASSUME NEW U, U \subseteq T, U # T, NEW u \in U
      PROVE  PairSum(U) = u[2] + PairSum(U \ {u})
  <2>1. U \in SUBSET S /\ U \notin Bad
    BY <1>2, <1>4, <1>7
  <2> QED BY <1>7, <2>1
<1>8. /\ PairSum(T \ {z}) = y[2] + PairSum((T \ {z}) \ {y})
      /\ PairSum(T \ {y}) = z[2] + PairSum((T \ {y}) \ {z})
  BY <1>4, <1>6, <1>7
<1>9. (T \ {z}) \ {y} = (T \ {y}) \ {z}
  OBVIOUS
<1>10. /\ y[2] \in Nat /\ z[2] \in Nat
       /\ PairSum((T \ {y}) \ {z}) \in Nat
  BY <1>4, FS_Subset, PairSumIsNat
<1> DEFINE rest == PairSum((T \ {y}) \ {z})
<1>11. PairSum(T) = z[2] + (y[2] + rest)
  BY <1>5, <1>8, <1>9
<1>12. PairSum(T \ {y}) = z[2] + rest
  BY <1>8
<1> HIDE DEF rest
<1>13. z[2] + (y[2] + rest) = y[2] + (z[2] + rest)
  BY <1>10 DEF rest
<1> QED BY <1>3, <1>11, <1>12, <1>13

-----------------------------------------------------------------------------
(* SUM *)

\* The sum of two groups of rows, of which either may be NULL.
Plus(a, b) == IF a = Null THEN b ELSE IF b = Null THEN a ELSE a + b

\* The rows that a SUM adds.
Known(v) == {x \in {<<k, v[k]>> : k \in DOMAIN v} : x[2] # Null}

\* A SUM adds the rows that are not NULL.
LEMMA SqlSumIs ==
  ASSUME NEW v
  PROVE  SqlSum(v) = IF Known(v) = {} THEN Null ELSE PairSum(Known(v))
BY DEF SqlSum, Known, PairSum

\* Groups may be added in any order.
LEMMA PlusLaws ==
  ASSUME NEW a \in Amount, NEW b \in Amount, NEW c \in Amount
  PROVE  /\ Plus(a, b) \in Amount
         /\ Plus(a, Plus(b, c)) = Plus(Plus(a, b), c)
         /\ Plus(a, Plus(b, c)) = Plus(b, Plus(a, c))
BY InsightsAssumption DEF Plus, Amount

\* A finite set has finitely many known rows, all of them numbers.
LEMMA KnownIsFinite ==
  ASSUME NEW D, IsFiniteSet(D), NEW v \in [D -> Amount]
  PROVE  IsFiniteSet(Known(v)) /\ \A x \in Known(v) : x[2] \in Nat
<1> DEFINE f == [k \in D |-> <<k, v[k]>>]
           P == {<<k, v[k]>> : k \in D}
<1>1. f \in Surjection(D, P)
  BY DEF Surjection
<1>2. IsFiniteSet(P)
  <2> HIDE DEF f, P
  <2> QED BY <1>1, FS_Surjection
<1>3. Known(v) \in SUBSET P
  BY DEF Known
<1>4. IsFiniteSet(Known(v))
  <2> HIDE DEF P
  <2> QED BY <1>2, <1>3, FS_Subset
<1> QED BY <1>4 DEF Known, Amount

\* Nothing adds up to NULL.
LEMMA SqlSumEmpty == ASSUME NEW v, DOMAIN v = {} PROVE SqlSum(v) = Null
BY SqlSumIs DEF Known

\* A sum is the sum of one row and of the others.
LEMMA SqlSumStep ==
  ASSUME NEW D, IsFiniteSet(D), NEW v \in [D -> Amount], NEW k \in D
  PROVE  SqlSum(v) = Plus(v[k], SqlSum([j \in D \ {k} |-> v[j]]))
<1> DEFINE u == [j \in D \ {k} |-> v[j]]
           x == <<k, v[k]>>
<1>1. IsFiniteSet(Known(v)) /\ \A y \in Known(v) : y[2] \in Nat
  BY KnownIsFinite
<1>2. v[k] \in Amount
  OBVIOUS
<1>3. CASE v[k] = Null
  <2>1. Known(u) = Known(v)
    BY <1>3 DEF Known
  <2> HIDE DEF u
  <2>2. SqlSum(u) = SqlSum(v)
    BY <2>1, SqlSumIs
  <2> QED BY <1>3, <2>2 DEF Plus, u
<1>4. CASE v[k] # Null
  <2>1. x \in Known(v) /\ Known(u) = Known(v) \ {x} /\ x[2] = v[k]
    BY <1>4 DEF Known
  <2> HIDE DEF u, x
  <2>2. PairSum(Known(v)) = v[k] + PairSum(Known(u))
    BY <1>1, <2>1, PairSumAny
  <2>3. PairSum({}) = 0
    BY PairSumUnfolds, FS_EmptySet
  <2>4. PairSum(Known(u)) \in Nat
    BY <1>1, <2>1, FS_Subset, PairSumIsNat
  <2>5. SqlSum(v) = v[k] + PairSum(Known(u))
    BY <2>1, <2>2, SqlSumIs
  <2>6. v[k] \in Nat
    BY <1>2, <1>4 DEF Amount
  <2>7. CASE Known(u) = {}
    BY <1>4, <2>3, <2>5, <2>6, <2>7, SqlSumIs DEF Plus, u
  <2>8. CASE Known(u) # {}
    <3>1. SqlSum(u) = PairSum(Known(u)) /\ SqlSum(u) # Null
      BY <2>4, <2>8, SqlSumIs, InsightsAssumption
    <3> QED BY <1>4, <2>5, <3>1 DEF Plus, u
  <2> QED BY <2>7, <2>8
<1> QED BY <1>3, <1>4

\* A SUM of amounts is an amount.
LEMMA SqlSumType ==
  ASSUME NEW D, IsFiniteSet(D), NEW v \in [D -> Amount]
  PROVE  SqlSum(v) \in Amount
<1>1. SqlSum(v) = IF Known(v) = {} THEN Null ELSE PairSum(Known(v))
  BY SqlSumIs
<1>2. PairSum(Known(v)) \in Nat
  BY KnownIsFinite, PairSumIsNat
<1> QED BY <1>1, <1>2 DEF Amount

\* Rows grouped by a key, and the sum of each group.
Grouped(v, g, D) ==
  [p \in {g[k] : k \in D} |-> SqlSum([k \in {k \in D : g[k] = p} |-> v[k]])]

\* The sums of the groups add up to the sum of the rows, whatever they are
\* grouped by.
LEMMA GroupsAddUp ==
  ASSUME NEW D, IsFiniteSet(D), NEW v \in [D -> Amount], NEW g
  PROVE  SqlSum(Grouped(v, g, D)) = SqlSum(v)
<1> DEFINE rows(T) == [k \in T |-> v[k]]
           Bad == {T \in SUBSET D : SqlSum(Grouped(v, g, T)) # SqlSum(rows(T))}
<1>1. SUFFICES ASSUME Bad # {} PROVE FALSE
  <2>1. v = rows(D)
    OBVIOUS
  <2> QED BY <2>1
<1>2. PICK T \in Bad : \A U \in Bad : U \subseteq T => U = T
  <2>1. Bad \subseteq SUBSET D
    OBVIOUS
  <2> HIDE DEF Bad
  <2> QED BY <1>1, <2>1, SmallestSet
<1>3. T \in SUBSET D /\ IsFiniteSet(T) /\ SqlSum(Grouped(v, g, T)) # SqlSum(rows(T))
  BY <1>2, FS_Subset
<1>4. CASE T = {}
  <2>1. DOMAIN Grouped(v, g, T) = {} /\ DOMAIN rows(T) = {}
    BY <1>4 DEF Grouped
  <2> HIDE DEF rows
  <2> QED BY <1>3, <2>1, SqlSumEmpty
<1>5. CASE T # {}
  <2>1. PICK x \in T : TRUE
    BY <1>5
  <2> DEFINE U == T \ {x}
             group(S, p) == {k \in S : g[k] = p}
             keys(S) == {g[k] : k \in S}
             F == Grouped(v, g, T)
             G == Grouped(v, g, U)
             q == g[x]
  <2>2. /\ U \in SUBSET D /\ IsFiniteSet(U)
        /\ SqlSum(G) = SqlSum(rows(U))
    <3>1. U \in SUBSET D /\ U \subseteq T /\ U # T
      BY <1>3, <2>1
    <3>2. U \notin Bad
      BY <1>2, <3>1
    <3> QED BY <3>1, <3>2, FS_Subset
  <2>3. SqlSum(rows(T)) = Plus(v[x], SqlSum(rows(U)))
    <3>1. rows(T) \in [T -> Amount] /\ rows(T)[x] = v[x]
      BY <1>3, <2>1
    <3>2. [j \in T \ {x} |-> rows(T)[j]] = rows(U)
      BY <1>3
    <3> HIDE DEF rows
    <3> QED BY <1>3, <3>1, <3>2, SqlSumStep
  <2>4. ASSUME NEW S \in SUBSET D, NEW p
        PROVE  /\ IsFiniteSet(group(S, p)) /\ rows(group(S, p)) \in [group(S, p) -> Amount]
               /\ SqlSum(rows(group(S, p))) \in Amount
    <3>1. IsFiniteSet(group(S, p))
      BY FS_Subset
    <3>2. rows(group(S, p)) \in [group(S, p) -> Amount]
      OBVIOUS
    <3> HIDE DEF rows, group
    <3> QED BY <3>1, <3>2, SqlSumType
  <2>5. ASSUME NEW S \in SUBSET D
        PROVE  /\ IsFiniteSet(keys(S)) /\ Grouped(v, g, S) \in [keys(S) -> Amount]
               /\ \A p \in keys(S) : Grouped(v, g, S)[p] = SqlSum(rows(group(S, p)))
    <3>1. IsFiniteSet(S) /\ [k \in S |-> g[k]] \in Surjection(S, keys(S))
      BY FS_Subset DEF Surjection
    <3>2. IsFiniteSet(keys(S))
      <4> HIDE DEF keys
      <4> QED BY <3>1, FS_Surjection
    <3>3. /\ Grouped(v, g, S) = [p \in keys(S) |-> SqlSum(rows(group(S, p)))]
      BY DEF Grouped
    <3> HIDE DEF rows, group, keys
    <3> QED BY <2>4, <3>2, <3>3
  <2>6. keys(T) = keys(U) \cup {q}
    BY <2>1
  <2>7. \A p \in keys(U) \ {q} : group(T, p) = group(U, p)
    OBVIOUS
  <2>8. group(T, q) \ {x} = group(U, q) /\ x \in group(T, q)
    BY <2>1
  <2>9. F[q] = Plus(v[x], SqlSum(rows(group(U, q))))
    <3>1. /\ IsFiniteSet(group(T, q)) /\ rows(group(T, q)) \in [group(T, q) -> Amount]
          /\ F[q] = SqlSum(rows(group(T, q)))
      <4>1. q \in keys(T)
        BY <2>6
      <4> HIDE DEF rows, group, keys, q
      <4> QED BY <1>3, <2>4, <2>5, <4>1
    <3>2. /\ rows(group(T, q))[x] = v[x]
          /\ [j \in group(T, q) \ {x} |-> rows(group(T, q))[j]] = rows(group(U, q))
      BY <2>8
    <3> HIDE DEF rows, group, q
    <3> QED BY <2>8, <3>1, <3>2, SqlSumStep
  <2> DEFINE others == [p \in keys(T) \ {q} |-> F[p]]
  <2>10. SqlSum(F) = Plus(F[q], SqlSum(others))
    <3>1. q \in keys(T) /\ IsFiniteSet(keys(T)) /\ F \in [keys(T) -> Amount]
      BY <1>3, <2>5, <2>6
    <3> HIDE DEF keys, F, q
    <3> QED BY <3>1, SqlSumStep
  <2>11. others = [p \in keys(U) \ {q} |-> G[p]]
    <3>1. keys(T) \ {q} = keys(U) \ {q}
      BY <2>6
    <3>2. \A p \in keys(U) \ {q} : F[p] = G[p]
      <4> HIDE DEF rows, group, keys, q
      <4> QED BY <1>3, <2>2, <2>5, <2>6, <2>7
    <3> HIDE DEF keys, F, G, q
    <3> QED BY <3>1, <3>2
  <2>12. /\ v[x] \in Amount /\ SqlSum(rows(group(U, q))) \in Amount
         /\ IsFiniteSet(keys(U)) /\ G \in [keys(U) -> Amount]
    <3>1. v[x] \in Amount
      BY <1>3, <2>1
    <3> HIDE DEF rows, group, keys, q
    <3> QED BY <2>2, <2>4, <2>5, <3>1
  <2>13. CASE q \in keys(U)
    <3>1. G[q] = SqlSum(rows(group(U, q)))
      <4> HIDE DEF rows, group, keys, q
      <4> QED BY <2>2, <2>5, <2>13
    <3> HIDE DEF rows, group, keys, q, F, G, others
    <3>2. SqlSum(G) = Plus(G[q], SqlSum(others))
      BY <2>11, <2>12, <2>13, SqlSumStep
    <3>3. SqlSum(others) \in Amount
      <4>1. IsFiniteSet(keys(U) \ {q}) /\ keys(U) \ {q} \in SUBSET keys(U)
        BY <2>12, FS_Subset
      <4>2. others \in [keys(U) \ {q} -> Amount]
        BY <2>11, <2>12
      <4> QED BY <4>1, <4>2, SqlSumType
    <3>4. SqlSum(F) = Plus(v[x], SqlSum(G))
      BY <2>9, <2>10, <2>12, <3>1, <3>2, <3>3, PlusLaws
    <3> QED BY <1>3, <2>2, <2>3, <3>4 DEF F
  <2>14. CASE q \notin keys(U)
    <3>1. group(U, q) = {}
      BY <2>14
    <3>2. SqlSum(rows(group(U, q))) = Null
      <4>1. DOMAIN rows(group(U, q)) = {}
        BY <3>1
      <4> HIDE DEF rows, group
      <4> QED BY <4>1, SqlSumEmpty
    <3> HIDE DEF rows, group, keys, q, F, G, others
    <3>3. others = G
      BY <2>11, <2>12, <2>14
    <3>4. F[q] = v[x]
      BY <2>9, <3>2 DEF Plus
    <3> QED BY <1>3, <2>2, <2>3, <2>10, <3>3, <3>4 DEF F
  <2> QED BY <2>13, <2>14
<1> QED BY <1>4, <1>5

-----------------------------------------------------------------------------
(* The tables *)

RowKey == Level \X Campaign \X Int

ActionRow == Level \X Campaign \X Int \X {"actions", "conversions"} \X ActionType

\* Where a purchase is: Meta lists it among the actions, TikTok and Google Ads
\* among the conversions.
PurchaseInOneField(X) ==
  \A x \in X :
    /\ x \in ActionRow
    /\ x[4] = "conversions" => PlatformOf[AccountOf[x[2]]] # "meta"
    /\ x[4] = "actions" /\ x[5] = "purchase" => PlatformOf[AccountOf[x[2]]] = "meta"

\* A transaction that is open has upserted one row.
OpenRows ==
  /\ DOMAIN open = Writer
  /\ \A w \in Writer :
       \/ open[w] = NoTx
       \/ /\ open[w].at \in 1 .. stamp
          /\ open[w].key \in RowKey
          /\ open[w].spend \in Amount
          /\ PurchaseInOneField(open[w].rows)

\* Meta's breakdowns are dated the day they are about; of the others there is
\* one.
BreakdownRows ==
  \A a \in Account :
    IF PlatformOf[a] = "meta" THEN \A b \in breakdowns[a] : b.days = {b.date}
    ELSE \A b, c \in breakdowns[a] : b = c

TablesInv ==
  /\ TypeOK
  /\ IsFiniteSet(DOMAIN metrics)
  /\ DOMAIN breakdowns = Account
  /\ OpenRows
  /\ PurchaseInOneField(actions)
  /\ BreakdownRows

-----------------------------------------------------------------------------
\* The invariant holds before anything has happened.
LEMMA InitTables == Init => TablesInv
<1> SUFFICES ASSUME Init PROVE TablesInv
  OBVIOUS
<1> USE InsightsAssumption DEF Init
<1>1. TypeOK
  <2>1. status \in [Level \X Campaign -> Status] /\ primary \in [Account -> ActionType]
    BY DEF Status
  <2>2. today \in FirstDay .. LastDay
    OBVIOUS
  <2> QED BY <2>1, <2>2 DEF TypeOK, NoTx
<1>2. OpenRows /\ PurchaseInOneField(actions) /\ BreakdownRows
  BY DEF OpenRows, PurchaseInOneField, BreakdownRows
<1>3. IsFiniteSet(DOMAIN metrics)
  <2>1. DOMAIN metrics = {}
    OBVIOUS
  <2> QED BY <2>1, FS_EmptySet
<1> QED BY <1>1, <1>2, <1>3 DEF TablesInv

-----------------------------------------------------------------------------
\* What a platform reports has a purchase in one field.
LEMMA ReportableIsOneField ==
  ASSUME TablesInv, NEW level \in Level, NEW c \in Campaign, NEW d \in Int,
         NEW kinds \in SUBSET Reportable(AccountOf[c])
  PROVE  PurchaseInOneField({<<level, c, d, x[1], x[2]>> : x \in kinds})
<1>1. AccountOf[c] \in Account /\ PlatformOf[AccountOf[c]] \in {"meta", "tiktok", "google_ads"}
  BY InsightsAssumption
<1>2. primary[AccountOf[c]] \in ActionType
  BY <1>1 DEF TablesInv, TypeOK
<1>3. \A x \in Reportable(AccountOf[c]) :
        /\ x = <<x[1], x[2]>>
        /\ x[1] \in {"actions", "conversions"} /\ x[2] \in ActionType
        /\ x[1] = "conversions" => PlatformOf[AccountOf[c]] # "meta"
        /\ x[1] = "actions" /\ x[2] = "purchase" => PlatformOf[AccountOf[c]] = "meta"
  <2>1. CASE PlatformOf[AccountOf[c]] = "meta"
    BY <1>2, <2>1 DEF Reportable, MetaActions
  <2>2. CASE PlatformOf[AccountOf[c]] = "tiktok"
    BY <1>2, <2>2 DEF Reportable, TikTokActions
  <2>3. CASE PlatformOf[AccountOf[c]] = "google_ads"
    BY <1>2, <2>3 DEF Reportable, GoogleActions
  <2> QED BY <1>1, <2>1, <2>2, <2>3
<1> QED BY <1>3 DEF PurchaseInOneField, ActionRow

\* An upsert is one row with the account's actions.
LEMMA UpsertKeepsTables ==
  ASSUME TablesInv, NEW w \in Writer, NEW level \in Level, NEW c \in Campaign, NEW d \in Int,
         NEW spend \in Amount, NEW kinds \in SUBSET Reportable(AccountOf[c]),
         Upsert(w, level, c, d, spend, kinds)
  PROVE  TablesInv'
<1>1. /\ UNCHANGED <<metrics, actions, breakdowns, status, primary, today, edits>>
      /\ stamp' = stamp + 1 /\ stamp < MaxStamp
  BY DEF Upsert
<1>2. stamp \in Nat /\ stamp' \in 0 .. MaxStamp
  BY <1>1, InsightsAssumption DEF TablesInv, TypeOK
<1>3. /\ DOMAIN open' = Writer
      /\ open'[w].at = stamp + 1 /\ open'[w].key = <<level, c, d>> /\ open'[w].spend = spend
      /\ open'[w].rows = {<<level, c, d, x[1], x[2]>> : x \in kinds}
      /\ \A o \in Writer \ {w} : open'[o] = open[o]
  BY DEF Upsert, TablesInv, OpenRows
<1>4. PurchaseInOneField(open'[w].rows)
  BY <1>3, ReportableIsOneField
<1>5. OpenRows'
  <2>1. open'[w].at \in 1 .. stamp' /\ open'[w].key \in RowKey /\ open'[w].spend \in Amount
    BY <1>1, <1>2, <1>3 DEF RowKey
  <2>2. ASSUME NEW o \in Writer \ {w}
        PROVE  \/ open'[o] = NoTx
               \/ /\ open'[o].at \in 1 .. stamp'
                  /\ open'[o].key \in RowKey
                  /\ open'[o].spend \in Amount
                  /\ PurchaseInOneField(open'[o].rows)
    <3>1. open'[o] = open[o]
      BY <1>3
    <3>2. open[o].at \in 1 .. stamp => open[o].at \in 1 .. stamp'
      BY <1>1, <1>2
    <3> QED BY <3>1, <3>2 DEF TablesInv, OpenRows
  <2> QED BY <1>3, <1>4, <2>1, <2>2 DEF OpenRows, PurchaseInOneField
<1>6. TypeOK'
  <2>1. \A k \in DOMAIN metrics : metrics[k] \in [spend : Amount, at : 1 .. stamp']
    BY <1>1, <1>2 DEF TablesInv, TypeOK
  <2>2. \A o \in Writer : open'[o].at \in 0 .. stamp'
    BY <1>1, <1>2, <1>3 DEF TablesInv, TypeOK
  <2> QED BY <1>1, <1>2, <2>1, <2>2 DEF TablesInv, TypeOK
<1>7. PurchaseInOneField(actions)' /\ BreakdownRows' /\ DOMAIN breakdowns' = Account
  BY <1>1 DEF TablesInv, PurchaseInOneField, BreakdownRows
<1>8. IsFiniteSet(DOMAIN metrics)'
  BY <1>1 DEF TablesInv
<1> QED BY <1>5, <1>6, <1>7, <1>8 DEF TablesInv

\* A commit publishes the row, and keeps a spend it knows.
LEMMA CommitKeepsTables ==
  ASSUME TablesInv, NEW w \in Writer, Commit(w)
  PROVE  TablesInv'
<1>1. UNCHANGED <<breakdowns, status, primary, today, stamp, edits>> /\ open[w] # NoTx
  BY DEF Commit
<1>2. /\ open[w].at \in 1 .. stamp /\ open[w].key \in RowKey /\ open[w].spend \in Amount
      /\ PurchaseInOneField(open[w].rows)
  BY <1>1 DEF TablesInv, OpenRows
<1>3. open' = [open EXCEPT ![w] = NoTx] /\ actions' = actions \cup open[w].rows
  BY DEF Commit
<1>4. DOMAIN metrics' = DOMAIN metrics \cup {open[w].key}
  BY DEF Commit
<1>5. \A k \in DOMAIN metrics' :
        \/ k = open[w].key /\ metrics'[k] \in [spend : Amount, at : 1 .. stamp]
        \/ k \in DOMAIN metrics /\ metrics'[k] = metrics[k]
  <2>1. open[w].key \in DOMAIN metrics => metrics[open[w].key].spend \in Amount
    BY DEF TablesInv, TypeOK
  <2> QED BY <1>2, <2>1 DEF Commit, Amount
<1>6. OpenRows'
  BY <1>1, <1>3 DEF TablesInv, OpenRows, PurchaseInOneField
<1>7. PurchaseInOneField(actions)'
  BY <1>2, <1>3 DEF TablesInv, PurchaseInOneField
<1>8. TypeOK'
  <2>1. \A k \in DOMAIN metrics' : /\ k \in Level \X Campaign \X Int
                                   /\ metrics'[k] \in [spend : Amount, at : 1 .. stamp]
    BY <1>2, <1>5 DEF TablesInv, TypeOK, RowKey
  <2>2. actions' \subseteq ActionRow
    BY <1>7 DEF PurchaseInOneField
  <2>3. \A o \in Writer : open'[o].at \in 0 .. stamp
    <3>1. stamp \in Nat /\ 0 \in 0 .. stamp
      BY DEF TablesInv, TypeOK
    <3> QED BY <1>3, <3>1 DEF TablesInv, TypeOK, OpenRows, NoTx
  <2> QED BY <1>1, <2>1, <2>2, <2>3 DEF TablesInv, TypeOK, ActionRow
<1>9. IsFiniteSet(DOMAIN metrics)'
  BY <1>4, FS_AddElement DEF TablesInv
<1> QED BY <1>1, <1>6, <1>7, <1>8, <1>9 DEF TablesInv, BreakdownRows

\* A rollback leaves the tables as they are.
LEMMA AbortKeepsTables ==
  ASSUME TablesInv, NEW w \in Writer, Abort(w)
  PROVE  TablesInv'
<1>1. /\ UNCHANGED <<metrics, actions, breakdowns, status, primary, today, stamp, edits>>
      /\ open' = [open EXCEPT ![w] = NoTx]
  BY DEF Abort
<1>2. OpenRows'
  BY <1>1 DEF TablesInv, OpenRows, PurchaseInOneField
<1>3. \A o \in Writer : open'[o].at \in 0 .. stamp
  <2>1. stamp \in Nat /\ 0 \in 0 .. stamp
    BY DEF TablesInv, TypeOK
  <2> QED BY <1>1, <2>1 DEF TablesInv, TypeOK, OpenRows, NoTx
<1>4. TypeOK'
  BY <1>1, <1>3 DEF TablesInv, TypeOK
<1> QED BY <1>1, <1>2, <1>4 DEF TablesInv, PurchaseInOneField, BreakdownRows

\* Edits are counted.
LEMMA EditCounts ==
  ASSUME TablesInv, Edit
  PROVE  edits' \in 0 .. MaxEdits
BY InsightsAssumption DEF TablesInv, TypeOK, Edit

\* A rolling period is made of days.
LEMMA RollingDates ==
  ASSUME TablesInv
  PROVE  LET w == ResolveDateRange("rolling")
         IN w.from \in Int /\ Days(w) \in SUBSET Int
<1>1. ResolveDateRange("rolling") = [from |-> today - RollingDays, to |-> today]
  BY DEF ResolveDateRange
<1>2. today \in Int
  BY InsightsAssumption DEF TablesInv, TypeOK
<1> QED BY <1>1, <1>2, InsightsAssumption DEF Days

\* Meta's reports add dated rows; the other platforms replace their one.
LEMMA BreakdownsKeepTables ==
  ASSUME TablesInv, NEW a \in Account, SyncBreakdowns(a)
  PROVE  TablesInv'
<1> DEFINE w == ResolveDateRange("rolling")
<1>1. UNCHANGED <<metrics, actions, status, primary, today, stamp, open>> /\ Edit
  BY DEF SyncBreakdowns
<1>2. w.from \in Int /\ Days(w) \in SUBSET Int
  BY RollingDates
<1>3. /\ DOMAIN breakdowns' = Account
      /\ \A o \in Account \ {a} : breakdowns'[o] = breakdowns[o]
      /\ breakdowns'[a] \subseteq [date : Int, days : SUBSET Int]
      /\ IF PlatformOf[a] = "meta" THEN \A b \in breakdowns'[a] : b.days = {b.date}
         ELSE \A b, c \in breakdowns'[a] : b = c
  <2>1. CASE PlatformOf[a] = "meta"
    <3>1. PICK reported \in SUBSET Days(w) :
            breakdowns' = [breakdowns EXCEPT ![a] =
                             @ \cup {[date |-> d, days |-> {d}] : d \in reported}]
      BY <2>1 DEF SyncBreakdowns, SyncDaily
    <3>2. /\ breakdowns'[a] = breakdowns[a] \cup {[date |-> d, days |-> {d}] : d \in reported}
          /\ DOMAIN breakdowns' = Account
          /\ \A o \in Account \ {a} : breakdowns'[o] = breakdowns[o]
      BY <3>1 DEF TablesInv
    <3>3. \A d \in reported : d \in Int /\ {d} \in SUBSET Int
      BY <1>2
    <3>4. /\ {[date |-> d, days |-> {d}] : d \in reported} \subseteq [date : Int, days : SUBSET Int]
          /\ \A b \in {[date |-> d, days |-> {d}] : d \in reported} : b.days = {b.date}
      BY <3>3
    <3>5. /\ breakdowns[a] \subseteq [date : Int, days : SUBSET Int]
          /\ \A b \in breakdowns[a] : b.days = {b.date}
      BY <2>1 DEF TablesInv, TypeOK, BreakdownRows
    <3> HIDE DEF w
    <3> QED BY <2>1, <3>2, <3>4, <3>5
  <2>2. CASE PlatformOf[a] # "meta"
    <3>1. breakdowns' = [breakdowns EXCEPT ![a] = {[date |-> w.from, days |-> Days(w)]}]
      BY <2>2 DEF SyncBreakdowns, SyncAggregate
    <3> HIDE DEF w
    <3>2. [date |-> w.from, days |-> Days(w)] \in [date : Int, days : SUBSET Int]
      BY <1>2
    <3>3. breakdowns'[a] = {[date |-> w.from, days |-> Days(w)]}
      BY <3>1 DEF TablesInv
    <3> QED BY <2>2, <3>1, <3>2, <3>3 DEF TablesInv
  <2> QED BY <2>1, <2>2
<1>4. BreakdownRows'
  BY <1>3 DEF TablesInv, BreakdownRows
<1>5. TypeOK'
  <2>1. \A o \in Account : breakdowns'[o] \subseteq [date : Int, days : SUBSET Int]
    BY <1>3 DEF TablesInv, TypeOK
  <2> QED BY <1>1, <2>1, EditCounts DEF TablesInv, TypeOK
<1> QED BY <1>1, <1>3, <1>4, <1>5 DEF TablesInv, OpenRows, PurchaseInOneField

\* A change of status or of configuration touches no row.
LEMMA EditsKeepTables ==
  ASSUME TablesInv,
         \/ \E level \in Level, c \in Campaign : SetStatus(level, c)
         \/ \E a \in Account, type \in ActionType : SetPrimary(a, type)
  PROVE  TablesInv'
<1>1. UNCHANGED <<metrics, actions, breakdowns, today, stamp, open>> /\ edits' \in 0 .. MaxEdits
  BY EditCounts DEF SetStatus, SetPrimary
<1>2. status' \in [Level \X Campaign -> Status]
  BY DEF SetStatus, SetPrimary, TablesInv, TypeOK, Status
<1>3. primary' \in [Account -> ActionType]
  BY DEF SetStatus, SetPrimary, TablesInv, TypeOK
<1>4. TypeOK'
  BY <1>1, <1>2, <1>3 DEF TablesInv, TypeOK
<1> QED BY <1>1, <1>4 DEF TablesInv, OpenRows, PurchaseInOneField, BreakdownRows

\* The day changes and no row does.
LEMMA MidnightKeepsTables ==
  ASSUME TablesInv, Midnight
  PROVE  TablesInv'
<1>1. UNCHANGED <<metrics, actions, breakdowns, status, primary, stamp, open, edits>>
  BY DEF Midnight
<1>2. today' \in FirstDay .. LastDay
  BY InsightsAssumption DEF Midnight, TablesInv, TypeOK
<1>3. TypeOK'
  BY <1>1, <1>2 DEF TablesInv, TypeOK
<1> QED BY <1>1, <1>3 DEF TablesInv, OpenRows, PurchaseInOneField, BreakdownRows

\* Every step keeps the invariant.
LEMMA WriteKeepsTables == TablesInv /\ [Write]_insightVars => TablesInv'
<1> SUFFICES ASSUME TablesInv, [Write]_insightVars PROVE TablesInv'
  OBVIOUS
<1>1. CASE \E w \in Writer : Commit(w) \/ Abort(w)
  BY <1>1, CommitKeepsTables, AbortKeepsTables
<1>2. ASSUME NEW w \in Writer, NEW level \in Level, NEW c \in Campaign,
             NEW d \in {today - 1, today}, NEW spend \in Spend \cup {Null},
             NEW kinds \in SUBSET Reportable(AccountOf[c]),
             Upsert(w, level, c, d, spend, kinds)
      PROVE  TablesInv'
  <2>1. d \in Int /\ spend \in Amount
    <3>1. today \in Int
      BY InsightsAssumption DEF TablesInv, TypeOK
    <3>2. Spend \subseteq Nat
      BY InsightsAssumption
    <3> QED BY <3>1, <3>2 DEF Amount
  <2> QED BY <1>2, <2>1, UpsertKeepsTables
<1>3. CASE \E a \in Account : SyncBreakdowns(a)
  BY <1>3, BreakdownsKeepTables
<1>4. CASE \/ \E level \in Level, c \in Campaign : SetStatus(level, c)
           \/ \E a \in Account, type \in ActionType : SetPrimary(a, type)
  BY <1>4, EditsKeepTables
<1>5. CASE Midnight
  BY <1>5, MidnightKeepsTables
<1>6. CASE UNCHANGED insightVars
  BY <1>6 DEF insightVars, TablesInv, TypeOK, OpenRows, PurchaseInOneField, BreakdownRows
<1> QED BY <1>1, <1>2, <1>3, <1>4, <1>5, <1>6 DEF Write

\* The invariant holds in every reachable state.
THEOREM TablesInvHolds == Spec => []TablesInv
<1> QED BY InitTables, WriteKeepsTables, PTL DEF Spec

\* Every variable has its type, and every row of metrics_daily has a
\* fetched_at that was taken before.
THEOREM TablesTypeCorrect == Spec => []TypeOK
<1>1. TablesInv => TypeOK
  BY DEF TablesInv
<1> QED BY <1>1, TablesInvHolds, PTL

-----------------------------------------------------------------------------
\* Purchases of a row are one row of metric_action_stats at most.
LEMMA OnePurchaseRow ==
  ASSUME TablesInv, NEW k \in DOMAIN metrics, primary[AccountOf[k[2]]] = "purchase"
  PROVE  Cardinality(ConversionRows(k)) \in {0, 1}
<1>1. ASSUME NEW x \in ConversionRows(k), NEW y \in ConversionRows(k)
      PROVE  x = y
  <2>1. x \in ActionRow /\ y \in ActionRow
    BY DEF ConversionRows, TablesInv, PurchaseInOneField
  <2>2. /\ <<x[1], x[2], x[3]>> = k /\ <<y[1], y[2], y[3]>> = k
        /\ x[5] = "purchase" /\ y[5] = "purchase"
        /\ x \in actions /\ y \in actions
    BY DEF ConversionRows
  <2>3. x[1] = y[1] /\ x[2] = y[2] /\ x[3] = y[3]
    BY <2>2
  <2>4. x[4] = y[4]
    BY <2>1, <2>2, <2>3 DEF TablesInv, PurchaseInOneField, ActionRow
  <2> QED BY <2>1, <2>2, <2>3, <2>4 DEF ActionRow
<1>2. ConversionRows(k) = {} \/ \E x : ConversionRows(k) = {x}
  BY <1>1
<1> QED BY <1>2, FS_EmptySet, FS_Singleton

\* The join counts each row's spend once while the account's conversion action
\* is purchases: no platform reports them in both fields.
THEOREM SpendOnce == Spec => []SpendCountedOnce
<1>1. ASSUME TablesInv, NEW k \in DOMAIN metrics, primary[AccountOf[k[2]]] = "purchase"
      PROVE  JoinedSpend(k) = metrics[k].spend
  <2>1. Max({1, Cardinality(ConversionRows(k))}) = 1
    <3>1. Cardinality(ConversionRows(k)) \in {0, 1}
      BY <1>1, OnePurchaseRow
    <3> QED BY <3>1 DEF Max
  <2>2. metrics[k].spend \in Amount
    BY <1>1 DEF TablesInv, TypeOK
  <2> QED BY <2>1, <2>2 DEF JoinedSpend, Amount
<1>2. TablesInv => SpendCountedOnce
  BY <1>1 DEF SpendCountedOnce
<1> QED BY <1>2, TablesInvHolds, PTL

\* No window counts a day of a breakdown twice: Meta's rows are dated the day
\* they are about, and of the other platforms' aggregates there is one.
THEOREM BreakdownsOnce == Spec => []BreakdownCountsOnce
<1>1. ASSUME TablesInv, NEW a \in Account, NEW w, NEW d
      PROVE  TimesCounted(a, w, d) <= 1
  <2> DEFINE counted == {b \in breakdowns[a] : b.date \in Days(w) /\ d \in b.days}
  <2>1. ASSUME NEW b \in counted, NEW c \in counted
        PROVE  b = c
    <3>1. CASE PlatformOf[a] = "meta"
      <4>1. b.days = {b.date} /\ c.days = {c.date}
        BY <1>1, <3>1 DEF TablesInv, BreakdownRows
      <4>2. b.date = c.date
        BY <4>1
      <4>3. b \in [date : Int, days : SUBSET Int] /\ c \in [date : Int, days : SUBSET Int]
        BY <1>1 DEF TablesInv, TypeOK
      <4>4. b = [date |-> b.date, days |-> b.days] /\ c = [date |-> c.date, days |-> c.days]
        BY <4>3
      <4> HIDE DEF counted
      <4> QED BY <4>1, <4>2, <4>4
    <3>2. CASE PlatformOf[a] # "meta"
      BY <1>1, <3>2 DEF TablesInv, BreakdownRows
    <3> QED BY <3>1, <3>2
  <2>2. counted = {} \/ \E b : counted = {b}
    BY <2>1
  <2>3. Cardinality(counted) \in {0, 1}
    BY <2>2, FS_EmptySet, FS_Singleton
  <2> QED BY <2>3 DEF TimesCounted
<1>2. TablesInv => BreakdownCountsOnce
  BY <1>1 DEF BreakdownCountsOnce
<1> QED BY <1>2, TablesInvHolds, PTL

-----------------------------------------------------------------------------
(* The reports *)

\* At most one row for each field.
LEMMA FewConversionRows ==
  ASSUME TablesInv, NEW k \in DOMAIN metrics
  PROVE  /\ IsFiniteSet(ConversionRows(k))
         /\ Cardinality(ConversionRows(k)) \in Nat
<1> DEFINE row(field) == <<k[1], k[2], k[3], field, primary[AccountOf[k[2]]]>>
           rows == {row("actions")} \cup {row("conversions")}
<1>1. IsFiniteSet(rows)
  BY FS_Singleton, FS_Union
<1>2. ConversionRows(k) \in SUBSET rows
  <2>1. ASSUME NEW x \in ConversionRows(k)
        PROVE  x = row("actions") \/ x = row("conversions")
    <3>1. x \in ActionRow
      BY DEF ConversionRows, TablesInv, PurchaseInOneField
    <3>2. /\ <<x[1], x[2], x[3]>> = k /\ x[5] = primary[AccountOf[k[2]]]
          /\ x[4] = "actions" \/ x[4] = "conversions"
      BY DEF ConversionRows
    <3>3. x[1] = k[1] /\ x[2] = k[2] /\ x[3] = k[3]
      BY <3>2
    <3> QED BY <3>1, <3>2, <3>3 DEF ActionRow
  <2> HIDE DEF row
  <2> QED BY <2>1
<1> HIDE DEF rows
<1> QED BY <1>1, <1>2, FS_Subset, FS_CardinalityType

\* What one row adds is a number or NULL.
LEMMA RowTypes ==
  ASSUME TablesInv, NEW k \in DOMAIN metrics
  PROVE  JoinedSpend(k) \in Amount /\ Conversions(k) \in Amount
<1> DEFINE n == Cardinality(ConversionRows(k))
           most == Max({1, n})
<1>1. n \in Nat
  BY FewConversionRows
<1>2. metrics[k].spend \in Amount
  BY DEF TablesInv, TypeOK
<1>3. Conversions(k) \in Amount
  BY <1>1 DEF Conversions, Amount
<1>4. most \in Nat
  <2> HIDE DEF n
  <2>1. CASE n >= 1
    <3>1. \E x \in {1, n} : \A y \in {1, n} : x >= y
      BY <1>1, <2>1
    <3> QED BY <1>1, <3>1 DEF Max
  <2>2. CASE n < 1
    <3>1. \E x \in {1, n} : \A y \in {1, n} : x >= y
      BY <1>1, <2>2
    <3> QED BY <1>1, <3>1 DEF Max
  <2> QED BY <1>1, <2>1, <2>2
<1>5. JoinedSpend(k) = IF metrics[k].spend = Null THEN Null ELSE metrics[k].spend * most
  BY DEF JoinedSpend
<1>6. \A s \in Nat : s * most \in Nat
  <2> HIDE DEF most
  <2> QED BY <1>4
<1> HIDE DEF most
<1> QED BY <1>2, <1>3, <1>5, <1>6 DEF Amount

\* The sums of a set of rows.
LEMMA TotalsType ==
  ASSUME TablesInv, NEW K \in SUBSET DOMAIN metrics
  PROVE  /\ IsFiniteSet(K)
         /\ [k \in K |-> JoinedSpend(k)] \in [K -> Amount]
         /\ [k \in K |-> Conversions(k)] \in [K -> Amount]
         /\ Totals(K) \in [spend : Amount, conversions : Amount]
<1>1. IsFiniteSet(K)
  BY FS_Subset DEF TablesInv
<1>2. /\ [k \in K |-> JoinedSpend(k)] \in [K -> Amount]
      /\ [k \in K |-> Conversions(k)] \in [K -> Amount]
  BY RowTypes
<1>3. /\ SqlSum([k \in K |-> JoinedSpend(k)]) \in Amount
      /\ SqlSum([k \in K |-> Conversions(k)]) \in Amount
  BY <1>1, <1>2, SqlSumType
<1> QED BY <1>1, <1>2, <1>3 DEF Totals

\* A report that has the sums of each group of rows adds up to the sums of all.
LEMMA GroupedReport ==
  ASSUME TablesInv, NEW K \in SUBSET DOMAIN metrics, NEW g, NEW F,
         F = [p \in {g[k] : k \in K} |-> Totals({k \in K : g[k] = p})]
  PROVE  Added(F) = Totals(K)
<1> DEFINE spend == [k \in K |-> JoinedSpend(k)]
           conversions == [k \in K |-> Conversions(k)]
<1>1. IsFiniteSet(K) /\ spend \in [K -> Amount] /\ conversions \in [K -> Amount]
  BY TotalsType
<1>2. [x \in DOMAIN F |-> F[x].spend] = Grouped(spend, g, K)
  <2>1. \A p : [k \in {k \in K : g[k] = p} |-> spend[k]] =
               [k \in {k \in K : g[k] = p} |-> JoinedSpend(k)]
    OBVIOUS
  <2>2. \A p \in DOMAIN F :
          F[p].spend = SqlSum([k \in {k \in K : g[k] = p} |-> spend[k]])
    BY <2>1 DEF Totals
  <2> HIDE DEF spend
  <2> QED BY <2>2 DEF Grouped
<1>3. [x \in DOMAIN F |-> F[x].conversions] = Grouped(conversions, g, K)
  <2>1. \A p : [k \in {k \in K : g[k] = p} |-> conversions[k]] =
               [k \in {k \in K : g[k] = p} |-> Conversions(k)]
    OBVIOUS
  <2>2. \A p \in DOMAIN F :
          F[p].conversions = SqlSum([k \in {k \in K : g[k] = p} |-> conversions[k]])
    BY <2>1 DEF Totals
  <2> HIDE DEF conversions
  <2> QED BY <2>2 DEF Grouped
<1>4. Totals(K) = [spend |-> SqlSum(spend), conversions |-> SqlSum(conversions)]
  BY DEF Totals
<1> HIDE DEF spend, conversions
<1>5. /\ SqlSum([x \in DOMAIN F |-> F[x].spend]) = SqlSum(spend)
      /\ SqlSum([x \in DOMAIN F |-> F[x].conversions]) = SqlSum(conversions)
  <2>1. /\ SqlSum(Grouped(spend, g, K)) = SqlSum(spend)
        /\ SqlSum(Grouped(conversions, g, K)) = SqlSum(conversions)
    BY <1>1, GroupsAddUp
  <2> QED BY <1>2, <1>3, <2>1
<1> QED BY <1>4, <1>5 DEF Added

\* Grouped by campaign, as the table and the trends of the campaigns are.
LEMMA ByEntityAdds ==
  ASSUME TablesInv, NEW K \in SUBSET DOMAIN metrics
  PROVE  Added(ByEntity(K)) = Totals(K)
<1> DEFINE g == [k \in K |-> k[2]]
<1>1. ByEntity(K) = [p \in {g[k] : k \in K} |-> Totals({k \in K : g[k] = p})]
  <2>1. {g[k] : k \in K} = {k[2] : k \in K} /\ \A p : {k \in K : g[k] = p} = {k \in K : k[2] = p}
    OBVIOUS
  <2> HIDE DEF g
  <2> QED BY <2>1 DEF ByEntity
<1> HIDE DEF g
<1> QED BY <1>1, GroupedReport

\* Grouped by day or by month, as the trends are.
LEMMA ByPeriodAdds ==
  ASSUME TablesInv, NEW K \in SUBSET DOMAIN metrics, NEW increment
  PROVE  Added(ByPeriod(K, increment)) = Totals(K)
<1> DEFINE g == [k \in K |-> PeriodOf(increment, k[3])]
<1>1. ByPeriod(K, increment) = [p \in {g[k] : k \in K} |-> Totals({k \in K : g[k] = p})]
  <2>1. /\ {g[k] : k \in K} = {PeriodOf(increment, k[3]) : k \in K}
        /\ \A p : {k \in K : g[k] = p} = {k \in K : PeriodOf(increment, k[3]) = p}
    OBVIOUS
  <2> HIDE DEF g
  <2> QED BY <2>1 DEF ByPeriod
<1> HIDE DEF g
<1> QED BY <1>1, GroupedReport

\* What a report reads are rows of metrics_daily.
LEMMA RowsAreMetrics ==
  ASSUME NEW accounts, NEW level, NEW w, NEW campaigns
  PROVE  MetricRows(accounts, level, w, campaigns) \in SUBSET DOMAIN metrics
BY DEF MetricRows

\* The table filters its entities after the grouping, the card its rows before:
\* for the campaigns of an account these are the same rows.
LEMMA TableOfCampaigns ==
  ASSUME NEW a, NEW w, NEW f \in Filter, TablesInv
  PROVE  LET rows == Table(a, "campaign", w, f)
         IN [c \in DOMAIN rows |-> rows[c].current] = ByEntity(CurrentRows(a, w, f))
<1> DEFINE rows == Table(a, "campaign", w, f)
           M == MetricRows({a}, "campaign", w, Campaign)
           K == CurrentRows(a, w, f)
           now == ByEntity(M)
<1>1. \A k \in M : k \in K <=> Shown("campaign", k[2], f)
  BY DEF CurrentRows, MetricRows, ResolveCampaignIds, Shown, NoFilter, Filter
<1>2. K \subseteq M
  BY DEF CurrentRows, MetricRows, ResolveCampaignIds
<1>3. /\ DOMAIN rows = {c \in DOMAIN now : Shown("campaign", c, f)}
      /\ \A c \in DOMAIN rows : rows[c].current = now[c]
  <2> HIDE DEF now
  <2> QED BY DEF Table, now
<1>4. /\ DOMAIN now = {k[2] : k \in M}
      /\ \A c \in DOMAIN now : now[c] = Totals({k \in M : k[2] = c})
  <2> HIDE DEF M
  <2> QED BY DEF ByEntity
<1> HIDE DEF rows, M, K, now
<1>5. DOMAIN rows = {k[2] : k \in K}
  BY <1>1, <1>2, <1>3, <1>4
<1>6. \A c \in DOMAIN rows : {k \in M : k[2] = c} = {k \in K : k[2] = c}
  BY <1>1, <1>2, <1>3
<1>7. \A c \in DOMAIN rows : rows[c].current = Totals({k \in K : k[2] = c})
  BY <1>3, <1>4, <1>6
<1> QED BY <1>5, <1>7 DEF ByEntity, rows, K

\* What ReportsAgree says, and that it holds of every window, also while
\* transactions are open: card, table and top campaigns agree under every filter,
\* and the trends under every filter that they take.
THEOREM ReportsAgreeHolds ==
  Spec => [](/\ ReportsAgree
             /\ \A a \in Account, w \in Windows, f \in Filter : AgreeFor(a, w, f))
<1>1. ASSUME TablesInv, NEW a, NEW w, NEW f \in Filter
      PROVE  AgreeFor(a, w, f)
  <2> DEFINE K == CurrentRows(a, w, f)
             P == CurrentRows(a, ResolvePriorPeriod(w), f)
             rows == Table(a, "campaign", w, f)
             entities == TimeseriesByEntity(a, "campaign", w, f)
  <2>1. K \in SUBSET DOMAIN metrics /\ P \in SUBSET DOMAIN metrics
    BY RowsAreMetrics DEF CurrentRows
  <2>2. [c \in DOMAIN rows |-> rows[c].current] = ByEntity(K)
    BY <1>1, TableOfCampaigns
  <2>3. Totals(K) = Added([c \in DOMAIN rows |-> rows[c].current])
    <3> HIDE DEF K, rows
    <3> QED BY <1>1, <2>1, <2>2, ByEntityAdds
  <2>4. ~f.objective => TrendFilter(f) = f
    BY DEF TrendFilter, Filter
  <2>5. ASSUME ~f.objective
        PROVE  [c \in DOMAIN entities |-> Added(entities[c])] = ByEntity(K)
    <3>1. /\ DOMAIN entities = {k[2] : k \in K}
          /\ \A c \in DOMAIN entities : entities[c] = ByPeriod({k \in K : k[2] = c}, "day")
      BY <2>5, <2>4 DEF TimeseriesByEntity, CurrentRows
    <3> HIDE DEF K, entities
    <3>2. \A c : {k \in K : k[2] = c} \in SUBSET DOMAIN metrics
      BY <2>1
    <3>3. \A c \in DOMAIN entities : Added(entities[c]) = Totals({k \in K : k[2] = c})
      BY <1>1, <3>1, <3>2, ByPeriodAdds
    <3> QED BY <3>1, <3>3 DEF ByEntity
  <2>6. ~f.objective => Totals(K) = Added([c \in DOMAIN entities |-> Added(entities[c])])
    <3> HIDE DEF K, entities
    <3> QED BY <1>1, <2>1, <2>5, ByEntityAdds
  <2>7. ASSUME ~f.objective, NEW increment \in Increment
        PROVE  /\ Totals(K) = Added(Timeseries(a, w, f, increment).series)
               /\ Totals(P) = Added(Timeseries(a, w, f, increment).previous)
    <3>1. /\ Timeseries(a, w, f, increment).series = ByPeriod(K, increment)
          /\ Timeseries(a, w, f, increment).previous = ByPeriod(P, increment)
      BY <2>7, <2>4 DEF Timeseries
    <3> HIDE DEF K, P
    <3> QED BY <1>1, <2>1, <3>1, ByPeriodAdds
  <2>8. ASSUME NEW top \in TopCampaigns(a, w, f), NEW c \in DOMAIN top
        PROVE  top[c] = rows[c].current
    <3> DEFINE spent == ByEntity(K)
    <3>1. \E T \in SUBSET DOMAIN spent : top = [d \in T |-> spent[d]]
      <4> HIDE DEF spent
      <4> QED BY DEF TopCampaigns, spent, K
    <3>2. c \in DOMAIN spent /\ top[c] = spent[c]
      <4> HIDE DEF spent
      <4> QED BY <3>1
    <3> HIDE DEF spent, rows
    <3>3. spent = [d \in DOMAIN rows |-> rows[d].current]
      BY <2>2 DEF spent
    <3> QED BY <3>2, <3>3
  <2> QED BY <2>3, <2>6, <2>7, <2>8 DEF AgreeFor
<1>2. TablesInv => \A a \in Account, w \in Windows, f \in Filter : AgreeFor(a, w, f)
  BY <1>1
<1>3. TablesInv => ReportsAgree
  BY <1>1 DEF ReportsAgree
<1> QED BY <1>2, <1>3, TablesInvHolds, PTL

-----------------------------------------------------------------------------
(* The combined reports *)

\* Without a filter, an account's card is the sum of its rows, and what is
\* listed of it in the combined report.
LEMMA CardIsListed ==
  ASSUME NEW accounts \in SUBSET Account, NEW a \in accounts, NEW w
  PROVE  LET listed == PerAccount(accounts, w)
         IN Summary(a, w, NoFilter).totals = IF a \in DOMAIN listed THEN listed[a] ELSE NoTotals
<1> DEFINE K == CombinedRows({a}, w)
           listed == PerAccount(accounts, w)
<1>1. Summary(a, w, NoFilter).totals = Totals(K)
  BY DEF Summary, CurrentRows, ResolveCampaignIds, CombinedRows
<1>2. DOMAIN listed = {AccountOf[k[2]] : k \in CombinedRows(accounts, w)}
  BY DEF PerAccount
<1>3. CASE a \in DOMAIN listed
  <2>1. listed[a] = Totals(K)
    BY <1>2, <1>3 DEF PerAccount
  <2> HIDE DEF listed, K
  <2> QED BY <1>1, <1>3, <2>1 DEF listed
<1>4. CASE a \notin DOMAIN listed
  <2>1. K = {}
    BY <1>2, <1>4 DEF CombinedRows, MetricRows
  <2>2. Totals({}) = NoTotals
    <3>1. /\ SqlSum([k \in {} |-> JoinedSpend(k)]) = Null
          /\ SqlSum([k \in {} |-> Conversions(k)]) = Null
      BY SqlSumEmpty
    <3> QED BY <3>1 DEF Totals, NoTotals
  <2> HIDE DEF listed, K
  <2> QED BY <1>1, <1>4, <2>1, <2>2 DEF listed
<1> QED BY <1>3, <1>4

\* The accounts' sums add up to the sum of all the rows.
LEMMA AccountsAdd ==
  ASSUME TablesInv, NEW accounts, NEW w
  PROVE  Added(PerAccount(accounts, w)) = Totals(CombinedRows(accounts, w))
<1> DEFINE K == CombinedRows(accounts, w)
           g == [k \in K |-> AccountOf[k[2]]]
<1>1. K \in SUBSET DOMAIN metrics
  BY RowsAreMetrics DEF CombinedRows
<1>2. {g[k] : k \in K} = {AccountOf[k[2]] : k \in K}
  OBVIOUS
<1>3. \A p \in {g[k] : k \in K} : CombinedRows({p}, w) = {k \in K : g[k] = p}
  BY DEF CombinedRows, MetricRows
<1>4. PerAccount(accounts, w) = [p \in {g[k] : k \in K} |-> Totals({k \in K : g[k] = p})]
  <2>1. PerAccount(accounts, w) = [p \in {g[k] : k \in K} |-> Totals(CombinedRows({p}, w))]
    <3> HIDE DEF g
    <3> QED BY <1>2 DEF PerAccount
  <2> HIDE DEF g, K
  <2> QED BY <1>3, <2>1
<1> HIDE DEF g, K
<1> QED BY <1>1, <1>4, GroupedReport DEF K

\* Accounts of one currency: the points are those of the trend.  Of several:
\* no point has an amount, and neither has their sum.
LEMMA PointsAdd ==
  ASSUME TablesInv, NEW accounts, NEW w
  PROVE  LET points == CombinedTimeseries(accounts, w)
         IN IF OneCurrency(accounts) THEN Added(points) = Totals(CombinedRows(accounts, w))
            ELSE Added(points).spend = Null
<1> DEFINE K == CombinedRows(accounts, w)
           P == CombinedPoints(accounts, w)
           points == CombinedTimeseries(accounts, w)
<1>1. P = ByPeriod(K, "day") /\ K \in SUBSET DOMAIN metrics
  BY RowsAreMetrics DEF CombinedRows, CombinedPoints
<1>2. points = [d \in DOMAIN P |-> IF OneCurrency(accounts) THEN P[d]
                                  ELSE [P[d] EXCEPT !.spend = Null]]
  BY DEF CombinedTimeseries
<1> HIDE DEF points, P, K
<1>3. CASE OneCurrency(accounts)
  <2>1. P = [d \in DOMAIN P |-> P[d]]
    BY <1>1 DEF ByPeriod
  <2>2. points = P
    BY <1>2, <1>3, <2>1
  <2>3. Added(P) = Totals(K)
    BY <1>1, ByPeriodAdds
  <2> QED BY <1>3, <2>2, <2>3 DEF points, K
<1>4. CASE ~OneCurrency(accounts)
  <2>1. \A d \in DOMAIN P : \E k : P[d] = Totals(k)
    BY <1>1 DEF ByPeriod
  <2>2. \A d \in DOMAIN P : [P[d] EXCEPT !.spend = Null].spend = Null
    BY <2>1 DEF Totals
  <2>3. \A d \in DOMAIN points : points[d].spend = Null
    BY <1>2, <1>4, <2>2
  <2> DEFINE v == [x \in DOMAIN points |-> points[x].spend]
  <2>4. Known(v) = {}
    BY <2>3 DEF Known
  <2> HIDE DEF v
  <2>5. SqlSum(v) = Null
    BY <2>4, SqlSumIs
  <2>6. Added(points).spend = Null
    BY <2>5 DEF Added, v
  <2> QED BY <1>4, <2>6 DEF points
<1> QED BY <1>3, <1>4

\* What CombinedAgrees says, and that it holds of every window, also while
\* transactions are open: the combined card is the sum of the accounts' cards and
\* of its own trend, and no sum is shown across currencies.
THEOREM CombinedAgreesHolds ==
  Spec => [](/\ CombinedAgrees
             /\ \A accounts \in SUBSET Account \ {{}}, w \in Windows : CombinedFor(accounts, w))
<1>1. ASSUME TablesInv, NEW accounts \in SUBSET Account, NEW w
      PROVE  CombinedFor(accounts, w)
  <2> DEFINE both == CombinedOverview(accounts, w)
             points == CombinedTimeseries(accounts, w)
             listed == PerAccount(accounts, w)
             all == Totals(CombinedRows(accounts, w))
  <2>1. /\ both.perAccount = listed
        /\ both.totals = IF OneCurrency(accounts) THEN all ELSE NoTotals
    <3> HIDE DEF all, listed
    <3> QED BY DEF CombinedOverview, all, listed
  <2>2. \A a \in accounts :
          Summary(a, w, NoFilter).totals = IF a \in DOMAIN listed THEN listed[a] ELSE NoTotals
    BY <1>1, CardIsListed
  <2>3. Added(listed) = all
    BY <1>1, AccountsAdd
  <2>4. IF OneCurrency(accounts) THEN Added(points) = all ELSE Added(points).spend = Null
    BY <1>1, PointsAdd
  <2>5. NoTotals.spend = Null
    BY DEF NoTotals
  <2> HIDE DEF both, points, listed, all
  <2> QED BY <2>1, <2>2, <2>3, <2>4, <2>5 DEF CombinedFor, both, points
<1>2. TablesInv => \A accounts \in SUBSET Account \ {{}}, w \in Windows :
                       CombinedFor(accounts, w)
  BY <1>1
<1>3. TablesInv => CombinedAgrees
  BY <1>1 DEF CombinedAgrees
<1> QED BY <1>2, <1>3, TablesInvHolds, PTL

-----------------------------------------------------------------------------
(* The calendar *)

\* Integers that some integer bounds have a greatest one.
LEMMA MaxExists ==
  ASSUME NEW S, S \subseteq Int, NEW l \in S, NEW d \in Int, \A s \in S : s <= d
  PROVE  Max(S) \in S /\ \A s \in S : Max(S) >= s
<1> DEFINE above(x) == {s \in S : s >= x}
           I == l .. d
           Tails == {above(x) : x \in {x \in S : x >= l}}
<1>1. IsFiniteSet(I) /\ l \in Int
  BY FS_Interval
<1>2. \A x \in S : x >= l => above(x) \in SUBSET I
  <2> SUFFICES ASSUME NEW x \in S, x >= l, NEW s \in above(x) PROVE s \in I
    OBVIOUS
  <2>1. s \in Int /\ x \in Int /\ s >= x /\ s <= d
    OBVIOUS
  <2> QED BY <1>1, <2>1
<1>3. Tails \subseteq SUBSET I /\ Tails # {}
  <2>1. above(l) \in Tails
    BY <1>1
  <2> HIDE DEF above
  <2> QED BY <1>2, <2>1
<1>4. PICK T \in Tails : \A U \in Tails : U \subseteq T => U = T
  <2>1. \E T \in Tails : \A U \in Tails : U \subseteq T => U = T
    <3> HIDE DEF Tails, I
    <3> QED BY <1>1, <1>3, SmallestSet
  <2> QED BY <2>1
<1>5. PICK x \in S : x >= l /\ T = above(x)
  BY <1>4
<1>6. ASSUME NEW y \in S PROVE x >= y
  <2>1. SUFFICES ASSUME y > x PROVE FALSE
    OBVIOUS
  <2>2. x \in Int /\ y \in Int /\ y >= l
    BY <1>1, <1>5, <2>1
  <2>3. x \in above(x) /\ x \notin above(y)
    BY <2>1, <2>2
  <2>4. above(y) \subseteq above(x)
    <3> SUFFICES ASSUME NEW s \in above(y) PROVE s \in above(x)
      OBVIOUS
    <3>1. s \in S /\ s \in Int /\ s >= y
      OBVIOUS
    <3> QED BY <2>1, <2>2, <3>1
  <2>5. above(y) \in Tails
    BY <2>2
  <2> HIDE DEF above, Tails
  <2> QED BY <1>4, <1>5, <2>3, <2>4, <2>5
<1> QED BY <1>6 DEF Max

\* A day that is not before the calendar begins is in a month.
LEMMA MonthOfDay ==
  ASSUME NEW l \in MonthStart, NEW d \in Int, l <= d
  PROVE  MonthOf(d) \in MonthStart /\ l <= MonthOf(d) /\ MonthOf(d) <= d
<1> DEFINE S == {m \in MonthStart : m <= d}
<1>1. S \subseteq Int /\ l \in S /\ \A s \in S : s <= d
  BY InsightsAssumption
<1>2. Max(S) \in S /\ \A s \in S : Max(S) >= s
  <2> HIDE DEF S
  <2> QED BY <1>1, MaxExists
<1>3. MonthOf(d) \in S /\ MonthOf(d) >= l
  BY <1>1, <1>2 DEF MonthOf
<1> QED BY <1>3, InsightsAssumption

\* Every preset is a pair of dates.
LEMMA PresetIsWindow ==
  ASSUME today \in FirstDay .. LastDay, NEW preset \in Preset
  PROVE  ResolveDateRange(preset) \in Window
<1>1. PICK last \in MonthStart, this \in MonthStart : last < this /\ this <= FirstDay
  BY InsightsAssumption
<1>2. today \in Int /\ last \in Int /\ this \in Int /\ this <= today /\ RollingDays \in Int
  BY <1>1, InsightsAssumption
<1>3. MonthOf(today) \in Int /\ this <= MonthOf(today)
  BY <1>2, MonthOfDay, InsightsAssumption
<1>4. last <= MonthOf(today) - 1
  BY <1>1, <1>2, <1>3
<1>5. MonthOf(MonthOf(today) - 1) \in Int
  <2> DEFINE d == MonthOf(today) - 1
  <2>1. d \in Int
    BY <1>3
  <2> HIDE DEF d
  <2>2. last <= d
    BY <1>4 DEF d
  <2>3. MonthOf(d) \in MonthStart
    BY <2>1, <2>2, MonthOfDay
  <2> QED BY <2>3, InsightsAssumption DEF d
<1> HIDE DEF MonthOf
<1> QED BY <1>2, <1>3, <1>5 DEF ResolveDateRange, Preset, Window

-----------------------------------------------------------------------------
(* The narratives *)

\* Rows have a key and a fetched_at, and what a transaction has upserted is one
\* row and its actions.
DataInv ==
  /\ stamp \in Nat
  /\ today \in Int
  /\ \A k \in DOMAIN metrics : k \in Level \X Campaign \X Int /\ metrics[k].at \in Nat
  /\ DOMAIN open = Writer
  /\ \A w \in Writer : open[w] # NoTx =>
       /\ open[w].at \in Nat
       /\ open[w].key \in Level \X Campaign \X Int
       /\ \A x \in open[w].rows : <<x[1], x[2], x[3]>> = open[w].key

\* Each fetched_at is taken once.
StampsDiffer ==
  \A w \in Writer : open[w] # NoTx =>
    /\ open[w].at <= stamp
    /\ \A o \in Writer \ {w} : open[o] # NoTx => open[o].at # open[w].at
    /\ \A k \in DOMAIN metrics : metrics[k].at # open[w].at

\* No row has a fetched_at that is still to come.
StampsAreTaken == \A k \in DOMAIN metrics : metrics[k].at <= stamp

\* The rows are finitely many, as far as it matters: some row is the newest.
HasNewest ==
  \A K \in SUBSET DOMAIN metrics :
    K # {} => \E k \in K : \A j \in K : metrics[j].at <= metrics[k].at

\* The rows that a reading is about.
Rows(q) == CurrentRows(q.account, q.window, q.filter)

\* Whoever has read the database has seen what it still holds, or its token is
\* older than the rows are now.
SeenOrOld(q) ==
  \/ q.token = CachedAt(Rows(q)) /\ q.current = Totals(Rows(q))
  \/ Rows(q) # {} /\ (q.token = Null \/ q.token < CachedAt(Rows(q)))

Fields == {"mode", "account", "period", "filter", "window", "token", "current", "previous"}

\* The facts about one reading.
Reading(q) ==
  /\ q = [f \in Fields |-> q[f]]
  /\ q.account \in Account
  /\ q.token \in Nat \cup {Null}
  /\ q.period.preset = Null => q.window = q.period.dates
  /\ q.account \notin unmarked => SeenOrOld(q)

\* Two readings of one window with one token are of one state.
SameRead(p, q) ==
  /\ p.account = q.account /\ p.window = q.window
  /\ p.filter = q.filter /\ p.token = q.token

Agree(p, q) == p.account \notin unmarked /\ SameRead(p, q) => p.current = q.current

\* What requests have read, and what has been stored of it.
Readings == {req[r] : r \in {r \in Request : pc[r] # "idle"}}
            \cup {cache[k] : k \in DOMAIN cache}

ReadingsInv ==
  /\ \A q \in Readings : Reading(q)
  /\ \A p, q \in Readings : Agree(p, q)

\* A narrative is stored under its own key.
CacheInv ==
  /\ DOMAIN pc = Request /\ DOMAIN req = Request
  /\ \A k \in DOMAIN cache : k = CacheKey(cache[k])

IInv == DataInv /\ StampsDiffer /\ StampsAreTaken /\ HasNewest /\ ReadingsInv /\ CacheInv

-----------------------------------------------------------------------------
\* Sums and the token depend on the rows of the window and their actions only.
LEMMA SameTotals ==
  ASSUME NEW account, NEW w, NEW f,
         CurrentRows(account, w, f)' = CurrentRows(account, w, f),
         \A k \in CurrentRows(account, w, f) :
           metrics'[k] = metrics[k] /\ ConversionRows(k)' = ConversionRows(k)
  PROVE  /\ Totals(CurrentRows(account, w, f))' = Totals(CurrentRows(account, w, f))
         /\ CachedAt(CurrentRows(account, w, f))' = CachedAt(CurrentRows(account, w, f))
<1> DEFINE K == CurrentRows(account, w, f)
<1>1. [k \in K |-> JoinedSpend(k)]' = [k \in K |-> JoinedSpend(k)]
  BY DEF JoinedSpend
<1>2. [k \in K |-> Conversions(k)]' = [k \in K |-> Conversions(k)]
  BY DEF Conversions
<1>3. {metrics[k].at : k \in K}' = {metrics[k].at : k \in K}
  OBVIOUS
<1> HIDE DEF K
<1>4. Totals(K)' = Totals(K)
  BY <1>1, <1>2 DEF Totals
<1>5. CachedAt(K)' = CachedAt(K)
  BY <1>3 DEF CachedAt, K
<1> QED BY <1>4, <1>5 DEF K

\* Max is the number that is not below any other.
LEMMA MaxIs ==
  ASSUME NEW S, S \subseteq Nat, NEW m \in S, \A y \in S : y <= m
  PROVE  Max(S) = m
<1>1. \A y \in S : m >= y
  OBVIOUS
<1>2. Max(S) \in S /\ \A y \in S : Max(S) >= y
  BY <1>1 DEF Max
<1>3. Max(S) \in Nat /\ m \in Nat /\ Max(S) <= m /\ Max(S) >= m
  BY <1>2
<1> QED BY <1>3

\* A finite set of rows has its newest fetched_at.
LEMMA CachedAtIsNewest ==
  ASSUME IInv, NEW K \in SUBSET DOMAIN metrics, K # {}
  PROVE  /\ CachedAt(K) \in Nat
         /\ \A k \in K : metrics[k].at <= CachedAt(K)
         /\ \E k \in K : metrics[k].at = CachedAt(K)
<1>1. PICK m \in K : \A j \in K : metrics[j].at <= metrics[m].at
  BY DEF IInv, HasNewest
<1>2. \A k \in K : metrics[k].at \in Nat
  BY DEF IInv, DataInv
<1> DEFINE S == {metrics[k].at : k \in K}
<1>3. metrics[m].at \in S /\ \A y \in S : metrics[m].at >= y
  BY <1>1, <1>2
<1>4. Max(S) \in S /\ \A y \in S : Max(S) >= y
  BY <1>3 DEF Max
<1>5. CachedAt(K) = Max(S)
  BY DEF CachedAt
<1> QED BY <1>2, <1>4, <1>5

\* The invariant holds before anything has happened.
LEMMA InitIInv == SummaryInit => IInv
<1> SUFFICES ASSUME SummaryInit PROVE IInv
  OBVIOUS
<1>1. DataInv /\ StampsDiffer /\ StampsAreTaken /\ HasNewest
  BY InsightsAssumption DEF SummaryInit, Init, DataInv, StampsDiffer, StampsAreTaken, HasNewest
<1>2. Readings = {}
  BY DEF SummaryInit, Readings
<1>3. ReadingsInv /\ CacheInv
  BY <1>2 DEF SummaryInit, ReadingsInv, CacheInv
<1> QED BY <1>1, <1>3 DEF IInv

-----------------------------------------------------------------------------
\* What a step of the database must show of the rows for the readings to stay.
LEMMA DatabaseKeepsReadings ==
  ASSUME IInv, DatabaseStep,
         \A q \in Readings : q.account \notin unmarked' /\ SeenOrOld(q) => SeenOrOld(q)'
  PROVE  ReadingsInv' /\ CacheInv'
<1>1. Readings' = Readings
  BY DEF DatabaseStep, requestVars, cacheVars, Readings
<1>2. unmarked \subseteq unmarked'
  BY DEF DatabaseStep
<1>3. \A q \in Readings : Reading(q)'
  BY <1>2 DEF IInv, ReadingsInv, Reading
<1>4. \A p, q \in Readings : Agree(p, q)'
  BY <1>2 DEF IInv, ReadingsInv, Agree, SameRead
<1>5. CacheInv'
  BY DEF DatabaseStep, requestVars, cacheVars, IInv, CacheInv, CacheKey
<1> QED BY <1>1, <1>3, <1>4, <1>5 DEF ReadingsInv

\* The rows of a reading are its account's.
LEMMA RowsOfAccount ==
  ASSUME NEW q, NEW k \in Rows(q)
  PROVE  k \in DOMAIN metrics /\ AccountOf[k[2]] = q.account
BY DEF Rows, CurrentRows, MetricRows

\* A reading stays what it is when its rows and their actions do.
LEMMA SameRowsKeep ==
  ASSUME NEW q, SeenOrOld(q), Rows(q)' = Rows(q),
         \A k \in Rows(q) : metrics'[k] = metrics[k] /\ ConversionRows(k)' = ConversionRows(k)
  PROVE  SeenOrOld(q)'
BY SameTotals DEF Rows, SeenOrOld

\* A commit that leaves the account unmarked has the account's newest fetched_at.
LEMMA UnmarkedCommitIsNewest ==
  ASSUME IInv, NEW w \in Writer, Commit(w), DatabaseStep,
         AccountOf[open[w].key[2]] \notin unmarked'
  PROVE  \A k \in DOMAIN metrics :
           AccountOf[k[2]] = AccountOf[open[w].key[2]] => metrics[k].at < open[w].at
<1> DEFINE a == AccountOf[open[w].key[2]]
           K == {k \in DOMAIN metrics : AccountOf[k[2]] = a}
<1>1. open[w] # NoTx /\ open'[w] = NoTx
  BY DEF Commit, IInv, DataInv
<1>2. ~(open[w].at < Newest(a))
  BY <1>1 DEF DatabaseStep, ChangedUnmarked
<1>3. /\ open[w].at \in Nat
      /\ \A k \in DOMAIN metrics : metrics[k].at \in Nat /\ metrics[k].at # open[w].at
  BY <1>1 DEF IInv, DataInv, StampsDiffer
<1>4. CASE K = {}
  BY <1>4
<1>5. CASE K # {}
  <2>1. CachedAt(K) \in Nat /\ \A k \in K : metrics[k].at <= CachedAt(K)
    BY <1>5, CachedAtIsNewest
  <2>2. Newest(a) = CachedAt(K)
    BY <1>5 DEF Newest, CachedAt
  <2> QED BY <1>2, <1>3, <2>1, <2>2
<1> QED BY <1>4, <1>5

\* What a commit does to the rows.
LEMMA CommitRows ==
  ASSUME IInv, NEW w \in Writer, Commit(w)
  PROVE  /\ open[w] # NoTx
         /\ DOMAIN metrics' = DOMAIN metrics \cup {open[w].key}
         /\ metrics'[open[w].key].at = open[w].at
         /\ \A k \in DOMAIN metrics \ {open[w].key} :
              metrics'[k] = metrics[k] /\ ConversionRows(k)' = ConversionRows(k)
         /\ status' = status
         /\ open'[w] = NoTx
         /\ DOMAIN open' = Writer
         /\ \A o \in Writer \ {w} : open'[o] = open[o]
<1>1. open[w] # NoTx
  BY DEF Commit
<1>2. /\ DOMAIN metrics' = DOMAIN metrics \cup {open[w].key}
      /\ metrics'[open[w].key].at = open[w].at
      /\ \A k \in DOMAIN metrics \ {open[w].key} : metrics'[k] = metrics[k]
  BY DEF Commit
<1>3. \A x \in open[w].rows : <<x[1], x[2], x[3]>> = open[w].key
  BY <1>1 DEF IInv, DataInv
<1>4. actions' = actions \cup open[w].rows /\ primary' = primary
  BY DEF Commit
<1>5. ASSUME NEW k \in DOMAIN metrics \ {open[w].key}
      PROVE  ConversionRows(k)' = ConversionRows(k)
  BY <1>3, <1>4 DEF ConversionRows
<1>6. DOMAIN open' = Writer /\ open'[w] = NoTx /\ \A o \in Writer \ {w} : open'[o] = open[o]
  BY DEF Commit, IInv, DataInv
<1> QED BY <1>1, <1>2, <1>5, <1>6 DEF Commit

\* The rows of a window after a commit: the row is in it, or the window is what
\* it was.
LEMMA CommitMovesWindow ==
  ASSUME IInv, NEW w \in Writer, Commit(w), NEW q,
         Rows(q)' # Rows(q) \/ open[w].key \in Rows(q)
  PROVE  /\ Rows(q)' = Rows(q) \cup {open[w].key}
         /\ AccountOf[open[w].key[2]] = q.account
<1>1. ResolveCampaignIds(q.account, q.filter)' = ResolveCampaignIds(q.account, q.filter)
  BY CommitRows DEF ResolveCampaignIds
<1> DEFINE C == ResolveCampaignIds(q.account, q.filter)
           InWindow(k) == /\ k[1] = "campaign" /\ k[2] \in C
                          /\ AccountOf[k[2]] = q.account /\ k[3] \in Days(q.window)
<1>2. Rows(q) = {k \in DOMAIN metrics : InWindow(k)}
  BY DEF Rows, CurrentRows, MetricRows
<1>3. Rows(q)' = {k \in DOMAIN metrics' : InWindow(k)}
  BY <1>1 DEF Rows, CurrentRows, MetricRows, Days
<1>4. DOMAIN metrics' = DOMAIN metrics \cup {open[w].key}
  BY CommitRows
<1> HIDE DEF C
<1> QED BY <1>2, <1>3, <1>4

\* Readings survive a commit: it changes none of their rows, or makes one newer
\* than all of them.
LEMMA CommitKeepsReading ==
  ASSUME IInv, NEW w \in Writer, Commit(w), DatabaseStep,
         NEW q \in Readings, q.account \notin unmarked', SeenOrOld(q)
  PROVE  SeenOrOld(q)'
<1>1. CASE Rows(q)' = Rows(q) /\ open[w].key \notin Rows(q)
  <2>1. \A k \in Rows(q) : metrics'[k] = metrics[k] /\ ConversionRows(k)' = ConversionRows(k)
    BY <1>1, CommitRows, RowsOfAccount
  <2> QED BY <1>1, <2>1, SameRowsKeep
<1>2. CASE Rows(q)' # Rows(q) \/ open[w].key \in Rows(q)
  <2>1. /\ Rows(q)' = Rows(q) \cup {open[w].key}
        /\ AccountOf[open[w].key[2]] = q.account
    BY <1>2, CommitMovesWindow
  <2>2. \A k \in Rows(q) : metrics[k].at < open[w].at
    BY <2>1, UnmarkedCommitIsNewest, RowsOfAccount
  <2>3. CachedAt(Rows(q))' = open[w].at
    <3> DEFINE S == {metrics'[k].at : k \in Rows(q)'}
    <3>1. \A k \in Rows(q)' : k = open[w].key \/ (k \in Rows(q) /\ metrics'[k] = metrics[k])
      BY <2>1, CommitRows, RowsOfAccount
    <3>2. metrics'[open[w].key].at = open[w].at /\ open[w].at \in Nat
      BY CommitRows DEF IInv, DataInv
    <3>3. \A k \in Rows(q)' : metrics'[k].at \in Nat /\ metrics'[k].at <= open[w].at
      BY <2>2, <3>1, <3>2, RowsOfAccount DEF IInv, DataInv
    <3>4. S \subseteq Nat /\ open[w].at \in S /\ \A y \in S : y <= open[w].at
      BY <2>1, <3>2, <3>3
    <3>5. Max(S) = open[w].at
      BY <3>4, MaxIs
    <3> QED BY <2>1, <3>5 DEF CachedAt
  <2>4. q.token = Null \/ q.token < open[w].at
    <3>1. CASE Rows(q) = {}
      BY <3>1 DEF SeenOrOld, CachedAt
    <3>2. CASE Rows(q) # {}
      <4>1. Rows(q) \in SUBSET DOMAIN metrics
        BY RowsOfAccount
      <4>2. CachedAt(Rows(q)) \in Nat /\ CachedAt(Rows(q)) < open[w].at
        BY <2>2, <3>2, <4>1, CachedAtIsNewest
      <4>3. q.token \in Nat \cup {Null} /\ open[w].at \in Nat
        BY CommitRows DEF IInv, ReadingsInv, Reading, DataInv
      <4> QED BY <4>2, <4>3 DEF SeenOrOld
    <3> QED BY <3>1, <3>2
  <2> QED BY <2>1, <2>3, <2>4 DEF SeenOrOld
<1> QED BY <1>1, <1>2

\* A commit and the rows' times.
LEMMA CommitKeepsData ==
  ASSUME IInv, NEW w \in Writer, Commit(w)
  PROVE  DataInv' /\ StampsDiffer' /\ StampsAreTaken' /\ HasNewest'
<1>1. /\ open[w].at \in Nat /\ open[w].at <= stamp /\ stamp' = stamp /\ stamp \in Nat
      /\ today' \in Int
      /\ open[w].key \in Level \X Campaign \X Int
  BY CommitRows DEF IInv, DataInv, StampsDiffer, Commit
<1>2. \A k \in DOMAIN metrics' :
         \/ k = open[w].key /\ metrics'[k].at = open[w].at
         \/ k \in DOMAIN metrics /\ metrics'[k] = metrics[k]
  BY CommitRows
<1>3. /\ DOMAIN open' = Writer
      /\ \A o \in Writer : open'[o] # NoTx => o # w /\ open'[o] = open[o]
  BY CommitRows
<1>4. DataInv' /\ StampsAreTaken'
  <2>1. \A k \in DOMAIN metrics' :
           k \in Level \X Campaign \X Int /\ metrics'[k].at \in Nat /\ metrics'[k].at <= stamp'
    BY <1>1, <1>2 DEF IInv, DataInv, StampsAreTaken
  <2> QED BY <1>1, <1>3, <2>1 DEF IInv, DataInv, StampsAreTaken
<1>5. StampsDiffer'
  <2> SUFFICES ASSUME NEW v \in Writer, open'[v] # NoTx
               PROVE  /\ open'[v].at <= stamp'
                      /\ \A o \in Writer \ {v} : open'[o] # NoTx => open'[o].at # open'[v].at
                      /\ \A k \in DOMAIN metrics' : metrics'[k].at # open'[v].at
    BY DEF StampsDiffer
  <2>1. v # w /\ open'[v] = open[v] /\ open[v] # NoTx
    BY <1>3
  <2>2. /\ open[v].at <= stamp
        /\ \A o \in Writer \ {v} : open[o] # NoTx => open[o].at # open[v].at
        /\ \A k \in DOMAIN metrics : metrics[k].at # open[v].at
    BY <2>1 DEF IInv, StampsDiffer
  <2>3. open[w].at # open[v].at
    BY <2>1, <2>2, CommitRows
  <2>4. \A k \in DOMAIN metrics' : metrics'[k].at # open'[v].at
    BY <1>2, <2>1, <2>2, <2>3
  <2>5. \A o \in Writer \ {v} : open'[o] # NoTx => open'[o].at # open'[v].at
    BY <1>3, <2>1, <2>2
  <2> QED BY <1>1, <2>1, <2>2, <2>4, <2>5
<1>6. HasNewest'
  <2> SUFFICES ASSUME NEW K \in SUBSET DOMAIN metrics', K # {}
               PROVE  \E k \in K : \A j \in K : metrics'[j].at <= metrics'[k].at
    BY DEF HasNewest
  <2> DEFINE L == K \ {open[w].key}
  <2>1. /\ L \in SUBSET DOMAIN metrics
        /\ \A k \in L : metrics'[k] = metrics[k] /\ metrics[k].at \in Nat
    BY CommitRows DEF IInv, DataInv
  <2>2. CASE L = {}
    <3>1. K = {open[w].key}
      BY <2>2
    <3>2. metrics'[open[w].key].at = open[w].at
      BY CommitRows
    <3> HIDE DEF L
    <3>4. open[w].at <= open[w].at
      BY <1>1
    <3>3. open[w].key \in K /\ \A j \in K : metrics'[j].at <= metrics'[open[w].key].at
      BY <3>1, <3>2, <3>4
    <3> QED BY <3>3
  <2>3. CASE L # {}
    <3>1. PICK m \in L : \A j \in L : metrics[j].at <= metrics[m].at
      BY <2>1, <2>3 DEF IInv, HasNewest
    <3>2. \A j \in L : metrics'[j].at <= metrics'[m].at
      BY <2>1, <3>1
    <3>3. metrics'[m].at \in Nat /\ metrics'[open[w].key].at = open[w].at
      BY <2>1, CommitRows
    <3>4. CASE open[w].at <= metrics'[m].at
      BY <3>2, <3>3, <3>4
    <3>5. CASE ~(open[w].at <= metrics'[m].at)
      <4>1. \A j \in L : metrics'[j].at <= open[w].at
        BY <1>1, <2>1, <3>2, <3>3, <3>5
      <4>2. CASE open[w].key \in K
        BY <1>1, <3>3, <4>1, <4>2
      <4>3. CASE open[w].key \notin K
        BY <3>2, <4>3
      <4> QED BY <4>2, <4>3
    <3> QED BY <3>4, <3>5
  <2> QED BY <2>2, <2>3
<1> QED BY <1>4, <1>5, <1>6

\* A commit keeps the invariant.
LEMMA CommitKeeps ==
  ASSUME IInv, NEW w \in Writer, Commit(w), DatabaseStep
  PROVE  IInv'
<1>1. ReadingsInv' /\ CacheInv'
  BY CommitKeepsReading, DatabaseKeepsReadings
<1> QED BY <1>1, CommitKeepsData DEF IInv

\* Steps that leave the metric rows alone: they change nothing that a window of
\* an unmarked account adds up.
LEMMA OtherWritesKeep ==
  ASSUME IInv, DatabaseStep, UNCHANGED <<metrics, actions>>,
         DataInv', StampsDiffer', StampsAreTaken'
  PROVE  IInv'
<1>1. HasNewest'
  BY DEF IInv, HasNewest
<1>2. ASSUME NEW q \in Readings, q.account \notin unmarked', SeenOrOld(q)
      PROVE  SeenOrOld(q)'
  <2>1. q.account \in Account
    BY DEF IInv, ReadingsInv, Reading
  <2>2. primary'[q.account] = primary[q.account]
    BY <1>2, <2>1 DEF DatabaseStep, ChangedUnmarked
  <2>3. \A c \in Campaign : AccountOf[c] = q.account =>
           status'[<<"campaign", c>>] = status[<<"campaign", c>>]
    <3> SUFFICES ASSUME NEW c \in Campaign, AccountOf[c] = q.account,
                        status'[<<"campaign", c>>] # status[<<"campaign", c>>]
                 PROVE  FALSE
      OBVIOUS
    <3>1. <<"campaign", c>> \in {e \in Level \X Campaign : status'[e] # status[e]}
      BY InsightsAssumption
    <3>2. AccountOf[c] \in ChangedUnmarked
      BY <3>1 DEF ChangedUnmarked
    <3> QED BY <1>2, <3>2 DEF DatabaseStep
  <2>4. Rows(q)' = Rows(q)
    BY <2>3 DEF Rows, CurrentRows, MetricRows, ResolveCampaignIds, Days
  <2>5. \A k \in Rows(q) : ConversionRows(k)' = ConversionRows(k)
    BY <2>2, RowsOfAccount DEF ConversionRows
  <2> QED BY <1>2, <2>4, <2>5, SameRowsKeep
<1> QED BY <1>1, <1>2, DatabaseKeepsReadings DEF IInv

\* A transaction upserts, and takes the next fetched_at.
LEMMA UpsertKeeps ==
  ASSUME IInv, DatabaseStep, NEW w \in Writer, NEW level \in Level, NEW c \in Campaign,
         NEW d \in Int, NEW spend, NEW kinds, Upsert(w, level, c, d, spend, kinds)
  PROVE  IInv'
<1>1. stamp \in Nat /\ stamp' = stamp + 1 /\ UNCHANGED <<metrics, actions>>
  BY DEF Upsert, IInv, DataInv
<1>2. /\ DOMAIN open' = Writer
      /\ open'[w].at = stamp + 1 /\ open'[w].key = <<level, c, d>>
      /\ open'[w].rows = {<<level, c, d, x[1], x[2]>> : x \in kinds}
      /\ \A o \in Writer \ {w} : open'[o] = open[o]
  BY DEF Upsert, IInv, DataInv
<1>3. \A x \in open'[w].rows : <<x[1], x[2], x[3]>> = open'[w].key
  BY <1>2
<1>4. DataInv'
  <2>1. open'[w].at \in Nat /\ open'[w].key \in Level \X Campaign \X Int
    BY <1>1, <1>2
  <2>2. ASSUME NEW o \in Writer, open'[o] # NoTx
        PROVE  /\ open'[o].at \in Nat
               /\ open'[o].key \in Level \X Campaign \X Int
               /\ \A x \in open'[o].rows : <<x[1], x[2], x[3]>> = open'[o].key
    <3>1. CASE o = w
      BY <1>3, <2>1, <3>1
    <3>2. CASE o # w
      BY <1>2, <2>2, <3>2 DEF IInv, DataInv
    <3> QED BY <3>1, <3>2
  <2>3. today' \in Int
    BY DEF Upsert, IInv, DataInv
  <2> QED BY <1>1, <1>2, <2>2, <2>3 DEF IInv, DataInv
<1>5. StampsAreTaken'
  BY <1>1 DEF IInv, DataInv, StampsAreTaken
<1>6. StampsDiffer'
  BY <1>1, <1>2 DEF IInv, DataInv, StampsDiffer, StampsAreTaken
<1> QED BY <1>1, <1>4, <1>5, <1>6, OtherWritesKeep

\* A transaction is rolled back.
LEMMA AbortKeeps ==
  ASSUME IInv, DatabaseStep, NEW w \in Writer, Abort(w)
  PROVE  IInv'
<1>1. /\ DOMAIN open' = Writer
      /\ \A o \in Writer : open'[o] # NoTx => open'[o] = open[o]
  BY DEF Abort, IInv, DataInv
<1>2. UNCHANGED <<metrics, actions, stamp, today>>
  BY DEF Abort
<1>3. DataInv' /\ StampsDiffer' /\ StampsAreTaken'
  BY <1>1, <1>2 DEF IInv, DataInv, StampsDiffer, StampsAreTaken
<1> QED BY <1>2, <1>3, OtherWritesKeep

\* Statuses, configurations, breakdowns and dates.
LEMMA EditKeeps ==
  ASSUME IInv, DatabaseStep, UNCHANGED <<metrics, actions, stamp, open>>, today' \in Int
  PROVE  IInv'
<1>1. DataInv' /\ StampsDiffer' /\ StampsAreTaken'
  BY DEF IInv, DataInv, StampsDiffer, StampsAreTaken
<1> QED BY <1>1, OtherWritesKeep

\* Every step of the database keeps the invariant.
LEMMA DatabaseKeeps ==
  ASSUME IInv, DatabaseStep
  PROVE  IInv'
<1>1. CASE \E w \in Writer : Commit(w)
  BY <1>1, CommitKeeps
<1>2. CASE \E w \in Writer : Abort(w)
  BY <1>2, AbortKeeps
<1>3. ASSUME NEW w \in Writer, NEW level \in Level, NEW c \in Campaign,
             NEW d \in {today - 1, today}, NEW spend \in Spend \cup {Null},
             NEW kinds \in SUBSET Reportable(AccountOf[c]),
             Upsert(w, level, c, d, spend, kinds)
      PROVE  IInv'
  <2>1. d \in Int
    BY DEF IInv, DataInv
  <2> QED BY <1>3, <2>1, UpsertKeeps
<1>4. CASE UNCHANGED <<metrics, actions, stamp, open>> /\ today' \in Int
  BY <1>4, EditKeeps
<1>5. \/ \E a \in Account : SyncBreakdowns(a)
      \/ \E level \in Level, c \in Campaign : SetStatus(level, c)
      \/ \E a \in Account, type \in ActionType : SetPrimary(a, type)
      \/ Midnight
      => UNCHANGED <<metrics, actions, stamp, open>> /\ today' \in Int
  <2>1. ASSUME NEW a \in Account, SyncBreakdowns(a)
        PROVE  UNCHANGED <<metrics, actions, stamp, open, today>>
    BY <2>1 DEF SyncBreakdowns
  <2>2. ASSUME NEW level \in Level, NEW c \in Campaign, SetStatus(level, c)
        PROVE  UNCHANGED <<metrics, actions, stamp, open, today>>
    BY <2>2 DEF SetStatus
  <2>3. ASSUME NEW a \in Account, NEW type \in ActionType, SetPrimary(a, type)
        PROVE  UNCHANGED <<metrics, actions, stamp, open, today>>
    BY <2>3 DEF SetPrimary
  <2>4. ASSUME Midnight
        PROVE  UNCHANGED <<metrics, actions, stamp, open>> /\ today' \in Int
    BY <2>4 DEF Midnight, IInv, DataInv
  <2>5. today \in Int
    BY DEF IInv, DataInv
  <2> QED BY <2>1, <2>2, <2>3, <2>4, <2>5
<1> QED BY <1>1, <1>2, <1>3, <1>4, <1>5 DEF DatabaseStep, Write

-----------------------------------------------------------------------------
\* A request's own steps leave the database alone.
LEMMA SameDatabase ==
  ASSUME IInv, UNCHANGED insightVars, UNCHANGED unmarked
  PROVE  /\ DataInv' /\ StampsDiffer' /\ StampsAreTaken' /\ HasNewest'
         /\ \A q : SeenOrOld(q)' <=> SeenOrOld(q)
<1>1. DataInv' /\ StampsDiffer' /\ StampsAreTaken' /\ HasNewest'
  BY DEF insightVars, IInv, DataInv, StampsDiffer, StampsAreTaken, HasNewest
<1>2. ASSUME NEW q
      PROVE  SeenOrOld(q)' <=> SeenOrOld(q)
  <2>1. Rows(q)' = Rows(q)
    BY DEF insightVars, Rows, CurrentRows, MetricRows, ResolveCampaignIds, Days
  <2>2. \A k \in Rows(q) : metrics'[k] = metrics[k] /\ ConversionRows(k)' = ConversionRows(k)
    BY DEF insightVars, ConversionRows
  <2> QED BY <2>1, <2>2, SameTotals DEF Rows, SeenOrOld
<1> QED BY <1>1, <1>2

\* What a copy of a reading, or a reading that goes on, keeps of it.
SameReading(q, p) ==
  /\ q = [f \in Fields |-> q[f]]
  /\ q.account = p.account /\ q.period = p.period /\ q.window = p.window
  /\ q.filter = p.filter /\ q.token = p.token /\ q.current = p.current

\* Readings that are old ones, or copies of them, keep the invariant.
LEMMA OldReadingsKeep ==
  ASSUME IInv, UNCHANGED insightVars, UNCHANGED unmarked, CacheInv',
         \A q \in Readings' : \E p \in Readings : SameReading(q, p)
  PROVE  IInv'
<1>1. \A q \in Readings' : Reading(q)'
  <2> SUFFICES ASSUME NEW q \in Readings' PROVE Reading(q)'
    OBVIOUS
  <2>1. PICK p \in Readings : SameReading(q, p)
    OBVIOUS
  <2>2. Reading(p)
    BY DEF IInv, ReadingsInv
  <2>3. SeenOrOld(p) => SeenOrOld(q)
    BY <2>1 DEF SeenOrOld, Rows, SameReading
  <2> QED BY <2>1, <2>2, <2>3, SameDatabase DEF Reading, SameReading
<1>2. \A p, q \in Readings' : Agree(p, q)'
  BY DEF IInv, ReadingsInv, Agree, SameRead, SameReading
<1> QED BY <1>1, <1>2, SameDatabase DEF IInv, ReadingsInv

\* Steps of a request after its reads.
LEMMA RequestKeeps ==
  ASSUME IInv, NEW r \in Request,
         Compare(r) \/ Hit(r) \/ Miss(r) \/ Generate(r) \/ NarrateDeck(r)
         \/ GenerateFails(r) \/ Store(r) \/ Drop(r)
  PROVE  IInv'
<1>1. UNCHANGED insightVars /\ UNCHANGED unmarked
  BY DEF Compare, Hit, Miss, Generate, NarrateDeck, GenerateFails, Store, Drop
<1>2. DOMAIN pc' = Request /\ DOMAIN req' = Request
  BY DEF IInv, CacheInv, Compare, Hit, Miss, Generate, NarrateDeck, GenerateFails, Store, Drop,
     Goto, Answer
<1>3. ASSUME NEW o \in Request, pc'[o] # "idle"
      PROVE  req[o] \in Readings /\ SameReading(req'[o], req[o])
  <2>1. pc[o] # "idle"
    BY <1>3 DEF IInv, CacheInv, Compare, Hit, Miss, Generate, NarrateDeck, GenerateFails,
       Store, Drop, Goto, Answer, At
  <2>2. req[o] \in Readings
    BY <2>1 DEF Readings
  <2>3. req[o] = [f \in Fields |-> req[o][f]]
    BY <2>2 DEF IInv, ReadingsInv, Reading
  <2>4. CASE req'[o] = req[o]
    BY <2>2, <2>3, <2>4 DEF SameReading
  <2>5. CASE req'[o] # req[o]
    <3>1. o = r /\ Compare(r)
      BY <1>3, <2>5 DEF IInv, CacheInv, Hit, Miss, Generate, NarrateDeck, GenerateFails, Store,
         Drop, Goto, Answer, Compare
    <3>2. req'[o].previous = req'[o].previous
      OBVIOUS
    <3> QED BY <2>2, <2>3, <3>1 DEF Compare, SameReading, Fields, IInv, CacheInv
  <2> QED BY <2>4, <2>5
<1>4. ASSUME NEW k \in DOMAIN cache'
      PROVE  /\ k = CacheKey(cache'[k])
             /\ \E p \in Readings : SameReading(cache'[k], p)
  <2>1. CASE k \in DOMAIN cache /\ cache'[k] = cache[k]
    <3>1. cache[k] \in Readings
      BY <2>1 DEF Readings
    <3> QED BY <2>1, <3>1 DEF IInv, CacheInv, ReadingsInv, Reading, SameReading
  <2>2. CASE ~(k \in DOMAIN cache /\ cache'[k] = cache[k])
    <3>1. /\ At(r, "store")
          /\ k = CacheKey(req[r]) /\ cache'[k] = Narrative(req[r])
      BY <1>4, <2>2 DEF Compare, Hit, Miss, Generate, NarrateDeck, GenerateFails, Store, Drop,
         cacheVars
    <3>2. req[r] \in Readings
      BY <3>1 DEF Readings, At
    <3>3. req[r] = [f \in Fields |-> req[r][f]]
      BY <3>2 DEF IInv, ReadingsInv, Reading
    <3>4. SameReading(Narrative(req[r]), req[r])
      BY <3>3 DEF SameReading, Narrative, Fields
    <3> QED BY <3>1, <3>2, <3>4 DEF CacheKey, SameReading
  <2> QED BY <2>1, <2>2
<1>5. \A q \in Readings' : \E p \in Readings : SameReading(q, p)
  BY <1>3, <1>4 DEF Readings
<1>6. CacheInv'
  BY <1>2, <1>4 DEF CacheInv
<1> QED BY <1>1, <1>5, <1>6, OldReadingsKeep

\* A request reads the sums of its window and their newest fetched_at in one
\* statement: whoever has read the same token has read the same sums, or has
\* read an account that is marked.
LEMMA AskKeeps ==
  ASSUME IInv, NEW r \in Request, NEW account \in Account, NEW period \in Period,
         NEW filter \in RequestFilter, NEW mode \in Mode, Ask(r, account, period, filter, mode)
  PROVE  IInv'
<1>1. UNCHANGED insightVars /\ UNCHANGED unmarked /\ cache' = cache
  BY DEF Ask, cacheVars
<1> DEFINE w == IF period.preset # Null THEN ResolveDateRange(period.preset) ELSE period.dates
           K == CurrentRows(account, w, filter)
           n == [mode |-> mode, account |-> account, period |-> period, filter |-> filter,
                 window |-> w, token |-> CachedAt(K), current |-> Totals(K),
                 previous |-> NoTotals]
<1>2. req' = [req EXCEPT ![r] = n] /\ pc' = [pc EXCEPT ![r] = "compare"]
  BY DEF Ask, Goto
<1>3. req'[r] = n
  BY <1>2 DEF IInv, CacheInv
<1> HIDE DEF w
<1>4. /\ n = [f \in Fields |-> n[f]] /\ n.account = account /\ n.window = w
      /\ n.filter = filter /\ n.token = CachedAt(K) /\ n.current = Totals(K)
      /\ n.period = period
  BY DEF Fields
<1> HIDE DEF n
<1>5. Rows(n) = K
  BY <1>4 DEF Rows
<1> HIDE DEF K
<1>6. CachedAt(K) \in Nat \cup {Null}
  <2>1. CASE K = {}
    BY <2>1 DEF CachedAt
  <2>2. CASE K # {}
    <3>1. K \in SUBSET DOMAIN metrics
      BY DEF K, CurrentRows, MetricRows
    <3> QED BY <2>2, <3>1, CachedAtIsNewest
  <2> QED BY <2>1, <2>2
<1>7. SeenOrOld(n)
  BY <1>4, <1>5 DEF SeenOrOld
<1>8. Reading(n)
  BY <1>4, <1>6, <1>7 DEF Reading, w
<1>9. \A q \in Readings' : q = n \/ q \in Readings
  BY <1>1, <1>2, <1>3 DEF Readings, IInv, CacheInv
<1>10. \A q \in Readings' : Reading(q)
  BY <1>8, <1>9 DEF IInv, ReadingsInv
<1>11. ASSUME NEW q \in Readings, SameRead(q, n), q.account \notin unmarked
       PROVE  q.current = n.current
  <2>1. SeenOrOld(q)
    BY <1>11 DEF IInv, ReadingsInv, Reading
  <2>2. Rows(q) = K
    BY <1>5, <1>11 DEF SameRead, Rows
  <2>3. q.token = CachedAt(K)
    BY <1>4, <1>11 DEF SameRead
  <2>4. ~(K # {} /\ (q.token = Null \/ q.token < CachedAt(K)))
    <3> SUFFICES ASSUME K # {} PROVE q.token # Null /\ ~(q.token < CachedAt(K))
      OBVIOUS
    <3>1. K \in SUBSET DOMAIN metrics
      BY DEF K, CurrentRows, MetricRows
    <3>2. CachedAt(K) \in Nat
      BY <3>1, CachedAtIsNewest
    <3> QED BY <2>3, <3>2, InsightsAssumption
  <2> QED BY <1>4, <2>1, <2>2, <2>4 DEF SeenOrOld
<1>12. \A p, q \in Readings' : Agree(p, q)
  BY <1>9, <1>11 DEF IInv, ReadingsInv, Agree, SameRead
<1>13. ReadingsInv'
  BY <1>1, <1>10, <1>12, SameDatabase DEF ReadingsInv, Reading, Agree
<1>14. CacheInv'
  BY <1>1, <1>2 DEF IInv, CacheInv, CacheKey
<1> QED BY <1>1, <1>13, <1>14, SameDatabase DEF IInv

\* A narrative expires.
LEMMA ExpireKeeps ==
  ASSUME IInv, NEW k \in DOMAIN cache, Expire(k)
  PROVE  IInv'
<1>1. UNCHANGED insightVars /\ UNCHANGED unmarked /\ UNCHANGED <<pc, req>>
  BY DEF Expire, requestVars
<1>2. DOMAIN cache' = DOMAIN cache \ {k} /\ \A j \in DOMAIN cache' : cache'[j] = cache[j]
  BY DEF Expire
<1>3. Readings' \subseteq Readings
  BY <1>1, <1>2 DEF Readings
<1>4. \A q \in Readings' : SameReading(q, q)
  BY <1>3 DEF IInv, ReadingsInv, Reading, SameReading
<1>5. CacheInv'
  BY <1>1, <1>2 DEF IInv, CacheInv, CacheKey
<1> QED BY <1>1, <1>3, <1>4, <1>5, OldReadingsKeep

\* The invariant is inductive.
LEMMA NextKeepsIInv ==
  ASSUME IInv, [Next]_vars
  PROVE  IInv'
<1>1. CASE UNCHANGED vars
  <2>1. UNCHANGED insightVars /\ UNCHANGED unmarked /\ UNCHANGED <<pc, req, cache>>
    BY <1>1 DEF vars, requestVars, cacheVars
  <2>2. Readings' = Readings /\ CacheInv'
    BY <2>1 DEF Readings, IInv, CacheInv, CacheKey
  <2>3. \A q \in Readings' : SameReading(q, q)
    BY <2>2 DEF IInv, ReadingsInv, Reading, SameReading
  <2> QED BY <2>1, <2>2, <2>3, OldReadingsKeep
<1>2. CASE DatabaseStep
  BY <1>2, DatabaseKeeps
<1>3. CASE \E r \in Request : \/ Compare(r) \/ Hit(r) \/ Miss(r) \/ Generate(r)
                              \/ NarrateDeck(r) \/ GenerateFails(r) \/ Store(r) \/ Drop(r)
  BY <1>3, RequestKeeps
<1>4. CASE \E r \in Request, account \in Account, period \in Period,
              filter \in RequestFilter, mode \in Mode :
              Ask(r, account, period, filter, mode)
  BY <1>4, AskKeeps
<1>5. CASE \E k \in DOMAIN cache : Expire(k)
  BY <1>5, ExpireKeeps
<1> QED BY <1>1, <1>2, <1>3, <1>4, <1>5 DEF Next

\* It holds in every reachable state.
LEMMA InvariantHolds == SummarySpec => []IInv
<1>1. IInv /\ [Next]_vars => IInv'
  BY NextKeepsIInv
<1> QED BY InitIInv, <1>1, PTL DEF SummarySpec

\* What a request finds under its key.
LEMMA FoundReading ==
  ASSUME IInv, NEW r \in Request, Replays(r)
  PROVE  /\ Replayed(r) \in Readings /\ req[r] \in Readings
         /\ Replayed(r).account = req[r].account
         /\ Replayed(r).filter = req[r].filter
         /\ Replayed(r).period = req[r].period
         /\ Replayed(r).token = req[r].token
         /\ req[r].period.preset = Null => Replayed(r).window = req[r].window
<1>1. Replayed(r) \in Readings /\ req[r] \in Readings
  BY DEF Replays, Replayed, Readings, At
<1>2. CacheKey(Replayed(r)) = CacheKey(req[r])
  BY DEF Replays, Replayed, IInv, CacheInv
<1>3. /\ Replayed(r).account = req[r].account
      /\ Replayed(r).filter = req[r].filter
      /\ Replayed(r).period = req[r].period
      /\ Replayed(r).token = req[r].token
  BY <1>2 DEF CacheKey
<1>4. Reading(Replayed(r)) /\ Reading(req[r])
  BY <1>1 DEF IInv, ReadingsInv
<1> QED BY <1>1, <1>3, <1>4 DEF Reading

\* A replayed narrative is about the account, the filter and the period that the
\* request asked for.
THEOREM ReplaysAnswer == SummarySpec => []ReplayAnswersRequest
<1>1. IInv => ReplayAnswersRequest
  BY FoundReading DEF ReplayAnswersRequest
<1> QED BY <1>1, InvariantHolds, PTL

\* A narrative replayed for explicit dates was written from the sums that the
\* request has read, if every change of the account has left a fetched_at.
THEOREM ReplaysAreCurrent == SummarySpec => []ReplayIsCurrent
<1>1. ASSUME IInv, NEW r \in Request, Replays(r), req[r].period.preset = Null,
             req[r].account \notin unmarked
      PROVE  Replayed(r).current = req[r].current
  <2>1. SameRead(Replayed(r), req[r])
    BY <1>1, FoundReading DEF SameRead
  <2>2. Agree(Replayed(r), req[r])
    BY <1>1, FoundReading DEF IInv, ReadingsInv
  <2> QED BY <1>1, <2>1, <2>2 DEF Agree, SameRead
<1>2. IInv => ReplayIsCurrent
  BY <1>1 DEF ReplayIsCurrent
<1> QED BY <1>2, InvariantHolds, PTL

-----------------------------------------------------------------------------
(* The requests move no table *)

\* Whatever the summaries do, the tables behave as Insights says.
THEOREM SummariesImplementInsights == SummarySpec => Spec
<1>1. SummaryInit => Init
  BY DEF SummaryInit
<1>2. [Next]_vars => [Write]_insightVars
  BY DEF Next, vars, DatabaseStep, Ask, Compare, Hit, Miss, Generate, NarrateDeck,
     GenerateFails, Store, Drop, Expire
<1> QED BY <1>1, <1>2, PTL DEF SummarySpec, Spec

\* What a request reads is of the types that RequestRecord says.
LEMMA AskReads ==
  ASSUME TablesInv, IInv, NEW account \in Account, NEW period \in Period,
         NEW filter \in RequestFilter, NEW mode \in Mode
  PROVE  LET w == IF period.preset # Null THEN ResolveDateRange(period.preset) ELSE period.dates
             K == CurrentRows(account, w, filter)
         IN RequestRecord([mode |-> mode, account |-> account, period |-> period,
              filter |-> filter, window |-> w, token |-> CachedAt(K), current |-> Totals(K),
              previous |-> NoTotals])
<1> DEFINE w == IF period.preset # Null THEN ResolveDateRange(period.preset) ELSE period.dates
           K == CurrentRows(account, w, filter)
<1>1. w \in Window
  <2>1. CASE period.preset # Null
    <3>1. period.preset \in Preset
      BY <2>1, SummaryCacheAssumption
    <3> QED BY <2>1, <3>1, PresetIsWindow DEF TablesInv, TypeOK
  <2>2. CASE period.preset = Null
    BY <2>2, SummaryCacheAssumption, InsightsAssumption DEF Preset
  <2> QED BY <2>1, <2>2
<1> HIDE DEF w
<1>2. K \in SUBSET DOMAIN metrics
  BY RowsAreMetrics DEF CurrentRows
<1> HIDE DEF K
<1>3. CachedAt(K) \in Nat \cup {Null}
  <2>1. CASE K = {}
    BY <2>1 DEF CachedAt
  <2>2. CASE K # {}
    BY <1>2, <2>2, CachedAtIsNewest
  <2> QED BY <2>1, <2>2
<1>4. Totals(K) \in [spend : Amount, conversions : Amount]
  BY <1>2, TotalsType
<1>5. NoTotals \in [spend : Amount, conversions : Amount]
  BY DEF NoTotals, Amount
<1> HIDE DEF RequestRecord
<1>6. RequestRecord([mode |-> mode, account |-> account, period |-> period,
        filter |-> filter, window |-> w, token |-> CachedAt(K), current |-> Totals(K),
        previous |-> NoTotals])
  BY <1>1, <1>3, <1>4, <1>5 DEF RequestRecord
<1> QED BY <1>6 DEF w, K

TypeInv == TablesInv /\ IInv /\ SummaryTypeOK

\* A reading that goes on, or that is stored, keeps its types.
LEMMA ReadingTypes ==
  ASSUME TypeInv, NEW q \in Readings, NEW K \in SUBSET DOMAIN metrics
  PROVE  /\ RequestRecord(q)
         /\ RequestRecord(Narrative(q))
         /\ RequestRecord([q EXCEPT !.previous = Totals(K)])
<1>1. RequestRecord(q) /\ q = [f \in Fields |-> q[f]]
  BY DEF TypeInv, SummaryTypeOK, Readings, IInv, ReadingsInv, Reading
<1>2. Totals(K) \in [spend : Amount, conversions : Amount]
  BY TotalsType DEF TypeInv
<1>3. RequestRecord(Narrative(q))
  BY <1>1 DEF Narrative, RequestRecord, Fields, Mode
<1>4. RequestRecord([q EXCEPT !.previous = Totals(K)])
  BY <1>1, <1>2 DEF RequestRecord, Fields
<1> QED BY <1>1, <1>3, <1>4

\* The database's steps.
LEMMA DatabaseKeepsTypes ==
  ASSUME TypeInv, DatabaseStep, TypeOK'
  PROVE  SummaryTypeOK'
<1>1. UNCHANGED <<pc, req, cache, stores>>
  BY DEF DatabaseStep, requestVars, cacheVars
<1>2. ChangedUnmarked \subseteq Account
  <2>1. \A w \in Writer : open[w] # NoTx => open[w].key[2] \in Campaign
    BY DEF TypeInv, IInv, DataInv
  <2> QED BY <2>1, InsightsAssumption DEF ChangedUnmarked
<1>3. unmarked' \subseteq Account
  BY <1>2 DEF DatabaseStep, TypeInv, SummaryTypeOK
<1> QED BY <1>1, <1>3 DEF TypeInv, SummaryTypeOK, RequestRecord, CacheKey

\* A request's steps after its first read.
LEMMA RequestKeepsTypes ==
  ASSUME TypeInv, TypeOK', NEW r \in Request,
         Compare(r) \/ Hit(r) \/ Miss(r) \/ Generate(r) \/ NarrateDeck(r)
         \/ GenerateFails(r) \/ Store(r) \/ Drop(r)
  PROVE  SummaryTypeOK'
<1>1. pc' \in [Request -> Pc] /\ DOMAIN req = Request /\ unmarked' = unmarked
  BY DEF TypeInv, IInv, CacheInv, SummaryTypeOK, Pc, Compare, Hit, Miss, Generate, NarrateDeck,
     GenerateFails, Store, Drop, Goto, Answer
<1>2. stores' \in 0 .. MaxStores
  BY SummaryCacheAssumption DEF TypeInv, SummaryTypeOK, Compare, Hit, Miss, Generate, NarrateDeck,
     GenerateFails, Store, Drop, cacheVars
<1>3. \A o \in Request : pc[o] # "idle" => req[o] \in Readings
  BY DEF Readings
<1>4. ASSUME NEW o \in Request, pc'[o] # "idle"
      PROVE  RequestRecord(req'[o])
  <2>1. pc[o] # "idle"
    BY <1>4 DEF TypeInv, SummaryTypeOK, Compare, Hit, Miss, Generate, NarrateDeck, GenerateFails,
       Store, Drop, Goto, Answer, At
  <2>2. CASE req'[o] = req[o]
    BY <2>1, <2>2 DEF TypeInv, SummaryTypeOK
  <2>3. CASE req'[o] # req[o]
    <3>1. o = r /\ Compare(r)
      BY <1>1, <1>4, <2>3 DEF TypeInv, SummaryTypeOK, Hit, Miss, Generate, NarrateDeck,
         GenerateFails, Store, Drop, Goto, Answer, Compare
    <3> DEFINE K == CurrentRows(req[r].account, ResolvePriorPeriod(req[r].window), req[r].filter)
    <3>2. K \in SUBSET DOMAIN metrics
      BY RowsAreMetrics DEF CurrentRows
    <3>3. req'[o] = [req[o] EXCEPT !.previous = Totals(K)]
      BY <1>1, <3>1 DEF Compare
    <3> HIDE DEF K
    <3> QED BY <1>3, <2>1, <3>2, <3>3, ReadingTypes
  <2> QED BY <2>2, <2>3
<1>5. ASSUME NEW k \in DOMAIN cache'
      PROVE  RequestRecord(cache'[k]) /\ k = CacheKey(cache'[k])
  <2>1. CASE k \in DOMAIN cache /\ cache'[k] = cache[k]
    BY <2>1 DEF TypeInv, SummaryTypeOK
  <2>2. CASE ~(k \in DOMAIN cache /\ cache'[k] = cache[k])
    <3>1. /\ At(r, "store")
          /\ k = CacheKey(req[r]) /\ cache'[k] = Narrative(req[r])
      BY <1>5, <2>2 DEF Compare, Hit, Miss, Generate, NarrateDeck, GenerateFails, Store, Drop,
         cacheVars
    <3>2. req[r] \in Readings
      BY <1>3, <3>1 DEF At
    <3>3. RequestRecord(cache'[k])
      BY <3>1, <3>2, ReadingTypes
    <3>4. req[r] = [f \in Fields |-> req[r][f]]
      BY <3>2 DEF TypeInv, IInv, ReadingsInv, Reading
    <3>5. CacheKey(Narrative(req[r])) = CacheKey(req[r])
      BY <3>4 DEF CacheKey, Narrative, Fields
    <3> QED BY <3>1, <3>3, <3>5
  <2> QED BY <2>1, <2>2
<1>6. unmarked' \subseteq Account
  BY <1>1 DEF TypeInv, SummaryTypeOK
<1>7. \A o \in Request : pc'[o] # "idle" => RequestRecord(req[o])'
  BY <1>4 DEF RequestRecord
<1>8. \A k \in DOMAIN cache' : RequestRecord(cache[k])' /\ k = CacheKey(cache[k])'
  BY <1>5 DEF RequestRecord, CacheKey
<1> QED BY <1>1, <1>2, <1>6, <1>7, <1>8 DEF SummaryTypeOK

\* Every step.
LEMMA NextKeepsTypes ==
  ASSUME TypeInv, [Next]_vars, TypeOK'
  PROVE  SummaryTypeOK'
<1>1. CASE UNCHANGED vars
  BY <1>1 DEF vars, requestVars, cacheVars, TypeInv, SummaryTypeOK, RequestRecord, CacheKey
<1>2. CASE DatabaseStep
  BY <1>2, DatabaseKeepsTypes
<1>3. CASE \E r \in Request : \/ Compare(r) \/ Hit(r) \/ Miss(r) \/ Generate(r)
                              \/ NarrateDeck(r) \/ GenerateFails(r) \/ Store(r) \/ Drop(r)
  BY <1>3, RequestKeepsTypes
<1>4. ASSUME NEW r \in Request, NEW account \in Account, NEW period \in Period,
             NEW filter \in RequestFilter, NEW mode \in Mode,
             Ask(r, account, period, filter, mode)
      PROVE  SummaryTypeOK'
  <2>1. /\ pc' \in [Request -> Pc]
        /\ UNCHANGED <<cache, stores, unmarked>>
    BY <1>4 DEF TypeInv, SummaryTypeOK, Ask, Goto, Pc, cacheVars
  <2>2. RequestRecord(req'[r])
    <3>1. r \in DOMAIN req
      BY DEF TypeInv, IInv, CacheInv
    <3> HIDE DEF RequestRecord
    <3> QED BY <1>4, <3>1, AskReads DEF TypeInv, Ask
  <2>3. \A o \in Request \ {r} : pc'[o] = pc[o] /\ req'[o] = req[o]
    BY <1>4 DEF TypeInv, IInv, CacheInv, Ask, Goto
  <2>4. \A o \in Request : pc'[o] # "idle" => RequestRecord(req[o])'
    BY <2>2, <2>3 DEF TypeInv, SummaryTypeOK, RequestRecord
  <2>5. \A k \in DOMAIN cache' : RequestRecord(cache[k])' /\ k = CacheKey(cache[k])'
    BY <2>1 DEF TypeInv, SummaryTypeOK, RequestRecord, CacheKey
  <2> QED BY <2>1, <2>4, <2>5 DEF TypeInv, SummaryTypeOK
<1>5. ASSUME NEW k \in DOMAIN cache, Expire(k)
      PROVE  SummaryTypeOK'
  <2>1. UNCHANGED <<pc, req, stores, unmarked>>
    BY <1>5 DEF Expire, requestVars
  <2>2. DOMAIN cache' \subseteq DOMAIN cache /\ \A j \in DOMAIN cache' : cache'[j] = cache[j]
    BY <1>5 DEF Expire
  <2> QED BY <2>1, <2>2 DEF TypeInv, SummaryTypeOK, RequestRecord, CacheKey
<1> QED BY <1>1, <1>2, <1>3, <1>4, <1>5 DEF Next

\* Every variable of the summaries stays in its domain: what is cached is a
\* complete reading under its own key, with a window of dates, a fetched_at or
\* NULL, and sums that are amounts.
THEOREM SummaryTypeCorrect == SummarySpec => []SummaryTypeOK
<1>1. SummarySpec => []TablesInv
  BY SummariesImplementInsights, TablesInvHolds, PTL
<1>2. TablesInv => TypeOK
  BY DEF TablesInv
<1>3. SummaryInit /\ TypeOK => SummaryTypeOK
  BY SummaryCacheAssumption DEF SummaryInit, SummaryTypeOK, Pc
<1>4. TablesInv /\ IInv /\ SummaryTypeOK /\ [Next]_vars /\ TypeOK' => SummaryTypeOK'
  BY NextKeepsTypes DEF TypeInv
<1> QED BY <1>1, <1>2, <1>3, <1>4, InvariantHolds, PTL DEF SummarySpec
=============================================================================
