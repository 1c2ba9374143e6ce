------------------------- MODULE ReportToolsProofs -------------------------
(***************************************************************************)
(* What the tools make of the reports, for any file names, contents,       *)
(* batches and suites: which reports become a workbook, that the views of  *)
(* a comparison agree with each other, that files are compared in the      *)
(* order of their dates, and that every result is counted once.            *)
(*                                                                         *)
(* Two things carry the proofs.  MapThenSumSet is a sum: what it takes out *)
(* first does not matter, and a table adds up to the same by rows and by   *)
(* columns.  And what a run of the comparison puts out is a function of    *)
(* the directory (CompareInv), so that each property is one of that        *)
(* function, whatever the steps before.                                    *)
(***************************************************************************)
EXTENDS ReportTools, FiniteSetTheorems, SequenceTheorems, NaturalsInduction, WellFoundedInduction, TLAPS

LEMMA SmallestOf ==
  ASSUME NEW H \in SUBSET Nat, H # {}
  PROVE  \E x \in H : \A y \in H : x <= y
<1>1. PICK x \in H : \A y \in H : ~(<<y, x>> \in OpToRel(<, Nat))
  BY WFMin, NatLessThanWellFounded
<1>2. \A y \in H : x <= y
  <2> SUFFICES ASSUME NEW y \in H PROVE ~(y < x)
    OBVIOUS
  <2>1. y < x => <<y, x>> \in OpToRel(<, Nat)
    BY Zenon DEF OpToRel
  <2> QED
    BY <1>1, <2>1
<1> QED
  BY <1>2

\* A set of finite sets has a smallest one.
LEMMA SmallestSet ==
  ASSUME NEW F, F # {}, \A s \in F : IsFiniteSet(s)
  PROVE  \E s \in F : \A t \in F : Cardinality(s) <= Cardinality(t)
<1> DEFINE H == {Cardinality(s) : s \in F}
<1>1. H \in SUBSET Nat /\ H # {}
  BY FS_CardinalityType
<1>2. PICK x \in H : \A y \in H : x <= y
  <2> HIDE DEF H
  <2> QED
    BY <1>1, SmallestOf
<1> QED
  BY <1>2

\* The table of a sum: what the values f add up to over each subset of S.
Sums(it, f, S) ==
  it = [s \in SUBSET S |->
          IF s = {} THEN 0 ELSE f[CHOOSE x \in s : TRUE] + it[s \ {CHOOSE x \in s : TRUE}]]

Sum(f, S) == MapThenSumSet(LAMBDA x : f[x], S)

LEMMA SumUnfolds ==
  ASSUME NEW f, NEW S
  PROVE  Sum(f, S) = (CHOOSE it : Sums(it, f, S))[S]
BY DEF Sum, MapThenSumSet, MapThenFoldSet, Sums

LEMMA Chosen == ASSUME NEW s, s # {} PROVE (CHOOSE x \in s : TRUE) \in s
OBVIOUS

LEMMA OneLess ==
  ASSUME NEW s, IsFiniteSet(s), NEW x \in s
  PROVE  /\ IsFiniteSet(s \ {x}) /\ Cardinality(s) \in Nat /\ Cardinality(s \ {x}) \in Nat
         /\ Cardinality(s \ {x}) = Cardinality(s) - 1
BY FS_RemoveElement, FS_CardinalityType

LEMMA SumsExist ==
  ASSUME NEW f, NEW S, IsFiniteSet(S)
  PROVE  \E it : Sums(it, f, S)
<1> DEFINE Small(k) == {s \in SUBSET S : Cardinality(s) <= k}
           Rhs(it, s) == IF s = {} THEN 0
                         ELSE f[CHOOSE x \in s : TRUE] + it[s \ {CHOOSE x \in s : TRUE}]
           Upto(it, k) == it = [s \in Small(k) |-> Rhs(it, s)]
           Bad == {k \in Nat : ~(\E it : Upto(it, k))}
<1>0. \A s \in SUBSET S : IsFiniteSet(s) /\ Cardinality(s) \in Nat /\ Cardinality(s) <= Cardinality(S)
  BY FS_Subset, FS_CardinalityType
<1>1. Bad = {}
  <2> SUFFICES ASSUME Bad # {} PROVE FALSE
    OBVIOUS
  <2>1. PICK k \in Bad : \A y \in Bad : k <= y
    <3>1. Bad \in SUBSET Nat
      OBVIOUS
    <3> HIDE DEF Bad
    <3> QED
      BY <3>1, SmallestOf
  <2>2. k # 0
    <3> DEFINE g == [s \in Small(0) |-> 0]
    <3>1. \A s \in Small(0) : s = {}
      BY <1>0, FS_EmptySet
    <3>2. \A s \in Small(0) : Rhs(g, s) = 0
      BY <3>1
    <3>3. Upto(g, 0)
      <4> HIDE DEF Rhs, Small
      <4> QED
        BY <3>2
    <3> QED
      BY <3>3
  <2>3. k - 1 \in Nat /\ k - 1 \notin Bad
    <3>1. k \in Nat /\ k - 1 \in Nat /\ ~(k <= k - 1)
      BY <2>1, <2>2
    <3> HIDE DEF Bad
    <3> QED
      BY <2>1, <3>1
  <2>4. PICK it : Upto(it, k - 1)
    BY <2>3
  <2> DEFINE g == [s \in Small(k) |-> Rhs(it, s)]
  <2>5. \A s \in Small(k) : s # {} => s \ {CHOOSE x \in s : TRUE} \in Small(k - 1)
    <3> SUFFICES ASSUME NEW s \in Small(k), s # {}
                 PROVE  s \ {CHOOSE x \in s : TRUE} \in Small(k - 1)
      OBVIOUS
    <3> DEFINE x == CHOOSE y \in s : TRUE
    <3>1. x \in s
      BY Chosen
    <3> HIDE DEF x
    <3>2. Cardinality(s \ {x}) = Cardinality(s) - 1 /\ Cardinality(s) \in Nat
      BY <1>0, <3>1, OneLess
    <3>3. Cardinality(s) <= k /\ k \in Nat
      BY <2>1
    <3> QED
      BY <3>2, <3>3 DEF x
  <2>6. \A s \in Small(k - 1) : s \in Small(k) /\ g[s] = it[s]
    <3> SUFFICES ASSUME NEW s \in Small(k - 1) PROVE s \in Small(k) /\ g[s] = it[s]
      OBVIOUS
    <3>1. s \in Small(k)
      BY <1>0, <2>3
    <3>2. it[s] = Rhs(it, s)
      <4> HIDE DEF Small, Rhs
      <4> QED
        BY <2>4
    <3> HIDE DEF Small, Rhs
    <3> QED
      BY <3>1, <3>2
  <2>7. \A s \in Small(k) : Rhs(g, s) = Rhs(it, s)
    <3> SUFFICES ASSUME NEW s \in Small(k), s # {} PROVE Rhs(g, s) = Rhs(it, s)
      OBVIOUS
    <3>1. g[s \ {CHOOSE x \in s : TRUE}] = it[s \ {CHOOSE x \in s : TRUE}]
      BY <2>5, <2>6
    <3> HIDE DEF g
    <3> QED
      BY <3>1
  <2>8. Upto(g, k)
    <3> HIDE DEF Rhs, Small
    <3> QED
      BY <2>7
  <2> QED
    BY <2>8
<1>2. PICK it : Upto(it, Cardinality(S))
  BY <1>1, FS_CardinalityType
<1>3. Small(Cardinality(S)) = SUBSET S
  BY <1>0
<1>4. it = [s \in SUBSET S |-> Rhs(it, s)]
  <2> HIDE DEF Rhs, Small
  <2> QED
    BY <1>2, <1>3
<1> QED
  BY <1>4 DEF Sums

Valued(f, S) == \A x \in S : f[x] \in Nat

\* A sum takes its summands in any order.
LEMMA SumsAnyOrder ==
  ASSUME NEW f, NEW S, IsFiniteSet(S), Valued(f, S), NEW it, Sums(it, f, S)
  PROVE  \A s \in SUBSET S : it[s] \in Nat /\ \A x \in s : it[s] = f[x] + it[s \ {x}]
<1> DEFINE Good(s) == it[s] \in Nat /\ \A x \in s : it[s] = f[x] + it[s \ {x}]
           Bad == {s \in SUBSET S : ~Good(s)}
<1>0. \A s \in SUBSET S : IsFiniteSet(s)
  BY FS_Subset
<1>1. SUFFICES ASSUME Bad # {} PROVE FALSE
  OBVIOUS
<1>2. PICK s \in Bad : \A t \in Bad : Cardinality(s) <= Cardinality(t)
  <2>1. \A t \in Bad : IsFiniteSet(t)
    BY <1>0
  <2> HIDE DEF Bad
  <2> QED
    BY <1>1, <2>1, SmallestSet
<1>3. ASSUME NEW x \in s PROVE Good(s \ {x})
  <2>1. s \ {x} \in SUBSET S
    OBVIOUS
  <2>2. ~(Cardinality(s) <= Cardinality(s \ {x}))
    <3>1. Cardinality(s) \in Nat /\ Cardinality(s \ {x}) = Cardinality(s) - 1
      BY <1>0, OneLess
    <3> QED
      BY <3>1
  <2> HIDE DEF Good
  <2> QED
    BY <1>2, <2>1, <2>2
<1>4. s # {}
  <2>1. it[{}] = 0
    BY DEF Sums
  <2> QED
    BY <2>1
<1> DEFINE c == CHOOSE x \in s : TRUE
<1>5. c \in s
  BY <1>4, Chosen
<1>6. it[s] = f[c] + it[s \ {c}]
  BY <1>4 DEF Sums
<1> HIDE DEF c
<1>7. it[s] \in Nat
  <2>1. it[s \ {c}] \in Nat /\ f[c] \in Nat
    BY <1>3, <1>5 DEF Valued
  <2> QED
    BY <1>6, <2>1
<1>8. ASSUME NEW x \in s PROVE it[s] = f[x] + it[s \ {x}]
  <2>1. CASE x = c
    BY <1>6, <2>1
  <2>2. CASE x # c
    <3>1. it[s \ {c}] = f[x] + it[(s \ {c}) \ {x}]
      <4>1. Good(s \ {c}) /\ x \in s \ {c}
        BY <1>3, <1>5, <2>2
      <4> QED
        BY <4>1
    <3>2. it[s \ {x}] = f[c] + it[(s \ {x}) \ {c}]
      <4>1. Good(s \ {x}) /\ c \in s \ {x}
        BY <1>3, <1>5, <2>2
      <4> QED
        BY <4>1
    <3>3. (s \ {c}) \ {x} = (s \ {x}) \ {c}
      OBVIOUS
    <3>4. it[(s \ {x}) \ {c}] \in Nat
      <4>1. Good(s \ {x}) /\ c \in s \ {x}
        BY <1>3, <1>5, <2>2
      <4>2. (s \ {x}) \ {c} \in SUBSET S /\ ~(Cardinality(s) <= Cardinality((s \ {x}) \ {c}))
        <5>1. IsFiniteSet(s)
          BY <1>0
        <5>2. /\ IsFiniteSet(s \ {x}) /\ Cardinality(s) \in Nat /\ Cardinality(s \ {x}) \in Nat
              /\ Cardinality(s \ {x}) = Cardinality(s) - 1
          BY <5>1, OneLess
        <5>3. /\ Cardinality((s \ {x}) \ {c}) \in Nat
              /\ Cardinality((s \ {x}) \ {c}) = Cardinality(s \ {x}) - 1
          BY <4>1, <5>2, OneLess
        <5> QED
          BY <5>2, <5>3
      <4>3. Good((s \ {x}) \ {c})
        <5> HIDE DEF Good
        <5> QED
          BY <1>2, <4>2
      <4> QED
        BY <4>3
    <3>5. f[x] \in Nat /\ f[c] \in Nat
      BY <1>5 DEF Valued
    <3>6. \A p, q, r \in Nat : p + (q + r) = q + (p + r)
      OBVIOUS
    <3>7. f[c] + (f[x] + it[(s \ {x}) \ {c}]) = f[x] + (f[c] + it[(s \ {x}) \ {c}])
      BY <3>4, <3>5, <3>6, Zenon
    <3> QED
      BY <1>6, <3>1, <3>2, <3>3, <3>7, Zenon
  <2> QED
    BY <2>1, <2>2
<1> QED
  BY <1>2, <1>7, <1>8

\* There is one such table only.
LEMMA SumsUnique ==
  ASSUME NEW f, NEW S, IsFiniteSet(S), NEW T, IsFiniteSet(T), NEW it, NEW jt,
         Sums(it, f, S), Sums(jt, f, T)
  PROVE  \A s \in SUBSET (S \cap T) : it[s] = jt[s]
<1> DEFINE Bad == {s \in SUBSET (S \cap T) : it[s] # jt[s]}
<1>0. \A s \in SUBSET (S \cap T) : IsFiniteSet(s)
  BY FS_Subset
<1>1. SUFFICES ASSUME Bad # {} PROVE FALSE
  OBVIOUS
<1>2. PICK s \in Bad : \A t \in Bad : Cardinality(s) <= Cardinality(t)
  <2>1. \A t \in Bad : IsFiniteSet(t)
    BY <1>0
  <2> HIDE DEF Bad
  <2> QED
    BY <1>1, <2>1, SmallestSet
<1>4. s # {}
  <2>1. it[{}] = 0 /\ jt[{}] = 0
    BY DEF Sums
  <2> QED
    BY <2>1
<1> DEFINE c == CHOOSE x \in s : TRUE
<1>5. c \in s
  BY <1>4, Chosen
<1>6. it[s] = f[c] + it[s \ {c}] /\ jt[s] = f[c] + jt[s \ {c}]
  BY <1>4 DEF Sums
<1> HIDE DEF c
<1>7. it[s \ {c}] = jt[s \ {c}]
  <2>1. s \ {c} \in SUBSET (S \cap T)
    OBVIOUS
  <2>2. ~(Cardinality(s) <= Cardinality(s \ {c}))
    BY <1>0, <1>5, OneLess
  <2> QED
    BY <1>2, <2>1, <2>2
<1> QED
  BY <1>6, <1>7

\* The two laws every sum is computed with.
LEMMA SumEmpty == ASSUME NEW f PROVE Sum(f, {}) = 0
<1>1. PICK it : Sums(it, f, {})
  BY SumsExist, FS_EmptySet
<1> DEFINE jt == CHOOSE k : Sums(k, f, {})
<1>2. Sums(jt, f, {})
  BY <1>1
<1> HIDE DEF jt
<1>3. jt[{}] = 0
  BY <1>2 DEF Sums
<1> QED
  BY <1>3, SumUnfolds DEF jt

LEMMA SumStep ==
  ASSUME NEW f, NEW S, IsFiniteSet(S), Valued(f, S)
  PROVE  Sum(f, S) \in Nat /\ \A x \in S : Sum(f, S) = f[x] + Sum(f, S \ {x})
<1> DEFINE it(T) == CHOOSE k : Sums(k, f, T)
<1>1. \A T : IsFiniteSet(T) => Sums(it(T), f, T)
  BY SumsExist
<1>2. \A T : Sum(f, T) = it(T)[T]
  BY SumUnfolds
<1> HIDE DEF it
<1>3. it(S)[S] \in Nat /\ \A x \in S : it(S)[S] = f[x] + it(S)[S \ {x}]
  BY <1>1, SumsAnyOrder
<1>4. ASSUME NEW x \in S PROVE it(S)[S \ {x}] = it(S \ {x})[S \ {x}]
  <2>1. IsFiniteSet(S \ {x}) /\ S \ {x} \in SUBSET (S \cap (S \ {x}))
    BY OneLess
  <2>2. Sums(it(S), f, S) /\ Sums(it(S \ {x}), f, S \ {x})
    BY <1>1, <2>1
  <2> DEFINE R == S \ {x}
             a == it(S)
             b == it(R)
  <2>3. IsFiniteSet(R) /\ Sums(a, f, S) /\ Sums(b, f, R) /\ R \in SUBSET (S \cap R)
    BY <2>1, <2>2
  <2> HIDE DEF a, b, R
  <2>4. a[R] = b[R]
    BY <2>3, SumsUnique
  <2> QED
    BY <2>4 DEF a, b, R
<1> QED
  BY <1>2, <1>3, <1>4

LEMMA SumPositive ==
  ASSUME NEW f, NEW S, IsFiniteSet(S), Valued(f, S)
  PROVE  Sum(f, S) \in Nat /\ (Sum(f, S) > 0 <=> \E x \in S : f[x] > 0)
<1> DEFINE Bad == {s \in SUBSET S : ~(Sum(f, s) > 0 <=> \E x \in s : f[x] > 0)}
<1>0. \A s \in SUBSET S : IsFiniteSet(s) /\ Valued(f, s)
  BY FS_Subset DEF Valued
<1>1. Bad = {}
  <2> SUFFICES ASSUME Bad # {} PROVE FALSE
    OBVIOUS
  <2>1. PICK s \in Bad : \A t \in Bad : Cardinality(s) <= Cardinality(t)
    <3>1. \A t \in Bad : IsFiniteSet(t)
      BY <1>0
    <3> HIDE DEF Bad
    <3> QED
      BY <3>1, SmallestSet
  <2>2. s # {}
    BY SumEmpty
  <2>3. PICK x \in s : TRUE
    BY <2>2
  <2>4. Sum(f, s) = f[x] + Sum(f, s \ {x})
    BY <1>0, SumStep
  <2>5. s \ {x} \in SUBSET S /\ ~(Cardinality(s) <= Cardinality(s \ {x}))
    <3>1. Cardinality(s) \in Nat /\ Cardinality(s \ {x}) = Cardinality(s) - 1
      BY <1>0, OneLess
    <3> QED
      BY <3>1
  <2>6. Sum(f, s \ {x}) > 0 <=> \E y \in s \ {x} : f[y] > 0
    BY <2>1, <2>5
  <2>7. Sum(f, s \ {x}) \in Nat /\ f[x] \in Nat
    BY <1>0, <2>5, SumStep DEF Valued
  <2>8. Sum(f, s) > 0 <=> f[x] > 0 \/ Sum(f, s \ {x}) > 0
    BY <2>4, <2>7
  <2>9. (\E y \in s : f[y] > 0) <=> f[x] > 0 \/ \E y \in s \ {x} : f[y] > 0
    OBVIOUS
  <2> QED
    BY <2>6, <2>8, <2>9
<1>2. S \notin Bad
  BY <1>1
<1> QED
  BY <1>2, SumStep

LEMMA SumSame ==
  ASSUME NEW f, NEW g, NEW S, IsFiniteSet(S), Valued(f, S), \A x \in S : g[x] = f[x]
  PROVE  Sum(f, S) = Sum(g, S)
<1> DEFINE Bad == {s \in SUBSET S : Sum(f, s) # Sum(g, s)}
<1>0. \A s \in SUBSET S : IsFiniteSet(s) /\ Valued(f, s) /\ Valued(g, s)
  BY FS_Subset DEF Valued
<1>1. Bad = {}
  <2> SUFFICES ASSUME Bad # {} PROVE FALSE
    OBVIOUS
  <2>1. PICK s \in Bad : \A t \in Bad : Cardinality(s) <= Cardinality(t)
    <3>1. \A t \in Bad : IsFiniteSet(t)
      BY <1>0
    <3> HIDE DEF Bad
    <3> QED
      BY <3>1, SmallestSet
  <2>2. s # {}
    BY SumEmpty
  <2>3. PICK x \in s : TRUE
    BY <2>2
  <2>4. Sum(f, s) = f[x] + Sum(f, s \ {x}) /\ Sum(g, s) = g[x] + Sum(g, s \ {x})
    BY <1>0, SumStep
  <2>5. s \ {x} \in SUBSET S /\ ~(Cardinality(s) <= Cardinality(s \ {x}))
    <3>1. Cardinality(s) \in Nat /\ Cardinality(s \ {x}) = Cardinality(s) - 1
      BY <1>0, OneLess
    <3> QED
      BY <3>1
  <2>6. Sum(f, s \ {x}) = Sum(g, s \ {x})
    BY <2>1, <2>5
  <2> QED
    BY <2>4, <2>6
<1>2. S \notin Bad
  BY <1>1
<1> QED
  BY <1>2

LEMMA SumPlus ==
  ASSUME NEW f, NEW g, NEW h, NEW S, IsFiniteSet(S), Valued(f, S), Valued(g, S),
         \A x \in S : h[x] = f[x] + g[x]
  PROVE  Sum(h, S) = Sum(f, S) + Sum(g, S)
<1> DEFINE Bad == {s \in SUBSET S : Sum(h, s) # Sum(f, s) + Sum(g, s)}
<1>0. \A s \in SUBSET S : IsFiniteSet(s) /\ Valued(f, s) /\ Valued(g, s) /\ Valued(h, s)
  BY FS_Subset DEF Valued
<1>1. Bad = {}
  <2> SUFFICES ASSUME Bad # {} PROVE FALSE
    OBVIOUS
  <2>1. PICK s \in Bad : \A t \in Bad : Cardinality(s) <= Cardinality(t)
    <3>1. \A t \in Bad : IsFiniteSet(t)
      BY <1>0
    <3> HIDE DEF Bad
    <3> QED
      BY <3>1, SmallestSet
  <2>2. s # {}
    BY SumEmpty
  <2>3. PICK x \in s : TRUE
    BY <2>2
  <2>4. /\ Sum(f, s) = f[x] + Sum(f, s \ {x}) /\ Sum(g, s) = g[x] + Sum(g, s \ {x})
        /\ Sum(h, s) = h[x] + Sum(h, s \ {x})
    BY <1>0, SumStep
  <2>5. s \ {x} \in SUBSET S /\ ~(Cardinality(s) <= Cardinality(s \ {x}))
    <3>1. Cardinality(s) \in Nat /\ Cardinality(s \ {x}) = Cardinality(s) - 1
      BY <1>0, OneLess
    <3> QED
      BY <3>1
  <2>6. Sum(h, s \ {x}) = Sum(f, s \ {x}) + Sum(g, s \ {x})
    BY <2>1, <2>5
  <2>7. Sum(f, s \ {x}) \in Nat /\ Sum(g, s \ {x}) \in Nat /\ f[x] \in Nat /\ g[x] \in Nat
    BY <1>0, <2>5, SumStep DEF Valued
  <2>8. h[x] = f[x] + g[x]
    OBVIOUS
  <2> QED
    BY <2>4, <2>6, <2>7, <2>8
<1>2. S \notin Bad
  BY <1>1
<1> QED
  BY <1>2

\* A cardinality is a sum of ones.
LEMMA SumCount ==
  ASSUME NEW f, NEW S, IsFiniteSet(S), NEW T, \A x \in S : f[x] = IF x \in T THEN 1 ELSE 0
  PROVE  Sum(f, S) = Cardinality(S \cap T)
<1> DEFINE Bad == {s \in SUBSET S : Sum(f, s) # Cardinality(s \cap T)}
<1>0. \A s \in SUBSET S : IsFiniteSet(s) /\ Valued(f, s)
  BY FS_Subset DEF Valued
<1>1. Bad = {}
  <2> SUFFICES ASSUME Bad # {} PROVE FALSE
    OBVIOUS
  <2>1. PICK s \in Bad : \A t \in Bad : Cardinality(s) <= Cardinality(t)
    <3>1. \A t \in Bad : IsFiniteSet(t)
      BY <1>0
    <3> HIDE DEF Bad
    <3> QED
      BY <3>1, SmallestSet
  <2>2. s # {}
    <3>1. Cardinality({} \cap T) = 0
      <4>1. {} \cap T = {}
        OBVIOUS
      <4> QED
        BY <4>1, FS_EmptySet
    <3> QED
      BY <3>1, SumEmpty
  <2>3. PICK x \in s : TRUE
    BY <2>2
  <2>4. Sum(f, s) = f[x] + Sum(f, s \ {x})
    BY <1>0, SumStep
  <2>5. s \ {x} \in SUBSET S /\ ~(Cardinality(s) <= Cardinality(s \ {x}))
    <3>1. Cardinality(s) \in Nat /\ Cardinality(s \ {x}) = Cardinality(s) - 1
      BY <1>0, OneLess
    <3> QED
      BY <3>1
  <2>6. Sum(f, s \ {x}) = Cardinality((s \ {x}) \cap T)
    BY <2>1, <2>5
  <2>7. CASE x \in T
    <3>1. (s \ {x}) \cap T = (s \cap T) \ {x} /\ x \in s \cap T /\ f[x] = 1
      BY <2>7
    <3>2. IsFiniteSet(s \cap T)
      BY <1>0, FS_Intersection
    <3>3. Cardinality((s \cap T) \ {x}) = Cardinality(s \cap T) - 1 /\ Cardinality(s \cap T) \in Nat
      BY <3>1, <3>2, OneLess
    <3>4. Sum(f, s) = 1 + (Cardinality(s \cap T) - 1)
      BY <2>4, <2>6, <3>1, <3>3
    <3>5. Sum(f, s) = Cardinality(s \cap T)
      BY <3>3, <3>4
    <3> QED
      BY <3>5
  <2>8. CASE x \notin T
    <3>1. (s \ {x}) \cap T = s \cap T /\ f[x] = 0
      BY <2>8
    <3>2. Cardinality(s \cap T) \in Nat
      BY <1>0, FS_Intersection, FS_CardinalityType
    <3> QED
      BY <2>4, <2>6, <3>1, <3>2
  <2> QED
    BY <2>7, <2>8
<1>2. S \notin Bad
  BY <1>1
<1> QED
  BY <1>2

\* The rows r and the columns k of one table.
Table(r, k, f, g, S, T) ==
  /\ IsFiniteSet(S) /\ IsFiniteSet(T)
  /\ \A x \in S : \A y \in T : r[x][y] \in Nat /\ k[y][x] = r[x][y]
  /\ \A x \in S : f[x] = Sum(r[x], T)
  /\ \A y \in T : g[y] = Sum(k[y], S)

\* A table adds up to the same by rows and by columns.
LEMMA SumSwap ==
  ASSUME NEW r, NEW k, NEW f, NEW g, NEW S, NEW T, Table(r, k, f, g, S, T)
  PROVE  Sum(f, S) = Sum(g, T)
<1>t. /\ IsFiniteSet(S) /\ IsFiniteSet(T)
      /\ \A x \in S : \A y \in T : r[x][y] \in Nat /\ k[y][x] = r[x][y]
      /\ \A x \in S : f[x] = Sum(r[x], T)
      /\ \A y \in T : g[y] = Sum(k[y], S)
  BY DEF Table
<1> USE <1>t
<1> DEFINE col(s) == [y \in T |-> Sum(k[y], s)]
           Bad == {s \in SUBSET S : Sum(f, s) # Sum(col(s), T)}
<1>0. \A s \in SUBSET S : IsFiniteSet(s)
  BY FS_Subset
<1>a. ASSUME NEW s \in SUBSET S, NEW y \in T PROVE Valued(k[y], s) /\ Sum(k[y], s) \in Nat
  <2>1. Valued(k[y], s)
    BY DEF Valued
  <2> QED
    BY <1>0, <2>1, SumStep
<1>b. \A x \in S : Valued(r[x], T) /\ f[x] \in Nat
  <2>1. \A x \in S : Valued(r[x], T)
    BY DEF Valued
  <2> QED
    BY <2>1, SumStep
<1>c. \A s \in SUBSET S : Valued(f, s) /\ Valued(col(s), T)
  <2>1. \A s \in SUBSET S : Valued(f, s)
    BY <1>b DEF Valued
  <2>2. \A s \in SUBSET S : \A y \in T : col(s)[y] \in Nat
    BY <1>a
  <2> QED
    BY <2>1, <2>2 DEF Valued
<1>1. Bad = {}
  <2> SUFFICES ASSUME Bad # {} PROVE FALSE
    OBVIOUS
  <2>1. PICK s \in Bad : \A t \in Bad : Cardinality(s) <= Cardinality(t)
    <3>1. \A t \in Bad : IsFiniteSet(t)
      BY <1>0
    <3> HIDE DEF Bad
    <3> QED
      BY <3>1, SmallestSet
  <2>2. s # {}
    <3> SUFFICES ASSUME s = {} PROVE FALSE
      OBVIOUS
    <3>1. \A y \in T : col({})[y] = 0
      BY SumEmpty
    <3>2. ~(Sum(col({}), T) > 0) /\ Sum(col({}), T) \in Nat
      <4>1. Valued(col({}), T)
        BY <1>c
      <4> HIDE DEF col
      <4>2. \A y \in T : ~(col({})[y] > 0)
        BY <3>1
      <4> QED
        BY <4>1, <4>2, SumPositive
    <3>3. Sum(col({}), T) = 0
      BY <3>2
    <3>4. Sum(f, {}) = 0
      BY SumEmpty
    <3> HIDE DEF col
    <3> QED
      BY <3>3, <3>4
  <2>3. PICK x \in s : TRUE
    BY <2>2
  <2>4. Sum(f, s) = f[x] + Sum(f, s \ {x})
    <3>1. IsFiniteSet(s) /\ Valued(f, s) /\ x \in s
      BY <1>0, <1>c
    <3> HIDE <1>t
    <3> QED
      BY <3>1, SumStep
  <2>5. s \ {x} \in SUBSET S /\ ~(Cardinality(s) <= Cardinality(s \ {x}))
    <3>1. Cardinality(s) \in Nat /\ Cardinality(s \ {x}) = Cardinality(s) - 1
      BY <1>0, OneLess
    <3> QED
      BY <3>1
  <2>6. Sum(f, s \ {x}) = Sum(col(s \ {x}), T)
    <3> HIDE DEF col
    <3> QED
      BY <2>1, <2>5
  <2>7. \A y \in T : col(s)[y] = r[x][y] + col(s \ {x})[y]
    <3> SUFFICES ASSUME NEW y \in T PROVE col(s)[y] = r[x][y] + col(s \ {x})[y]
      OBVIOUS
    <3>1. Sum(k[y], s) = k[y][x] + Sum(k[y], s \ {x})
      <4> DEFINE q == k[y]
      <4>1. Valued(q, s) /\ IsFiniteSet(s)
        BY <1>0, <1>a
      <4> HIDE DEF q
      <4>2. Sum(q, s) = q[x] + Sum(q, s \ {x})
        BY <4>1, SumStep
      <4> QED
        BY <4>2 DEF q
    <3>2. k[y][x] = r[x][y]
      OBVIOUS
    <3> QED
      BY <3>1, <3>2
  <2>8. Sum(col(s), T) = Sum(r[x], T) + Sum(col(s \ {x}), T)
    <3>1. Valued(r[x], T) /\ Valued(col(s \ {x}), T)
      BY <1>b, <1>c, <2>5
    <3> DEFINE a == r[x]
               b == col(s \ {x})
               c == col(s)
    <3>2. Valued(a, T) /\ Valued(b, T) /\ \A y \in T : c[y] = a[y] + b[y]
      <4> HIDE DEF col
      <4> QED
        BY <2>7, <3>1
    <3> HIDE DEF a, b, c
    <3>3. Sum(c, T) = Sum(a, T) + Sum(b, T)
      BY <3>2, SumPlus
    <3> QED
      BY <3>3 DEF a, b, c
  <2>9. f[x] = Sum(r[x], T)
    OBVIOUS
  <2> HIDE DEF col
  <2> QED
    BY <2>4, <2>6, <2>8, <2>9
<1>2. S \notin Bad
  BY <1>1
<1>3. Sum(f, S) = Sum(col(S), T)
  BY <1>2
<1>4. Sum(col(S), T) = Sum(g, T)
  <2>1. \A y \in T : g[y] = col(S)[y]
    OBVIOUS
  <2>2. Valued(col(S), T)
    BY <1>c
  <2> HIDE DEF col
  <2> QED
    BY <2>1, <2>2, SumSame
<1> HIDE DEF col
<1> QED
  BY <1>3, <1>4

\* The pieces FlattenSeq puts together, up to the i-th.
Joins(f, s, N) ==
  f = [i \in 1..N |-> IF i = 1 THEN s[i] ELSE f[i - 1] \o s[i]]

LEMMA JoinExists ==
  ASSUME NEW S, NEW s \in Seq(Seq(S))
  PROVE  \A N \in 0..Len(s) : \E f \in [1..N -> Seq(S)] : Joins(f, s, N)
<1> DEFINE Bad == {N \in 0..Len(s) : ~\E f \in [1..N -> Seq(S)] : Joins(f, s, N)}
<1>1. Len(s) \in Nat /\ DOMAIN s = 1..Len(s)
  OBVIOUS
<1>2. SUFFICES ASSUME Bad # {} PROVE FALSE
  OBVIOUS
<1>3. Bad \in SUBSET Nat
  BY <1>1
<1>4. PICK N \in Bad : \A m \in Bad : N <= m
  <2> HIDE DEF Bad
  <2> QED
    BY <1>2, <1>3, SmallestOf
<1>5. N \in 0..Len(s) /\ ~\E f \in [1..N -> Seq(S)] : Joins(f, s, N)
  BY <1>4
<1>6. CASE N = 0
  <2>1. [i \in 1..0 |-> << >>] \in [1..0 -> Seq(S)]
    OBVIOUS
  <2>2. Joins([i \in 1..0 |-> << >>], s, 0)
    BY DEF Joins
  <2> QED
    BY <1>5, <1>6, <2>1, <2>2
<1>7. CASE N # 0
  <2>1. N - 1 \in 0..Len(s) /\ N - 1 \notin Bad
    <3>1. N \in Nat /\ N - 1 \in 0..Len(s) /\ ~(N <= N - 1)
      BY <1>1, <1>5, <1>7
    <3> HIDE DEF Bad
    <3> QED
      BY <1>4, <3>1
  <2>2. PICK f \in [1..(N - 1) -> Seq(S)] : Joins(f, s, N - 1)
    BY <2>1
  <2> DEFINE g == [i \in 1..N |-> IF i = 1 THEN s[i] ELSE f[i - 1] \o s[i]]
  <2>3. \A i \in 1..N : s[i] \in Seq(S)
    BY <1>1, <1>5
  <2>4. g \in [1..N -> Seq(S)]
    <3>1. \A i \in 1..N : i # 1 => i - 1 \in 1..(N - 1)
      BY <1>1, <1>5
    <3> QED
      BY <2>2, <2>3, <3>1
  <2>5. \A i \in 1..(N - 1) : g[i] = f[i]
    <3>1. \A i \in 1..(N - 1) : i \in 1..N
      BY <1>1, <1>5
    <3>2. ASSUME NEW i \in 1..(N - 1)
          PROVE  f[i] = IF i = 1 THEN s[i] ELSE f[i - 1] \o s[i]
      BY <2>2 DEF Joins
    <3> QED
      BY <3>1, <3>2
  <2>6. Joins(g, s, N)
    <3>1. \A i \in 1..N : i # 1 => i - 1 \in 1..(N - 1)
      BY <1>1, <1>5
    <3>2. \A i \in 1..N : g[i] = IF i = 1 THEN s[i] ELSE g[i - 1] \o s[i]
      BY <2>5, <3>1
    <3> HIDE DEF g
    <3> QED
      BY <2>4, <3>2 DEF Joins
  <2> QED
    BY <1>5, <2>4, <2>6
<1> QED
  BY <1>6, <1>7

LEMMA FlattenJoins ==
  ASSUME NEW S, NEW s \in Seq(Seq(S)), Len(s) # 0
  PROVE  \E f \in [1..Len(s) -> Seq(S)] :
           Joins(f, s, Len(s)) /\ FlattenSeq(s) = f[Len(s)]
<1> DEFINE N == Len(s)
           fl == CHOOSE f : Joins(f, s, N)
<1>1. N \in Nat /\ DOMAIN s = 1..N
  OBVIOUS
<1>2. FlattenSeq(s) = fl[N]
  BY DEF FlattenSeq, Joins
<1>3. \E f : Joins(f, s, N)
  <2>1. N \in 0..Len(s)
    BY <1>1
  <2> QED
    BY <2>1, JoinExists
<1>4. Joins(fl, s, N)
  BY <1>3
<1> HIDE DEF fl
<1> DEFINE Bad == {i \in 1..N : fl[i] \notin Seq(S)}
<1>5. Bad = {}
  <2> SUFFICES ASSUME Bad # {} PROVE FALSE
    OBVIOUS
  <2>1. Bad \in SUBSET Nat
    BY <1>1
  <2>2. PICK i \in Bad : \A m \in Bad : i <= m
    <3> HIDE DEF Bad
    <3> QED
      BY <2>1, SmallestOf
  <2>3. i \in 1..N /\ fl[i] \notin Seq(S) /\ s[i] \in Seq(S)
    BY <1>1, <2>2
  <2>4. fl[i] = IF i = 1 THEN s[i] ELSE fl[i - 1] \o s[i]
    BY <1>4, <2>3 DEF Joins
  <2>5. i # 1
    BY <2>3, <2>4
  <2>6. i - 1 \in 1..N /\ ~(i <= i - 1)
    BY <1>1, <2>3, <2>5
  <2>7. fl[i - 1] \in Seq(S)
    BY <2>2, <2>6
  <2> QED
    BY <2>3, <2>4, <2>5, <2>7
<1>6. fl \in [1..N -> Seq(S)]
  <2>1. fl = [i \in 1..N |-> IF i = 1 THEN s[i] ELSE fl[i - 1] \o s[i]]
    BY <1>4 DEF Joins
  <2>2. DOMAIN fl = 1..N
    BY <2>1
  <2>3. fl = [i \in 1..N |-> fl[i]]
    BY <2>1, <2>2
  <2> QED
    BY <1>5, <2>3
<1> QED
  BY <1>2, <1>4, <1>6

LEMMA FlattenTypes ==
  ASSUME NEW S, NEW s \in Seq(Seq(S))
  PROVE  FlattenSeq(s) \in Seq(S)
<1>1. CASE Len(s) = 0
  BY <1>1 DEF FlattenSeq
<1>2. CASE Len(s) # 0
  <2>1. PICK f \in [1..Len(s) -> Seq(S)] : FlattenSeq(s) = f[Len(s)]
    BY <1>2, FlattenJoins
  <2>2. Len(s) \in 1..Len(s)
    BY <1>2
  <2> QED
    BY <2>1, <2>2
<1> QED
  BY <1>1, <1>2

-----------------------------------------------------------------------------
(* What the comparison reads from a file.                                  *)

\* A report as run_test left it.
Written(report) ==
  report = Broken \/ \E c \in Contents : report = Readable(c)

Judgements == {r \in [status : {"passed", "skipped", "failure"}, rich_status : RichStatus] :
                 /\ r.status = "passed"  <=> r.rich_status \in Passing
                 /\ r.status = "skipped" <=> r.rich_status \in NotRun
                 /\ r.status = "skipped" <=> r.rich_status = "skipped_unsupported"
                 /\ r.status = "failure" <=> r.rich_status \notin Passing \cup NotRun
                 /\ r.rich_status # "error"}

\* classify_outcome and run_test judge the same codes alike.
LEMMA Classified ==
  ASSUME NEW name, NEW rows
  PROVE  LET c == Result(name, rows) IN
         [status |-> c.status, rich_status |-> classify_outcome(c.status, c.rows)] \in Judgements
<1> DEFINE c == Result(name, rows)
           rich == classify_outcome(c.status, c.rows)
<1>1. CASE \A i \in DOMAIN rows : rows[i].expected = rows[i].produced
  <2>1. c.status = "passed"
    BY <1>1 DEF Result
  <2>2. rich = "passed"
    BY <2>1 DEF classify_outcome
  <2> HIDE DEF c, rich
  <2> QED
    BY <2>1, <2>2 DEF Judgements, RichStatus, Passing, NotRun, c, rich
<1>2. CASE /\ \E i \in DOMAIN rows : rows[i].expected # rows[i].produced
           /\ \E i \in DOMAIN rows : rows[i].produced \in UNSUPPORTED_CODES
  <2>1. c.status = "skipped" /\ c.rows = rows
    BY <1>2 DEF Result
  <2>2. rich = "skipped_unsupported"
    BY <1>2, <2>1 DEF classify_outcome
  <2> HIDE DEF c, rich
  <2> QED
    BY <2>1, <2>2 DEF Judgements, RichStatus, Passing, NotRun, c, rich
<1>3. CASE /\ \E i \in DOMAIN rows : rows[i].expected # rows[i].produced
           /\ \A i \in DOMAIN rows : rows[i].produced \notin UNSUPPORTED_CODES
  <2>1. c.status = "failure" /\ c.rows = rows
    BY <1>3 DEF Result
  <2>2. \A code : failure_status(code) \in
          {"failure_qos_unexpected", "failure_false_pass", "failure_data",
           "failure_ordering", "failure_infrastructure", "failure_other"}
    BY DEF failure_status
  <2>3. rich \in {"failure_qos_unexpected", "failure_false_pass", "failure_data",
                  "failure_ordering", "failure_infrastructure", "failure_other"}
    <3> DEFINE mismatches == SelectSeq(rows, LAMBDA r : r.expected # r.produced)
               code == dominant([i \in DOMAIN mismatches |-> mismatches[i].produced])
    <3>1. rich = IF mismatches = <<>> THEN "failure_other" ELSE failure_status(code)
      BY <1>3, <2>1 DEF classify_outcome
    <3> HIDE DEF rich, code, mismatches
    <3> QED
      BY <2>2, <3>1
  <2> HIDE DEF c, rich
  <2> QED
    BY <2>1, <2>3 DEF Judgements, RichStatus, Passing, NotRun, c, rich
<1> QED
  BY <1>1, <1>2, <1>3

\* The test cases of a written report, with their keys, are a finite list of
\* what run_test left.
Kept(e) == e.case = Result(e.case.name, e.case.rows)

LEMMA KeyedIs ==
  ASSUME NEW report, Written(report), report.state = "ok"
  PROVE  \E E : Keyed(report) \in Seq(E) /\ \A e \in E : Kept(e)
<1>1. PICK c \in Contents : report = Readable(c)
  BY DEF Written, Broken
<1>2. report.suites = c
  BY <1>1 DEF Readable
<1>3. c \in Seq(Range(c)) /\ \A i \in DOMAIN c : WrittenSuite(c[i])
  BY ReportToolsAssumption
<1> DEFINE piece(i) == [k \in DOMAIN c[i].cases |->
                          [key |-> <<c[i].name, c[i].cases[k].name>>, case |-> c[i].cases[k]]]
           E == UNION {{piece(i)[k] : k \in DOMAIN c[i].cases} : i \in DOMAIN c}
           pieces == [i \in DOMAIN c |-> piece(i)]
<1>4. Keyed(report) = FlattenSeq(pieces)
  BY <1>2 DEF Keyed
<1>5. \A i \in DOMAIN c : piece(i) \in Seq(E)
  <2> SUFFICES ASSUME NEW i \in DOMAIN c PROVE piece(i) \in Seq(E)
    OBVIOUS
  <2>1. c[i].cases \in Seq(Range(c[i].cases))
    BY <1>3 DEF WrittenSuite
  <2>2. DOMAIN c[i].cases = 1..Len(c[i].cases) /\ Len(c[i].cases) \in Nat
    BY <2>1
  <2>3. \A k \in DOMAIN c[i].cases : piece(i)[k] \in E
    <3> HIDE DEF piece
    <3> QED
      OBVIOUS
  <2>4. DOMAIN piece(i) = 1..Len(c[i].cases) /\ piece(i) = [k \in 1..Len(c[i].cases) |-> piece(i)[k]]
    BY <2>2
  <2> HIDE DEF piece, E
  <2>5. piece(i) \in [1..Len(c[i].cases) -> E]
    BY <2>2, <2>3, <2>4
  <2>6. \A m \in Nat : piece(i) \in [1..m -> E] => piece(i) \in Seq(E)
    OBVIOUS
  <2> QED
    BY <2>2, <2>5, <2>6
<1>6. pieces \in Seq(Seq(E))
  <2>1. DOMAIN c = 1..Len(c) /\ Len(c) \in Nat
    BY <1>3
  <2> HIDE DEF piece, E
  <2>2. pieces \in [1..Len(c) -> Seq(E)]
    BY <1>5, <2>1
  <2> QED
    BY <2>1, <2>2
<1>7. \A e \in E : Kept(e)
  <2> SUFFICES ASSUME NEW i \in DOMAIN c, NEW k \in DOMAIN c[i].cases PROVE Kept(piece(i)[k])
    <3> HIDE DEF piece
    <3> QED
      OBVIOUS
  <2>1. c[i].cases[k] = Result(c[i].cases[k].name, c[i].cases[k].rows)
    BY <1>3 DEF WrittenSuite
  <2>2. piece(i)[k].case = c[i].cases[k]
    OBVIOUS
  <2> HIDE DEF piece
  <2> QED
    BY <2>1, <2>2 DEF Kept
<1> HIDE DEF piece, E, pieces
<1>8. FlattenSeq(pieces) \in Seq(E)
  BY <1>6, FlattenTypes
<1> QED
  BY <1>4, <1>7, <1>8

\* What is loaded: as many keys as test cases, each with its judgement.
LEMMA LoadedIs ==
  ASSUME NEW report, Written(report), Loads(report)
  PROVE  /\ \A l \in DOMAIN load_results(report) : load_results(report)[l] \in Judgements
         /\ IsFiniteSet(DOMAIN load_results(report))
         /\ Cardinality(DOMAIN load_results(report)) = Len(Keyed(report))
<1> DEFINE ks == Keyed(report)
           N == Len(ks)
           D == DOMAIN load_results(report)
<1>1. PICK E : ks \in Seq(E) /\ \A e \in E : Kept(e)
  BY KeyedIs DEF Loads
<1>2. \A i, j \in DOMAIN ks : ks[i].key = ks[j].key => i = j
  BY DEF Loads
<1>3. D = {ks[i].key : i \in DOMAIN ks}
  BY DEF load_results
<1>4. ASSUME NEW l \in D PROVE load_results(report)[l] \in Judgements
  <2> DEFINE e == CHOOSE x \in Range(ks) : x.key = l
  <2>1. e \in Range(ks)
    BY <1>3 DEF Range
  <2>3. load_results(report)[l]
          = [status |-> e.case.status, rich_status |-> classify_outcome(e.case.status, e.case.rows)]
    BY <1>3 DEF load_results
  <2> HIDE DEF e
  <2>2. Kept(e)
    <3>1. PICK i \in DOMAIN ks : e = ks[i]
      BY <2>1 DEF Range
    <3> HIDE DEF ks
    <3>2. ks[i] \in E
      BY <1>1
    <3> QED
      BY <1>1, <3>1, <3>2
  <2>4. LET c == Result(e.case.name, e.case.rows) IN
         [status |-> c.status, rich_status |-> classify_outcome(c.status, c.rows)] \in Judgements
    BY Classified
  <2> QED
    BY <2>2, <2>3, <2>4 DEF Kept
<1>5. N \in Nat /\ DOMAIN ks = 1..N
  BY <1>1
<1> HIDE DEF ks, D, N
<1> DEFINE f == [i \in 1..N |-> ks[i].key]
<1>6. f \in Bijection(1..N, D)
  <2>1. f \in [1..N -> D]
    BY <1>3, <1>5
  <2>2. \A t \in D : \E i \in 1..N : f[i] = t
    BY <1>3, <1>5
  <2>3. \A i, j \in 1..N : f[i] = f[j] => i = j
    BY <1>2, <1>5
  <2> HIDE DEF f
  <2> QED
    BY <2>1, <2>2, <2>3 DEF Bijection, Injection, Surjection, IsInjective
<1>7. ExistsBijection(1..N, D)
  BY <1>6 DEF ExistsBijection
<1>8. Cardinality(D) = N /\ IsFiniteSet(D)
  BY <1>5, <1>7, FS_NatBijection, FS_CountingElements
<1> QED
  BY <1>4, <1>8 DEF D, ks, N

-----------------------------------------------------------------------------
(* The workbook: KnownProductsSuffice.                                     *)

\* A suite as main() adds it: named after one or two products.
Named(s) ==
  /\ DOMAIN s = {"name", "cases"}
  /\ s.name \in Seq(Range(s.name)) /\ Len(s.name) \in 1..2
  /\ \A p \in Range(s.name) : "dust_dds" \in p.tokens => "dust" \in p.tokens

\* The report holds a list of such suites, and nothing was made of it before
\* the script ran.
InputInv == \E E : input.suites \in Seq(E) /\ \A e \in E : Named(e)
WorkbookInv == InputInv /\ KnownProductsSuffice

\* The name the workbook gives a product tells its company exactly if its own
\* does.
LEMMA CompanyKept ==
  ASSUME NEW p, "dust_dds" \in p.tokens => "dust" \in p.tokens
  PROVE  has_company_name(get_product_name(p)) <=> has_company_name(p)
<1> DEFINE has(t) == t \in p.tokens
           q == get_product_name(p)
<1>0. \A nm, ts : Beautified(nm, ts, p).tokens = ts
  BY DEF Beautified
<1> DEFINE some == \/ has("connext") \/ has("opendds") \/ has("coredx") \/ has("intercom")
                   \/ has("fastdds") \/ has("dust_dds") \/ has("hdds") \/ has("cyclone") \/ has("zzdds")
<1>1. CASE some
  <2>1. has_company_name(p)
    BY <1>1 DEF has_company_name
  <2>2. \E t \in {"connext", "opendds", "coredx", "intercom", "fastdds", "dust", "hdds", "cyclone",
                  "zenzen"} : t \in q.tokens
    BY <1>0, <1>1 DEF get_product_name
  <2>3. has_company_name(q)
    <3> HIDE DEF q
    <3> QED
      BY <2>2 DEF has_company_name
  <2> QED
    BY <2>1, <2>3
<1>2. CASE ~some
  <2>1. q.tokens = p.tokens
    BY <1>0, <1>2 DEF get_product_name
  <2> QED
    BY <2>1 DEF has_company_name
<1> QED
  BY <1>1, <1>2

LEMMA ProductsKept ==
  ASSUME InputInv
  PROVE  (\A p \in Products(input.suites) : has_company_name(p))
           <=> (\A p \in RawProducts : has_company_name(p))
<1> DEFINE ss == input.suites
<1>1. PICK E : ss \in Seq(E) /\ \A e \in E : Named(e)
  BY DEF InputInv
<1>2. \A i \in DOMAIN ss : Named(ss[i])
  BY <1>1
<1>3. ASSUME NEW i \in DOMAIN ss
      PROVE  /\ Range(ss[i].name) = {ss[i].name[1], ss[i].name[Len(ss[i].name)]}
             /\ \A p \in Range(ss[i].name) : has_company_name(get_product_name(p)) <=> has_company_name(p)
  <2> DEFINE nm == ss[i].name
  <2>1. nm \in Seq(Range(nm)) /\ Len(nm) \in 1..2 /\ \A p \in Range(nm) : "dust_dds" \in p.tokens => "dust" \in p.tokens
    BY <1>2 DEF Named
  <2> HIDE DEF nm
  <2>2. DOMAIN nm = 1..Len(nm)
    BY <2>1
  <2>3. Range(nm) = {nm[1], nm[Len(nm)]}
    BY <2>1, <2>2 DEF Range
  <2> QED
    BY <2>1, <2>3, CompanyKept DEF nm
<1> HIDE DEF ss
<1>4. Products(ss) = {get_product_name(ss[i].name[1]) : i \in DOMAIN ss}
                      \cup {get_product_name(ss[i].name[Len(ss[i].name)]) : i \in DOMAIN ss}
  BY DEF Products, publisher_name, subscriber_name
<1>5. RawProducts = UNION {Range(ss[i].name) : i \in DOMAIN ss}
  BY DEF RawProducts, ss
<1>6. ASSUME \A p \in Products(ss) : has_company_name(p), NEW p \in RawProducts PROVE has_company_name(p)
  <2>1. PICK i \in DOMAIN ss : p \in Range(ss[i].name)
    BY <1>5, <1>6
  <2>2. get_product_name(p) \in Products(ss)
    BY <1>3, <1>4, <2>1
  <2> QED
    BY <1>3, <1>6, <2>1, <2>2
<1>7. ASSUME \A p \in RawProducts : has_company_name(p), NEW p \in Products(ss) PROVE has_company_name(p)
  <2>1. PICK i \in DOMAIN ss : \E r \in Range(ss[i].name) : p = get_product_name(r)
    BY <1>3, <1>4, <1>7
  <2>2. PICK r \in Range(ss[i].name) : p = get_product_name(r)
    BY <2>1
  <2>3. r \in RawProducts
    BY <1>5, <2>1, <2>2
  <2> QED
    BY <1>3, <1>7, <2>1, <2>2, <2>3
<1> QED
  BY <1>6, <1>7 DEF ss

LEMMA AddNamed ==
  ASSUME NEW ss, NEW E, ss \in Seq(E), \A e \in E : Named(e), NEW r, Named(r)
  PROVE  \E F : AddTestsuite(ss, r) \in Seq(F) /\ \A e \in F : Named(e)
<1>1. CASE ~\E i \in DOMAIN ss : ss[i].name = r.name
  <2>1. AddTestsuite(ss, r) = Append(ss, r)
    BY <1>1 DEF AddTestsuite
  <2>2. ss \in Seq(E \cup {r}) /\ r \in E \cup {r}
    OBVIOUS
  <2>3. AddTestsuite(ss, r) \in Seq(E \cup {r})
    BY <2>1, <2>2
  <2> QED
    BY <2>3
<1>2. CASE \E i \in DOMAIN ss : ss[i].name = r.name
  <2> DEFINE i == CHOOSE j \in DOMAIN ss : ss[j].name = r.name
             t == [ss[i] EXCEPT !.cases = @ \o r.cases]
  <2>1. i \in DOMAIN ss
    BY <1>2
  <2>2. AddTestsuite(ss, r) = [ss EXCEPT ![i] = t]
    BY <1>2 DEF AddTestsuite
  <2> HIDE DEF i
  <2>3. Named(ss[i])
    BY <2>1
  <2>4. DOMAIN t = {"name", "cases"} /\ t.name = ss[i].name
    BY <2>3 DEF Named
  <2> HIDE DEF t
  <2>5. Named(t)
    BY <2>3, <2>4 DEF Named
  <2>6. ss \in Seq(E \cup {t}) /\ t \in E \cup {t}
    OBVIOUS
  <2>7. [ss EXCEPT ![i] = t] \in Seq(E \cup {t})
    BY <2>1, <2>6
  <2> QED
    BY <2>2, <2>5, <2>7
<1> QED
  BY <1>1, <1>2

\* A product whose own name tells its company still does so under the name the
\* workbook gives it: for any products and any sequence of suites added to the
\* report, the workbook is written exactly if every product is known.
THEOREM KnownProducts == ToolsSpec => []KnownProductsSuffice
<1>1. ToolsInit => WorkbookInv
  <2> SUFFICES ASSUME ToolsInit PROVE WorkbookInv
    OBVIOUS
  <2>1. input.suites = <<>> /\ book = <<>> /\ ~raised
    BY DEF ToolsInit, Readable
  <2>2. <<>> \in Seq({})
    OBVIOUS
  <2> QED
    BY <2>1, <2>2 DEF WorkbookInv, InputInv, KnownProductsSuffice
<1>2. WorkbookInv /\ [ToolsNext]_toolsVars => WorkbookInv'
  <2> SUFFICES ASSUME WorkbookInv, [ToolsNext]_toolsVars PROVE WorkbookInv'
    OBVIOUS
  <2> DEFINE same == UNCHANGED xlsxVars
  <2>1. ASSUME same PROVE WorkbookInv'
    <3>1. input' = input /\ book' = book /\ raised' = raised
      BY <2>1 DEF xlsxVars
    <3> QED
      BY <3>1 DEF WorkbookInv, InputInv, KnownProductsSuffice, RawProducts
  <2>2. CASE NewReport
    BY <2>1, <2>2 DEF NewReport
  <2>3. CASE CompareReports
    BY <2>1, <2>3 DEF CompareReports
  <2>4. CASE Upload
    BY <2>1, <2>4 DEF Upload
  <2>5. CASE FindLatest
    BY <2>1, <2>5 DEF FindLatest
  <2>6. CASE UNCHANGED toolsVars
    BY <2>1, <2>6 DEF toolsVars
  <2>7. CASE AddSuite
    <3>1. book' = <<>> /\ ~raised'
      BY <2>7 DEF AddSuite
    <3>2. KnownProductsSuffice'
      BY <3>1 DEF KnownProductsSuffice
    <3>3. CASE input' = Broken
      <4>1. input'.suites = <<>> /\ <<>> \in Seq({})
        BY <3>3 DEF Broken
      <4>2. InputInv'
        BY <4>1 DEF InputInv
      <4> QED
        BY <3>2, <4>2 DEF WorkbookInv
    <3>4. CASE \E r \in SuiteRuns : input' = Readable(AddTestsuite(input.suites, r))
      <4>1. PICK r \in SuiteRuns : input' = Readable(AddTestsuite(input.suites, r))
        BY <3>4
      <4>2. input'.suites = AddTestsuite(input.suites, r)
        BY <4>1 DEF Readable
      <4>3. Named(r)
        BY ReportToolsAssumption DEF WrittenSuite, Named
      <4>4. PICK E : input.suites \in Seq(E) /\ \A e \in E : Named(e)
        BY DEF WorkbookInv, InputInv
      <4>5. \E F : AddTestsuite(input.suites, r) \in Seq(F) /\ \A e \in F : Named(e)
        BY <4>3, <4>4, AddNamed
      <4>6. InputInv'
        BY <4>2, <4>5 DEF InputInv
      <4> QED
        BY <3>2, <4>6 DEF WorkbookInv
    <3> QED
      BY <2>7, <3>3, <3>4 DEF AddSuite
  <2>8. CASE Spreadsheet
    <3>1. input' = input /\ ~raised
      BY <2>8 DEF Spreadsheet, GenerateXlsx
    <3>2. InputInv'
      BY <3>1 DEF WorkbookInv, InputInv
    <3> DEFINE known == \A p \in RawProducts : has_company_name(p)
               ok == book = <<>> /\ input.state = "ok" /\ \A p \in Products(input.suites) : has_company_name(p)
    <3>3. RawProducts' = RawProducts
      BY <3>1 DEF RawProducts
    <3>4. book' = (IF ok THEN <<Workbook(input.suites)>> ELSE book) /\ raised' = ~ok
      BY <2>8 DEF Spreadsheet, GenerateXlsx
    <3>5. (\A p \in Products(input.suites) : has_company_name(p)) <=> known
      BY ProductsKept DEF WorkbookInv
    <3>6. book # <<>> => (input.state = "ok" /\ known)
      BY DEF WorkbookInv, KnownProductsSuffice
    <3>7. book' # <<>> <=> input.state = "ok" /\ known
      BY <3>4, <3>5, <3>6
    <3>8. KnownProductsSuffice'
      BY <3>1, <3>3, <3>7 DEF KnownProductsSuffice
    <3> QED
      BY <3>2, <3>8 DEF WorkbookInv
  <2> QED
    BY <2>2, <2>3, <2>4, <2>5, <2>6, <2>7, <2>8 DEF ToolsNext
<1> QED
  BY <1>1, <1>2, PTL DEF ToolsSpec, WorkbookInv

-----------------------------------------------------------------------------
(* The comparison.                                                         *)

\* What a run of the tool puts out.
Output(mode, batch, html, given, writable) ==
  LET names == choose_all_files(DOMAIN files, batch)
      out == IF (mode # "pair" /\ given # <<>>) \/ Len(given) = 1 THEN Exit(2)
             ELSE IF mode = "explain" THEN Explain(names, html, writable)
             ELSE IF mode = "all" THEN CompareEach(names, html, writable)
             ELSE CompareEach(IF given = <<>> THEN newest(names) ELSE given, FALSE, writable)
  IN  [out EXCEPT !.mode = IF given = <<>> THEN mode ELSE "given"]

\* What is read of the files, and what each is compared with.
Results(names) == [i \in DOMAIN names |-> Loaded(names[i])]
Neighbours(results, N) == [i \in 1..(N - 1) |-> compare(results[i], results[i + 1])]
Shown(reports) == [i \in DOMAIN reports |-> print_differences(reports[i])]

\* The outcome of a comparison in which nothing failed.
Compared(names, html) ==
  LET results == Results(names)
      reports == Neighbours(results, Len(names))
  IN  [NoOutput EXCEPT
         !.used = names, !.reports = reports, !.shown = Shown(reports),
         !.explanation = <<generate_explanation(reports, results)>>,
         !.html = IF html
                  THEN <<render_html_report(build_explain_parallel_report(names), reports, results)>>
                  ELSE <<>>]

LEMMA CompareEachIs ==
  ASSUME NEW names, NEW html \in BOOLEAN, NEW writable \in BOOLEAN
  PROVE  CompareEach(names, html, writable)
           = IF Len(names) < 2 \/ ~AllLoad(names) \/ ~writable THEN Exit(1) ELSE Compared(names, html)
BY DEF CompareEach, Compared, Results, Neighbours, Shown

\* The output depends on nothing but the files.
LEMMA SameLoad == ASSUME files' = files, NEW names PROVE AllLoad(names)' <=> AllLoad(names)
BY DEF AllLoad

LEMMA SameGroups ==
  ASSUME files' = files, NEW names
  PROVE  build_explain_parallel_report(names)' = build_explain_parallel_report(names)
BY DEF build_explain_parallel_report, Loaded

LEMMA SameCompared ==
  ASSUME files' = files, NEW names, NEW html \in BOOLEAN, NEW writable \in BOOLEAN
  PROVE  CompareEach(names, html, writable)' = CompareEach(names, html, writable)
<1>1. Results(names)' = Results(names)
  BY DEF Results, Loaded
<1>2. Compared(names, html)' = Compared(names, html)
  BY <1>1, SameGroups DEF Compared
<1>3. CompareEach(names, html, writable)'
        = IF Len(names) < 2 \/ ~AllLoad(names)' \/ ~writable THEN Exit(1) ELSE Compared(names, html)'
  BY DEF CompareEach, Compared, Results, Neighbours, Shown
<1> QED
  BY <1>2, <1>3, CompareEachIs, SameLoad

LEMMA SameExplained ==
  ASSUME files' = files, NEW names, NEW html \in BOOLEAN, NEW writable \in BOOLEAN
  PROVE  Explain(names, html, writable)' = Explain(names, html, writable)
BY SameLoad, SameGroups DEF Explain

LEMMA SameOutput ==
  ASSUME files' = files, NEW mode, NEW batch, NEW html \in BOOLEAN, NEW given, NEW writable \in BOOLEAN
  PROVE  Output(mode, batch, html, given, writable)' = Output(mode, batch, html, given, writable)
<1> DEFINE names == choose_all_files(DOMAIN files, batch)
           two == IF given = <<>> THEN newest(names) ELSE given
           out == IF (mode # "pair" /\ given # <<>>) \/ Len(given) = 1 THEN Exit(2)
                  ELSE IF mode = "explain" THEN Explain(names, html, writable)
                  ELSE IF mode = "all" THEN CompareEach(names, html, writable)
                  ELSE CompareEach(two, FALSE, writable)
<1>1. names' = names
  OBVIOUS
<1>2. Output(mode, batch, html, given, writable)
        = [out EXCEPT !.mode = IF given = <<>> THEN mode ELSE "given"]
  BY DEF Output
<1>3. Output(mode, batch, html, given, writable)'
        = [out' EXCEPT !.mode = IF given = <<>> THEN mode ELSE "given"]
  BY DEF Output
<1>4. two' = two
  BY <1>1
<1>5. PICK ns, tw : ns = names /\ tw = two
  OBVIOUS
<1>6. out' = out
  <2> HIDE DEF names, two
  <2>1. names' = ns /\ two' = tw
    BY <1>1, <1>4, <1>5
  <2>2. out' = IF (mode # "pair" /\ given # <<>>) \/ Len(given) = 1 THEN Exit(2)
               ELSE IF mode = "explain" THEN Explain(ns, html, writable)'
               ELSE IF mode = "all" THEN CompareEach(ns, html, writable)'
               ELSE CompareEach(tw, FALSE, writable)'
    BY <2>1 DEF Explain, CompareEach
  <2>3. /\ Explain(ns, html, writable)' = Explain(ns, html, writable)
        /\ CompareEach(ns, html, writable)' = CompareEach(ns, html, writable)
        /\ CompareEach(tw, FALSE, writable)' = CompareEach(tw, FALSE, writable)
    BY SameExplained, SameCompared
  <2>4. out = IF (mode # "pair" /\ given # <<>>) \/ Len(given) = 1 THEN Exit(2)
              ELSE IF mode = "explain" THEN Explain(ns, html, writable)
              ELSE IF mode = "all" THEN CompareEach(ns, html, writable)
              ELSE CompareEach(tw, FALSE, writable)
    BY <1>5
  <2> QED
    BY <2>2, <2>3, <2>4
<1> HIDE DEF out, names, two
<1> QED
  BY <1>2, <1>3, <1>6, Zenon

FilesInv ==
  /\ IsFiniteSet(DOMAIN files) /\ DOMAIN files \subseteq ReportNames
  /\ \A n \in DOMAIN files : Written(files[n])

\* The tool has not run, or the directory is as it found it.
OutputInv ==
  \/ cmp = NoOutput
  \/ \E mode \in {"explain", "all", "pair"}, batch \in Batches, writable \in BOOLEAN :
       cmp = Output(mode, batch, TRUE, <<>>, writable)
  \/ \E m, n \in DOMAIN files, mode \in {"all", "pair"} :
       cmp = Output(mode, NoBatch, FALSE, <<m, n>>, TRUE)

CompareInv == FilesInv /\ OutputInv

LEMMA CompareHolds == ToolsSpec => []CompareInv
<1>1. ToolsInit => CompareInv
  <2> SUFFICES ASSUME ToolsInit PROVE CompareInv
    OBVIOUS
  <2>1. files = <<>> /\ cmp = NoOutput
    BY DEF ToolsInit
  <2>2. DOMAIN files = {}
    BY <2>1
  <2> QED
    BY <2>1, <2>2, FS_EmptySet DEF CompareInv, FilesInv, OutputInv
<1>2. CompareInv /\ [ToolsNext]_toolsVars => CompareInv'
  <2> SUFFICES ASSUME CompareInv, [ToolsNext]_toolsVars PROVE CompareInv'
    OBVIOUS
  <2>0. ASSUME files' = files
        PROVE  FilesInv'
    BY <2>0 DEF CompareInv, FilesInv, Written
  <2>a. ASSUME files' = files,
               \/ cmp' = NoOutput
               \/ \E mode \in {"explain", "all", "pair"}, batch \in Batches, writable \in BOOLEAN :
                    cmp' = Output(mode, batch, TRUE, <<>>, writable)
               \/ \E m, n \in DOMAIN files, mode \in {"all", "pair"} :
                    cmp' = Output(mode, NoBatch, FALSE, <<m, n>>, TRUE)
        PROVE  CompareInv'
    <3>1. CASE cmp' = NoOutput
      BY <2>0, <2>a, <3>1 DEF CompareInv, OutputInv
    <3>2. CASE \E mode \in {"explain", "all", "pair"}, batch \in Batches, writable \in BOOLEAN :
                 cmp' = Output(mode, batch, TRUE, <<>>, writable)
      <4>1. PICK mode \in {"explain", "all", "pair"}, batch \in Batches, writable \in BOOLEAN :
              cmp' = Output(mode, batch, TRUE, <<>>, writable)
        BY <3>2
      <4>2. cmp' = Output(mode, batch, TRUE, <<>>, writable)'
        BY <2>a, <4>1, SameOutput
      <4>3. OutputInv'
        BY <4>2, Zenon DEF OutputInv
      <4> QED
        BY <2>0, <2>a, <4>3 DEF CompareInv
    <3>3. CASE \E m, n \in DOMAIN files, mode \in {"all", "pair"} :
                 cmp' = Output(mode, NoBatch, FALSE, <<m, n>>, TRUE)
      <4>1. PICK m \in DOMAIN files, n \in DOMAIN files, mode \in {"all", "pair"} :
              cmp' = Output(mode, NoBatch, FALSE, <<m, n>>, TRUE)
        BY <3>3
      <4>2. cmp' = Output(mode, NoBatch, FALSE, <<m, n>>, TRUE)'
        BY <2>a, <4>1, SameOutput
      <4>4. m \in DOMAIN files' /\ n \in DOMAIN files'
        BY <2>a
      <4>3. OutputInv'
        BY <4>2, <4>4, Zenon DEF OutputInv
      <4> QED
        BY <2>0, <2>a, <4>3 DEF CompareInv
    <3> QED
      BY <2>a, <3>1, <3>2, <3>3
  <2>1. ASSUME UNCHANGED cmpVars PROVE CompareInv'
    <3>1. files' = files /\ cmp' = cmp
      BY <2>1 DEF cmpVars
    <3> QED
      BY <2>a, <3>1 DEF CompareInv, OutputInv
  <2>2. CASE AddSuite
    BY <2>1, <2>2 DEF AddSuite
  <2>3. CASE Spreadsheet
    BY <2>1, <2>3 DEF Spreadsheet
  <2>4. CASE Upload
    BY <2>1, <2>4 DEF Upload
  <2>5. CASE FindLatest
    BY <2>1, <2>5 DEF FindLatest
  <2>6. CASE UNCHANGED toolsVars
    BY <2>1, <2>6 DEF toolsVars
  <2>7. CASE NewReport
    <3>1. cmp' = NoOutput
      BY <2>7 DEF NewReport
    <3>2. PICK n \in ReportNames, report \in {Readable(c) : c \in Contents} \cup {Broken} :
            files' = [m \in DOMAIN files \cup {n} |-> IF m = n THEN report ELSE files[m]]
      BY <2>7 DEF NewReport
    <3>3. DOMAIN files' = DOMAIN files \cup {n}
      BY <3>2
    <3>4. IsFiniteSet(DOMAIN files')
      BY <3>3, FS_AddElement DEF CompareInv, FilesInv
    <3>5. Written(report)
      BY DEF Written
    <3>6. ASSUME NEW m \in DOMAIN files' PROVE Written(files'[m])
      <4>1. files'[m] = IF m = n THEN report ELSE files[m]
        BY <3>2, <3>6
      <4> QED
        BY <3>3, <3>5, <4>1 DEF CompareInv, FilesInv
    <3>7. FilesInv'
      BY <3>3, <3>4, <3>6 DEF CompareInv, FilesInv, Written
    <3> QED
      BY <3>1, <3>7 DEF CompareInv, OutputInv
  <2>8. CASE CompareReports
    <3>1. files' = files
      BY <2>8 DEF CompareReports, Compare
    <3>3. \/ \E mode \in {"explain", "all", "pair"}, batch \in Batches, writable \in BOOLEAN :
               cmp' = Output(mode, batch, TRUE, <<>>, writable)
          \/ \E m, n \in DOMAIN files, mode \in {"all", "pair"} :
               cmp' = Output(mode, NoBatch, FALSE, <<m, n>>, TRUE)
      BY <2>8 DEF CompareReports, Compare, Output
    <3> QED
      BY <2>a, <3>1, <3>3
  <2> QED
    BY <2>2, <2>3, <2>4, <2>5, <2>6, <2>7, <2>8 DEF ToolsNext
<1> QED
  BY <1>1, <1>2, PTL DEF ToolsSpec

IsList(names) == names \in Seq(Range(names))

LEMMA ChosenAreList ==
  ASSUME FilesInv, NEW batch
  PROVE  IsList(choose_all_files(DOMAIN files, batch))
<1> DEFINE S == {n \in DOMAIN files : batch # NoBatch => parse_filename_meta(n) /\ n.batch = batch}
           names == choose_all_files(DOMAIN files, batch)
           N == Cardinality(S)
<1>1. N \in Nat
  BY FS_Subset, FS_CardinalityType DEF FilesInv
<1>2. DOMAIN names = 1..N /\ names = [k \in 1..N |-> names[k]]
  BY DEF choose_all_files, Sorted
<1> HIDE DEF names, N
<1>3. \A k \in 1..N : names[k] \in Range(names)
  BY <1>2 DEF Range
<1>4. names \in [1..N -> Range(names)]
  BY <1>2, <1>3
<1>5. \A m \in Nat : names \in [1..m -> Range(names)] => names \in Seq(Range(names))
  OBVIOUS
<1> QED
  BY <1>1, <1>4, <1>5 DEF IsList, names

LEMMA NewestAreList ==
  ASSUME NEW names, IsList(names)
  PROVE  IsList(newest(names))
<1>1. CASE Len(names) < 2
  <2>1. newest(names) = <<>>
    BY <1>1 DEF newest
  <2> QED
    BY <2>1 DEF IsList
<1>2. CASE ~(Len(names) < 2)
  <2>1. Len(names) \in Nat /\ names \in Seq(Range(names))
    BY DEF IsList
  <2> DEFINE nn == SubSeq(names, Len(names) - 1, Len(names))
  <2>2. nn \in Seq(Range(names))
    BY <1>2, <2>1
  <2>3. newest(names) = nn
    BY <1>2 DEF newest
  <2> HIDE DEF nn
  <2>4. nn \in [1..Len(nn) -> Range(nn)] /\ Len(nn) \in Nat
    BY <2>2 DEF Range
  <2>5. nn \in Seq(Range(nn))
    BY <2>4
  <2> QED
    BY <2>3, <2>5 DEF IsList
<1> QED
  BY <1>1, <1>2

\* A comparison wrote all of its output, or none.
Whole(names) ==
  /\ names \in Seq(DOMAIN files) /\ Len(names) >= 2 /\ AllLoad(names)
  /\ cmp.used = names
  /\ cmp.reports = Neighbours(Results(names), Len(names))
  /\ cmp.shown = Shown(cmp.reports)
  /\ cmp.explanation = <<generate_explanation(cmp.reports, Results(names))>>

LEMMA WholeOrNothing ==
  ASSUME CompareInv
  PROVE  (cmp.reports = <<>> /\ cmp.explanation = <<>>) \/ Whole(cmp.used)
<1> DEFINE none(c) == c.reports = <<>> /\ c.explanation = <<>>
           whole(c, names) ==
             /\ names \in Seq(DOMAIN files) /\ Len(names) >= 2 /\ AllLoad(names)
             /\ c.used = names
             /\ c.reports = Neighbours(Results(names), Len(names))
             /\ c.shown = Shown(c.reports)
             /\ c.explanation = <<generate_explanation(c.reports, Results(names))>>
<1>1. none(NoOutput) /\ \A rc : none(Exit(rc))
  BY DEF NoOutput, Exit
<1>2. \A names, html, writable : none(Explain(names, html, writable))
  BY <1>1 DEF Explain, NoOutput, Exit
<1>3. ASSUME NEW names, NEW html \in BOOLEAN, NEW writable \in BOOLEAN, IsList(names)
      PROVE  LET c == CompareEach(names, html, writable) IN none(c) \/ whole(c, c.used)
  <2> DEFINE c == CompareEach(names, html, writable)
  <2>1. CASE Len(names) < 2 \/ ~AllLoad(names) \/ ~writable
    BY <1>1, <2>1, CompareEachIs
  <2>2. CASE ~(Len(names) < 2 \/ ~AllLoad(names) \/ ~writable)
    <3>1. c = Compared(names, html)
      BY <2>2, CompareEachIs
    <3>2. c.used = names
      BY <3>1 DEF Compared, NoOutput
    <3>3. c.reports = Neighbours(Results(names), Len(names))
      BY <3>1 DEF Compared, NoOutput
    <3>4. c.shown = Shown(Neighbours(Results(names), Len(names)))
      BY <3>1 DEF Compared, NoOutput
    <3>5. c.explanation = <<generate_explanation(Neighbours(Results(names), Len(names)), Results(names))>>
      BY <3>1 DEF Compared, NoOutput
    <3>6. names \in Seq(DOMAIN files) /\ Len(names) >= 2 /\ AllLoad(names)
      <4>1. Len(names) \in Nat /\ names \in [1..Len(names) -> Range(names)]
        BY <1>3 DEF IsList
      <4>2. \A i \in 1..Len(names) : names[i] \in DOMAIN files
        BY <2>2, <4>1 DEF AllLoad
      <4>3. names \in [1..Len(names) -> DOMAIN files]
        BY <4>1, <4>2
      <4> QED
        BY <2>2, <4>1, <4>3
    <3> HIDE DEF c
    <3> QED
      BY <3>2, <3>3, <3>4, <3>5, <3>6 DEF c
  <2> QED
    BY <2>1, <2>2
<1>4. ASSUME NEW out, NEW md, none(out) \/ whole(out, out.used),
             DOMAIN out = DOMAIN NoOutput
      PROVE  LET c == [out EXCEPT !.mode = md] IN none(c) \/ whole(c, c.used)
  <2> DEFINE c == [out EXCEPT !.mode = md]
  <2>1. c.used = out.used /\ c.reports = out.reports /\ c.shown = out.shown /\ c.explanation = out.explanation
    BY <1>4 DEF NoOutput
  <2> HIDE DEF c
  <2> QED
    BY <1>4, <2>1 DEF c
<1>5. \A names, html, writable : DOMAIN Explain(names, html, writable) = DOMAIN NoOutput
  BY DEF Explain, NoOutput, Exit
<1>6. ASSUME NEW names, NEW html \in BOOLEAN, NEW writable \in BOOLEAN
      PROVE  DOMAIN CompareEach(names, html, writable) = DOMAIN NoOutput
  <2>1. DOMAIN Compared(names, html) = DOMAIN NoOutput
    BY DEF Compared
  <2>2. DOMAIN Exit(1) = DOMAIN NoOutput
    BY DEF Exit
  <2> QED
    BY <2>1, <2>2, CompareEachIs
<1>7. \A rc : DOMAIN Exit(rc) = DOMAIN NoOutput
  BY DEF Exit, NoOutput
<1>8. ASSUME NEW mode, NEW batch, NEW html \in BOOLEAN, NEW given, NEW writable \in BOOLEAN,
             given = <<>> \/ IsList(given)
      PROVE  LET c == Output(mode, batch, html, given, writable) IN none(c) \/ whole(c, c.used)
  <2> DEFINE names == choose_all_files(DOMAIN files, batch)
             two == IF given = <<>> THEN newest(names) ELSE given
             out == IF (mode # "pair" /\ given # <<>>) \/ Len(given) = 1 THEN Exit(2)
                    ELSE IF mode = "explain" THEN Explain(names, html, writable)
                    ELSE IF mode = "all" THEN CompareEach(names, html, writable)
                    ELSE CompareEach(two, FALSE, writable)
  <2>1. Output(mode, batch, html, given, writable)
          = [out EXCEPT !.mode = IF given = <<>> THEN mode ELSE "given"]
    BY DEF Output
  <2>2. IsList(names) /\ IsList(two)
    BY <1>8, ChosenAreList, NewestAreList DEF CompareInv
  <2> HIDE DEF names, two, none, whole
  <2>3. none(out) \/ whole(out, out.used)
    <3>1. (LET c == CompareEach(names, html, writable) IN none(c) \/ whole(c, c.used))
      BY <1>3, <2>2
    <3>2. (LET c == CompareEach(two, FALSE, writable) IN none(c) \/ whole(c, c.used))
      BY <1>3, <2>2
    <3> QED
      BY <1>1, <1>2, <3>1, <3>2
  <2>4. DOMAIN out = DOMAIN NoOutput
    BY <1>5, <1>6, <1>7
  <2> HIDE DEF out
  <2> QED
    BY <1>4, <2>1, <2>3, <2>4
<1>9. none(cmp) \/ whole(cmp, cmp.used)
  <2> HIDE DEF none, whole
  <2>1. CASE cmp = NoOutput
    BY <1>1, <2>1
  <2>2. CASE \E mode \in {"explain", "all", "pair"}, batch \in Batches, writable \in BOOLEAN :
               cmp = Output(mode, batch, TRUE, <<>>, writable)
    <3>1. PICK mode \in {"explain", "all", "pair"}, batch \in Batches, writable \in BOOLEAN :
               cmp = Output(mode, batch, TRUE, <<>>, writable)
      BY <2>2
    <3> QED
      BY <1>8, <3>1
  <2>3. CASE \E m, n \in DOMAIN files, mode \in {"all", "pair"} :
               cmp = Output(mode, NoBatch, FALSE, <<m, n>>, TRUE)
    <3>1. PICK m \in DOMAIN files, n \in DOMAIN files, mode \in {"all", "pair"} :
               cmp = Output(mode, NoBatch, FALSE, <<m, n>>, TRUE)
      BY <2>3
    <3>2. IsList(<<m, n>>)
      BY DEF IsList, Range
    <3> QED
      BY <1>8, <3>1, <3>2
  <2> QED
    BY <2>1, <2>2, <2>3 DEF CompareInv, OutputInv
<1> QED
  BY <1>9 DEF Whole

LEMMA StatusesFinite == IsFiniteSet(RichStatus)
<1> DEFINE q == <<"passed", "passed_as_skipped", "skipped_unsupported", "skipped_other",
               "failure_qos_unexpected", "failure_false_pass", "failure_data",
               "failure_ordering", "failure_infrastructure", "failure_other", "error">>
<1>1. q \in Seq(RichStatus) /\ Len(q) = 11
  BY DEF RichStatus
<1>2. \A s \in RichStatus : \E n \in 1..11 : q[n] = s
  BY DEF RichStatus
<1> HIDE DEF q
<1> QED
  BY <1>1, <1>2 DEF IsFiniteSet

\* A list of what was loaded from files.
ResultList(R, N) ==
  /\ N \in Nat /\ DOMAIN R = 1..N
  /\ \A i \in 1..N : IsFiniteSet(DOMAIN R[i]) /\ \A l \in DOMAIN R[i] : R[i][l] \in Judgements

LEMMA LoadedList ==
  ASSUME FilesInv, NEW names \in Seq(DOMAIN files), AllLoad(names)
  PROVE  ResultList(Results(names), Len(names))
<1> DEFINE R == Results(names)
           N == Len(names)
<1>1. N \in Nat /\ DOMAIN names = 1..N
  OBVIOUS
<1>2. DOMAIN R = 1..N
  BY <1>1 DEF Results
<1>3. ASSUME NEW i \in 1..N
      PROVE  IsFiniteSet(DOMAIN R[i]) /\ \A l \in DOMAIN R[i] : R[i][l] \in Judgements
  <2>1. names[i] \in DOMAIN files /\ Loads(files[names[i]]) /\ Written(files[names[i]])
    BY <1>1 DEF AllLoad, FilesInv
  <2>2. R[i] = load_results(files[names[i]])
    BY <1>1 DEF Results, Loaded
  <2> QED
    BY <2>1, <2>2, LoadedIs
<1> QED
  BY <1>1, <1>2, <1>3 DEF ResultList

\* Where the result of a test case is one of some statuses.
Where(R, l, S) == {i \in DOMAIN R : l \in DOMAIN R[i] /\ R[i][l].rich_status \in S}

LEMMA CountsOf ==
  ASSUME NEW R, NEW N, ResultList(R, N), NEW l \in Labels(R), NEW S \in SUBSET RichStatus
  PROVE  LET row == aggregate_statuses(R)[l] IN
         Count(row, S) \in Nat /\ (Count(row, S) > 0 <=> Where(R, l, S) # {})
<1> DEFINE row == aggregate_statuses(R)[l]
           at(rs) == {i \in DOMAIN R : l \in DOMAIN R[i] /\ R[i][l].rich_status = rs}
<1>1. \A rs \in RichStatus : row[rs] = Cardinality(at(rs))
  BY DEF aggregate_statuses
<1>2. \A rs : IsFiniteSet(at(rs))
  <2>1. IsFiniteSet(1..N)
    BY FS_Interval DEF ResultList
  <2>2. \A rs : at(rs) \in SUBSET (1..N)
    BY DEF ResultList
  <2> HIDE DEF at
  <2> QED
    BY <2>1, <2>2, FS_Subset
<1> HIDE DEF row
<1>3. \A rs : Cardinality(at(rs)) \in Nat /\ (Cardinality(at(rs)) > 0 <=> at(rs) # {})
  <2> HIDE DEF at
  <2>1. \A rs : Cardinality(at(rs)) \in Nat
    BY <1>2, FS_CardinalityType
  <2>2. \A rs : Cardinality(at(rs)) = 0 <=> at(rs) = {}
    BY <1>2, FS_EmptySet
  <2> QED
    BY <2>1, <2>2
<1>4. \A rs \in S : row[rs] \in Nat /\ (row[rs] > 0 <=> at(rs) # {})
  <2> HIDE DEF at
  <2> QED
    BY <1>1, <1>3
<1>5. IsFiniteSet(S)
  BY StatusesFinite, FS_Subset
<1>6. Count(row, S) = Sum(row, S)
  BY DEF Count, Sum
<1>7. Sum(row, S) \in Nat /\ (Sum(row, S) > 0 <=> \E x \in S : row[x] > 0)
  <2>1. Valued(row, S)
    BY <1>4 DEF Valued
  <2> QED
    BY <1>5, <2>1, SumPositive
<1>8. (\E x \in S : row[x] > 0) <=> Where(R, l, S) # {}
  BY <1>4 DEF Where
<1> QED
  BY <1>6, <1>7, <1>8 DEF row

\* What changes between some two changes between two neighbours.
LEMMA Neighbouring ==
  ASSUME NEW N \in Nat, NEW f, \A i \in 1..(N - 1) : f[i] = f[i + 1]
  PROVE  \A i, j \in 1..N : f[i] = f[j]
<1> DEFINE Bad == {i \in 1..N : f[i] # f[1]}
<1>1. Bad = {}
  <2> SUFFICES ASSUME Bad # {} PROVE FALSE
    OBVIOUS
  <2>1. Bad \in SUBSET Nat
    OBVIOUS
  <2>2. PICK i \in Bad : \A y \in Bad : i <= y
    <3> HIDE DEF Bad
    <3> QED
      BY <2>1, SmallestOf
  <2>3. i \in 1..N /\ f[i] # f[1] /\ i # 1
    BY <2>2
  <2>4. i - 1 \in 1..N /\ i - 1 \in 1..(N - 1) /\ ~(i <= i - 1) /\ (i - 1) + 1 = i
    BY <2>3
  <2>5. f[i - 1] = f[1]
    BY <2>2, <2>4
  <2>6. f[i - 1] = f[i]
    BY <2>4
  <2> QED
    BY <2>3, <2>5, <2>6
<1> QED
  BY <1>1

Failing == RichStatus \ (Passing \cup NotRun)

LEMMA SubsetsOfStatuses ==
  Passing \in SUBSET RichStatus /\ NotRun \in SUBSET RichStatus /\ Failing \in SUBSET RichStatus
  /\ Failing \ {"error"} \in SUBSET RichStatus
BY DEF Passing, NotRun, Failing, RichStatus

\* A test case that ran everywhere changed between two neighbours exactly if
\* the counts call it flaky.
LEMMA FlakyIsChange ==
  ASSUME NEW R, NEW N, ResultList(R, N), NEW l \in Labels(R),
         \A i \in 1..N : l \in DOMAIN R[i] /\ R[i][l].rich_status \notin NotRun
  PROVE  is_flaky(aggregate_statuses(R)[l])
           <=> \E i \in 1..(N - 1) : R[i][l].status # R[i + 1][l].status
<1> DEFINE row == aggregate_statuses(R)[l]
           st == [i \in 1..N |-> R[i][l].status]
<1>0. N \in Nat /\ DOMAIN R = 1..N
  BY DEF ResultList
<1>1. \A i \in 1..N : /\ st[i] = "passed" <=> R[i][l].rich_status \in Passing
                      /\ st[i] = "failure" <=> R[i][l].rich_status \in Failing
                      /\ st[i] \in {"passed", "failure"}
  <2> SUFFICES ASSUME NEW i \in 1..N
               PROVE  /\ R[i][l].status = "passed" <=> R[i][l].rich_status \in Passing
                      /\ R[i][l].status = "failure" <=> R[i][l].rich_status \in Failing
                      /\ R[i][l].status \in {"passed", "failure"}
    OBVIOUS
  <2>1. R[i][l] \in Judgements /\ R[i][l].rich_status \notin NotRun
    BY DEF ResultList
  <2> DEFINE r == R[i][l]
  <2> HIDE DEF r
  <2>2. r \in Judgements /\ r.rich_status \notin NotRun
    BY <2>1 DEF r
  <2>3. r.rich_status \in RichStatus /\ r.status \in {"passed", "skipped", "failure"}
    BY <2>2 DEF Judgements
  <2>4. /\ r.status = "passed"  <=> r.rich_status \in Passing
        /\ r.status = "skipped" <=> r.rich_status \in NotRun
        /\ r.status = "failure" <=> r.rich_status \notin Passing \cup NotRun
    BY <2>2 DEF Judgements
  <2> QED
    BY <2>2, <2>3, <2>4 DEF r, Failing
<1>2. passed(row) > 0 <=> \E i \in 1..N : st[i] = "passed"
  <2>1. Count(row, Passing) > 0 <=> Where(R, l, Passing) # {}
    BY CountsOf, SubsetsOfStatuses
  <2>2. Where(R, l, Passing) # {} <=> \E i \in 1..N : R[i][l].rich_status \in Passing
    BY <1>0 DEF Where
  <2> HIDE DEF st, row
  <2> QED
    BY <1>1, <2>1, <2>2 DEF passed
<1>3. total_real_fail(row) > 0 <=> \E i \in 1..N : st[i] = "failure"
  <2>1. Count(row, Failing) > 0 <=> Where(R, l, Failing) # {}
    BY CountsOf, SubsetsOfStatuses
  <2>2. Where(R, l, Failing) # {} <=> \E i \in 1..N : R[i][l].rich_status \in Failing
    BY <1>0 DEF Where
  <2>3. total_real_fail(row) = Count(row, Failing)
    BY DEF total_real_fail, Failing
  <2> HIDE DEF st, row
  <2> QED
    BY <1>1, <2>1, <2>2, <2>3
<1>4. \A i \in 1..(N - 1) : i \in 1..N /\ i + 1 \in 1..N
  BY <1>0
<1>5. (\E i \in 1..(N - 1) : R[i][l].status # R[i + 1][l].status)
        <=> \E i \in 1..(N - 1) : st[i] # st[i + 1]
  BY <1>4
<1> HIDE DEF st, row
<1>6. (\E i \in 1..(N - 1) : st[i] # st[i + 1])
        <=> (\E i \in 1..N : st[i] = "passed") /\ (\E i \in 1..N : st[i] = "failure")
  <2>1. ASSUME NEW i \in 1..(N - 1), st[i] # st[i + 1]
        PROVE  (\E j \in 1..N : st[j] = "passed") /\ (\E j \in 1..N : st[j] = "failure")
    BY <1>1, <1>4, <2>1
  <2>2. ASSUME NEW i \in 1..N, st[i] = "passed", NEW j \in 1..N, st[j] = "failure"
        PROVE  \E k \in 1..(N - 1) : st[k] # st[k + 1]
    <3> SUFFICES ASSUME \A k \in 1..(N - 1) : st[k] = st[k + 1] PROVE FALSE
      OBVIOUS
    <3>1. st[i] = st[j]
      BY <1>0, Neighbouring
    <3> QED
      BY <2>2, <3>1
  <2> QED
    BY <2>1, <2>2
<1> QED
  BY <1>2, <1>3, <1>5, <1>6 DEF is_flaky, row

LEMMA LabelsFinite ==
  ASSUME NEW R, NEW N, ResultList(R, N)
  PROVE  IsFiniteSet(Labels(R))
<1> DEFINE F == {DOMAIN R[i] : i \in DOMAIN R}
           f == [i \in 1..N |-> DOMAIN R[i]]
<1>1. IsFiniteSet(1..N)
  BY FS_Interval DEF ResultList
<1>2. f \in Surjection(1..N, F)
  BY DEF Surjection, ResultList
<1>3. IsFiniteSet(F)
  <2> HIDE DEF f, F
  <2> QED
    BY <1>1, <1>2, FS_Surjection
<1>4. \A T \in F : IsFiniteSet(T)
  BY DEF ResultList
<1> HIDE DEF F
<1>5. IsFiniteSet(UNION F)
  BY <1>3, <1>4, FS_UNION
<1> QED
  BY <1>5 DEF Labels, F

\* A test case is in the summary exactly if it failed somewhere.
LEMMA FailedSomewhere ==
  ASSUME NEW R, NEW N, ResultList(R, N), NEW l \in Labels(R)
  PROVE  LET row == aggregate_statuses(R)[l] IN
         /\ passed(row) \in Nat
         /\ total_fail(row) > 0 <=> \E i \in 1..N : l \in DOMAIN R[i] /\ R[i][l].status = "failure"
<1> DEFINE row == aggregate_statuses(R)[l]
           E == {"error"}
<1>0. N \in Nat /\ DOMAIN R = 1..N
  BY DEF ResultList
<1>1. Count(row, Passing) \in Nat
  BY CountsOf, SubsetsOfStatuses
<1>2. Count(row, Failing \ E) \in Nat /\ (Count(row, Failing \ E) > 0 <=> Where(R, l, Failing \ E) # {})
  BY CountsOf, SubsetsOfStatuses
<1>3. row["error"] = 0
  <2>1. row["error"] = Cardinality({i \in DOMAIN R : l \in DOMAIN R[i] /\ R[i][l].rich_status = "error"})
    BY DEF aggregate_statuses, RichStatus
  <2>2. \A i \in 1..N : l \in DOMAIN R[i] => R[i][l].rich_status # "error"
    BY DEF ResultList, Judgements
  <2>3. {i \in DOMAIN R : l \in DOMAIN R[i] /\ R[i][l].rich_status = "error"} = {}
    BY <1>0, <2>2
  <2> HIDE DEF row
  <2> QED
    BY <2>1, <2>3, FS_EmptySet
<1>4. failure(row) = Count(row, Failing \ E)
  <2>1. RichStatus \ (Passing \cup NotRun \cup {"error"}) = Failing \ E
    BY DEF Failing
  <2> HIDE DEF row, E
  <2> QED
    BY <2>1 DEF failure
<1>5. \A i \in 1..N : l \in DOMAIN R[i] =>
        (R[i][l].status = "failure" <=> R[i][l].rich_status \in Failing \ E)
  <2> SUFFICES ASSUME NEW i \in 1..N, l \in DOMAIN R[i]
               PROVE  R[i][l].status = "failure" <=> R[i][l].rich_status \in Failing \ E
    OBVIOUS
  <2> DEFINE r == R[i][l]
  <2>1. r \in Judgements
    BY DEF ResultList
  <2> HIDE DEF r
  <2>2. /\ r.rich_status \in RichStatus /\ r.rich_status # "error"
        /\ r.status = "failure" <=> r.rich_status \notin Passing \cup NotRun
    BY <2>1 DEF Judgements
  <2> QED
    BY <2>2 DEF r, Failing
<1>6. Where(R, l, Failing \ E) # {} <=> \E i \in 1..N : l \in DOMAIN R[i] /\ R[i][l].status = "failure"
  BY <1>0, <1>5 DEF Where
<1> HIDE DEF row, E
<1>7. total_fail(row) > 0 <=> Count(row, Failing \ E) > 0
  BY <1>2, <1>3, <1>4 DEF total_fail
<1> QED
  BY <1>1, <1>2, <1>6, <1>7 DEF row, passed

\* What is shown as changed and what the explanation calls flaky.
LEMMA ChangedIs ==
  ASSUME NEW R, NEW N \in Nat, DOMAIN R = 1..N, NEW l,
         \A i \in 1..N : l \in DOMAIN R[i]
  PROVE  LET reports == Neighbours(R, N)
             e == generate_explanation(reports, R)
         IN  /\ (\E i \in DOMAIN reports : l \in DOMAIN Shown(reports)[i].changed)
                  <=> (\E i \in 1..(N - 1) : R[i][l].status # R[i + 1][l].status)
             /\ l \in e.truly_flaky \cup e.partially_flaky =>
                  \E i \in DOMAIN reports : l \in DOMAIN Shown(reports)[i].changed
<1> DEFINE reports == Neighbours(R, N)
           e == generate_explanation(reports, R)
<1>1. DOMAIN reports = 1..(N - 1) /\ \A i \in 1..(N - 1) : reports[i] = compare(R[i], R[i + 1])
  BY DEF Neighbours
<1> HIDE DEF reports
<1>2. \A i \in DOMAIN reports : Shown(reports)[i].changed = reports[i].changed
  BY DEF Shown, print_differences
<1>4. \A i \in 1..(N - 1) : i \in 1..N /\ i + 1 \in 1..N
  OBVIOUS
<1>5. ASSUME NEW i \in 1..(N - 1)
      PROVE  l \in DOMAIN Shown(reports)[i].changed <=> R[i][l].status # R[i + 1][l].status
  <2>1. DOMAIN Shown(reports)[i].changed
          = {k \in DOMAIN R[i] \cap DOMAIN R[i + 1] : R[i][k].status # R[i + 1][k].status}
    <3>1. Shown(reports)[i].changed = compare(R[i], R[i + 1]).changed
      BY <1>1, <1>2
    <3>2. DOMAIN compare(R[i], R[i + 1]).changed
            = {k \in DOMAIN R[i] \cap DOMAIN R[i + 1] : R[i][k].status # R[i + 1][k].status}
      BY DEF compare
    <3> QED
      BY <3>1, <3>2
  <2>2. l \in DOMAIN R[i] \cap DOMAIN R[i + 1]
    BY <1>4
  <2> QED
    BY <2>1, <2>2
<1>6. e.truly_flaky \cup e.partially_flaky \subseteq DOMAIN Changes(reports)
  BY DEF generate_explanation
<1>7. DOMAIN Changes(reports) = UNION {DOMAIN reports[i].changed : i \in DOMAIN reports}
  BY DEF Changes
<1> HIDE DEF e
<1>8. ASSUME l \in e.truly_flaky \cup e.partially_flaky
      PROVE  \E i \in DOMAIN reports : l \in DOMAIN Shown(reports)[i].changed
  BY <1>2, <1>6, <1>7, <1>8
<1> QED
  BY <1>1, <1>5, <1>8 DEF reports, e

\* The three kinds the explanation divides the test cases into.
LEMMA KindsAddUp ==
  ASSUME NEW R, NEW N, ResultList(R, N), NEW reports
  PROVE  LET e == generate_explanation(reports, R) IN
         /\ e.perm_pass + e.perm_fail + e.mixed = e.total_unique_tests
         /\ e.perm_pass = Cardinality({l \in Labels(R) :
              \A i \in DOMAIN R : l \in DOMAIN R[i] => R[i][l].status # "failure"})
<1> DEFINE e == generate_explanation(reports, R)
           L == Labels(R)
           rows == aggregate_statuses(R)
           D == {k \in L : total_fail(rows[k]) > 0}
           never == {l \in L : \A i \in DOMAIN R : l \in DOMAIN R[i] => R[i][l].status # "failure"}
           fl == {l \in D : passed(rows[l]) = 0}
           mx == {l \in D : passed(rows[l]) > 0}
           summary == summarize_test_statuses(R)
<1>0. DOMAIN R = 1..N
  BY DEF ResultList
<1>1. IsFiniteSet(L)
  BY LabelsFinite
<1>2. DOMAIN rows = L
  BY DEF aggregate_statuses
<1>3. DOMAIN summary = D /\ \A l \in D : summary[l].passed = passed(rows[l])
  <2> HIDE DEF rows, L
  <2> QED
    BY <1>2 DEF summarize_test_statuses, rows
<1>4. e.total_unique_tests = Cardinality(L)
  BY DEF generate_explanation
<1>5. e.perm_pass = Cardinality(L) - Cardinality(DOMAIN summary)
  BY DEF generate_explanation
<1>6. e.perm_fail = Cardinality({l \in DOMAIN summary : summary[l].passed = 0})
  BY DEF generate_explanation
<1>7. e.mixed = Cardinality({l \in DOMAIN summary : summary[l].passed > 0})
  BY DEF generate_explanation
<1> HIDE DEF e, summary, L, rows
<1>8. {l \in DOMAIN summary : summary[l].passed = 0} = fl /\ {l \in DOMAIN summary : summary[l].passed > 0} = mx
  BY <1>3
<1>9. \A l \in L : /\ passed(rows[l]) \in Nat
                   /\ total_fail(rows[l]) > 0 <=> \E i \in 1..N : l \in DOMAIN R[i] /\ R[i][l].status = "failure"
  BY FailedSomewhere DEF L, rows
<1>10. never = L \ D
  BY <1>0, <1>9
<1>11. fl \cup mx = D /\ fl \cap mx = {} /\ fl \in SUBSET L /\ mx \in SUBSET L /\ D \in SUBSET L
  <2>1. \A m \in Nat : m = 0 \/ m > 0
    OBVIOUS
  <2>2. \A m : ~(m = 0 /\ m > 0)
    OBVIOUS
  <2> QED
    BY <1>9, <2>1, <2>2
<1> HIDE DEF D, never, fl, mx
<1>12. IsFiniteSet(D) /\ IsFiniteSet(fl) /\ IsFiniteSet(mx)
  BY <1>1, <1>11, FS_Subset
<1>13. Cardinality(D) = Cardinality(fl) + Cardinality(mx) - Cardinality(fl \cap mx)
  BY <1>11, <1>12, FS_Union
<1>14. Cardinality(fl \cap mx) = 0
  BY <1>11, FS_EmptySet
<1>15. Cardinality(D) \in Nat /\ Cardinality(fl) \in Nat /\ Cardinality(mx) \in Nat /\ Cardinality(L) \in Nat
  BY <1>1, <1>12, FS_CardinalityType
<1>16. Cardinality(L \ D) = Cardinality(L) - Cardinality(D)
  <2>1. L \cap D = D
    BY <1>11
  <2> QED
    BY <1>1, <2>1, FS_Difference
<1>17. e.perm_pass + e.perm_fail + e.mixed = e.total_unique_tests
  <2>1. e.perm_pass = Cardinality(L) - Cardinality(D)
    BY <1>3, <1>5
  <2>2. e.perm_fail = Cardinality(fl) /\ e.mixed = Cardinality(mx)
    BY <1>6, <1>7, <1>8
  <2> QED
    BY <1>4, <1>13, <1>14, <1>15, <2>1, <2>2
<1>18. e.perm_pass = Cardinality(never)
  BY <1>3, <1>5, <1>10, <1>16
<1> QED
  BY <1>17, <1>18 DEF e, never, L

\* The views of the same results agree, for any number of files and any
\* results in them.
THEOREM ViewsConsistent == ToolsSpec => []ViewsAgree
<1>1. CompareInv => ViewsAgree
  <2> SUFFICES ASSUME CompareInv PROVE ViewsAgree
    OBVIOUS
  <2>1. CASE cmp.reports = <<>> /\ cmp.explanation = <<>>
    <3>1. DOMAIN cmp.explanation = {}
      BY <2>1
    <3> QED
      BY <2>1, <3>1 DEF ViewsAgree
  <2>2. CASE Whole(cmp.used)
    <3> DEFINE names == cmp.used
               R == Results(names)
               N == Len(names)
    <3>0. Used = R
      BY DEF Used, Results
    <3>1. ResultList(R, N)
      <4>1. names \in Seq(DOMAIN files) /\ AllLoad(names)
        BY <2>2 DEF Whole
      <4> HIDE DEF names
      <4> QED
        BY <4>1, LoadedList DEF CompareInv
    <3>2. cmp.reports = Neighbours(R, N)
      BY <2>2 DEF Whole
    <3>3. cmp.shown = Shown(Neighbours(R, N))
      BY <2>2, <3>2 DEF Whole
    <3>4. cmp.explanation = <<generate_explanation(Neighbours(R, N), R)>>
      BY <2>2, <3>2 DEF Whole
    <3>5. cmp.explanation[1] = generate_explanation(Neighbours(R, N), R) /\ DOMAIN cmp.explanation = {1}
      BY <3>4
    <3> HIDE DEF R, N
    <3>6. ASSUME NEW l \in Labels(R),
                 \A i \in DOMAIN R : l \in DOMAIN R[i] /\ R[i][l].rich_status \notin NotRun
          PROVE  LET row == aggregate_statuses(R)[l]
                     e == cmp.explanation[1]
                 IN  /\ is_flaky(row) <=> \E i \in DOMAIN cmp.reports : l \in DOMAIN cmp.shown[i].changed
                     /\ l \in e.truly_flaky \cup e.partially_flaky => is_flaky(row)
      <4>1. N \in Nat /\ DOMAIN R = 1..N
        BY <3>1 DEF ResultList
      <4>2. \A i \in 1..N : l \in DOMAIN R[i] /\ R[i][l].rich_status \notin NotRun
        BY <3>6, <4>1
      <4>3. is_flaky(aggregate_statuses(R)[l])
              <=> \E i \in 1..(N - 1) : R[i][l].status # R[i + 1][l].status
        BY <3>1, <4>2, FlakyIsChange
      <4>4. LET reports == Neighbours(R, N)
                e == generate_explanation(reports, R)
            IN  /\ (\E i \in DOMAIN reports : l \in DOMAIN Shown(reports)[i].changed)
                     <=> (\E i \in 1..(N - 1) : R[i][l].status # R[i + 1][l].status)
                /\ l \in e.truly_flaky \cup e.partially_flaky =>
                     \E i \in DOMAIN reports : l \in DOMAIN Shown(reports)[i].changed
        BY <4>1, <4>2, ChangedIs
      <4> QED
        BY <3>2, <3>3, <3>5, <4>3, <4>4
    <3>7. LET e == generate_explanation(Neighbours(R, N), R) IN
          /\ e.perm_pass + e.perm_fail + e.mixed = e.total_unique_tests
          /\ e.perm_pass = Cardinality({l \in Labels(R) :
               \A i \in DOMAIN R : l \in DOMAIN R[i] => R[i][l].status # "failure"})
      BY <3>1, KindsAddUp
    <3>8. \A x \in DOMAIN cmp.explanation :
            LET e == cmp.explanation[x] IN
            /\ e.perm_pass + e.perm_fail + e.mixed = e.total_unique_tests
            /\ e.perm_pass = Cardinality({l \in Labels(R) :
                 \A i \in DOMAIN R : l \in DOMAIN R[i] => R[i][l].status # "failure"})
      BY <3>5, <3>7
    <3>9. \A l \in Labels(R) :
            (/\ cmp.reports # <<>>
             /\ \A i \in DOMAIN R : l \in DOMAIN R[i] /\ R[i][l].rich_status \notin NotRun) =>
              LET row == aggregate_statuses(R)[l]
                  e == cmp.explanation[1]
              IN  /\ is_flaky(row) <=> \E i \in DOMAIN cmp.reports : l \in DOMAIN cmp.shown[i].changed
                  /\ l \in e.truly_flaky \cup e.partially_flaky => is_flaky(row)
      BY <3>6
    <3> QED
      BY <3>0, <3>8, <3>9 DEF ViewsAgree, Rich
  <2> QED
    BY <2>1, <2>2, WholeOrNothing
<1> QED
  BY <1>1, CompareHolds, PTL

-----------------------------------------------------------------------------
(* Sorted lists.                                                           *)

StrictOrder(r, S) ==
  /\ \A x \in S : <<x, x>> \notin r
  /\ \A x, y, z \in S : <<x, y>> \in r /\ <<y, z>> \in r => <<x, z>> \in r
  /\ \A x, y \in S : x = y \/ <<x, y>> \in r \/ <<y, x>> \in r

Rank(S, r, x) == Cardinality({y \in S : <<y, x>> \in r})

LEMMA RanksOrdered ==
  ASSUME NEW S, IsFiniteSet(S), NEW r, StrictOrder(r, S)
  PROVE  /\ \A x \in S : Rank(S, r, x) \in 0..(Cardinality(S) - 1)
         /\ \A x, z \in S : Rank(S, r, x) < Rank(S, r, z) <=> <<x, z>> \in r
         /\ \A x, z \in S : Rank(S, r, x) = Rank(S, r, z) => x = z
<1> DEFINE below(x) == {y \in S : <<y, x>> \in r}
<1>1. \A x \in S : /\ below(x) \in SUBSET S /\ IsFiniteSet(below(x)) /\ Cardinality(below(x)) \in Nat
                   /\ Cardinality(below(x)) <= Cardinality(S) /\ x \notin below(x)
  <2> SUFFICES ASSUME NEW x \in S
               PROVE  /\ below(x) \in SUBSET S /\ IsFiniteSet(below(x)) /\ Cardinality(below(x)) \in Nat
                      /\ Cardinality(below(x)) <= Cardinality(S) /\ x \notin below(x)
    OBVIOUS
  <2>1. below(x) \in SUBSET S /\ x \notin below(x)
    BY DEF StrictOrder
  <2> HIDE DEF below
  <2> QED
    BY <2>1, FS_Subset, FS_CardinalityType
<1>2. Cardinality(S) \in Nat
  BY FS_CardinalityType
<1>3. \A x \in S : Rank(S, r, x) = Cardinality(below(x))
  BY DEF Rank
<1>4. ASSUME NEW x \in S PROVE Rank(S, r, x) \in 0..(Cardinality(S) - 1)
  <2>1. below(x) # S
    BY <1>1
  <2>2. Cardinality(S) # Cardinality(below(x))
    <3> HIDE DEF below
    <3> QED
      BY <1>1, <2>1, FS_Subset
  <2> HIDE DEF below
  <2> QED
    BY <1>1, <1>2, <1>3, <2>2
<1>5. ASSUME NEW x \in S, NEW z \in S, <<x, z>> \in r PROVE Rank(S, r, x) < Rank(S, r, z)
  <2>1. below(x) \in SUBSET below(z) /\ x \in below(z) /\ x \notin below(x)
    BY <1>5 DEF StrictOrder
  <2> HIDE DEF below
  <2>2. Cardinality(below(x)) <= Cardinality(below(z)) /\ Cardinality(below(x)) # Cardinality(below(z))
    BY <1>1, <2>1, FS_Subset
  <2> QED
    BY <1>1, <1>3, <2>2
<1> HIDE DEF below
<1>6. \A x, z \in S : x = z \/ <<x, z>> \in r \/ <<z, x>> \in r
  BY DEF StrictOrder
<1>7. \A x \in S : Rank(S, r, x) \in Nat
  BY <1>1, <1>3
<1>8. ASSUME NEW x \in S, NEW z \in S PROVE Rank(S, r, x) < Rank(S, r, z) <=> <<x, z>> \in r
  <2>1. \A m, k \in Nat : ~(m < k /\ k < m) /\ ~(m < m)
    OBVIOUS
  <2>2. Rank(S, r, x) < Rank(S, r, z) => <<x, z>> \in r
    BY <1>5, <1>6, <1>7, <2>1
  <2> QED
    BY <1>5, <2>2
<1>9. ASSUME NEW x \in S, NEW z \in S, Rank(S, r, x) = Rank(S, r, z) PROVE x = z
  <2>1. \A m \in Nat : ~(m < m)
    OBVIOUS
  <2> QED
    BY <1>5, <1>6, <1>7, <1>9, <2>1
<1> QED
  BY <1>4, <1>8, <1>9

\* In a sorted list every place is taken, by the element of that rank.
LEMMA RanksTaken ==
  ASSUME NEW S, IsFiniteSet(S), NEW r, StrictOrder(r, S)
  PROVE  \A k \in 1..Cardinality(S) : \E x \in S : Rank(S, r, x) = k - 1
<1> DEFINE n == Cardinality(S)
           T == 0..(n - 1)
           f == [x \in S |-> Rank(S, r, x)]
<1>1. n \in Nat
  BY FS_CardinalityType
<1>2. f \in [S -> T]
  BY RanksOrdered
<1>3. \A x, z \in S : f[x] = f[z] => x = z
  BY RanksOrdered
<1>4. IsFiniteSet(T) /\ Cardinality(T) = n
  BY <1>1, FS_Interval
<1> HIDE DEF f, T
<1>5. f \in Injection(S, T)
  BY <1>2, <1>3 DEF Injection, IsInjective
<1>6. f \in Surjection(S, T)
  BY <1>4, <1>5, FS_Injection
<1>7. \A t \in T : \E x \in S : f[x] = t
  BY <1>6 DEF Surjection
<1>8. \A k \in 1..n : k - 1 \in T
  BY <1>1 DEF T
<1> QED
  BY <1>7, <1>8 DEF f

\* What a list sorted by r is.
SortedBy(L, S, r) ==
  /\ DOMAIN L = 1..Cardinality(S)
  /\ \A k \in DOMAIN L : L[k] \in S /\ Rank(S, r, L[k]) = k - 1

LEMMA ListSorted ==
  ASSUME NEW S, IsFiniteSet(S), NEW r, StrictOrder(r, S),
         NEW L, L = [k \in 1..Cardinality(S) |-> CHOOSE x \in S : Rank(S, r, x) = k - 1]
  PROVE  SortedBy(L, S, r)
<1>1. \A k \in 1..Cardinality(S) : \E x \in S : Rank(S, r, x) = k - 1
  BY RanksTaken
<1> QED
  BY <1>1 DEF SortedBy

-----------------------------------------------------------------------------
(* The order of the files.                                                 *)

Keys == [1..6 -> Nat]
Lex(a, b) == \E i \in 1..6 : a[i] < b[i] /\ \A k \in 1..(i - 1) : a[k] = b[k]

LEMMA LexOrder ==
  /\ \A a \in Keys : ~Lex(a, a)
  /\ \A a, b, c \in Keys : Lex(a, b) /\ Lex(b, c) => Lex(a, c)
  /\ \A a, b \in Keys : a = b \/ Lex(a, b) \/ Lex(b, a)
<1>1. ASSUME NEW a \in Keys PROVE ~Lex(a, a)
  BY DEF Keys, Lex
<1>2. ASSUME NEW a \in Keys, NEW b \in Keys, NEW c \in Keys, Lex(a, b), Lex(b, c) PROVE Lex(a, c)
  <2>1. PICK i \in 1..6 : a[i] < b[i] /\ \A k \in 1..(i - 1) : a[k] = b[k]
    BY <1>2 DEF Lex
  <2>2. PICK j \in 1..6 : b[j] < c[j] /\ \A k \in 1..(j - 1) : b[k] = c[k]
    BY <1>2 DEF Lex
  <2>3. \A k \in 1..6 : a[k] \in Nat /\ b[k] \in Nat /\ c[k] \in Nat
    BY DEF Keys
  <2>4. CASE i <= j
    <3>1. a[i] < c[i]
      <4>1. CASE i = j
        BY <2>1, <2>2, <2>3, <4>1
      <4>2. CASE i < j
        <5>1. i \in 1..(j - 1)
          BY <4>2
        <5> QED
          BY <2>1, <2>2, <2>3, <5>1
      <4> QED
        BY <2>4, <4>1, <4>2
    <3>2. \A k \in 1..(i - 1) : k \in 1..(j - 1)
      BY <2>4
    <3>3. \A k \in 1..(i - 1) : a[k] = c[k]
      BY <2>1, <2>2, <3>2
    <3> QED
      BY <3>1, <3>3 DEF Lex
  <2>5. CASE j < i
    <3>1. j \in 1..(i - 1) /\ \A k \in 1..(j - 1) : k \in 1..(i - 1)
      BY <2>5
    <3>2. a[j] = b[j] /\ \A k \in 1..(j - 1) : a[k] = c[k]
      BY <2>1, <2>2, <3>1
    <3> QED
      BY <2>2, <3>2 DEF Lex
  <2> QED
    BY <2>4, <2>5
<1>3. ASSUME NEW a \in Keys, NEW b \in Keys, a # b PROVE Lex(a, b) \/ Lex(b, a)
  <2> DEFINE D == {i \in 1..6 : a[i] # b[i]}
  <2>1. D # {} /\ D \in SUBSET Nat
    BY <1>3 DEF Keys
  <2>2. PICK i \in D : \A y \in D : i <= y
    <3> HIDE DEF D
    <3> QED
      BY <2>1, SmallestOf
  <2>3. i \in 1..6 /\ a[i] # b[i] /\ a[i] \in Nat /\ b[i] \in Nat
    BY <2>2 DEF Keys
  <2>4. \A k \in 1..(i - 1) : k \in 1..6 /\ ~(i <= k)
    BY <2>3
  <2>5. \A k \in 1..(i - 1) : a[k] = b[k]
    BY <2>2, <2>4
  <2> QED
    BY <2>3, <2>5 DEF Lex
<1> QED
  BY <1>1, <1>2, <1>3

LEMMA KeyIs ==
  ASSUME NEW n \in ReportNames
  PROVE  /\ file_sort_key(n) \in Keys /\ file_sort_key(n)[6] = n.name
         /\ n.format = "new" => file_sort_key(n) = <<n.year, 1, n.month, n.day, n.hhmm, n.name>>
         /\ n.format = "old" => file_sort_key(n) = <<n.year, 0, n.month, n.day, n.hhmm, n.name>>
<1>1. /\ n.format \in {"new", "old", "none"} /\ n.year \in Nat /\ n.month \in Nat /\ n.day \in Nat
      /\ n.hhmm \in Nat /\ n.name \in Nat
  BY ReportToolsAssumption
<1> DEFINE new == <<n.year, 1, n.month, n.day, n.hhmm, n.name>>
           old == <<n.year, 0, n.month, n.day, n.hhmm, n.name>>
           other == <<10000, 0, 0, 0, 0, n.name>>
<1>2. new \in Keys /\ new[6] = n.name
  BY <1>1 DEF Keys
<1>3. old \in Keys /\ old[6] = n.name
  BY <1>1 DEF Keys
<1>4. other \in Keys /\ other[6] = n.name
  BY <1>1 DEF Keys
<1>5. /\ n.format = "new" => file_sort_key(n) = new
      /\ n.format = "old" => file_sort_key(n) = old
      /\ n.format = "none" => file_sort_key(n) = other
  BY DEF file_sort_key
<1>6. file_sort_key(n) \in Keys /\ file_sort_key(n)[6] = n.name
  <2> HIDE DEF new, old, other
  <2> QED
    BY <1>1, <1>2, <1>3, <1>4, <1>5
<1> QED
  BY <1>5, <1>6

LEMMA BeforeIs ==
  ASSUME NEW m \in ReportNames, NEW n \in ReportNames
  PROVE  Before(m, n) <=> Lex(file_sort_key(m), file_sort_key(n))
<1>1. file_sort_key(m) \in Keys
  BY KeyIs
<1>2. DOMAIN file_sort_key(m) = 1..6
  BY <1>1 DEF Keys
<1> QED
  BY <1>2 DEF Before, Lex

BeforeRel(S) == {p \in S \X S : Before(p[1], p[2])}

LEMMA BeforeOrder ==
  ASSUME NEW S \in SUBSET ReportNames
  PROVE  StrictOrder(BeforeRel(S), S) /\ \A x, y \in S : <<x, y>> \in BeforeRel(S) <=> Before(x, y)
<1>1. \A x, y \in S : <<x, y>> \in BeforeRel(S) <=> Before(x, y)
  BY DEF BeforeRel
<1>2. \A x, y \in S : Before(x, y) <=> Lex(file_sort_key(x), file_sort_key(y))
  BY BeforeIs
<1>3. \A x \in S : file_sort_key(x) \in Keys
  BY KeyIs
<1>4. \A x, y \in S : file_sort_key(x) = file_sort_key(y) => x = y
  <2>1. \A x \in S : file_sort_key(x)[6] = x.name
    BY KeyIs
  <2> QED
    BY <2>1, ReportToolsAssumption
<1>5. \A x \in S : ~Before(x, x)
  BY <1>2, <1>3, LexOrder
<1>6. \A x, y, z \in S : Before(x, y) /\ Before(y, z) => Before(x, z)
  BY <1>2, <1>3, LexOrder
<1>7. \A x, y \in S : x = y \/ Before(x, y) \/ Before(y, x)
  BY <1>2, <1>3, <1>4, LexOrder
<1> QED
  BY <1>1, <1>5, <1>6, <1>7 DEF StrictOrder

\* The files of a batch.
OfBatch(names, batch) == {n \in names : batch # NoBatch => parse_filename_meta(n) /\ n.batch = batch}

LEMMA ChosenSorted ==
  ASSUME FilesInv, NEW batch
  PROVE  LET S == OfBatch(DOMAIN files, batch) IN
         S \in SUBSET ReportNames /\ IsFiniteSet(S) /\ SortedBy(choose_all_files(DOMAIN files, batch), S, BeforeRel(S))
<1> DEFINE S == OfBatch(DOMAIN files, batch)
           r == BeforeRel(S)
           L == choose_all_files(DOMAIN files, batch)
<1>1. S \in SUBSET ReportNames /\ IsFiniteSet(S)
  BY FS_Subset DEF FilesInv, OfBatch
<1>2. L = [k \in 1..Cardinality(S) |-> CHOOSE x \in S : Cardinality({y \in S : Before(y, x)}) = k - 1]
  BY DEF choose_all_files, Sorted, OfBatch
<1> HIDE DEF S
<1>3. StrictOrder(r, S) /\ \A x, y \in S : <<x, y>> \in r <=> Before(x, y)
  BY <1>1, BeforeOrder
<1> HIDE DEF r, L
<1>4. \A x \in S : {y \in S : Before(y, x)} = {y \in S : <<y, x>> \in r}
  BY <1>3
<1> DEFINE c(k) == CHOOSE x \in S : Cardinality({y \in S : Before(y, x)}) = k - 1
           d(k) == CHOOSE x \in S : Rank(S, r, x) = k - 1
<1>5. \A k \in 1..Cardinality(S) : c(k) = d(k)
  <2>1. \A x \in S : Cardinality({y \in S : Before(y, x)}) = Rank(S, r, x)
    BY <1>4 DEF Rank
  <2> SUFFICES ASSUME NEW k \in 1..Cardinality(S) PROVE c(k) = d(k)
    OBVIOUS
  <2>2. \A x : (x \in S /\ Cardinality({y \in S : Before(y, x)}) = k - 1)
                 <=> (x \in S /\ Rank(S, r, x) = k - 1)
    BY <2>1
  <2> QED
    BY <2>2
<1>a. L = [k \in 1..Cardinality(S) |-> c(k)]
  BY <1>2
<1>6. L = [k \in 1..Cardinality(S) |-> d(k)]
  <2> HIDE DEF c, d
  <2> QED
    BY <1>5, <1>a
<1>7. SortedBy(L, S, r)
  BY <1>1, <1>3, <1>6, ListSorted
<1> QED
  BY <1>1, <1>7 DEF S, r, L


LEMMA OlderBefore ==
  ASSUME NEW a \in ReportNames, NEW b \in ReportNames, a.format = b.format, a.format # "none", Older(a, b)
  PROVE  Before(a, b)
<1> DEFINE s == file_sort_key(a)
           t == file_sort_key(b)
<1>1. a.format \in {"new", "old"}
  BY ReportToolsAssumption
<1>2. /\ s[1] = a.year /\ s[3] = a.month /\ s[4] = a.day /\ s[5] = a.hhmm
      /\ t[1] = b.year /\ t[3] = b.month /\ t[4] = b.day /\ t[5] = b.hhmm /\ s[2] = t[2]
  <2>1. CASE a.format = "new"
    <3>1. s = <<a.year, 1, a.month, a.day, a.hhmm, a.name>> /\ t = <<b.year, 1, b.month, b.day, b.hhmm, b.name>>
      BY <2>1, KeyIs
    <3> QED
      BY <3>1
  <2>2. CASE a.format = "old"
    <3>1. s = <<a.year, 0, a.month, a.day, a.hhmm, a.name>> /\ t = <<b.year, 0, b.month, b.day, b.hhmm, b.name>>
      BY <2>2, KeyIs
    <3> QED
      BY <3>1
  <2> QED
    BY <1>1, <2>1, <2>2
<1> HIDE DEF s, t
<1>3. /\ Time(a)[1] = a.year /\ Time(a)[2] = a.month /\ Time(a)[3] = a.day /\ Time(a)[4] = a.hhmm
      /\ Time(b)[1] = b.year /\ Time(b)[2] = b.month /\ Time(b)[3] = b.day /\ Time(b)[4] = b.hhmm
  BY DEF Time
<1>4. PICK k \in 1..4 : Time(a)[k] < Time(b)[k] /\ \A q \in 1..(k - 1) : Time(a)[q] = Time(b)[q]
  BY DEF Older
<1>5. Lex(s, t)
  <2>1. CASE k = 1
    <3>1. s[1] < t[1] /\ \A q \in 1..(1 - 1) : s[q] = t[q]
      BY <1>2, <1>3, <1>4, <2>1
    <3> QED
      BY <3>1 DEF Lex
  <2>2. CASE k = 2
    <3>1. Time(a)[1] = Time(b)[1]
      BY <1>4, <2>2
    <3>2. s[3] < t[3] /\ \A q \in 1..(3 - 1) : s[q] = t[q]
      BY <1>2, <1>3, <1>4, <2>2, <3>1
    <3> QED
      BY <3>2 DEF Lex
  <2>3. CASE k = 3
    <3>1. Time(a)[1] = Time(b)[1] /\ Time(a)[2] = Time(b)[2]
      BY <1>4, <2>3
    <3>2. s[4] < t[4] /\ \A q \in 1..(4 - 1) : s[q] = t[q]
      BY <1>2, <1>3, <1>4, <2>3, <3>1
    <3> QED
      BY <3>2 DEF Lex
  <2>4. CASE k = 4
    <3>1. Time(a)[1] = Time(b)[1] /\ Time(a)[2] = Time(b)[2] /\ Time(a)[3] = Time(b)[3]
      BY <1>4, <2>4
    <3>2. s[5] < t[5] /\ \A q \in 1..(5 - 1) : s[q] = t[q]
      BY <1>2, <1>3, <1>4, <2>4, <3>1
    <3> QED
      BY <3>2 DEF Lex
  <2> QED
    BY <2>1, <2>2, <2>3, <2>4
<1> QED
  BY <1>5, BeforeIs DEF s, t

\* What was compared with what.
LEMMA UsedIs ==
  ASSUME CompareInv, cmp.mode \in {"all", "pair"}
  PROVE  \/ cmp.used = <<>>
         \/ \E batch : LET L == choose_all_files(DOMAIN files, batch) IN cmp.used = L \/ cmp.used = newest(L)
<1>1. ASSUME NEW mode, NEW batch, NEW html \in BOOLEAN, NEW given, NEW writable \in BOOLEAN,
             cmp = Output(mode, batch, html, given, writable)
      PROVE  \/ cmp.used = <<>>
             \/ LET L == choose_all_files(DOMAIN files, batch) IN cmp.used = L \/ cmp.used = newest(L)
  <2> DEFINE names == choose_all_files(DOMAIN files, batch)
             two == IF given = <<>> THEN newest(names) ELSE given
             out == IF (mode # "pair" /\ given # <<>>) \/ Len(given) = 1 THEN Exit(2)
                    ELSE IF mode = "explain" THEN Explain(names, html, writable)
                    ELSE IF mode = "all" THEN CompareEach(names, html, writable)
                    ELSE CompareEach(two, FALSE, writable)
  <2>1. cmp = [out EXCEPT !.mode = IF given = <<>> THEN mode ELSE "given"]
    BY <1>1 DEF Output
  <2> HIDE DEF names
  <2>2. \A ns, h, w : DOMAIN Explain(ns, h, w) = DOMAIN NoOutput
    BY DEF Explain, Exit
  <2>3. ASSUME NEW ns, NEW h \in BOOLEAN
        PROVE  LET c == CompareEach(ns, h, writable) IN
               DOMAIN c = DOMAIN NoOutput /\ (c.used = <<>> \/ c.used = ns)
    <3>1. DOMAIN Compared(ns, h) = DOMAIN NoOutput
      BY DEF Compared
    <3>2. Compared(ns, h).used = ns
      BY DEF Compared, NoOutput
    <3>3. DOMAIN Exit(1) = DOMAIN NoOutput /\ Exit(1).used = <<>>
      BY DEF Exit, NoOutput
    <3> QED
      BY <3>1, <3>2, <3>3, CompareEachIs
  <2>4. DOMAIN Exit(2) = DOMAIN NoOutput /\ Exit(2).used = <<>>
    BY DEF Exit, NoOutput
  <2>5. /\ DOMAIN CompareEach(names, html, writable) = DOMAIN NoOutput
        /\ DOMAIN CompareEach(two, FALSE, writable) = DOMAIN NoOutput
    BY <2>3
  <2>6. DOMAIN out = DOMAIN NoOutput
    BY <2>2, <2>4, <2>5
  <2>7. "mode" \in DOMAIN NoOutput /\ "used" \in DOMAIN NoOutput
    BY DEF NoOutput
  <2>a. cmp.used = out.used /\ cmp.mode = IF given = <<>> THEN mode ELSE "given"
    <3> HIDE DEF out
    <3> QED
      BY <2>1, <2>6, <2>7
  <2>8. given = <<>> /\ mode # "explain"
    BY <2>a
  <2>9. out = Exit(2) \/ out = CompareEach(names, html, writable) \/ out = CompareEach(newest(names), FALSE, writable)
    BY <2>8
  <2>10. out.used = <<>> \/ out.used = names \/ out.used = newest(names)
    <3> HIDE DEF out
    <3> QED
      BY <2>3, <2>4, <2>9
  <2> HIDE DEF out
  <2> QED
    BY <2>a, <2>10 DEF names
<1>2. CASE cmp = NoOutput
  BY <1>2 DEF NoOutput
<1>3. CASE \E mode \in {"explain", "all", "pair"}, batch \in Batches, writable \in BOOLEAN :
             cmp = Output(mode, batch, TRUE, <<>>, writable)
  <2>1. PICK mode \in {"explain", "all", "pair"}, batch \in Batches, writable \in BOOLEAN :
             cmp = Output(mode, batch, TRUE, <<>>, writable)
    BY <1>3
  <2> QED
    BY <1>1, <2>1
<1>4. CASE \E m, n \in DOMAIN files, mode \in {"all", "pair"} :
             cmp = Output(mode, NoBatch, FALSE, <<m, n>>, TRUE)
  <2>1. PICK m \in DOMAIN files, n \in DOMAIN files, mode \in {"all", "pair"} :
             cmp = Output(mode, NoBatch, FALSE, <<m, n>>, TRUE)
    BY <1>4
  <2> QED
    BY <1>1, <2>1
<1> QED
  BY <1>2, <1>3, <1>4 DEF CompareInv, OutputInv

\* Neighbours in the list of a batch: the first is before the second, and
\* no file of the batch is between them.
LEMMA NeighboursInOrder ==
  ASSUME FilesInv, NEW batch, NEW i,
         LET L == choose_all_files(DOMAIN files, batch) IN i \in DOMAIN L /\ i + 1 \in DOMAIN L
  PROVE  LET L == choose_all_files(DOMAIN files, batch)
             S == OfBatch(DOMAIN files, batch)
         IN  /\ L[i] \in S /\ L[i + 1] \in S /\ S \in SUBSET ReportNames
             /\ ~Before(L[i + 1], L[i])
             /\ \A n \in S : ~(Before(L[i], n) /\ Before(n, L[i + 1]))
<1> DEFINE L == choose_all_files(DOMAIN files, batch)
           S == OfBatch(DOMAIN files, batch)
           r == BeforeRel(S)
<1>1. S \in SUBSET ReportNames /\ IsFiniteSet(S) /\ SortedBy(L, S, r)
  BY ChosenSorted
<1>2. i \in DOMAIN L /\ i + 1 \in DOMAIN L
  OBVIOUS
<1> HIDE DEF L, S
<1>3. StrictOrder(r, S) /\ \A x, y \in S : <<x, y>> \in r <=> Before(x, y)
  BY <1>1, BeforeOrder
<1> HIDE DEF r
<1>4. \A x, y \in S : Rank(S, r, x) < Rank(S, r, y) <=> Before(x, y)
  BY <1>1, <1>3, RanksOrdered
<1>5. \A x \in S : Rank(S, r, x) \in 0..(Cardinality(S) - 1)
  BY <1>1, <1>3, RanksOrdered
<1>6. DOMAIN L = 1..Cardinality(S) /\ Cardinality(S) \in Nat
  BY <1>1, FS_CardinalityType DEF SortedBy
<1>7. i \in Nat
  BY <1>2, <1>6
<1>8. L[i] \in S /\ Rank(S, r, L[i]) = i - 1 /\ L[i + 1] \in S /\ Rank(S, r, L[i + 1]) = (i + 1) - 1
  BY <1>1, <1>2 DEF SortedBy
<1>9. ~Before(L[i + 1], L[i])
  BY <1>4, <1>7, <1>8
<1>10. ASSUME NEW n \in S, Before(L[i], n), Before(n, L[i + 1]) PROVE FALSE
  <2>1. i - 1 < Rank(S, r, n) /\ Rank(S, r, n) < (i + 1) - 1
    BY <1>4, <1>8, <1>10
  <2>2. Rank(S, r, n) \in Nat
    BY <1>5, <1>6
  <2> QED
    BY <1>7, <2>1, <2>2
<1> QED
  BY <1>1, <1>8, <1>9, <1>10 DEF L, S

\* Files with names of one format are compared from the older to the newer one
\* and none of the batch is left out, for any names in the directory.
THEOREM OldestFirst == ToolsSpec => []Chronological
<1>1. CompareInv => Chronological
  <2> SUFFICES ASSUME CompareInv, cmp.mode \in {"all", "pair"}, NEW i \in 1..(Len(cmp.used) - 1),
                      cmp.used[i].format = cmp.used[i + 1].format, cmp.used[i].format # "none"
               PROVE  LET a == cmp.used[i]
                          b == cmp.used[i + 1]
                      IN  /\ ~Older(b, a)
                          /\ \A n \in DOMAIN files :
                               n.format = a.format /\ n.batch = a.batch /\ n.batch = b.batch
                                 => ~(Older(a, n) /\ Older(n, b))
    BY DEF Chronological, Older, Time
  <2>0. FilesInv
    BY DEF CompareInv
  <2>1. cmp.used # <<>>
    <3> SUFFICES ASSUME cmp.used = <<>> PROVE FALSE
      OBVIOUS
    <3>1. Len(cmp.used) = 0
      OBVIOUS
    <3> QED
      BY <3>1
  <2>2. PICK batch : LET L == choose_all_files(DOMAIN files, batch) IN cmp.used = L \/ cmp.used = newest(L)
    BY <2>1, UsedIs
  <2> DEFINE L == choose_all_files(DOMAIN files, batch)
             S == OfBatch(DOMAIN files, batch)
  <2>3. L \in Seq(Range(L))
    BY <2>0, ChosenAreList DEF IsList
  <2>4. PICK j : j \in DOMAIN L /\ j + 1 \in DOMAIN L /\ cmp.used[i] = L[j] /\ cmp.used[i + 1] = L[j + 1]
    <3> HIDE DEF L
    <3>1. CASE cmp.used = L
      <4>1. i \in DOMAIN L /\ i + 1 \in DOMAIN L
        BY <2>3, <3>1
      <4> QED
        BY <3>1, <4>1
    <3>2. CASE cmp.used = newest(L)
      <4> DEFINE M == Len(L)
      <4>1. M \in Nat /\ DOMAIN L = 1..M
        BY <2>3
      <4>2. M >= 2 /\ cmp.used = SubSeq(L, M - 1, M)
        BY <2>1, <3>2, <4>1 DEF newest
      <4>3. Len(cmp.used) = 2 /\ cmp.used[1] = L[M - 1] /\ cmp.used[2] = L[M]
        BY <2>3, <4>1, <4>2
      <4>4. i = 1 /\ M - 1 \in DOMAIN L /\ (M - 1) + 1 \in DOMAIN L /\ (M - 1) + 1 = M
        BY <4>1, <4>2, <4>3
      <4>5. cmp.used[i] = L[M - 1] /\ cmp.used[i + 1] = L[(M - 1) + 1]
        BY <4>3, <4>4
      <4> HIDE DEF M
      <4> QED
        BY <4>4, <4>5
    <3> QED
      BY <2>2, <3>1, <3>2 DEF L
  <2>5. /\ L[j] \in S /\ L[j + 1] \in S /\ S \in SUBSET ReportNames
        /\ ~Before(L[j + 1], L[j])
        /\ \A n \in S : ~(Before(L[j], n) /\ Before(n, L[j + 1]))
    BY <2>0, <2>4, NeighboursInOrder
  <2> DEFINE a == cmp.used[i]
             b == cmp.used[i + 1]
  <2>6. /\ a \in S /\ b \in S /\ S \in SUBSET ReportNames /\ ~Before(b, a)
        /\ \A n \in S : ~(Before(a, n) /\ Before(n, b))
    <3> HIDE DEF L, S
    <3> QED
      BY <2>4, <2>5
  <2>7. a.format = b.format /\ a.format # "none"
    OBVIOUS
  <2> HIDE DEF a, b, L
  <2>8. ~Older(b, a)
    BY <2>6, <2>7, OlderBefore
  <2>9. ASSUME NEW n \in DOMAIN files, n.format = a.format, n.batch = a.batch, Older(a, n), Older(n, b)
        PROVE  FALSE
    <3>1. n \in S
      BY <2>6, <2>9 DEF OfBatch, parse_filename_meta
    <3> HIDE DEF S
    <3>2. Before(a, n) /\ Before(n, b)
      BY <2>6, <2>7, <2>9, <3>1, OlderBefore
    <3> QED
      BY <2>6, <3>1, <3>2
  <2> QED
    BY <2>8, <2>9 DEF a, b
<1> QED
  BY <1>1, CompareHolds, PTL

-----------------------------------------------------------------------------
(* Sums of expressions as sums of functions.                               *)

SecondOf(S) == MapThenSumSet(LAMBDA e : e[2], S)

LEMMA SecondSum ==
  ASSUME NEW S, IsFiniteSet(S), NEW f, \A x \in S : f[x] = x[2]
  PROVE  SecondOf(S) = Sum(f, S)
<1> DEFINE P(it) == it = [s \in SUBSET S |->
                      IF s = {} THEN 0 ELSE (CHOOSE x \in s : TRUE)[2] + it[s \ {CHOOSE x \in s : TRUE}]]
<1>1. SecondOf(S) = (CHOOSE it : P(it))[S]
  BY DEF SecondOf, MapThenSumSet, MapThenFoldSet
<1>2. Sum(f, S) = (CHOOSE it : Sums(it, f, S))[S]
  BY SumUnfolds
<1>3. \A s \in SUBSET S : s # {} => (CHOOSE x \in s : TRUE)[2] = f[CHOOSE x \in s : TRUE]
  BY Chosen
<1>4. \A it : P(it) <=> Sums(it, f, S)
  BY <1>3 DEF Sums
<1>5. (CHOOSE it : P(it)) = (CHOOSE it : Sums(it, f, S))
  <2> HIDE DEF P
  <2> QED
    BY <1>4
<1> QED
  BY <1>1, <1>2, <1>5

\* The values that are 0 may be left out.
LEMMA SumDrop ==
  ASSUME NEW f, NEW S, IsFiniteSet(S), Valued(f, S), NEW T \in SUBSET S, \A x \in S : x \notin T => f[x] = 0
  PROVE  Sum(f, S) = Sum(f, T)
<1> DEFINE Bad == {s \in SUBSET S : Sum(f, s) # Sum(f, s \cap T)}
<1>0. \A s \in SUBSET S : IsFiniteSet(s) /\ Valued(f, s)
  BY FS_Subset DEF Valued
<1>1. Bad = {}
  <2> SUFFICES ASSUME Bad # {} PROVE FALSE
    OBVIOUS
  <2>1. PICK s \in Bad : \A t \in Bad : Cardinality(s) <= Cardinality(t)
    <3>1. \A t \in Bad : IsFiniteSet(t)
      BY <1>0
    <3> HIDE DEF Bad
    <3> QED
      BY <3>1, SmallestSet
  <2>2. s # {}
    <3>1. {} \cap T = {}
      OBVIOUS
    <3> QED
      BY <3>1
  <2>3. PICK x \in s : TRUE
    BY <2>2
  <2>4. Sum(f, s) = f[x] + Sum(f, s \ {x})
    BY <1>0, SumStep
  <2>5. s \ {x} \in SUBSET S /\ ~(Cardinality(s) <= Cardinality(s \ {x}))
    <3>1. Cardinality(s) \in Nat /\ Cardinality(s \ {x}) = Cardinality(s) - 1
      BY <1>0, OneLess
    <3> QED
      BY <3>1
  <2>6. Sum(f, s \ {x}) = Sum(f, (s \ {x}) \cap T)
    BY <2>1, <2>5
  <2>7. Sum(f, (s \ {x}) \cap T) \in Nat
    <3>1. (s \ {x}) \cap T \in SUBSET S
      OBVIOUS
    <3> QED
      BY <1>0, <3>1, SumStep
  <2>8. CASE x \in T
    <3>1. (s \cap T) \ {x} = (s \ {x}) \cap T
      OBVIOUS
    <3>2. Sum(f, s \cap T) = f[x] + Sum(f, (s \cap T) \ {x})
      <4>1. s \cap T \in SUBSET S /\ x \in s \cap T
        BY <2>8
      <4> QED
        BY <1>0, <4>1, SumStep
    <3> QED
      BY <2>4, <2>6, <3>1, <3>2
  <2>9. CASE x \notin T
    <3>1. s \cap T = (s \ {x}) \cap T
      BY <2>9
    <3>2. f[x] = 0
      BY <2>9
    <3> QED
      <4>1. Sum(f, s) = Sum(f, s \ {x})
        BY <2>4, <2>6, <2>7, <3>2
      <4> QED
        BY <2>6, <3>1, <4>1
  <2> QED
    BY <2>8, <2>9
<1>2. S \notin Bad
  BY <1>1
<1>3. S \cap T = T
  OBVIOUS
<1> QED
  BY <1>2, <1>3

LEMMA SumOne == ASSUME NEW f, NEW x, f[x] \in Nat PROVE Sum(f, {x}) = f[x]
<1>1. IsFiniteSet({x}) /\ Valued(f, {x}) /\ {x} \ {x} = {}
  BY FS_Singleton DEF Valued
<1>2. Sum(f, {x}) = f[x] + Sum(f, {})
  BY <1>1, SumStep
<1> QED
  BY <1>2, SumEmpty

\* f[a] is the sum of the numbers n of the elements with area a.
Fibers(area, n, f, S, T) ==
  /\ IsFiniteSet(S) /\ IsFiniteSet(T)
  /\ \A l \in S : area[l] \in T
  /\ Valued(n, S)
  /\ \A a \in T : f[a] = Sum(n, {l \in S : area[l] = a})

\* A sum by areas is the sum.
LEMMA SumFibers ==
  ASSUME NEW area, NEW n, NEW f, NEW S, NEW T, Fibers(area, n, f, S, T)
  PROVE  Sum(f, T) = Sum(n, S)
<1>t. /\ IsFiniteSet(S) /\ IsFiniteSet(T)
      /\ \A l \in S : area[l] \in T
      /\ Valued(n, S)
      /\ \A a \in T : f[a] = Sum(n, {l \in S : area[l] = a})
  BY DEF Fibers
<1> USE <1>t
<1> DEFINE r == [a \in T |-> [l \in S |-> IF area[l] = a THEN n[l] ELSE 0]]
           k == [l \in S |-> [a \in T |-> IF area[l] = a THEN n[l] ELSE 0]]
<1>1. \A a \in T : \A l \in S : r[a][l] \in Nat /\ k[l][a] = r[a][l]
  BY DEF Valued
<1>2. ASSUME NEW a \in T PROVE f[a] = Sum(r[a], S)
  <2> DEFINE q == r[a]
             U == {l \in S : area[l] = a}
  <2>1. Valued(q, S) /\ U \in SUBSET S /\ (\A l \in S : l \notin U => q[l] = 0) /\ \A l \in U : q[l] = n[l]
    BY DEF Valued
  <2> HIDE DEF q
  <2>2. f[a] = Sum(n, U)
    OBVIOUS
  <2> HIDE DEF U
  <2>3. Sum(q, S) = Sum(q, U)
    BY <2>1, SumDrop
  <2>4. Sum(q, U) = Sum(n, U)
    <3>1. IsFiniteSet(U) /\ Valued(n, U) /\ \A l \in U : q[l] = n[l]
      BY <2>1, FS_Subset DEF Valued
    <3> QED
      BY <3>1, SumSame
  <2> QED
    BY <2>2, <2>3, <2>4 DEF q
<1>3. ASSUME NEW l \in S PROVE n[l] = Sum(k[l], T)
  <2> DEFINE q == k[l]
             U == {area[l]}
  <2>1. Valued(q, T) /\ U \in SUBSET T /\ (\A a \in T : a \notin U => q[a] = 0) /\ q[area[l]] = n[l] /\ n[l] \in Nat
    BY DEF Valued
  <2> HIDE DEF q
  <2>2. Sum(q, T) = Sum(q, U)
    <3> HIDE DEF U
    <3> QED
      BY <2>1, SumDrop
  <2>3. Sum(q, U) = n[l]
    BY <2>1, SumOne
  <2> QED
    BY <2>2, <2>3 DEF q
<1> HIDE DEF r, k
<1>4. \A a \in T : f[a] = Sum(r[a], S)
  BY <1>2
<1>5. \A l \in S : n[l] = Sum(k[l], T)
  BY <1>3
<1>6. Table(r, k, f, n, T, S)
  BY <1>1, <1>4, <1>5 DEF Table
<1> QED
  BY <1>6, SumSwap

-----------------------------------------------------------------------------
(* What a group of files adds up to.                                       *)

\* The number of files in which a test case has one of some statuses.
LEMMA CountIs ==
  ASSUME NEW R, NEW N, ResultList(R, N), NEW l \in Labels(R), NEW S \in SUBSET RichStatus
  PROVE  /\ Count(aggregate_statuses(R)[l], S) = Cardinality(Where(R, l, S))
         /\ Where(R, l, S) \in SUBSET (1..N) /\ IsFiniteSet(Where(R, l, S))
<1> DEFINE row == aggregate_statuses(R)[l]
           at(rs) == {i \in DOMAIN R : l \in DOMAIN R[i] /\ R[i][l].rich_status = rs}
           W == Where(R, l, S)
           I == 1..N
           r == [rs \in S |-> [i \in I |-> IF i \in at(rs) THEN 1 ELSE 0]]
           k == [i \in I |-> [rs \in S |-> IF i \in at(rs) THEN 1 ELSE 0]]
           g == [i \in I |-> IF i \in W THEN 1 ELSE 0]
<1>0. DOMAIN R = I /\ IsFiniteSet(I) /\ IsFiniteSet(S)
  BY StatusesFinite, FS_Interval, FS_Subset DEF ResultList
<1>1. \A rs \in S : row[rs] = Cardinality(at(rs))
  BY DEF aggregate_statuses
<1>2. W \in SUBSET I /\ (\A rs : I \cap at(rs) = at(rs)) /\ I \cap W = W
  BY <1>0 DEF Where
<1>3. IsFiniteSet(W)
  <2> HIDE DEF W, I
  <2> QED
    BY <1>0, <1>2, FS_Subset
<1>4. \A i \in I : i \in W <=> l \in DOMAIN R[i] /\ R[i][l].rich_status \in S
  BY <1>0 DEF Where
<1>5. \A i \in I : \A rs : i \in at(rs) <=> l \in DOMAIN R[i] /\ R[i][l].rich_status = rs
  BY <1>0
<1> HIDE DEF row, at, W, I
<1>6. \A rs \in S : \A i \in I : r[rs][i] \in Nat /\ k[i][rs] = r[rs][i]
  OBVIOUS
<1>7. ASSUME NEW rs \in S PROVE row[rs] = Sum(r[rs], I)
  <2> DEFINE q == r[rs]
             T == at(rs)
  <2>1. \A i \in I : q[i] = IF i \in T THEN 1 ELSE 0
    OBVIOUS
  <2> HIDE DEF q, T
  <2>2. Sum(q, I) = Cardinality(I \cap T)
    BY <1>0, <2>1, SumCount
  <2> QED
    BY <1>1, <1>2, <2>2 DEF q, T
<1>8. ASSUME NEW i \in I PROVE g[i] = Sum(k[i], S)
  <2> DEFINE q == k[i]
             T == {rs \in S : i \in at(rs)}
  <2>1. \A rs \in S : q[rs] = IF rs \in T THEN 1 ELSE 0
    OBVIOUS
  <2>3. S \cap T = T
    OBVIOUS
  <2> HIDE DEF q
  <2>2. Sum(q, S) = Cardinality(S \cap T)
    <3> HIDE DEF T
    <3> QED
      BY <1>0, <2>1, SumCount
  <2>4. CASE i \in W
    <3>1. T = {R[i][l].rich_status}
      BY <1>4, <1>5, <2>4
    <3>2. Cardinality(T) = 1
      BY <3>1, FS_Singleton
    <3>3. g[i] = 1
      BY <2>4
    <3> HIDE DEF g, T
    <3> QED
      BY <2>2, <2>3, <3>2, <3>3 DEF q
  <2>5. CASE i \notin W
    <3>1. T = {}
      BY <1>4, <1>5, <2>5
    <3>2. Cardinality(T) = 0
      BY <3>1, FS_EmptySet
    <3>3. g[i] = 0
      BY <2>5
    <3> HIDE DEF g, T
    <3> QED
      BY <2>2, <2>3, <3>2, <3>3 DEF q
  <2> QED
    BY <2>4, <2>5
<1>9. Sum(g, I) = Cardinality(I \cap W)
  <2>1. \A i \in I : g[i] = IF i \in W THEN 1 ELSE 0
    OBVIOUS
  <2> HIDE DEF g
  <2> QED
    BY <1>0, <2>1, SumCount
<1>10. Sum(row, S) = Sum(g, I)
  <2> HIDE DEF r, k, g
  <2>1. Table(r, k, row, g, S, I)
    BY <1>0, <1>6, <1>7, <1>8 DEF Table
  <2> QED
    BY <2>1, SumSwap
<1>11. Count(row, S) = Sum(row, S)
  BY DEF Count, Sum
<1> HIDE DEF g
<1>12. Count(row, S) = Cardinality(W)
  BY <1>2, <1>9, <1>10, <1>11
<1> QED
  BY <1>2, <1>3, <1>12 DEF row, W, I

\* The files that have a test case.
Having(R, l) == {i \in DOMAIN R : l \in DOMAIN R[i]}

\* The three kinds of results a test case has add up to the files it is in.
LEMMA RowAddsUp ==
  ASSUME NEW R, NEW N, ResultList(R, N), NEW l \in Labels(R)
  PROVE  LET row == aggregate_statuses(R)[l] IN
         /\ passed(row) \in Nat /\ total_real_fail(row) \in Nat /\ row["skipped_unsupported"] \in Nat
         /\ Cardinality(Having(R, l)) \in Nat
         /\ passed(row) + total_real_fail(row) + row["skipped_unsupported"] = Cardinality(Having(R, l))
         /\ \A rs \in RichStatus : row[rs] \in Nat
         /\ Sum(row, RichStatus) = Cardinality(Having(R, l))
<1> DEFINE row == aggregate_statuses(R)[l]
           U == {"skipped_unsupported"}
           P == Where(R, l, Passing)
           F == Where(R, l, Failing)
           K == Where(R, l, U)
           H == Having(R, l)
<1>0. DOMAIN R = 1..N /\ U \in SUBSET RichStatus /\ RichStatus \in SUBSET RichStatus
  BY DEF ResultList, RichStatus
<1>1. /\ Count(row, Passing) = Cardinality(P) /\ IsFiniteSet(P)
      /\ Count(row, Failing) = Cardinality(F) /\ IsFiniteSet(F)
      /\ IsFiniteSet(K)
      /\ Count(row, RichStatus) = Cardinality(Where(R, l, RichStatus)) /\ IsFiniteSet(Where(R, l, RichStatus))
  BY <1>0, CountIs, SubsetsOfStatuses
<1>2. \A rs \in RichStatus : row[rs] = Cardinality({i \in DOMAIN R : l \in DOMAIN R[i] /\ R[i][l].rich_status = rs})
  BY DEF aggregate_statuses
<1>3. row["skipped_unsupported"] = Cardinality(K)
  <2>1. "skipped_unsupported" \in RichStatus
    BY DEF RichStatus
  <2>2. {i \in DOMAIN R : l \in DOMAIN R[i] /\ R[i][l].rich_status = "skipped_unsupported"} = K
    BY DEF Where
  <2> QED
    BY <1>2, <2>1, <2>2
<1>4. ASSUME NEW i \in 1..N, l \in DOMAIN R[i]
      PROVE  LET s == R[i][l].rich_status IN
             /\ s \in Passing \/ s \in Failing \/ s \in U
             /\ ~(s \in Passing /\ s \in Failing) /\ ~(s \in Passing /\ s \in U) /\ ~(s \in Failing /\ s \in U)
             /\ s \in RichStatus
  <2> DEFINE r == R[i][l]
  <2>1. r \in Judgements
    BY <1>4 DEF ResultList
  <2> HIDE DEF r
  <2>2. /\ r.rich_status \in RichStatus
        /\ r.status = "skipped" <=> r.rich_status \in NotRun
        /\ r.status = "skipped" <=> r.rich_status = "skipped_unsupported"
    BY <2>1 DEF Judgements
  <2>3. Passing \cap U = {} /\ Passing \cap Failing = {} /\ Failing \cap U = {}
    BY DEF Passing, Failing, NotRun
  <2> QED
    BY <2>2, <2>3 DEF r, Failing
<1>5. P \cup F \cup K = H /\ P \cap F = {} /\ (P \cup F) \cap K = {} /\ Where(R, l, RichStatus) = H
  BY <1>0, <1>4 DEF Where, Having
<1>6. Count(row, RichStatus) = Sum(row, RichStatus)
  BY DEF Count, Sum
<1> HIDE DEF P, F, K, H, row, U
<1>7. Cardinality(P \cup F) = Cardinality(P) + Cardinality(F) - Cardinality(P \cap F) /\ IsFiniteSet(P \cup F)
  BY <1>1, FS_Union
<1>8. Cardinality((P \cup F) \cup K) = Cardinality(P \cup F) + Cardinality(K) - Cardinality((P \cup F) \cap K)
      /\ IsFiniteSet((P \cup F) \cup K)
  BY <1>1, <1>7, FS_Union
<1>9. Cardinality(P) \in Nat /\ Cardinality(F) \in Nat /\ Cardinality(K) \in Nat /\ Cardinality(H) \in Nat
  BY <1>1, <1>5, <1>8, FS_CardinalityType
<1>10. Cardinality(P) + Cardinality(F) + Cardinality(K) = Cardinality(H)
  <2>1. Cardinality(P \cap F) = 0 /\ Cardinality((P \cup F) \cap K) = 0
    BY <1>5, FS_EmptySet
  <2>2. Cardinality(H) = Cardinality((P \cup F) \cup K)
    BY <1>5
  <2> QED
    BY <1>7, <1>8, <1>9, <2>1, <2>2
<1>11. \A rs \in RichStatus : row[rs] \in Nat
  <2> SUFFICES ASSUME NEW rs \in RichStatus PROVE row[rs] \in Nat
    OBVIOUS
  <2> DEFINE A == {i \in DOMAIN R : l \in DOMAIN R[i] /\ R[i][l].rich_status = rs}
  <2>1. A \in SUBSET H /\ IsFiniteSet(H)
    BY <1>5, <1>8 DEF H, Having
  <2>2. row[rs] = Cardinality(A)
    BY <1>2
  <2> HIDE DEF A
  <2> QED
    BY <2>1, <2>2, FS_Subset, FS_CardinalityType
<1>12. passed(row) = Cardinality(P) /\ total_real_fail(row) = Cardinality(F)
  BY <1>1 DEF passed, total_real_fail, Failing
<1> QED
  BY <1>1, <1>3, <1>5, <1>6, <1>9, <1>10, <1>11, <1>12 DEF row, H

\* All test cases in all files, counted by test case and by file.
LEMMA GrandTotal ==
  ASSUME NEW R, NEW N, ResultList(R, N), NEW has, NEW sizes,
         \A l \in Labels(R) : has[l] = Cardinality(Having(R, l)),
         \A i \in 1..N : sizes[i] = Cardinality(DOMAIN R[i])
  PROVE  Sum(has, Labels(R)) = Sum(sizes, 1..N)
<1> DEFINE L == Labels(R)
           I == 1..N
           r == [l \in L |-> [i \in I |-> IF l \in DOMAIN R[i] THEN 1 ELSE 0]]
           k == [i \in I |-> [l \in L |-> IF l \in DOMAIN R[i] THEN 1 ELSE 0]]
<1>0. DOMAIN R = I /\ IsFiniteSet(I) /\ IsFiniteSet(L)
  <2>1. N \in Int /\ DOMAIN R = I
    BY DEF ResultList
  <2>2. IsFiniteSet(L)
    BY LabelsFinite
  <2> QED
    BY <2>1, <2>2, FS_Interval
<1>1. \A l \in L : I \cap Having(R, l) = Having(R, l)
  BY <1>0 DEF Having
<1>2. \A i \in I : L \cap DOMAIN R[i] = DOMAIN R[i]
  BY <1>0 DEF Labels
<1>a. \A l \in L : \A i \in I : i \in Having(R, l) <=> l \in DOMAIN R[i]
  BY <1>0 DEF Having
<1> HIDE DEF L, I
<1>3. \A l \in L : \A i \in I : r[l][i] \in Nat /\ k[i][l] = r[l][i]
  OBVIOUS
<1>4. ASSUME NEW l \in L PROVE has[l] = Sum(r[l], I)
  <2> DEFINE q == r[l]
             T == Having(R, l)
  <2>1. \A i \in I : q[i] = IF i \in T THEN 1 ELSE 0
    BY <1>a
  <2> HIDE DEF q, T
  <2>2. Sum(q, I) = Cardinality(I \cap T)
    BY <1>0, <2>1, SumCount
  <2>3. has[l] = Cardinality(T)
    BY DEF T, L
  <2> QED
    BY <1>1, <2>2, <2>3 DEF q, T
<1>5. ASSUME NEW i \in I PROVE sizes[i] = Sum(k[i], L)
  <2> DEFINE q == k[i]
             T == DOMAIN R[i]
  <2>1. \A l \in L : q[l] = IF l \in T THEN 1 ELSE 0
    OBVIOUS
  <2> HIDE DEF q, T
  <2>2. Sum(q, L) = Cardinality(L \cap T)
    BY <1>0, <2>1, SumCount
  <2>3. sizes[i] = Cardinality(T)
    BY DEF T, I
  <2> QED
    BY <1>2, <2>2, <2>3 DEF q, T
<1> HIDE DEF r, k
<1>6. Table(r, k, has, sizes, L, I)
  BY <1>0, <1>3, <1>4, <1>5 DEF Table
<1>7. Sum(has, L) = Sum(sizes, I)
  BY <1>6, SumSwap
<1> QED
  BY <1>7 DEF L, I

\* The sums in the report of a group and in the property about it.
FailsOf(rows) == MapThenSumSet(LAMBDA l : total_real_fail(rows[l]), DOMAIN rows)
PassesOf(rows) == MapThenSumSet(LAMBDA l : passed(rows[l]), DOMAIN rows)
StatusOf(rows, rs) == MapThenSumSet(LAMBDA l : rows[l][rs], DOMAIN rows)
CasesOf(g) == MapThenSumSet(LAMBDA i : Len(Keyed(files[g[i]])), DOMAIN g)

LEMMA FailsSum ==
  ASSUME NEW rows, IsFiniteSet(DOMAIN rows), NEW f, \A l \in DOMAIN rows : f[l] = total_real_fail(rows[l])
  PROVE  FailsOf(rows) = Sum(f, DOMAIN rows)
<1> DEFINE S == DOMAIN rows
           e(x) == total_real_fail(rows[x])
           P(it) == it = [s \in SUBSET S |->
                      IF s = {} THEN 0 ELSE e(CHOOSE x \in s : TRUE) + it[s \ {CHOOSE x \in s : TRUE}]]
<1>1. FailsOf(rows) = (CHOOSE it : P(it))[S]
  BY DEF FailsOf, MapThenSumSet, MapThenFoldSet
<1>2. Sum(f, S) = (CHOOSE it : Sums(it, f, S))[S]
  BY SumUnfolds
<1>3. \A s \in SUBSET S : s # {} => e(CHOOSE x \in s : TRUE) = f[CHOOSE x \in s : TRUE]
  BY Chosen
<1> HIDE DEF e, S
<1>4. \A it : P(it) <=> Sums(it, f, S)
  BY <1>3 DEF Sums
<1>5. (CHOOSE it : P(it)) = (CHOOSE it : Sums(it, f, S))
  <2> HIDE DEF P
  <2> QED
    BY <1>4
<1> QED
  BY <1>1, <1>2, <1>5 DEF S

LEMMA PassesSum ==
  ASSUME NEW rows, IsFiniteSet(DOMAIN rows), NEW f, \A l \in DOMAIN rows : f[l] = passed(rows[l])
  PROVE  PassesOf(rows) = Sum(f, DOMAIN rows)
<1> DEFINE S == DOMAIN rows
           e(x) == passed(rows[x])
           P(it) == it = [s \in SUBSET S |->
                      IF s = {} THEN 0 ELSE e(CHOOSE x \in s : TRUE) + it[s \ {CHOOSE x \in s : TRUE}]]
<1>1. PassesOf(rows) = (CHOOSE it : P(it))[S]
  BY DEF PassesOf, MapThenSumSet, MapThenFoldSet
<1>2. Sum(f, S) = (CHOOSE it : Sums(it, f, S))[S]
  BY SumUnfolds
<1>3. \A s \in SUBSET S : s # {} => e(CHOOSE x \in s : TRUE) = f[CHOOSE x \in s : TRUE]
  BY Chosen
<1> HIDE DEF e, S
<1>4. \A it : P(it) <=> Sums(it, f, S)
  BY <1>3 DEF Sums
<1>5. (CHOOSE it : P(it)) = (CHOOSE it : Sums(it, f, S))
  <2> HIDE DEF P
  <2> QED
    BY <1>4
<1> QED
  BY <1>1, <1>2, <1>5 DEF S

LEMMA StatusSum ==
  ASSUME NEW rows, NEW rs, IsFiniteSet(DOMAIN rows), NEW f, \A l \in DOMAIN rows : f[l] = rows[l][rs]
  PROVE  StatusOf(rows, rs) = Sum(f, DOMAIN rows)
<1> DEFINE S == DOMAIN rows
           e(x) == rows[x][rs]
           P(it) == it = [s \in SUBSET S |->
                      IF s = {} THEN 0 ELSE e(CHOOSE x \in s : TRUE) + it[s \ {CHOOSE x \in s : TRUE}]]
<1>1. StatusOf(rows, rs) = (CHOOSE it : P(it))[S]
  BY DEF StatusOf, MapThenSumSet, MapThenFoldSet
<1>2. Sum(f, S) = (CHOOSE it : Sums(it, f, S))[S]
  BY SumUnfolds
<1>3. \A s \in SUBSET S : s # {} => e(CHOOSE x \in s : TRUE) = f[CHOOSE x \in s : TRUE]
  BY Chosen
<1> HIDE DEF e, S
<1>4. \A it : P(it) <=> Sums(it, f, S)
  BY <1>3 DEF Sums
<1>5. (CHOOSE it : P(it)) = (CHOOSE it : Sums(it, f, S))
  <2> HIDE DEF P
  <2> QED
    BY <1>4
<1> QED
  BY <1>1, <1>2, <1>5 DEF S

LEMMA CasesSum ==
  ASSUME NEW g, IsFiniteSet(DOMAIN g), NEW f, \A l \in DOMAIN g : f[l] = Len(Keyed(files[g[l]]))
  PROVE  CasesOf(g) = Sum(f, DOMAIN g)
<1> DEFINE S == DOMAIN g
           e(x) == Len(Keyed(files[g[x]]))
           P(it) == it = [s \in SUBSET S |->
                      IF s = {} THEN 0 ELSE e(CHOOSE x \in s : TRUE) + it[s \ {CHOOSE x \in s : TRUE}]]
<1>1. CasesOf(g) = (CHOOSE it : P(it))[S]
  BY DEF CasesOf, MapThenSumSet, MapThenFoldSet
<1>2. Sum(f, S) = (CHOOSE it : Sums(it, f, S))[S]
  BY SumUnfolds
<1>3. \A s \in SUBSET S : s # {} => e(CHOOSE x \in s : TRUE) = f[CHOOSE x \in s : TRUE]
  BY Chosen
<1> HIDE DEF e, S
<1>4. \A it : P(it) <=> Sums(it, f, S)
  BY <1>3 DEF Sums
<1>5. (CHOOSE it : P(it)) = (CHOOSE it : Sums(it, f, S))
  <2> HIDE DEF P
  <2> QED
    BY <1>4
<1> QED
  BY <1>1, <1>2, <1>5 DEF S

\* What is on the tab of a group.
LEMMA TabIs ==
  ASSUME NEW R
  PROVE  LET tab == render_group_tab(build_parallel_group_report(R))
             rows == aggregate_statuses(R)
         IN  /\ tab.runs = Len(R)
             /\ tab.failures = FailsOf(rows) /\ tab.passed = PassesOf(rows)
             /\ tab.unsupported = StatusOf(rows, "skipped_unsupported")
             /\ tab.classification = {<<rs, StatusOf(rows, rs)>> : rs \in {s \in RichStatus : StatusOf(rows, s) # 0}}
             /\ tab.areas = Tally([l \in {k \in DOMAIN rows : total_real_fail(rows[k]) > 0} |-> extract_feature(l)],
                                  [l \in DOMAIN rows |-> total_real_fail(rows[l])])
<1> DEFINE grp == build_parallel_group_report(R)
           tab == render_group_tab(grp)
           rows == aggregate_statuses(R)
<1>1. grp.run_count = Len(R)
  BY Zenon DEF build_parallel_group_report
<1>2. grp.total_fail_raw = FailsOf(rows)
  BY Zenon DEF build_parallel_group_report, FailsOf
<1>3. grp.total_pass_raw = PassesOf(rows)
  BY Zenon DEF build_parallel_group_report, PassesOf
<1>4. grp.total_skip_raw = StatusOf(rows, "skipped_unsupported")
  BY Zenon DEF build_parallel_group_report, StatusOf
<1>5. grp.rich_status_totals = [rs \in RichStatus |-> StatusOf(rows, rs)]
  BY Zenon DEF build_parallel_group_report, StatusOf
<1>6. grp.feature_fails = Tally([l \in {k \in DOMAIN rows : total_real_fail(rows[k]) > 0} |-> extract_feature(l)],
                                [l \in DOMAIN rows |-> total_real_fail(rows[l])])
  BY Zenon DEF build_parallel_group_report
<1> HIDE DEF grp, rows
<1>7. /\ tab.runs = grp.run_count /\ tab.failures = grp.total_fail_raw /\ tab.passed = grp.total_pass_raw
      /\ tab.unsupported = grp.total_skip_raw /\ tab.areas = grp.feature_fails
      /\ tab.classification = render_rich_status_summary(grp)
  BY DEF render_group_tab
<1>8. render_rich_status_summary(grp)
        = {<<rs, StatusOf(rows, rs)>> : rs \in {s \in RichStatus : StatusOf(rows, s) # 0}}
  <2>1. \A rs \in RichStatus : grp.rich_status_totals[rs] = StatusOf(rows, rs)
    BY <1>5
  <2> QED
    BY <2>1 DEF render_rich_status_summary
<1> HIDE DEF tab
<1> QED
  BY <1>1, <1>2, <1>3, <1>4, <1>6, <1>7, <1>8 DEF tab, grp, rows

\* A tally adds up to what is tallied.
LEMMA TallySum ==
  ASSUME NEW area, IsFiniteSet(DOMAIN area), NEW n, Valued(n, DOMAIN area)
  PROVE  Sum(Tally(area, n), DOMAIN Tally(area, n)) = Sum(n, DOMAIN area)
<1> DEFINE S == DOMAIN area
           T == Range(area)
           f == Tally(area, n)
<1>1. \A l \in S : area[l] \in T
  BY DEF Range
<1>2. IsFiniteSet(T)
  <2> DEFINE h == [l \in S |-> area[l]]
  <2>1. h \in Surjection(S, T)
    BY DEF Surjection, Range
  <2> HIDE DEF h, S, T
  <2> QED
    BY <2>1, FS_Surjection DEF S
<1>3. DOMAIN f = T
  BY DEF Tally
<1>4. \A a \in T : f[a] = Sum(n, {l \in S : area[l] = a})
  BY DEF Tally, Sum
<1> HIDE DEF T, f
<1>5. Sum(f, T) = Sum(n, S)
  <2>1. Fibers(area, n, f, S, T)
    BY <1>1, <1>2, <1>4 DEF Fibers
  <2> HIDE DEF S
  <2> QED
    BY <2>1, SumFibers
<1> QED
  BY <1>3, <1>5 DEF f

LEMMA GroupAddsUp ==
  ASSUME NEW R, NEW N, ResultList(R, N), NEW sizes, \A i \in 1..N : sizes[i] = Cardinality(DOMAIN R[i])
  PROVE  LET tab == render_group_tab(build_parallel_group_report(R))
             all == Sum(sizes, 1..N)
         IN  /\ tab.runs = Len(R)
             /\ SecondOf(tab.classification) = all
             /\ tab.passed + tab.failures + tab.unsupported = all
             /\ Sum(tab.areas, DOMAIN tab.areas) = tab.failures
<1> DEFINE tab == render_group_tab(build_parallel_group_report(R))
           rows == aggregate_statuses(R)
           L == Labels(R)
           has == [l \in L |-> Cardinality(Having(R, l))]
           pas == [l \in L |-> passed(rows[l])]
           fai == [l \in L |-> total_real_fail(rows[l])]
           uns == [l \in L |-> rows[l]["skipped_unsupported"]]
           pf == [l \in L |-> passed(rows[l]) + total_real_fail(rows[l])]
           tot == [rs \in RichStatus |-> StatusOf(rows, rs)]
<1>0. DOMAIN rows = L /\ IsFiniteSet(L)
  BY LabelsFinite DEF aggregate_statuses
<1>1. \A l \in L :
         /\ passed(rows[l]) \in Nat /\ total_real_fail(rows[l]) \in Nat /\ rows[l]["skipped_unsupported"] \in Nat
         /\ Cardinality(Having(R, l)) \in Nat
         /\ passed(rows[l]) + total_real_fail(rows[l]) + rows[l]["skipped_unsupported"] = Cardinality(Having(R, l))
         /\ \A rs \in RichStatus : rows[l][rs] \in Nat
         /\ Sum(rows[l], RichStatus) = Cardinality(Having(R, l))
  BY RowAddsUp
<1>2. Sum(has, L) = Sum(sizes, 1..N)
  <2>1. \A l \in Labels(R) : has[l] = Cardinality(Having(R, l))
    OBVIOUS
  <2> HIDE DEF has
  <2> QED
    BY <2>1, GrandTotal
<1>3. /\ tab.runs = Len(R)
      /\ tab.failures = FailsOf(rows) /\ tab.passed = PassesOf(rows)
      /\ tab.unsupported = StatusOf(rows, "skipped_unsupported")
      /\ tab.classification = {<<rs, StatusOf(rows, rs)>> : rs \in {s \in RichStatus : StatusOf(rows, s) # 0}}
      /\ tab.areas = Tally([l \in {k \in DOMAIN rows : total_real_fail(rows[k]) > 0} |-> extract_feature(l)],
                           [l \in DOMAIN rows |-> total_real_fail(rows[l])])
  BY TabIs
<1> HIDE DEF tab, rows, L
<1>4. Valued(pas, L) /\ Valued(fai, L) /\ Valued(uns, L) /\ Valued(pf, L) /\ Valued(has, L)
  BY <1>1 DEF Valued
<1>5. tab.passed = Sum(pas, L) /\ tab.failures = Sum(fai, L) /\ tab.unsupported = Sum(uns, L)
  <2>1. \A l \in DOMAIN rows : pas[l] = passed(rows[l]) /\ fai[l] = total_real_fail(rows[l]) /\ uns[l] = rows[l]["skipped_unsupported"]
    BY <1>0
  <2> HIDE DEF pas, fai, uns
  <2>2. PassesOf(rows) = Sum(pas, DOMAIN rows)
    BY <1>0, <2>1, PassesSum
  <2>3. FailsOf(rows) = Sum(fai, DOMAIN rows)
    BY <1>0, <2>1, FailsSum
  <2>4. StatusOf(rows, "skipped_unsupported") = Sum(uns, DOMAIN rows)
    BY <1>0, <2>1, StatusSum
  <2> QED
    BY <1>0, <1>3, <2>2, <2>3, <2>4
<1>6. tab.passed + tab.failures + tab.unsupported = Sum(sizes, 1..N)
  <2>1. (\A l \in L : pf[l] = pas[l] + fai[l]) /\ (\A l \in L : has[l] = pf[l] + uns[l])
    BY <1>1
  <2> HIDE DEF pas, fai, uns, pf, has
  <2>2. Sum(pf, L) = Sum(pas, L) + Sum(fai, L)
    BY <1>0, <1>4, <2>1, SumPlus
  <2>3. Sum(has, L) = Sum(pf, L) + Sum(uns, L)
    BY <1>0, <1>4, <2>1, SumPlus
  <2> QED
    BY <1>2, <1>5, <2>2, <2>3
<1>7. Sum(tab.areas, DOMAIN tab.areas) = tab.failures
  <2> DEFINE D == {k \in DOMAIN rows : total_real_fail(rows[k]) > 0}
             area == [l \in D |-> extract_feature(l)]
             fails == [l \in DOMAIN rows |-> total_real_fail(rows[l])]
  <2>1. fails = fai /\ DOMAIN area = D /\ D \in SUBSET L /\ \A l \in L : l \notin D => fai[l] = 0
    BY <1>0, <1>1
  <2>2. tab.areas = Tally(area, fai)
    BY <1>3, <2>1
  <2> HIDE DEF D, area, fai
  <2>3. IsFiniteSet(D) /\ Valued(fai, D)
    BY <1>0, <1>4, <2>1, FS_Subset DEF Valued
  <2>4. Sum(Tally(area, fai), DOMAIN Tally(area, fai)) = Sum(fai, D)
    BY <2>1, <2>3, TallySum
  <2>5. Sum(fai, L) = Sum(fai, D)
    BY <1>0, <1>4, <2>1, SumDrop
  <2> QED
    BY <1>5, <2>2, <2>4, <2>5
<1>8. SecondOf(tab.classification) = Sum(sizes, 1..N)
  <2> DEFINE A == {s \in RichStatus : StatusOf(rows, s) # 0}
             C == {<<rs, StatusOf(rows, rs)>> : rs \in A}
             area == [e \in C |-> e[1]]
             n == [e \in C |-> e[2]]
             r == [rs \in RichStatus |-> [l \in L |-> rows[l][rs]]]
             k == [l \in L |-> [rs \in RichStatus |-> rows[l][rs]]]
  <2>1. ASSUME NEW rs \in RichStatus PROVE tot[rs] = Sum(r[rs], L) /\ Sum(r[rs], L) \in Nat
    <3> DEFINE q == r[rs]
    <3>1. \A l \in L : q[l] = rows[l][rs]
      OBVIOUS
    <3>2. Valued(q, L)
      BY <1>1 DEF Valued
    <3> HIDE DEF q
    <3>3. StatusOf(rows, rs) = Sum(q, L)
      BY <1>0, <3>1, StatusSum
    <3>4. Sum(q, L) \in Nat
      BY <1>0, <3>2, SumStep
    <3> QED
      BY <3>3, <3>4 DEF q
  <2>2. ASSUME NEW l \in L PROVE has[l] = Sum(k[l], RichStatus)
    <3> DEFINE q == k[l]
               w == rows[l]
    <3>1. (\A rs \in RichStatus : q[rs] = w[rs]) /\ Valued(w, RichStatus)
      BY <1>1 DEF Valued
    <3>2. has[l] = Sum(w, RichStatus)
      BY <1>1
    <3> HIDE DEF q, w
    <3>3. Sum(w, RichStatus) = Sum(q, RichStatus)
      BY <3>1, StatusesFinite, SumSame
    <3> HIDE DEF has
    <3> QED
      BY <3>2, <3>3 DEF q
  <2>3. \A rs \in RichStatus : \A l \in L : r[rs][l] \in Nat /\ k[l][rs] = r[rs][l]
    BY <1>1
  <2>4. Sum(tot, RichStatus) = Sum(has, L)
    <3> HIDE DEF tot, has, r, k
    <3>1. Table(r, k, tot, has, RichStatus, L)
      BY <1>0, <2>1, <2>2, <2>3, StatusesFinite DEF Table
    <3> QED
      BY <3>1, SumSwap
  <2>5. Valued(tot, RichStatus)
    <3> HIDE DEF tot, r
    <3> QED
      BY <2>1 DEF Valued
  <2>6. A \in SUBSET RichStatus /\ IsFiniteSet(A) /\ \A rs \in RichStatus : rs \notin A => tot[rs] = 0
    <3>1. A \in SUBSET RichStatus /\ \A rs \in RichStatus : rs \notin A => tot[rs] = 0
      OBVIOUS
    <3> HIDE DEF A, tot
    <3> QED
      BY <3>1, StatusesFinite, FS_Subset
  <2>7. Sum(tot, RichStatus) = Sum(tot, A)
    <3> HIDE DEF A, tot
    <3> QED
      BY <2>5, <2>6, StatusesFinite, SumDrop
  <2>8. \A rs \in A : tot[rs] \in Nat /\ tot[rs] = StatusOf(rows, rs)
    <3>1. \A rs \in RichStatus : tot[rs] \in Nat
      BY <2>5 DEF Valued
    <3> QED
      BY <3>1
  <2>9. IsFiniteSet(C)
    <3> DEFINE h == [rs \in A |-> <<rs, StatusOf(rows, rs)>>]
    <3>1. h \in Surjection(A, C)
      <4> HIDE DEF A
      <4> QED
        BY DEF Surjection
    <3> HIDE DEF h, A, C
    <3> QED
      BY <2>6, <3>1, FS_Surjection
  <2>10. \A e \in C : area[e] \in A /\ area[e] = e[1] /\ n[e] = e[2] /\ e[2] \in Nat
    <3> HIDE DEF A, tot
    <3> QED
      BY <2>8
  <2>11. ASSUME NEW a \in A PROVE tot[a] = Sum(n, {e \in C : area[e] = a})
    <3> DEFINE x == <<a, StatusOf(rows, a)>>
    <3>1. {e \in C : area[e] = a} = {x}
      <4> HIDE DEF A
      <4> QED
        OBVIOUS
    <3>2. n[x] = tot[a] /\ tot[a] \in Nat
      <4>1. x \in C /\ x[2] = StatusOf(rows, a)
        <5> HIDE DEF A
        <5> QED
          OBVIOUS
      <4> QED
        BY <2>8, <2>10, <4>1
    <3> HIDE DEF x, n, tot, A
    <3>3. Sum(n, {x}) = n[x]
      BY <3>2, SumOne
    <3> QED
      BY <3>1, <3>2, <3>3
  <2>12. Valued(n, C)
    BY <2>10 DEF Valued
  <2>13. Sum(tot, A) = Sum(n, C)
    <3> HIDE DEF tot, A, C, n, area
    <3> QED
      <4>1. Fibers(area, n, tot, C, A)
        BY <2>6, <2>9, <2>10, <2>11, <2>12 DEF Fibers
      <4> QED
        BY <4>1, SumFibers
  <2>14. SecondOf(C) = Sum(n, C)
    <3> HIDE DEF C, n, area
    <3> QED
      BY <2>9, <2>10, SecondSum
  <2>15. tab.classification = C
    BY <1>3
  <2> HIDE DEF C, n, A, tot, has
  <2> QED
    BY <1>2, <2>4, <2>7, <2>13, <2>14, <2>15
<1> QED
  BY <1>3, <1>6, <1>7, <1>8 DEF tab

-----------------------------------------------------------------------------
(* The files of a group.                                                   *)

\* The places Those takes from a list, in their order.
Places(Pl) == [k \in 1..Cardinality(Pl) |-> CHOOSE x \in Pl : Cardinality({y \in Pl : y < x}) = k - 1]

LEMMA PlacesTaken ==
  ASSUME NEW N \in Nat, NEW Pl \in SUBSET (1..N)
  PROVE  /\ IsFiniteSet(Pl) /\ Cardinality(Pl) \in Nat
         /\ DOMAIN Places(Pl) = 1..Cardinality(Pl)
         /\ \A k \in 1..Cardinality(Pl) : Places(Pl)[k] \in Pl
         /\ \A x \in Pl : \E k \in 1..Cardinality(Pl) : Places(Pl)[k] = x
<1> DEFINE r == {p \in Pl \X Pl : p[1] < p[2]}
           L == Places(Pl)
           C == Cardinality(Pl)
<1>1. IsFiniteSet(Pl) /\ C \in Nat
  <2>1. IsFiniteSet(1..N)
    BY FS_Interval
  <2>2. IsFiniteSet(Pl)
    BY <2>1, FS_Subset
  <2> QED
    BY <2>2, FS_CardinalityType
<1>2. \A x, y \in Pl : <<x, y>> \in r <=> x < y
  OBVIOUS
<1>3. \A x \in Pl : x \in Nat
  OBVIOUS
<1> HIDE DEF r
<1>4. StrictOrder(r, Pl)
  BY <1>2, <1>3 DEF StrictOrder
<1>5. \A x \in Pl : {y \in Pl : y < x} = {y \in Pl : <<y, x>> \in r}
  BY <1>2
<1>6. \A x \in Pl : Cardinality({y \in Pl : y < x}) = Rank(Pl, r, x)
  BY <1>5 DEF Rank
<1> DEFINE c(k) == CHOOSE x \in Pl : Cardinality({y \in Pl : y < x}) = k - 1
           d(k) == CHOOSE x \in Pl : Rank(Pl, r, x) = k - 1
<1>7. ASSUME NEW k \in 1..C PROVE c(k) = d(k)
  <2>1. \A x : (x \in Pl /\ Cardinality({y \in Pl : y < x}) = k - 1) <=> (x \in Pl /\ Rank(Pl, r, x) = k - 1)
    BY <1>6
  <2> QED
    BY <2>1
<1>8. L = [k \in 1..C |-> c(k)]
  BY DEF Places
<1>9. L = [k \in 1..C |-> d(k)]
  <2> HIDE DEF c, d
  <2> QED
    BY <1>7, <1>8
<1>10. SortedBy(L, Pl, r)
  <2> HIDE DEF L
  <2> QED
    BY <1>1, <1>4, <1>9, ListSorted
<1> HIDE DEF L
<1>11. DOMAIN L = 1..C /\ \A k \in 1..C : L[k] \in Pl /\ Rank(Pl, r, L[k]) = k - 1
  BY <1>10 DEF SortedBy
<1>12. ASSUME NEW x \in Pl PROVE \E k \in 1..C : L[k] = x
  <2>1. Rank(Pl, r, x) \in 0..(C - 1)
    BY <1>1, <1>4, RanksOrdered
  <2> DEFINE k == Rank(Pl, r, x) + 1
  <2>2. k \in 1..C /\ k - 1 = Rank(Pl, r, x)
    BY <1>1, <2>1
  <2> HIDE DEF k
  <2>3. L[k] \in Pl /\ Rank(Pl, r, L[k]) = Rank(Pl, r, x)
    BY <1>11, <2>2
  <2>4. L[k] = x
    BY <1>1, <1>4, <2>3, RanksOrdered
  <2> QED
    BY <2>2, <2>4
<1> QED
  BY <1>1, <1>11, <1>12 DEF L

InGroup(names, par) == {i \in DOMAIN names : parse_filename_meta(names[i]) /\ names[i].parallel = par}
WithMeta(names) == {i \in DOMAIN names : parse_filename_meta(names[i])}

LEMMA GroupPlaces ==
  ASSUME NEW names, NEW par
  PROVE  GroupFiles(names, par) = LET p == Places(InGroup(names, par)) IN [k \in DOMAIN p |-> names[p[k]]]
BY Zenon DEF GroupFiles, Those, Sorted, Places, InGroup

LEMMA MetaPlaces ==
  ASSUME NEW names
  PROVE  Those(names, parse_filename_meta) = LET p == Places(WithMeta(names)) IN [k \in DOMAIN p |-> names[p[k]]]
BY Zenon DEF Those, Sorted, Places, WithMeta

\* The files with a degree of parallelism could be read.
MetaLoad(names) ==
  \A i \in WithMeta(names) : names[i] \in DOMAIN files /\ Loads(files[names[i]])

LEMMA MetaLoads ==
  ASSUME NEW names, IsList(names), AllLoad(Those(names, parse_filename_meta))
  PROVE  MetaLoad(names)
<1> DEFINE Pl == WithMeta(names)
           p == Places(Pl)
           g == Those(names, parse_filename_meta)
           N == Len(names)
<1>1. N \in Nat /\ DOMAIN names = 1..N
  BY DEF IsList
<1>2. Pl \in SUBSET (1..N)
  BY <1>1 DEF WithMeta
<1>3. g = [k \in DOMAIN p |-> names[p[k]]]
  BY MetaPlaces
<1> HIDE DEF Pl, p, g, N
<1>4. DOMAIN p = 1..Cardinality(Pl) /\ \A x \in Pl : \E k \in 1..Cardinality(Pl) : p[k] = x
  BY <1>1, <1>2, PlacesTaken DEF p
<1>5. ASSUME NEW i \in Pl PROVE names[i] \in DOMAIN files /\ Loads(files[names[i]])
  <2>1. PICK k \in DOMAIN p : p[k] = i
    BY <1>4
  <2>2. k \in DOMAIN g /\ g[k] = names[i]
    BY <1>3, <2>1
  <2>3. g[k] \in DOMAIN files /\ Loads(files[g[k]])
    BY <2>2 DEF AllLoad, g
  <2> QED
    BY <2>2, <2>3
<1> QED
  BY <1>5 DEF MetaLoad, Pl

LEMMA GroupLoads ==
  ASSUME NEW names, IsList(names), MetaLoad(names), NEW par
  PROVE  GroupFiles(names, par) \in Seq(DOMAIN files) /\ AllLoad(GroupFiles(names, par))
<1> DEFINE Pl == InGroup(names, par)
           p == Places(Pl)
           g == GroupFiles(names, par)
           N == Len(names)
           C == Cardinality(Pl)
<1>1. N \in Nat /\ DOMAIN names = 1..N
  BY DEF IsList
<1>2. Pl \in SUBSET (1..N) /\ \A i \in Pl : i \in WithMeta(names)
  BY <1>1 DEF InGroup, WithMeta
<1>3. g = [k \in DOMAIN p |-> names[p[k]]]
  BY GroupPlaces
<1> HIDE DEF Pl, p, g, N
<1>4. C \in Nat /\ DOMAIN p = 1..C /\ \A k \in 1..C : p[k] \in Pl
  BY <1>1, <1>2, PlacesTaken DEF p
<1>5. \A i \in Pl : names[i] \in DOMAIN files /\ Loads(files[names[i]])
  BY <1>2 DEF MetaLoad
<1> HIDE DEF C
<1>6. DOMAIN g = 1..C /\ \A k \in 1..C : g[k] \in DOMAIN files /\ Loads(files[g[k]])
  BY <1>3, <1>4, <1>5
<1>7. g = [k \in 1..C |-> g[k]]
  BY <1>3, <1>4
<1>8. g \in [1..C -> DOMAIN files]
  BY <1>6, <1>7
<1>9. g \in Seq(DOMAIN files)
  BY <1>4, <1>8
<1> QED
  BY <1>6, <1>9 DEF AllLoad, g

-----------------------------------------------------------------------------
(* The page.                                                               *)

\* There is no page, or it is about files that could be read.
Paged(c) ==
  \/ c.html = <<>>
  \/ /\ IsList(c.used) /\ MetaLoad(c.used)
     /\ \E reports, results :
          c.html = <<render_html_report(build_explain_parallel_report(c.used), reports, results)>>

LEMMA PageIs == ASSUME CompareInv PROVE Paged(cmp)
<1>1. Paged(NoOutput) /\ \A rc : Paged(Exit(rc))
  <2>1. NoOutput.html = <<>> /\ \A rc : Exit(rc).html = <<>>
    BY DEF NoOutput, Exit
  <2> QED
    BY <2>1 DEF Paged
<1>2. ASSUME NEW names, NEW html \in BOOLEAN, NEW writable \in BOOLEAN, IsList(names)
      PROVE  Paged(Explain(names, html, writable))
  <2> DEFINE grouped == Those(names, parse_filename_meta)
             ep == build_explain_parallel_report(names)
             page == IF writable /\ html THEN <<render_html_report(ep, <<>>, <<>>)>> ELSE <<>>
             c == [NoOutput EXCEPT !.used = names,
                    !.parallel = IF writable /\ grouped # <<>> THEN <<ep>> ELSE <<>>,
                    !.html = page]
  <2>1. Explain(names, html, writable) = IF names = <<>> THEN NoOutput ELSE IF ~AllLoad(grouped) THEN Exit(1) ELSE c
    BY DEF Explain
  <2>2. c.used = names /\ c.html = page
    <3> HIDE DEF page, ep, grouped
    <3> QED
      BY DEF NoOutput
  <2>3. AllLoad(grouped) => MetaLoad(names)
    BY <1>2, MetaLoads
  <2>4. AllLoad(grouped) => Paged(c)
    <3>1. page = <<>> \/ page = <<render_html_report(ep, <<>>, <<>>)>>
      OBVIOUS
    <3> HIDE DEF c, page, grouped
    <3> QED
      BY <1>2, <2>2, <2>3, <3>1 DEF Paged
  <2> HIDE DEF c, grouped
  <2> QED
    BY <1>1, <2>1, <2>4
<1>3. ASSUME NEW names, NEW html \in BOOLEAN, NEW writable \in BOOLEAN, IsList(names)
      PROVE  Paged(CompareEach(names, html, writable))
  <2>1. CASE Len(names) < 2 \/ ~AllLoad(names) \/ ~writable
    <3>1. CompareEach(names, html, writable) = Exit(1)
      BY <2>1, CompareEachIs
    <3> QED
      BY <1>1, <3>1
  <2>2. CASE ~(Len(names) < 2 \/ ~AllLoad(names) \/ ~writable)
    <3> DEFINE c == Compared(names, html)
               R == Results(names)
               reports == Neighbours(R, Len(names))
               page == IF html THEN <<render_html_report(build_explain_parallel_report(names), reports, R)>> ELSE <<>>
    <3>1. CompareEach(names, html, writable) = c
      BY <2>2, CompareEachIs
    <3>2. c.used = names /\ c.html = page
      BY DEF Compared, NoOutput
    <3>3. MetaLoad(names)
      BY <2>2 DEF MetaLoad, AllLoad, WithMeta
    <3>4. page = <<>> \/ page = <<render_html_report(build_explain_parallel_report(names), reports, R)>>
      OBVIOUS
    <3> HIDE DEF c, page, reports, R
    <3> QED
      BY <1>3, <3>1, <3>2, <3>3, <3>4 DEF Paged
  <2> QED
    BY <2>1, <2>2
<1>4. ASSUME NEW out, NEW md, Paged(out), DOMAIN out = DOMAIN NoOutput
      PROVE  Paged([out EXCEPT !.mode = md])
  <2> DEFINE c == [out EXCEPT !.mode = md]
  <2>1. c.used = out.used /\ c.html = out.html
    BY <1>4 DEF NoOutput
  <2> HIDE DEF c
  <2> QED
    BY <1>4, <2>1 DEF Paged, c
<1>5. \A names, html, writable : DOMAIN Explain(names, html, writable) = DOMAIN NoOutput
  BY DEF Explain, NoOutput, Exit
<1>6. ASSUME NEW names, NEW html \in BOOLEAN, NEW writable \in BOOLEAN
      PROVE  DOMAIN CompareEach(names, html, writable) = DOMAIN NoOutput
  <2>1. DOMAIN Compared(names, html) = DOMAIN NoOutput
    BY DEF Compared
  <2>2. DOMAIN Exit(1) = DOMAIN NoOutput
    BY DEF Exit
  <2> QED
    BY <2>1, <2>2, CompareEachIs
<1>7. \A rc : DOMAIN Exit(rc) = DOMAIN NoOutput
  BY DEF Exit, NoOutput
<1>8. ASSUME NEW mode, NEW batch, NEW html \in BOOLEAN, NEW given, NEW writable \in BOOLEAN,
             given = <<>> \/ IsList(given)
      PROVE  Paged(Output(mode, batch, html, given, writable))
  <2> DEFINE names == choose_all_files(DOMAIN files, batch)
             two == IF given = <<>> THEN newest(names) ELSE given
             out == IF (mode # "pair" /\ given # <<>>) \/ Len(given) = 1 THEN Exit(2)
                    ELSE IF mode = "explain" THEN Explain(names, html, writable)
                    ELSE IF mode = "all" THEN CompareEach(names, html, writable)
                    ELSE CompareEach(two, FALSE, writable)
             md == IF given = <<>> THEN mode ELSE "given"
  <2>1. Output(mode, batch, html, given, writable) = [out EXCEPT !.mode = md]
    BY DEF Output
  <2>2. IsList(names) /\ IsList(two)
    BY <1>8, ChosenAreList, NewestAreList DEF CompareInv
  <2> HIDE DEF names, two, md
  <2>3. Paged(out)
    <3>1. Paged(CompareEach(names, html, writable)) /\ Paged(CompareEach(two, FALSE, writable))
      BY <1>3, <2>2
    <3>2. Paged(Explain(names, html, writable))
      BY <1>2, <2>2
    <3> QED
      BY <1>1, <3>1, <3>2
  <2>4. DOMAIN out = DOMAIN NoOutput
    BY <1>5, <1>6, <1>7
  <2> HIDE DEF out
  <2> QED
    BY <1>4, <2>1, <2>3, <2>4
<1>9. CASE cmp = NoOutput
  BY <1>1, <1>9
<1>10. CASE \E mode \in {"explain", "all", "pair"}, batch \in Batches, writable \in BOOLEAN :
              cmp = Output(mode, batch, TRUE, <<>>, writable)
  <2>1. PICK mode \in {"explain", "all", "pair"}, batch \in Batches, writable \in BOOLEAN :
               cmp = Output(mode, batch, TRUE, <<>>, writable)
    BY <1>10
  <2> QED
    BY <1>8, <2>1
<1>11. CASE \E m, n \in DOMAIN files, mode \in {"all", "pair"} :
              cmp = Output(mode, NoBatch, FALSE, <<m, n>>, TRUE)
  <2>1. PICK m \in DOMAIN files, n \in DOMAIN files, mode \in {"all", "pair"} :
               cmp = Output(mode, NoBatch, FALSE, <<m, n>>, TRUE)
    BY <1>11
  <2>2. IsList(<<m, n>>)
    BY DEF IsList, Range
  <2> QED
    BY <1>8, <2>1, <2>2
<1> QED
  BY <1>9, <1>10, <1>11 DEF CompareInv, OutputInv

-----------------------------------------------------------------------------

\* The comparison takes the tag of a test case for what run_test meant by it,
\* and no result of a file of a group is lost or counted twice in the tab of the
\* group, whatever the reports hold and however the files are named.
THEOREM AllCounted == ToolsSpec => []CountedAsJudged
<1>1. CompareInv => CountedAsJudged
  <2> SUFFICES ASSUME CompareInv PROVE CountedAsJudged
    OBVIOUS
  <2>1. ASSUME NEW n \in DOMAIN files, Loads(files[n]), NEW l \in DOMAIN Loaded(n)
        PROVE  LET r == Loaded(n)[l] IN
               /\ r.status = "passed"  <=> r.rich_status \in Passing
               /\ r.status = "skipped" <=> r.rich_status = "skipped_unsupported"
               /\ r.status = "failure" <=> r.rich_status \notin Passing \cup NotRun
    <3>1. Written(files[n])
      BY DEF CompareInv, FilesInv
    <3>2. Loaded(n)[l] \in Judgements
      BY <2>1, <3>1, LoadedIs DEF Loaded
    <3> QED
      BY <3>2 DEF Judgements
  <2>2. ASSUME NEW h \in DOMAIN cmp.html, NEW par \in DOMAIN cmp.html[h].groups
        PROVE  LET tab == cmp.html[h].groups[par]
                   g == GroupFiles(cmp.used, par)
               IN  /\ tab.runs = Len(g)
                   /\ SecondOf(tab.classification) = CasesOf(g)
                   /\ tab.passed + tab.failures + tab.unsupported = CasesOf(g)
                   /\ Sum(tab.areas, DOMAIN tab.areas) = tab.failures
    <3> DEFINE us == cmp.used
               g == GroupFiles(us, par)
               R == Results(g)
               N == Len(g)
               tab == render_group_tab(build_parallel_group_report(R))
               sizes == [i \in 1..N |-> Cardinality(DOMAIN R[i])]
    <3>1. cmp.html # <<>>
      BY <2>2
    <3>2. IsList(us) /\ MetaLoad(us)
      BY <3>1, PageIs DEF Paged
    <3>3. PICK reports, results :
            cmp.html = <<render_html_report(build_explain_parallel_report(us), reports, results)>>
      BY <3>1, PageIs DEF Paged
    <3>4. cmp.html[h].groups[par] = tab
      <4> DEFINE ep == build_explain_parallel_report(us)
                 page == render_html_report(ep, reports, results)
      <4>1. cmp.html[h] = page
        <5> HIDE DEF page
        <5> QED
          BY <3>3 DEF page
      <4>2. page.groups = [p \in DOMAIN ep.groups |-> render_group_tab(ep.groups[p])]
        BY Zenon DEF render_html_report
      <4>3. ep.groups = [p \in Groups(us) |-> build_parallel_group_report(Results(GroupFiles(us, p)))]
        BY Zenon DEF build_explain_parallel_report, Results
      <4> HIDE DEF ep, page
      <4>4. par \in DOMAIN ep.groups /\ page.groups[par] = render_group_tab(ep.groups[par])
        BY <2>2, <4>1, <4>2
      <4>5. ep.groups[par] = build_parallel_group_report(R)
        BY <4>3, <4>4
      <4> QED
        BY <4>1, <4>4, <4>5
    <3> HIDE DEF us, g, N
    <3>5. g \in Seq(DOMAIN files) /\ AllLoad(g)
      BY <3>2, GroupLoads DEF g
    <3>6. N \in Nat /\ DOMAIN g = 1..N
      BY <3>5 DEF N
    <3>7. ResultList(R, N)
      BY <3>5, LoadedList DEF CompareInv, N
    <3>8. Len(R) = N
      <4>1. DOMAIN R = 1..N /\ R = [i \in 1..N |-> R[i]]
        BY <3>6 DEF Results
      <4> HIDE DEF R
      <4>2. R \in Seq({R[i] : i \in 1..N})
        BY <3>6, <4>1
      <4> QED
        BY <3>6, <4>1, <4>2
    <3>9. \A i \in 1..N : sizes[i] = Cardinality(DOMAIN R[i])
      OBVIOUS
    <3>10. \A i \in DOMAIN g : sizes[i] = Len(Keyed(files[g[i]]))
      <4> SUFFICES ASSUME NEW i \in 1..N PROVE Cardinality(DOMAIN R[i]) = Len(Keyed(files[g[i]]))
        BY <3>6, <3>9
      <4>1. g[i] \in DOMAIN files /\ Loads(files[g[i]]) /\ Written(files[g[i]])
        BY <3>5, <3>6 DEF AllLoad, CompareInv, FilesInv
      <4>2. R[i] = load_results(files[g[i]])
        BY <3>6 DEF Results, Loaded
      <4> QED
        BY <4>1, <4>2, LoadedIs
    <3> HIDE DEF sizes, R
    <3>11. CasesOf(g) = Sum(sizes, 1..N)
      <4>1. IsFiniteSet(DOMAIN g)
        BY <3>6, FS_Interval
      <4> QED
        BY <3>6, <3>10, <4>1, CasesSum
    <3>12. /\ tab.runs = Len(R)
           /\ SecondOf(tab.classification) = Sum(sizes, 1..N)
           /\ tab.passed + tab.failures + tab.unsupported = Sum(sizes, 1..N)
           /\ Sum(tab.areas, DOMAIN tab.areas) = tab.failures
      BY <3>7, <3>9, GroupAddsUp
    <3> HIDE DEF tab
    <3> QED
      BY <3>4, <3>8, <3>11, <3>12 DEF g, N, us
  <2>3. \A n \in DOMAIN files : Loads(files[n]) =>
          \A l \in DOMAIN Loaded(n) :
            LET r == Loaded(n)[l] IN
            /\ r.status = "passed"  <=> r.rich_status \in Passing
            /\ r.status = "skipped" <=> r.rich_status = "skipped_unsupported"
            /\ r.status = "failure" <=> r.rich_status \notin Passing \cup NotRun
    BY <2>1
  <2>4. \A h \in DOMAIN cmp.html : \A par \in DOMAIN cmp.html[h].groups :
          LET tab == cmp.html[h].groups[par]
              g == GroupFiles(cmp.used, par)
          IN  /\ tab.runs = Len(g)
              /\ SecondOf(tab.classification) = CasesOf(g)
              /\ tab.passed + tab.failures + tab.unsupported = CasesOf(g)
              /\ Sum(tab.areas, DOMAIN tab.areas) = tab.failures
    BY <2>2
  <2> QED
    BY <2>3, <2>4, Zenon DEF CountedAsJudged, SecondOf, CasesOf, Sum
<1> QED
  BY <1>1, CompareHolds, PTL

=============================================================================
