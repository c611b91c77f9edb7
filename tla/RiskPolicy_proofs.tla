-------------------------- MODULE RiskPolicy_proofs --------------------------
(***************************************************************************)
(* Proofs about RiskPolicy, for every list of signals.                     *)
(***************************************************************************)
EXTENDS RiskPolicy, FiniteSetTheorems, WellFoundedInduction, TLAPS

-----------------------------------------------------------------------------
(* Induction.  The induction theorems of the library take the formula to be  *)
(* proved as an operator; stated for the set of numbers it holds of, the     *)
(* principle follows from the existence of minimal elements.                 *)

\* A set of numbers that is not empty has a least element.
LEMMA LeastNatural ==
  ASSUME NEW T \in SUBSET Nat, T # {}
  PROVE  \E x \in T : \A y \in T : x <= y
<1> DEFINE R == OpToRel(<, Nat)
<1>1. \A x, y \in Nat : <<y, x>> \in R <=> y < x
  BY DEF OpToRel
<1> HIDE DEF R
<1>2. IsWellFoundedOn(R, Nat)
  BY NatLessThanWellFounded DEF R
<1>3. \E x \in T : \A y \in T : ~ (<<y, x>> \in R)
  BY <1>2, WFMin
<1>4. PICK x \in T : \A y \in T : ~ (<<y, x>> \in R)
  BY <1>3
<1>5. ASSUME NEW y \in T PROVE x <= y
  <2>1. x \in Nat /\ y \in Nat /\ ~ (y < x)
    BY <1>1, <1>4
  <2> QED BY <2>1
<1> QED BY <1>5

\* A set of numbers that holds 0 and the successors of its elements is Nat.
LEMMA Induction ==
  ASSUME NEW T \in SUBSET Nat, 0 \in T, \A n \in T : n + 1 \in T
  PROVE  T = Nat
<1> SUFFICES ASSUME Nat \ T # {} PROVE FALSE
  OBVIOUS
<1>1. PICK x \in Nat \ T : \A y \in Nat \ T : x <= y
  BY LeastNatural
<1>2. x # 0 /\ x - 1 \in Nat
  OBVIOUS
<1>3. x - 1 \in T
  BY <1>1, <1>2
<1>4. (x - 1) + 1 = x
  OBVIOUS
<1> QED BY <1>3, <1>4

-----------------------------------------------------------------------------
(* The sum of weights that Score takes: MapThenSumSet is a recursive function *)
(* on the subsets of its argument, which takes an arbitrary element away.     *)

Total(l, S) == MapThenSumSet(LAMBDA i : l[i].weight, S)

Some(s) == CHOOSE x \in s : TRUE

\* The body of the recursive function, and what it means for f to satisfy it
\* on the sets of D.
TotalStep(l, f, s) ==
  IF s = {} THEN 0 ELSE l[Some(s)].weight + f[s \ {Some(s)}]

IsTotal(l, f, D) == f = [s \in D |-> TotalStep(l, f, s)]

TotalOn(l, S) == CHOOSE f : IsTotal(l, f, SUBSET S)

\* Total is the value of that function.
LEMMA TotalUnfolds ==
  ASSUME NEW l, NEW S
  PROVE  Total(l, S) = TotalOn(l, S)[S]
BY DEF Total, TotalOn, IsTotal, TotalStep, Some, MapThenSumSet, MapThenFoldSet

\* Taking an element of a finite set away.
LEMMA OneLess ==
  ASSUME NEW s, IsFiniteSet(s), NEW x \in s
  PROVE  /\ IsFiniteSet(s \ {x})
         /\ Cardinality(s) \in Nat \ {0}
         /\ Cardinality(s \ {x}) = Cardinality(s) - 1
         /\ Cardinality(s \ {x}) \in Nat
BY FS_RemoveElement, FS_CardinalityType, FS_EmptySet

\* Some function satisfies the recursion: by induction on the size of the sets.
LEMMA TotalExists ==
  ASSUME NEW l, NEW S, IsFiniteSet(S)
  PROVE  IsTotal(l, TotalOn(l, S), SUBSET S)
<1> DEFINE Small(n) == {s \in SUBSET S : Cardinality(s) <= n}
           T == {n \in Nat : \E f : IsTotal(l, f, Small(n))}
<1>1. \A s \in SUBSET S : IsFiniteSet(s) /\ Cardinality(s) \in Nat
  BY FS_Subset, FS_CardinalityType
<1>2. \A s \in SUBSET S : s # {} => Some(s) \in s
  BY DEF Some
<1>3. 0 \in T
  <2>1. \A s \in Small(0) : s = {}
    BY <1>1, FS_EmptySet
  <2>2. IsTotal(l, [s \in Small(0) |-> 0], Small(0))
    BY <2>1 DEF IsTotal, TotalStep
  <2> QED BY <2>2
<1>4. ASSUME NEW n \in T PROVE n + 1 \in T
  <2>1. PICK f : IsTotal(l, f, Small(n))
    OBVIOUS
  <2> DEFINE g == [s \in Small(n + 1) |-> TotalStep(l, f, s)]
  <2>2. \A s \in Small(n) : s \in Small(n + 1) /\ g[s] = f[s]
    BY <1>1, <2>1 DEF IsTotal
  <2>3. ASSUME NEW s \in Small(n + 1) PROVE TotalStep(l, f, s) = TotalStep(l, g, s)
    <3>1. CASE s = {}
      BY <3>1 DEF TotalStep
    <3>2. CASE s # {}
      <4>1. s \ {Some(s)} \in Small(n)
        BY <1>1, <1>2, <3>2, OneLess
      <4> QED BY <2>2, <3>2, <4>1 DEF TotalStep
    <3> QED BY <3>1, <3>2
  <2>4. IsTotal(l, g, Small(n + 1))
    BY <2>3 DEF IsTotal
  <2>5. \E h : IsTotal(l, h, Small(n + 1))
    <3> HIDE DEF g, Small, T
    <3> QED BY <2>4, Zenon
  <2>6. n + 1 \in Nat
    OBVIOUS
  <2> HIDE DEF Small
  <2> QED BY <2>5, <2>6, Zenon
<1>5. Cardinality(S) \in T
  <2> HIDE DEF T
  <2> SUFFICES T = Nat
    BY FS_CardinalityType
  <2>1. T \in SUBSET Nat
    BY DEF T
  <2> QED BY <1>3, <1>4, <2>1, Induction
<1>6. Small(Cardinality(S)) = SUBSET S
  BY FS_Subset
<1>7. \E f : IsTotal(l, f, SUBSET S)
  BY <1>5, <1>6
<1> QED BY <1>7 DEF TotalOn

\* The function for a set and that for a larger one agree.
LEMMA TotalAgree ==
  ASSUME NEW l, NEW S, IsFiniteSet(S), NEW R \in SUBSET S
  PROVE  \A s \in SUBSET R : TotalOn(l, R)[s] = TotalOn(l, S)[s]
<1> DEFINE f == TotalOn(l, R)
           g == TotalOn(l, S)
           T == {n \in Nat : \A s \in SUBSET R : Cardinality(s) = n => f[s] = g[s]}
<1>1. /\ IsFiniteSet(R)
      /\ \A s \in SUBSET R : IsFiniteSet(s) /\ Cardinality(s) \in Nat
  BY FS_Subset, FS_CardinalityType
<1>2. \A s \in SUBSET R : s # {} => Some(s) \in s
  BY DEF Some
<1>3. \A s \in SUBSET R : f[s] = TotalStep(l, f, s) /\ g[s] = TotalStep(l, g, s)
  <2>1. IsTotal(l, f, SUBSET R) /\ IsTotal(l, g, SUBSET S)
    BY <1>1, TotalExists
  <2> HIDE DEF f, g
  <2> QED BY <2>1 DEF IsTotal
<1> HIDE DEF f, g
<1>4. 0 \in T
  BY <1>1, <1>3, FS_EmptySet DEF TotalStep
<1>5. ASSUME NEW n \in T PROVE n + 1 \in T
  <2> SUFFICES ASSUME NEW s \in SUBSET R, Cardinality(s) = n + 1
               PROVE  f[s] = g[s]
    OBVIOUS
  <2>1. s # {}
    <3>1. Cardinality(s) # 0
      OBVIOUS
    <3> QED BY <3>1, FS_EmptySet
  <2>2. s \ {Some(s)} \in SUBSET R /\ Cardinality(s \ {Some(s)}) = n
    BY <1>1, <1>2, <2>1, OneLess
  <2>3. f[s \ {Some(s)}] = g[s \ {Some(s)}]
    BY <2>2
  <2> QED BY <1>3, <2>3 DEF TotalStep
<1>6. T = Nat
  <2>1. T \in SUBSET Nat
    OBVIOUS
  <2> HIDE DEF T
  <2> QED BY <1>4, <1>5, <2>1, Induction
<1>7. QED BY <1>1, <1>6 DEF f, g

\* Total takes away the element that CHOOSE finds.
LEMMA TotalRecursion ==
  ASSUME NEW l, NEW S, IsFiniteSet(S)
  PROVE  /\ Total(l, {}) = 0
         /\ S # {} => /\ Some(S) \in S
                      /\ Total(l, S) = l[Some(S)].weight + Total(l, S \ {Some(S)})
<1>1. Total(l, {}) = 0
  <2>1. IsTotal(l, TotalOn(l, {}), SUBSET {})
    BY FS_EmptySet, TotalExists
  <2>2. TotalOn(l, {})[{}] = TotalStep(l, TotalOn(l, {}), {})
    BY <2>1 DEF IsTotal
  <2> QED BY <2>2, TotalUnfolds DEF TotalStep
<1>2. ASSUME S # {} PROVE Total(l, S) = l[Some(S)].weight + Total(l, S \ {Some(S)})
  <2> DEFINE r == S \ {Some(S)}
  <2>1. IsTotal(l, TotalOn(l, S), SUBSET S)
    BY TotalExists
  <2>2. TotalOn(l, S)[S] = TotalStep(l, TotalOn(l, S), S)
    BY <2>1 DEF IsTotal
  <2>3. TotalOn(l, r)[r] = TotalOn(l, S)[r]
    BY TotalAgree
  <2> QED BY <1>2, <2>2, <2>3, TotalUnfolds DEF TotalStep
<1> QED BY <1>1, <1>2 DEF Some

\* The weights are natural numbers, so the sum is.
LEMMA TotalType ==
  ASSUME NEW l, NEW S, IsFiniteSet(S), \A i \in S : l[i].weight \in Nat
  PROVE  Total(l, S) \in Nat
<1> DEFINE T == {n \in Nat : \A s \in SUBSET S : Cardinality(s) = n => Total(l, s) \in Nat}
<1>1. \A s \in SUBSET S : IsFiniteSet(s) /\ Cardinality(s) \in Nat
  BY FS_Subset, FS_CardinalityType
<1>2. 0 \in T
  BY <1>1, FS_EmptySet, TotalRecursion
<1>3. ASSUME NEW n \in T PROVE n + 1 \in T
  <2> SUFFICES ASSUME NEW s \in SUBSET S, Cardinality(s) = n + 1
               PROVE  Total(l, s) \in Nat
    OBVIOUS
  <2>1. s # {}
    <3>1. Cardinality(s) # 0
      OBVIOUS
    <3> QED BY <3>1, FS_EmptySet
  <2>2. Some(s) \in s /\ Total(l, s) = l[Some(s)].weight + Total(l, s \ {Some(s)})
    BY <1>1, <2>1, TotalRecursion
  <2>3. s \ {Some(s)} \in SUBSET S /\ Cardinality(s \ {Some(s)}) = n
    BY <1>1, <2>2, OneLess
  <2>4. Total(l, s \ {Some(s)}) \in Nat
    BY <2>3
  <2> QED BY <2>2, <2>4
<1>4. T = Nat
  <2>1. T \in SUBSET Nat
    OBVIOUS
  <2> HIDE DEF T
  <2> QED BY <1>2, <1>3, <2>1, Induction
<1> QED BY <1>1, <1>4

\* The order in which the elements are taken away does not matter.
LEMMA TotalRemove ==
  ASSUME NEW l, NEW S, IsFiniteSet(S), \A i \in S : l[i].weight \in Nat
  PROVE  \A x \in S : Total(l, S) = l[x].weight + Total(l, S \ {x})
<1> DEFINE T == {n \in Nat : \A s \in SUBSET S : Cardinality(s) = n =>
                    \A x \in s : Total(l, s) = l[x].weight + Total(l, s \ {x})}
<1>1. \A s \in SUBSET S : IsFiniteSet(s) /\ Cardinality(s) \in Nat
  BY FS_Subset, FS_CardinalityType
<1>2. 0 \in T
  BY <1>1, FS_EmptySet
<1>3. ASSUME NEW n \in T PROVE n + 1 \in T
  <2> SUFFICES ASSUME NEW s \in SUBSET S, Cardinality(s) = n + 1, NEW x \in s
               PROVE  Total(l, s) = l[x].weight + Total(l, s \ {x})
    OBVIOUS
  <2> DEFINE p == Some(s)
  <2>1. p \in s /\ Total(l, s) = l[p].weight + Total(l, s \ {p})
    BY <1>1, TotalRecursion
  <2>2. CASE x = p
    BY <2>1, <2>2
  <2>3. CASE x # p
    <3> HIDE DEF p
    <3>1. /\ s \ {p} \in SUBSET S /\ Cardinality(s \ {p}) = n /\ x \in s \ {p}
          /\ s \ {x} \in SUBSET S /\ Cardinality(s \ {x}) = n /\ p \in s \ {x}
      BY <1>1, <2>1, <2>3, OneLess
    <3>2. Total(l, s \ {p}) = l[x].weight + Total(l, (s \ {p}) \ {x})
      BY <3>1
    <3>3. Total(l, s \ {x}) = l[p].weight + Total(l, (s \ {x}) \ {p})
      BY <3>1
    <3>4. (s \ {p}) \ {x} = (s \ {x}) \ {p}
      OBVIOUS
    <3>5. Total(l, (s \ {p}) \ {x}) \in Nat /\ l[p].weight \in Nat /\ l[x].weight \in Nat
      <4> (s \ {p}) \ {x} \in SUBSET S
        OBVIOUS
      <4> HIDE DEF T
      <4> QED BY <1>1, <2>1, TotalType
    <3> PICK rest \in Nat : rest = Total(l, (s \ {p}) \ {x})
      BY <3>5
    <3>6. Total(l, s) = l[p].weight + (l[x].weight + rest)
      BY <2>1, <3>2
    <3>7. Total(l, s \ {x}) = l[p].weight + rest
      BY <3>3, <3>4
    <3> HIDE DEF T
    <3> QED BY <3>5, <3>6, <3>7
  <2> QED BY <2>2, <2>3
<1>4. T = Nat
  <2>1. T \in SUBSET Nat
    OBVIOUS
  <2> HIDE DEF T
  <2> QED BY <1>2, <1>3, <2>1, Induction
<1> QED BY <1>1, <1>4

\* A sum whose terms are found, no smaller, among those of another is no larger.
LEMMA TotalInjection ==
  ASSUME NEW l, NEW m, NEW S, NEW R, IsFiniteSet(S), IsFiniteSet(R),
         \A i \in S : l[i].weight \in Nat,
         \A j \in R : m[j].weight \in Nat,
         NEW f \in [S -> R],
         \A i, j \in S : f[i] = f[j] => i = j,
         \A i \in S : l[i].weight <= m[f[i]].weight
  PROVE  Total(l, S) <= Total(m, R)
<1> DEFINE T == {n \in Nat : \A s \in SUBSET S : Cardinality(s) = n =>
                    \A r \in SUBSET R : (\A i \in s : f[i] \in r) =>
                       Total(l, s) <= Total(m, r)}
<1>1. \A s \in SUBSET S : IsFiniteSet(s) /\ Cardinality(s) \in Nat
  BY FS_Subset, FS_CardinalityType
<1>2. 0 \in T
  <2> SUFFICES ASSUME NEW s \in SUBSET S, Cardinality(s) = 0, NEW r \in SUBSET R
               PROVE  Total(l, s) <= Total(m, r)
    OBVIOUS
  <2>1. s = {}
    BY <1>1, FS_EmptySet
  <2>2. IsFiniteSet(r) /\ \A j \in r : m[j].weight \in Nat
    BY FS_Subset
  <2>3. Total(m, r) \in Nat
    BY <2>2, TotalType
  <2>4. Total(l, s) = 0
    BY <2>1, FS_EmptySet, TotalRecursion
  <2> HIDE DEF T
  <2> QED BY <2>3, <2>4
<1>3. ASSUME NEW n \in T PROVE n + 1 \in T
  <2> SUFFICES ASSUME NEW s \in SUBSET S, Cardinality(s) = n + 1,
                      NEW r \in SUBSET R, \A i \in s : f[i] \in r
               PROVE  Total(l, s) <= Total(m, r)
    OBVIOUS
  <2>a. n \in Nat /\ Cardinality(s) # 0
    OBVIOUS
  <2>b. \A u \in SUBSET S : Cardinality(u) = n =>
          \A v \in SUBSET R : (\A i \in u : f[i] \in v) => Total(l, u) <= Total(m, v)
    OBVIOUS
  <2> HIDE DEF T
  <2>c. /\ IsFiniteSet(s) /\ \A i \in s : l[i].weight \in Nat
        /\ IsFiniteSet(r) /\ \A j \in r : m[j].weight \in Nat
    BY FS_Subset
  <2>1. PICK x \in s : TRUE
    BY <2>a, FS_EmptySet
  <2> PICK y \in r : y = f[x]
    BY <2>1
  <2>2. Total(l, s) = l[x].weight + Total(l, s \ {x})
    BY <2>c, TotalRemove
  <2>3. Total(m, r) = m[y].weight + Total(m, r \ {y})
    BY <2>c, TotalRemove
  <2>4. /\ s \ {x} \in SUBSET S /\ Cardinality(s \ {x}) = n
        /\ IsFiniteSet(s \ {x}) /\ IsFiniteSet(r \ {y})
    <3>1. /\ IsFiniteSet(s \ {x}) /\ Cardinality(s \ {x}) = Cardinality(s) - 1
          /\ IsFiniteSet(r \ {y})
      BY <2>c, OneLess
    <3> QED BY <2>a, <3>1
  <2>5. r \ {y} \in SUBSET R /\ \A i \in s \ {x} : f[i] \in r \ {y}
    <3>1. \A i \in s \ {x} : f[i] # y
      OBVIOUS
    <3> QED BY <3>1
  <2>6. Total(l, s \ {x}) <= Total(m, r \ {y})
    BY <2>b, <2>4, <2>5
  <2>7. Total(l, s \ {x}) \in Nat /\ Total(m, r \ {y}) \in Nat
    BY <2>c, <2>4, TotalType
  <2>8. l[x].weight \in Nat /\ m[y].weight \in Nat /\ l[x].weight <= m[y].weight
    BY <2>c
  <2>9. \A a, b, c, d \in Nat : a <= b /\ c <= d => a + c <= b + d
    OBVIOUS
  <2> QED BY <2>2, <2>3, <2>6, <2>7, <2>8, <2>9
<1>4. T = Nat
  <2>1. T \in SUBSET Nat
    OBVIOUS
  <2> HIDE DEF T
  <2> QED BY <1>2, <1>3, <2>1, Induction
<1>5. Cardinality(S) \in T /\ S \in SUBSET S /\ R \in SUBSET R
  BY <1>1, <1>4
<1> QED BY <1>5

-----------------------------------------------------------------------------
(* Lists of signals.                                                       *)

\* A code stands for one signal: severity and weight come with it.
LEMMA CodeDetermines ==
  /\ \A s \in AllSignals : s.weight \in Nat /\ s.severity \in 0..3
  /\ \A s, t \in AllSignals : s.code = t.code => s = t
<1>1. \A s \in AllSignals : s.weight \in Nat /\ s.severity \in 0..3
  BY DEF AllSignals, CaseSignals, ProviderSignals, Signal
<1>2. \A s, t \in AllSignals : s.code = t.code => s = t
  BY DEF AllSignals, CaseSignals, ProviderSignals, Signal
<1> QED BY <1>1, <1>2

Codes(l) == {s.code : s \in ToSet(l)}

\* The entries of a list are signals, and they are finitely many.
LEMMA Entries ==
  ASSUME NEW l \in Seq(AllSignals)
  PROVE  /\ DOMAIN l = 1 .. Len(l) /\ Len(l) \in Nat
         /\ DOMAIN l \in SUBSET Nat /\ IsFiniteSet(DOMAIN l)
         /\ \A i \in DOMAIN l : l[i] \in AllSignals
         /\ ToSet(l) = {l[i] : i \in DOMAIN l}
         /\ ToSet(l) \in SUBSET AllSignals
         /\ ByCode(l) \in SUBSET DOMAIN l /\ IsFiniteSet(ByCode(l))
<1>1. DOMAIN l = 1 .. Len(l) /\ Len(l) \in Nat
  OBVIOUS
<1>2. \A i \in DOMAIN l : l[i] \in AllSignals
  OBVIOUS
<1>3. IsFiniteSet(DOMAIN l)
  BY <1>1, FS_Interval
<1>4. ByCode(l) \in SUBSET DOMAIN l
  BY DEF ByCode
<1>5. IsFiniteSet(ByCode(l))
  BY <1>3, <1>4, FS_Subset
<1>6. ToSet(l) = {l[i] : i \in DOMAIN l}
  BY DEF ToSet
<1> QED BY <1>1, <1>2, <1>3, <1>4, <1>5, <1>6

\* Of every code in the list exactly one entry counts.
LEMMA OneCounts ==
  ASSUME NEW l \in Seq(AllSignals)
  PROVE  /\ \A i, j \in ByCode(l) : l[i].code = l[j].code => i = j
         /\ \A s \in ToSet(l) : \E i \in ByCode(l) : l[i] = s
<1>1. ASSUME NEW i \in ByCode(l), NEW j \in ByCode(l), l[i].code = l[j].code
      PROVE  i = j
  <2>1. i \in Nat /\ j \in Nat /\ l[i] = l[j]
    BY <1>1, Entries, CodeDetermines
  <2>2. l[i].weight \in Nat
    BY Entries, CodeDetermines
  <2>3. i <= j /\ j <= i
    BY <1>1, <2>1, <2>2, Entries DEF ByCode
  <2> QED BY <2>1, <2>3
<1>2. ASSUME NEW s \in ToSet(l) PROVE \E i \in ByCode(l) : l[i] = s
  <2> DEFINE T == {i \in DOMAIN l : l[i] = s}
  <2>1. T \in SUBSET Nat /\ T # {}
    BY Entries
  <2>2. PICK i \in T : \A j \in T : i <= j
    BY <2>1, LeastNatural
  <2>3. ASSUME NEW j \in DOMAIN l, l[j].code = l[i].code
        PROVE  l[j].weight = l[i].weight /\ i <= j
    <3>1. l[j] = l[i]
      BY <2>3, Entries, CodeDetermines
    <3> QED BY <2>2, <3>1
  <2>4. i \in ByCode(l)
    BY <2>3 DEF ByCode
  <2> QED BY <2>4
<1> QED BY <1>1, <1>2

\* The sum of the entries that count is a natural number, and does not shrink
\* when signals are added.
LEMMA SumGrows ==
  ASSUME NEW l \in Seq(AllSignals), NEW m \in Seq(AllSignals), ToSet(l) \subseteq ToSet(m)
  PROVE  /\ Total(l, ByCode(l)) \in Nat
         /\ Total(m, ByCode(m)) \in Nat
         /\ Total(l, ByCode(l)) <= Total(m, ByCode(m))
<1>1. /\ IsFiniteSet(ByCode(l)) /\ \A i \in ByCode(l) : l[i].weight \in Nat
      /\ IsFiniteSet(ByCode(m)) /\ \A i \in ByCode(m) : m[i].weight \in Nat
  BY Entries, CodeDetermines
<1> DEFINE f == [i \in ByCode(l) |-> CHOOSE j \in ByCode(m) : m[j] = l[i]]
<1>2. ASSUME NEW i \in ByCode(l) PROVE f[i] \in ByCode(m) /\ m[f[i]] = l[i]
  <2>1. l[i] \in ToSet(m)
    BY Entries
  <2> QED BY <2>1, OneCounts
<1>3. f \in [ByCode(l) -> ByCode(m)]
  BY <1>2
<1> HIDE DEF f
<1>4. \A i, j \in ByCode(l) : f[i] = f[j] => i = j
  BY <1>2, OneCounts
<1>5. \A i \in ByCode(l) : l[i].weight <= m[f[i]].weight
  BY <1>1, <1>2
<1>6. Total(l, ByCode(l)) <= Total(m, ByCode(m))
  BY <1>1, <1>3, <1>4, <1>5, TotalInjection
<1> QED BY <1>1, <1>6, TotalType

\* The score is the sum, capped.
LEMMA ScoreCapped ==
  ASSUME NEW l \in Seq(AllSignals)
  PROVE  Score(l) = IF Total(l, ByCode(l)) <= 100 THEN Total(l, ByCode(l)) ELSE 100
<1> DEFINE sum == Total(l, ByCode(l))
<1>1. sum \in Nat
  BY SumGrows
<1>2. Score(l) = Min({100, sum})
  BY DEF Score, Total
<1> HIDE DEF sum
<1>3. Min({100, sum}) = IF sum <= 100 THEN sum ELSE 100
  BY <1>1 DEF Min
<1> QED BY <1>2, <1>3 DEF sum

\* The largest of some severities is one of them.
LEMMA MaxOfSeverities ==
  ASSUME NEW S \in SUBSET (0..3), S # {}
  PROVE  Max(S) \in S /\ \A y \in S : Max(S) >= y
<1>1. \E x \in S : \A y \in S : x >= y
  <2>1. CASE 3 \in S
    BY <2>1
  <2>2. CASE 3 \notin S /\ 2 \in S
    BY <2>2
  <2>3. CASE 3 \notin S /\ 2 \notin S /\ 1 \in S
    BY <2>3
  <2>4. CASE 3 \notin S /\ 2 \notin S /\ 1 \notin S
    <3>1. \A y \in S : y \in {0, 1, 2, 3}
      OBVIOUS
    <3>2. \A y \in S : y = 0
      BY <2>4, <3>1
    <3>3. S = {0}
      BY <3>2
    <3> QED BY <3>3
  <2> QED BY <2>1, <2>2, <2>3, <2>4
<1> QED BY <1>1 DEF Max

\* The cases of the severity scale exclude each other.
LEMMA SeverityScale ==
  ASSUME NEW a \in 0..100
  PROVE  /\ SeverityFromScore(a) = IF a >= 90 THEN 3 ELSE IF a >= 70 THEN 2
                                   ELSE IF a >= 40 THEN 1 ELSE 0
         /\ a >= 70 => SeverityFromScore(a) = 2 \/ SeverityFromScore(a) = 3
         /\ a >= 40 /\ ~(a >= 70) => SeverityFromScore(a) = 1
         /\ ~(a >= 40) => SeverityFromScore(a) = 0
<1>1. CASE a >= 90
  BY <1>1 DEF SeverityFromScore
<1>2. CASE a >= 70 /\ ~(a >= 90)
  BY <1>2 DEF SeverityFromScore
<1>3. CASE a >= 40 /\ ~(a >= 70)
  BY <1>3 DEF SeverityFromScore
<1>4. CASE ~(a >= 40)
  BY <1>4 DEF SeverityFromScore
<1> QED BY <1>1, <1>2, <1>3, <1>4

\* A higher score is never of a lower severity.
LEMMA SeverityGrows ==
  \A a, b \in 0..100 : a <= b =>
    /\ SeverityFromScore(a) \in 0..3 /\ SeverityFromScore(b) \in 0..3
    /\ SeverityFromScore(a) <= SeverityFromScore(b)
BY SeverityScale

\* The decisions from the mildest to the strongest.
LEMMA StrengthOrder ==
  /\ \A v \in {"approved", "manual_review", "rejected"} :
       /\ Strength("approved") <= Strength(v)
       /\ Strength(v) <= Strength("rejected")
  /\ Strength("manual_review") <= Strength("manual_review")
BY DEF Strength

LEMMA Antisymmetric ==
  \A a, b : a \in 0..100 /\ b \in 0..100 /\ a <= b /\ b <= a => a = b
OBVIOUS

\* What a list of signals decides is never milder than what some of them do,
\* in any order and with any repetition: the score, the severity and, when no
\* dependency is missing, the decision.
THEOREM SignalsHarden ==
  ASSUME NEW l \in Seq(AllSignals), NEW m \in Seq(AllSignals), ToSet(l) \subseteq ToSet(m)
  PROVE  /\ Score(l) \in 0..100 /\ Score(m) \in 0..100
         /\ Score(l) <= Score(m)
         /\ Severity(l) \in 0..3 /\ Severity(m) \in 0..3
         /\ Severity(l) <= Severity(m)
         /\ Strength(Decision(l, FALSE)) <= Strength(Decision(m, FALSE))
<1>1. Score(l) \in 0..100 /\ Score(m) \in 0..100 /\ Score(l) <= Score(m)
  <2>1. /\ Total(l, ByCode(l)) \in Nat /\ Total(m, ByCode(m)) \in Nat
        /\ Total(l, ByCode(l)) <= Total(m, ByCode(m))
    BY SumGrows
  <2>2. PICK a \in Nat : a = Total(l, ByCode(l))
    BY <2>1
  <2>3. PICK b \in Nat : b = Total(m, ByCode(m))
    BY <2>1
  <2>4. /\ Score(l) = IF a <= 100 THEN a ELSE 100
        /\ Score(m) = IF b <= 100 THEN b ELSE 100
    BY <2>2, <2>3, ScoreCapped
  <2>5. a <= b
    BY <2>1, <2>2, <2>3
  <2> QED BY <2>4, <2>5
<1> DEFINE Severities(n) == {SeverityFromScore(Score(n))} \cup {n[i].severity : i \in ByCode(n)}
<1>a. /\ \A i \in ByCode(l) : l[i].severity \in 0..3
      /\ \A i \in ByCode(m) : m[i].severity \in 0..3
  BY Entries, CodeDetermines
<1>3. Severities(l) \in SUBSET (0..3) /\ Severities(m) \in SUBSET (0..3)
  <2>1. SeverityFromScore(Score(l)) \in 0..3 /\ SeverityFromScore(Score(m)) \in 0..3
    BY <1>1, SeverityGrows
  <2> QED BY <1>a, <2>1
<1>4. \A x \in Severities(l) : \E y \in Severities(m) : x <= y
  <2>1. SeverityFromScore(Score(l)) <= SeverityFromScore(Score(m))
    BY <1>1, SeverityGrows
  <2>2. ASSUME NEW i \in ByCode(l)
        PROVE  \E j \in ByCode(m) : l[i].severity = m[j].severity
    <3>1. l[i] \in ToSet(m)
      BY Entries
    <3> QED BY <3>1, OneCounts
  <2> SUFFICES ASSUME NEW x \in Severities(l) PROVE \E y \in Severities(m) : x <= y
    OBVIOUS
  <2>3. CASE x = SeverityFromScore(Score(l))
    <3>1. SeverityFromScore(Score(m)) \in Severities(m)
      OBVIOUS
    <3> HIDE DEF Severities
    <3> QED BY <2>1, <2>3, <3>1
  <2>4. ASSUME NEW i \in ByCode(l), x = l[i].severity
        PROVE  \E y \in Severities(m) : x <= y
    <3>1. PICK j \in ByCode(m) : x = m[j].severity
      BY <2>2, <2>4
    <3>2. x \in Severities(m)
      BY <3>1
    <3>3. x \in 0..3
      BY <1>a, <2>4
    <3> HIDE DEF Severities
    <3> QED BY <3>2, <3>3
  <2> QED BY <2>3, <2>4
<1>5. /\ Severity(l) = Max(Severities(l)) /\ Severity(m) = Max(Severities(m))
      /\ Severities(l) # {} /\ Severities(m) # {}
  BY DEF Severity
<1> HIDE DEF Severities
<1>6. Severity(l) \in 0..3 /\ Severity(m) \in 0..3 /\ Severity(l) <= Severity(m)
  <2>1. Severity(l) \in Severities(l) /\ Severity(m) \in Severities(m)
    BY <1>3, <1>5, MaxOfSeverities
  <2>2. \A y \in Severities(m) : Severity(m) >= y
    BY <1>3, <1>5, MaxOfSeverities
  <2>3. PICK y \in Severities(m) : Severity(l) <= y
    BY <1>4, <2>1
  <2>4. Severity(m) >= y /\ y \in 0..3 /\ Severity(l) \in 0..3 /\ Severity(m) \in 0..3
    BY <1>3, <2>1, <2>2
  <2> QED BY <2>3, <2>4
<1>7. Strength(Decision(l, FALSE)) <= Strength(Decision(m, FALSE))
  <2>1. Codes(l) \subseteq Codes(m)
    BY DEF Codes
  <2>2. \A n \in {l, m} :
          Decision(n, FALSE) =
            IF Codes(n) \cap hard_reject_codes # {} \/ Score(n) >= reject_at
            THEN "rejected"
            ELSE IF Codes(n) \cap hard_review_codes # {} \/ Score(n) >= approve_below
            THEN "manual_review" ELSE "approved"
    BY DEF Decision, Codes
  <2>4. PICK a, b \in 0..100 : a = Score(l) /\ b = Score(m) /\ a <= b
    BY <1>1
  <2>5. /\ a >= reject_at => b >= reject_at
        /\ a >= approve_below => b >= approve_below
    BY <2>4 DEF reject_at, approve_below
  <2>6. CASE Codes(l) \cap hard_reject_codes # {} \/ a >= reject_at
    <3>1. Decision(m, FALSE) = "rejected"
      BY <2>1, <2>2, <2>4, <2>5, <2>6
    <3>2. Decision(l, FALSE) \in {"approved", "manual_review", "rejected"}
      BY <2>2
    <3> QED BY <3>1, <3>2, StrengthOrder, Zenon
  <2>7. CASE /\ ~ (Codes(l) \cap hard_reject_codes # {} \/ a >= reject_at)
             /\ Codes(l) \cap hard_review_codes # {} \/ a >= approve_below
    <3>1. Decision(m, FALSE) \in {"rejected", "manual_review"}
      BY <2>1, <2>2, <2>4, <2>5, <2>7
    <3>2. Decision(l, FALSE) = "manual_review"
      BY <2>2, <2>4, <2>7
    <3> QED BY <3>1, <3>2, StrengthOrder, Zenon
  <2>8. CASE /\ ~ (Codes(l) \cap hard_reject_codes # {} \/ a >= reject_at)
             /\ ~ (Codes(l) \cap hard_review_codes # {} \/ a >= approve_below)
    <3>1. Decision(l, FALSE) = "approved"
      BY <2>2, <2>4, <2>8
    <3>2. Decision(m, FALSE) \in {"rejected", "manual_review", "approved"}
      BY <2>2
    <3> QED BY <3>1, <3>2, StrengthOrder, Zenon
  <2> QED BY <2>6, <2>7, <2>8
<1> QED BY <1>1, <1>6, <1>7

\* The result is a function of the set of signals on record.
THEOREM SignalsDecide ==
  ASSUME NEW l \in Seq(AllSignals), NEW m \in Seq(AllSignals), ToSet(l) = ToSet(m),
         NEW blocked \in BOOLEAN
  PROVE  decide(l, blocked) = decide(m, blocked)
<1>1. Score(l) = Score(m) /\ Severity(l) = Severity(m)
  <2>1. /\ Score(l) \in 0..100 /\ Score(m) \in 0..100
        /\ Severity(l) \in 0..3 /\ Severity(m) \in 0..3
        /\ Score(l) <= Score(m) /\ Severity(l) <= Severity(m)
    BY SignalsHarden
  <2>2. Score(m) <= Score(l) /\ Severity(m) <= Severity(l)
    BY SignalsHarden
  <2>3. \A n \in 0..3 : n \in 0..100
    OBVIOUS
  <2> QED BY <2>1, <2>2, <2>3, Antisymmetric, Zenon
<1>2. Decision(l, blocked) = Decision(m, blocked)
  BY <1>1 DEF Decision
<1>3. ASSUME NEW n \in {l, m} PROVE {n[i] : i \in ByCode(n)} = ToSet(n)
  BY Entries, OneCounts
<1>4. ReasonCodes(l) = ReasonCodes(m)
  <2>1. {l[i] : i \in ByCode(l)} = {m[i] : i \in ByCode(m)}
    BY <1>3
  <2> QED BY <2>1 DEF ReasonCodes
<1> QED BY <1>1, <1>2, <1>4 DEF decide

\* The sequence that CHOOSE makes of a finite set of signals has its elements.
LEMMA ListOfSet ==
  ASSUME NEW S \in SUBSET AllSignals, IsFiniteSet(S)
  PROVE  SetToSeq(S) \in Seq(AllSignals) /\ ToSet(SetToSeq(S)) = S
<1> DEFINE n == Cardinality(S)
<1>1. n \in Nat /\ \E f \in [1..n -> S] : IsInjective(f)
  <2>1. n \in Nat /\ ExistsBijection(1..n, S)
    BY FS_CardinalityType
  <2> QED BY <2>1 DEF ExistsBijection, Bijection, Injection, IsInjective
<1> PICK f : f = SetToSeq(S)
  OBVIOUS
<1>2. f \in [1..n -> S] /\ IsInjective(f)
  BY <1>1 DEF SetToSeq
<1>3. IsFiniteSet(1..n) /\ Cardinality(1..n) = n
  BY <1>1, FS_Interval
<1>4. f \in Surjection(1..n, S)
  <2>1. f \in Injection(1..n, S)
    BY <1>2 DEF Injection, IsInjective
  <2> QED BY <1>3, <2>1, FS_Injection
<1>5. S = {f[i] : i \in DOMAIN f}
  BY <1>2, <1>4 DEF Surjection
<1>6. f \in Seq(AllSignals)
  BY <1>1, <1>2
<1> QED BY <1>5, <1>6 DEF ToSet

\* A list records finitely many signals.
LEMMA FiniteRecord ==
  ASSUME NEW l \in Seq(AllSignals)
  PROVE  IsFiniteSet(ToSet(l))
<1>1. l \in Surjection(DOMAIN l, ToSet(l))
  BY Entries DEF Surjection
<1> QED BY <1>1, Entries, FS_Surjection

-----------------------------------------------------------------------------
(* The specification that grows a list.                                    *)

ListOK == signals \in Seq(AllSignals)

\* The list holds signals only.
LEMMA ListType == Spec => []ListOK
<1>1. Init => ListOK
  BY DEF Init, ListOK
<1>2. ListOK /\ [Next]_signals => ListOK'
  BY DEF Next, AddSignal, ListOK
<1> QED BY <1>1, <1>2, PTL DEF Spec

\* What is decided is a function of the set of codes on record, for lists of any
\* length, in any order and with any repetition.
THEOREM CodesDecide == Spec => []DependsOnCodes
<1>1. ListOK => DependsOnCodes
  BY Entries, FiniteRecord, ListOfSet, SignalsDecide DEF ListOK, DependsOnCodes
<1> QED BY <1>1, ListType, PTL

\* A signal that is added never makes the result milder, whatever is on record.
THEOREM AddedSignalsHarden == Spec => MoreSignalsHarden
<1>1. /\ ListOK
      /\ [Next]_signals
      => [/\ Strength(Decision(signals, FALSE)) <= Strength(Decision(signals', FALSE))
          /\ Score(signals) <= Score(signals')
          /\ Severity(signals) <= Severity(signals')]_signals
  <2> SUFFICES ASSUME signals \in Seq(AllSignals), NEW s \in AllSignals, AddSignal(s)
               PROVE  /\ Strength(Decision(signals, FALSE)) <= Strength(Decision(signals', FALSE))
                      /\ Score(signals) <= Score(signals')
                      /\ Severity(signals) <= Severity(signals')
    BY DEF Next, ListOK
  <2>1. signals' \in Seq(AllSignals)
    BY DEF AddSignal
  <2>2. ToSet(signals) \subseteq ToSet(signals')
    BY DEF AddSignal, ToSet
  <2> QED BY <2>1, <2>2, SignalsHarden
<1> QED BY <1>1, ListType, PTL DEF Spec, MoreSignalsHarden

\* A verdict and a severity that go together.
LEMMA Matching ==
  ASSUME NEW v, NEW g,
         \/ v = "rejected" /\ (g = 2 \/ g = 3)
         \/ v = "manual_review" /\ g = 1
         \/ v = "approved" /\ g = 0
  PROVE  /\ v = "approved" <=> g = 0
         /\ v = "manual_review" <=> g = 1
         /\ v = "rejected" <=> g \in {2, 3}
<1>1. CASE v = "rejected" /\ (g = 2 \/ g = 3)
  BY <1>1
<1>2. CASE v = "manual_review" /\ g = 1
  BY <1>2
<1>3. CASE v = "approved" /\ g = 0
  BY <1>3
<1> QED BY <1>1, <1>2, <1>3

\* Where no code decides by itself, a list of any length is decided as the
\* severity scale grades its score.
THEOREM ThresholdsAgree == Spec => []ScoreDecides
<1>1. ASSUME NEW l \in Seq(AllSignals),
             {s.code : s \in ToSet(l)} \cap (hard_review_codes \cup hard_reject_codes) = {}
      PROVE  /\ Decision(l, FALSE) = "approved" <=> SeverityFromScore(Score(l)) = 0
             /\ Decision(l, FALSE) = "manual_review" <=> SeverityFromScore(Score(l)) = 1
             /\ Decision(l, FALSE) = "rejected" <=> SeverityFromScore(Score(l)) \in {2, 3}
  <2>1. Total(l, ByCode(l)) \in Nat
    BY SumGrows
  <2>2. PICK n : n = Score(l)
    OBVIOUS
  <2>3. n \in 0..100
    <3>1. PICK sum : sum = Total(l, ByCode(l))
      OBVIOUS
    <3>2. sum \in Nat /\ n = IF sum <= 100 THEN sum ELSE 100
      BY <2>1, <2>2, <3>1, ScoreCapped
    <3> QED BY <3>2
  <2>4. Decision(l, FALSE) = IF n >= 70 THEN "rejected"
                             ELSE IF n >= 40 THEN "manual_review" ELSE "approved"
    <3>1. /\ {s.code : s \in ToSet(l)} \cap hard_reject_codes = {}
          /\ {s.code : s \in ToSet(l)} \cap hard_review_codes = {}
      BY <1>1
    <3> QED BY <2>2, <3>1 DEF Decision, reject_at, approve_below
  <2>5. /\ n >= 70 => SeverityFromScore(n) = 2 \/ SeverityFromScore(n) = 3
        /\ n >= 40 /\ ~(n >= 70) => SeverityFromScore(n) = 1
        /\ ~(n >= 40) => SeverityFromScore(n) = 0
    BY <2>3, SeverityScale
  <2>6. \/ Decision(l, FALSE) = "rejected" /\ (\/ SeverityFromScore(n) = 2
                                               \/ SeverityFromScore(n) = 3)
        \/ Decision(l, FALSE) = "manual_review" /\ SeverityFromScore(n) = 1
        \/ Decision(l, FALSE) = "approved" /\ SeverityFromScore(n) = 0
    BY <2>4, <2>5, Zenon
  <2> QED BY <2>2, <2>6, Matching
<1>2. ListOK => ScoreDecides
  BY <1>1 DEF ListOK, ScoreDecides
<1> QED BY <1>2, ListType, PTL

LEMMA FiveAreFinite ==
  ASSUME NEW a, NEW b, NEW c, NEW d, NEW e
  PROVE  IsFiniteSet({a, b, c, d, e})
<1>1. IsFiniteSet({a})
  BY FS_Singleton
<1>2. IsFiniteSet({a} \cup {b})
  BY <1>1, FS_AddElement
<1>3. IsFiniteSet(({a} \cup {b}) \cup {c})
  BY <1>2, FS_AddElement
<1>4. IsFiniteSet((({a} \cup {b}) \cup {c}) \cup {d})
  BY <1>3, FS_AddElement
<1>5. IsFiniteSet(((({a} \cup {b}) \cup {c}) \cup {d}) \cup {e})
  BY <1>4, FS_AddElement
<1>6. ((({a} \cup {b}) \cup {c}) \cup {d}) \cup {e} = {a, b, c, d, e}
  OBVIOUS
<1> QED BY <1>5, <1>6

\* The policy in force, seen as CaseRisk sees it: a function of the codes that
\* never gets milder when one is added.
THEOREM VerdictHardens ==
  ASSUME NEW S, NEW T, S \subseteq T, T \subseteq {s.code : s \in AllSignals}
  PROVE  LET Verdict(C) == Decision(SetToSeq({SignalOf(c) : c \in C}), FALSE)
         IN  /\ Verdict(S) \in {"approved", "manual_review", "rejected"}
             /\ Strength(Verdict(S)) <= Strength(Verdict(T))
<1> DEFINE Of(C) == {SignalOf(c) : c \in C}
<1>1. \A c \in T : SignalOf(c) \in AllSignals
  BY DEF SignalOf
<1>2. Of(S) \subseteq Of(T) /\ Of(T) \in SUBSET AllSignals /\ Of(S) \in SUBSET AllSignals
  BY <1>1
<1>3. IsFiniteSet(AllSignals)
  <2>1. IsFiniteSet(CaseSignals) /\ IsFiniteSet(ProviderSignals)
    BY FiveAreFinite DEF CaseSignals, ProviderSignals
  <2> QED BY <2>1, FS_Union DEF AllSignals
<1>4. IsFiniteSet(Of(S)) /\ IsFiniteSet(Of(T))
  BY <1>2, <1>3, FS_Subset
<1>5. ASSUME NEW C \in SUBSET AllSignals, IsFiniteSet(C)
      PROVE  SetToSeq(C) \in Seq(AllSignals) /\ ToSet(SetToSeq(C)) = C
  BY <1>5, ListOfSet
<1>6. Strength(Decision(SetToSeq(Of(S)), FALSE)) <= Strength(Decision(SetToSeq(Of(T)), FALSE))
  BY <1>2, <1>4, <1>5, SignalsHarden
<1>7. \A l : Decision(l, FALSE) \in {"approved", "manual_review", "rejected"}
  BY DEF Decision
<1> QED BY <1>6, <1>7

==============================================================================
