-------------------------- MODULE TelemetryProofs --------------------------
(***************************************************************************)
(* Theorems about what a run reports: its threshold evaluator, for every   *)
(* set of thresholds and every sequence of evaluations; the snapshots, the *)
(* exported summary and the CSV file, for every number of VUs and every    *)
(* recorder they call.                                                     *)
(***************************************************************************)
EXTENDS Telemetry, FiniteSetTheorems, SequenceTheorems, WellFoundedInduction, TLAPS

-----------------------------------------------------------------------------
(* Sums.                                                                   *)

\* Every set of naturals has a least element.
LEMMA Least ==
  ASSUME NEW T \in SUBSET Nat, T # {}
  PROVE  \E x \in T : \A y \in T : x <= y
<1> DEFINE R == {ss \in Nat \X Nat : ss[1] < ss[2]}
<1>0. IsWellFoundedOn(R, Nat)
  BY NatLessThanWellFounded DEF OpToRel
<1>2. \A x, y \in Nat : x < y => <<x, y>> \in R
  OBVIOUS
<1> HIDE DEF R
<1>3. PICK x \in T : \A y \in T : ~ (<<y, x>> \in R)
  BY <1>0, WFMin
<1>4. ASSUME NEW y \in T PROVE x <= y
  <2>1. x \in Nat /\ y \in Nat
    OBVIOUS
  <2>2. ~(y < x)
    BY <1>2, <1>3, <2>1
  <2> QED BY <2>1, <2>2
<1> QED BY <1>4

\* Induction over Nat, for a set of numbers.
LEMMA Induction ==
  ASSUME NEW P \in SUBSET Nat, 0 \in P, \A k \in P : k + 1 \in P
  PROVE  P = Nat
<1>1. SUFFICES ASSUME Nat \ P # {} PROVE FALSE
  OBVIOUS
<1>2. PICK m \in Nat \ P : \A y \in Nat \ P : m <= y
  BY <1>1, Least
<1>3. m - 1 \in Nat /\ m - 1 \notin Nat \ P /\ (m - 1) + 1 = m
  BY <1>2
<1> QED BY <1>2, <1>3

OneOf(s) == CHOOSE x \in s : TRUE

\* Induction over the subsets of a finite set, for a set of them.
LEMMA SetInduction ==
  ASSUME NEW S, IsFiniteSet(S), NEW P \in SUBSET (SUBSET S), {} \in P,
         \A T \in SUBSET S : T # {} /\ (\A x \in T : T \ {x} \in P) => T \in P
  PROVE  P = SUBSET S
<1> DEFINE N == {k \in Nat : \A T \in SUBSET S : Cardinality(T) = k => T \in P}
<1>f. \A T \in SUBSET S : IsFiniteSet(T) /\ Cardinality(T) \in Nat
  BY FS_Subset, FS_CardinalityType
<1>1. 0 \in N
  <2>1. \A T \in SUBSET S : Cardinality(T) = 0 => T = {}
    BY <1>f, FS_EmptySet
  <2> QED BY <2>1
<1>2. ASSUME NEW k \in N PROVE k + 1 \in N
  <2>0. k \in Nat /\ k + 1 \in Nat /\ k + 1 # 0 /\ (k + 1) - 1 = k
    OBVIOUS
  <2>1. ASSUME NEW T \in SUBSET S, Cardinality(T) = k + 1 PROVE T \in P
    <3>1. T # {}
      BY <2>0, <2>1, FS_EmptySet
    <3>2. ASSUME NEW x \in T PROVE T \ {x} \in P
      <4>1. T \ {x} \in SUBSET S /\ Cardinality(T \ {x}) = k
        BY <1>f, <2>0, <2>1, FS_RemoveElement
      <4> QED BY <4>1
    <3> QED BY <3>1, <3>2
  <2> QED BY <2>0, <2>1
<1>3. N \in SUBSET Nat /\ \A k \in N : k + 1 \in N
  BY <1>2
<1>4. N = Nat
  <2> HIDE DEF N
  <2> QED BY <1>1, <1>3, Induction
<1>5. \A T \in SUBSET S : T \in P
  BY <1>f, <1>4
<1> QED BY <1>5

\* What a sum is: nothing for the empty set, else one element and the rest.
LEMMA SumUnfold ==
  ASSUME NEW f, NEW S, IsFiniteSet(S)
  PROVE  \E g : /\ \A T \in SUBSET S : g[T] = IF T = {} THEN 0 ELSE f[OneOf(T)] + g[T \ {OneOf(T)}]
                /\ g[S] = SumFunctionOnSet(f, S)
<1> DEFINE D(k) == {s \in SUBSET S : Cardinality(s) <= k}
           B(g, s) == IF s = {} THEN 0 ELSE f[OneOf(s)] + g[s \ {OneOf(s)}]
           N == {k \in Nat : \E g : g = [s \in D(k) |-> B(g, s)]}
<1>f. \A T \in SUBSET S : IsFiniteSet(T) /\ Cardinality(T) \in Nat /\ (Cardinality(T) <= 0 => T = {})
  <2>1. \A T \in SUBSET S : IsFiniteSet(T) /\ Cardinality(T) \in Nat
    BY FS_Subset, FS_CardinalityType
  <2>2. \A T \in SUBSET S : Cardinality(T) <= 0 => Cardinality(T) = 0
    BY <2>1
  <2> QED BY <2>1, <2>2, FS_EmptySet
<1>1. 0 \in N
  <2>0. D(0) = {{}}
    <3>1. Cardinality({}) = 0 /\ {} \in SUBSET S
      BY FS_EmptySet
    <3> QED BY <1>f, <3>1
  <2>1. [s \in D(0) |-> 0] = [s \in D(0) |-> B([t \in D(0) |-> 0], s)]
    BY <2>0
  <2> QED BY <2>1
<1>2. ASSUME NEW k \in N PROVE k + 1 \in N
  <2>0. k \in Nat /\ k + 1 \in Nat
    OBVIOUS
  <2>1. PICK g : g = [s \in D(k) |-> B(g, s)]
    OBVIOUS
  <2>1a. \A s \in D(k) : g[s] = B(g, s) /\ s \in D(k + 1)
    <3>1. \A s \in D(k) : s \in D(k + 1)
      BY <1>f, <2>0
    <3>2. \A s \in D(k) : g[s] = B(g, s)
      <4> HIDE DEF D, B
      <4> QED BY <2>1, Zenon
    <3> QED BY <3>1, <3>2
  <2> DEFINE h == [s \in D(k + 1) |-> B(g, s)]
  <2>2a. \A s \in D(k + 1) : h[s] = B(g, s)
    <3> HIDE DEF D, B
    <3> QED BY DEF h
  <2>2. \A s \in D(k) : g[s] = h[s]
    <3> HIDE DEF D, B, h
    <3> QED BY <2>1a, <2>2a
  <2>3. \A s \in D(k + 1) : s # {} => s \ {OneOf(s)} \in D(k)
    <3> SUFFICES ASSUME NEW s \in D(k + 1), s # {} PROVE s \ {OneOf(s)} \in D(k)
      OBVIOUS
    <3>1. OneOf(s) \in s
      BY DEF OneOf
    <3>2. Cardinality(s \ {OneOf(s)}) = Cardinality(s) - 1
      BY <1>f, <3>1, FS_RemoveElement
    <3> QED BY <1>f, <2>0, <3>2
  <2>4. \A s \in D(k + 1) : B(g, s) = B(h, s)
    <3> HIDE DEF D, h
    <3> QED BY <2>2, <2>3
  <2>5. h = [s \in D(k + 1) |-> B(h, s)]
    <3> HIDE DEF D, B
    <3>1. h = [s \in D(k + 1) |-> B(g, s)]
      BY DEF h
    <3> HIDE DEF h
    <3> QED BY <3>1, <2>4
  <2>6. \E u : u = [s \in D(k + 1) |-> B(u, s)]
    <3> HIDE DEF D, B, h
    <3> QED BY <2>5
  <2> QED BY <2>0, <2>6
<1>3. N = Nat
  <2>1. N \in SUBSET Nat /\ \A k \in N : k + 1 \in N
    BY <1>2
  <2> HIDE DEF N
  <2> QED BY <1>1, <2>1, Induction
<1>4. Cardinality(S) \in N /\ D(Cardinality(S)) = SUBSET S
  BY <1>3, FS_CardinalityType, FS_Subset
<1> DEFINE it == CHOOSE g : g = [s \in SUBSET S |-> B(g, s)]
<1>5. \E g : g = [s \in SUBSET S |-> B(g, s)]
  <2>1. \E g : g = [s \in D(Cardinality(S)) |-> B(g, s)]
    BY <1>4
  <2> HIDE DEF D, B
  <2> QED BY <1>4, <2>1
<1>6. it = [s \in SUBSET S |-> B(it, s)]
  <2> HIDE DEF B
  <2> QED BY <1>5
<1>7. SumFunctionOnSet(f, S) = it[S]
  BY DEF SumFunctionOnSet, FoldFunctionOnSet, MapThenFoldSet, OneOf
<1> HIDE DEF it
<1>8. \A T \in SUBSET S : it[T] = B(it, T)
  BY <1>6
<1> QED BY <1>7, <1>8

LEMMA SumStep ==
  ASSUME NEW f, NEW S, IsFiniteSet(S)
  PROVE  SumFunctionOnSet(f, S) = IF S = {} THEN 0 ELSE f[OneOf(S)] + SumFunctionOnSet(f, S \ {OneOf(S)})
<1>1. PICK g : /\ \A T \in SUBSET S : g[T] = IF T = {} THEN 0 ELSE f[OneOf(T)] + g[T \ {OneOf(T)}]
               /\ g[S] = SumFunctionOnSet(f, S)
  BY SumUnfold
<1>2. CASE S = {}
  BY <1>1, <1>2
<1>3. CASE S # {}
  <2> DEFINE R == S \ {OneOf(S)}
  <2>1. IsFiniteSet(R) /\ R \in SUBSET S
    BY FS_Subset
  <2>2. PICK h : /\ \A T \in SUBSET R : h[T] = IF T = {} THEN 0 ELSE f[OneOf(T)] + h[T \ {OneOf(T)}]
                 /\ h[R] = SumFunctionOnSet(f, R)
    BY <2>1, SumUnfold
  <2> HIDE DEF R
  <2> DEFINE P == {T \in SUBSET R : g[T] = h[T]}
  <2>3. {} \in P
    <3>1. {} \in SUBSET R /\ {} \in SUBSET S
      OBVIOUS
    <3> QED BY <1>1, <2>2, <3>1
  <2>4. ASSUME NEW T \in SUBSET R, T # {}, \A x \in T : T \ {x} \in P PROVE T \in P
    <3>1. OneOf(T) \in T /\ T \in SUBSET S
      BY <2>1, <2>4 DEF OneOf
    <3>2. g[T \ {OneOf(T)}] = h[T \ {OneOf(T)}]
      BY <2>4, <3>1
    <3>3. g[T] = f[OneOf(T)] + g[T \ {OneOf(T)}] /\ h[T] = f[OneOf(T)] + h[T \ {OneOf(T)}]
      BY <1>1, <2>2, <2>4, <3>1
    <3> QED BY <3>2, <3>3
  <2>5. P = SUBSET R
    <3>1. P \in SUBSET (SUBSET R)
      OBVIOUS
    <3> HIDE DEF P
    <3> QED BY <2>1, <2>3, <2>4, <3>1, SetInduction
  <2>6. g[R] = h[R]
    BY <2>5
  <2>7. g[S] = f[OneOf(S)] + g[R]
    BY <1>1, <1>3 DEF R
  <2> QED BY <1>1, <1>3, <2>2, <2>6, <2>7 DEF R
<1> QED BY <1>2, <1>3

\* A sum over integers is one of them and the sum of the others.
LEMMA SumRemove ==
  ASSUME NEW S, IsFiniteSet(S), NEW f, \A x \in S : f[x] \in Int
  PROVE  /\ SumFunctionOnSet(f, S) \in Int
         /\ \A x \in S : SumFunctionOnSet(f, S) = f[x] + SumFunctionOnSet(f, S \ {x})
<1> DEFINE Sum(U) == SumFunctionOnSet(f, U)
           P == {U \in SUBSET S : Sum(U) \in Int /\ \A x \in U : Sum(U) = f[x] + Sum(U \ {x})}
<1>0. \A U \in SUBSET S : Sum(U) = IF U = {} THEN 0 ELSE f[OneOf(U)] + Sum(U \ {OneOf(U)})
  BY FS_Subset, SumStep
<1> HIDE DEF Sum
<1>i. \A U \in SUBSET S : Sum(U) \in Int
  <2> DEFINE Q == {U \in SUBSET S : Sum(U) \in Int}
  <2>1. {} \in Q
    <3>1. {} \in SUBSET S /\ Sum({}) = 0
      BY <1>0
    <3> QED BY <3>1
  <2>2. ASSUME NEW U \in SUBSET S, U # {}, \A x \in U : U \ {x} \in Q PROVE U \in Q
    <3>1. OneOf(U) \in U
      BY <2>2 DEF OneOf
    <3>2. Sum(U) = f[OneOf(U)] + Sum(U \ {OneOf(U)}) /\ Sum(U \ {OneOf(U)}) \in Int
      BY <1>0, <2>2, <3>1
    <3> QED BY <3>1, <3>2
  <2>3. Q = SUBSET S
    <3>1. Q \in SUBSET (SUBSET S)
      OBVIOUS
    <3> HIDE DEF Q
    <3> QED BY <2>1, <2>2, <3>1, SetInduction
  <2> QED BY <2>3
<1>1. {} \in P
  <2>1. {} \in SUBSET S
    OBVIOUS
  <2> QED BY <1>i, <2>1
<1>2. ASSUME NEW U \in SUBSET S, U # {}, \A x \in U : U \ {x} \in P PROVE U \in P
  <2>1. PICK y \in U : y = OneOf(U)
    BY <1>2 DEF OneOf
  <2>2. Sum(U) = f[y] + Sum(U \ {y}) /\ f[y] \in Int /\ Sum(U \ {y}) \in Int
    BY <1>0, <1>2, <2>1
  <2>3. ASSUME NEW x \in U, x # y PROVE Sum(U) = f[x] + Sum(U \ {x})
    <3> DEFINE R == (U \ {x}) \ {y}
    <3>1. (U \ {y}) \ {x} = R /\ x \in U \ {y} /\ y \in U \ {x}
      BY <2>3
    <3>2. U \ {y} \in P /\ U \ {x} \in P
      BY <1>2
    <3>3. Sum(U \ {y}) = f[x] + Sum(R) /\ Sum(U \ {x}) = f[y] + Sum(R)
      BY <3>1, <3>2
    <3>4. Sum(R) \in Int /\ f[x] \in Int
      <4>1. R \in SUBSET S /\ x \in S
        OBVIOUS
      <4> QED BY <1>i, <4>1
    <3> QED BY <2>2, <3>3, <3>4
  <2> QED BY <2>1, <2>2, <2>3
<1>3. P = SUBSET S
  <2>1. P \in SUBSET (SUBSET S)
    OBVIOUS
  <2> HIDE DEF P
  <2> QED BY <1>1, <1>2, <2>1, SetInduction
<1>4. S \in P
  BY <1>3
<1> QED BY <1>4 DEF Sum

\* A sum depends on what it adds up.
LEMMA SumCong ==
  ASSUME NEW S, IsFiniteSet(S), NEW f, NEW g, \A x \in S : f[x] = g[x]
  PROVE  SumFunctionOnSet(f, S) = SumFunctionOnSet(g, S)
<1> DEFINE P == {U \in SUBSET S : SumFunctionOnSet(f, U) = SumFunctionOnSet(g, U)}
<1>1. {} \in P
  <2>1. {} \in SUBSET S /\ IsFiniteSet({})
    BY FS_EmptySet
  <2>2. SumFunctionOnSet(f, {}) = 0 /\ SumFunctionOnSet(g, {}) = 0
    BY <2>1, SumStep
  <2> QED BY <2>1, <2>2
<1>2. ASSUME NEW U \in SUBSET S, U # {}, \A x \in U : U \ {x} \in P PROVE U \in P
  <2>1. OneOf(U) \in U /\ IsFiniteSet(U)
    BY <1>2, FS_Subset DEF OneOf
  <2>2. /\ SumFunctionOnSet(f, U) = f[OneOf(U)] + SumFunctionOnSet(f, U \ {OneOf(U)})
        /\ SumFunctionOnSet(g, U) = g[OneOf(U)] + SumFunctionOnSet(g, U \ {OneOf(U)})
    BY <1>2, <2>1, SumStep
  <2>3. SumFunctionOnSet(f, U \ {OneOf(U)}) = SumFunctionOnSet(g, U \ {OneOf(U)}) /\ f[OneOf(U)] = g[OneOf(U)]
    BY <1>2, <2>1
  <2> QED BY <2>2, <2>3
<1>3. P = SUBSET S
  <2>1. P \in SUBSET (SUBSET S)
    OBVIOUS
  <2> HIDE DEF P
  <2> QED BY <1>1, <1>2, <2>1, SetInduction
<1> QED BY <1>3

\* Adding d at one index of a map, which may be new, adds d to the sums with it.
LEMMA SumUpdate ==
  ASSUME NEW f, NEW g, NEW k, NEW d \in Int, IsFiniteSet(DOMAIN f), DOMAIN g = DOMAIN f \cup {k},
         \A x \in DOMAIN f : f[x] \in Int, \A x \in DOMAIN f \ {k} : g[x] = f[x],
         g[k] = (IF k \in DOMAIN f THEN f[k] ELSE 0) + d, NEW F \in SUBSET DOMAIN g
  PROVE  SumFunctionOnSet(g, F) = SumFunctionOnSet(f, F \cap DOMAIN f) + (IF k \in F THEN d ELSE 0)
<1> DEFINE R == F \ {k}
           G == F \cap DOMAIN f
<1>1. /\ R \in SUBSET DOMAIN f /\ IsFiniteSet(R) /\ IsFiniteSet(G) /\ IsFiniteSet(F)
      /\ \A x \in R : g[x] = f[x] /\ f[x] \in Int
  <2>1. R \in SUBSET DOMAIN f /\ G \in SUBSET DOMAIN f /\ F \in SUBSET (DOMAIN f \cup {k})
    OBVIOUS
  <2>2. IsFiniteSet(DOMAIN f \cup {k})
    BY FS_AddElement
  <2> QED BY <2>1, <2>2, FS_Subset
<1>2. SumFunctionOnSet(g, R) = SumFunctionOnSet(f, R) /\ SumFunctionOnSet(f, R) \in Int
  BY <1>1, SumCong, SumRemove
<1>3. CASE k \notin F
  <2>1. R = F /\ G = F
    BY <1>1, <1>3
  <2> QED BY <1>2, <1>3, <2>1
<1>4. CASE k \in F
  <2>1. \A x \in F : g[x] \in Int
    BY <1>1
  <2>2. SumFunctionOnSet(g, F) = g[k] + SumFunctionOnSet(g, R)
    BY <1>1, <1>4, <2>1, SumRemove
  <2>3. CASE k \in DOMAIN f
    <3>1. k \in G /\ G \ {k} = R /\ \A x \in G : f[x] \in Int
      BY <1>1, <1>4, <2>3
    <3>2. SumFunctionOnSet(f, G) = f[k] + SumFunctionOnSet(f, R)
      BY <1>1, <3>1, SumRemove
    <3>3. f[k] \in Int
      BY <2>3
    <3> HIDE DEF R, G
    <3>4. SumFunctionOnSet(g, F) = SumFunctionOnSet(f, G) + d
      BY <1>2, <2>2, <2>3, <3>2, <3>3
    <3> QED BY <1>4, <3>4 DEF G
  <2>4. CASE k \notin DOMAIN f
    <3>1. G = R
      BY <1>1, <1>4, <2>4
    <3> HIDE DEF R, G
    <3>2. SumFunctionOnSet(g, F) = SumFunctionOnSet(f, G) + d
      BY <1>2, <2>2, <2>4, <3>1
    <3> QED BY <1>4, <3>2 DEF G
  <2> QED BY <2>3, <2>4
<1> QED BY <1>3, <1>4

\* Sums of naturals are naturals, and grow with the set and with the summands.
LEMMA SumNat ==
  ASSUME NEW S, IsFiniteSet(S), NEW f, \A x \in S : f[x] \in Nat
  PROVE  SumFunctionOnSet(f, S) \in Nat
<1> DEFINE P == {U \in SUBSET S : SumFunctionOnSet(f, U) \in Nat}
<1>1. {} \in P
  <2>1. {} \in SUBSET S /\ IsFiniteSet({})
    BY FS_EmptySet
  <2>2. SumFunctionOnSet(f, {}) = 0
    BY <2>1, SumStep
  <2> QED BY <2>1, <2>2
<1>2. ASSUME NEW U \in SUBSET S, U # {}, \A x \in U : U \ {x} \in P PROVE U \in P
  <2>1. OneOf(U) \in U /\ IsFiniteSet(U)
    BY <1>2, FS_Subset DEF OneOf
  <2>2. SumFunctionOnSet(f, U) = f[OneOf(U)] + SumFunctionOnSet(f, U \ {OneOf(U)})
    BY <1>2, <2>1, SumStep
  <2>3. SumFunctionOnSet(f, U \ {OneOf(U)}) \in Nat /\ f[OneOf(U)] \in Nat
    BY <1>2, <2>1
  <2> QED BY <2>2, <2>3
<1>3. P = SUBSET S
  <2>1. P \in SUBSET (SUBSET S)
    OBVIOUS
  <2> HIDE DEF P
  <2> QED BY <1>1, <1>2, <2>1, SetInduction
<1> QED BY <1>3

-----------------------------------------------------------------------------
(* Merged trends.                                                          *)

LEMMA MergeUnfold ==
  ASSUME NEW f, NEW S, IsFiniteSet(S)
  PROVE  \E g : /\ \A T \in SUBSET S : g[T] = IF T = {} THEN TrendNew
                                                ELSE TrendMerge(g[T \ {OneOf(T)}], f[OneOf(T)])
                /\ g[S] = MergeTrends(f, S)
<1> DEFINE D(k) == {s \in SUBSET S : Cardinality(s) <= k}
           B(g, s) == IF s = {} THEN TrendNew ELSE TrendMerge(g[s \ {OneOf(s)}], f[OneOf(s)])
           N == {k \in Nat : \E g : g = [s \in D(k) |-> B(g, s)]}
<1>f. \A T \in SUBSET S : IsFiniteSet(T) /\ Cardinality(T) \in Nat /\ (Cardinality(T) <= 0 => T = {})
  <2>1. \A T \in SUBSET S : IsFiniteSet(T) /\ Cardinality(T) \in Nat
    BY FS_Subset, FS_CardinalityType
  <2>2. \A T \in SUBSET S : Cardinality(T) <= 0 => Cardinality(T) = 0
    BY <2>1
  <2> QED BY <2>1, <2>2, FS_EmptySet
<1>1. 0 \in N
  <2>0. D(0) = {{}}
    <3>1. Cardinality({}) = 0 /\ {} \in SUBSET S
      BY FS_EmptySet
    <3> QED BY <1>f, <3>1
  <2>1. [s \in D(0) |-> TrendNew] = [s \in D(0) |-> B([t \in D(0) |-> TrendNew], s)]
    BY <2>0
  <2> QED BY <2>1
<1>2. ASSUME NEW k \in N PROVE k + 1 \in N
  <2>0. k \in Nat /\ k + 1 \in Nat
    OBVIOUS
  <2>1. PICK g : g = [s \in D(k) |-> B(g, s)]
    OBVIOUS
  <2>2. \A s \in D(k) : g[s] = B(g, s) /\ s \in D(k + 1)
    <3>1. \A s \in D(k) : s \in D(k + 1)
      BY <1>f, <2>0
    <3>2. \A s \in D(k) : g[s] = B(g, s)
      <4> HIDE DEF D, B
      <4> QED BY <2>1, Zenon
    <3> QED BY <3>1, <3>2
  <2> DEFINE h == [s \in D(k + 1) |-> B(g, s)]
  <2>3. \A s \in D(k + 1) : h[s] = B(g, s)
    <3> HIDE DEF D, B
    <3> QED BY DEF h
  <2>4. \A s \in D(k) : g[s] = h[s]
    <3> HIDE DEF D, B, h
    <3> QED BY <2>2, <2>3
  <2>5. \A s \in D(k + 1) : s # {} => s \ {OneOf(s)} \in D(k)
    <3> SUFFICES ASSUME NEW s \in D(k + 1), s # {} PROVE s \ {OneOf(s)} \in D(k)
      OBVIOUS
    <3>1. OneOf(s) \in s
      BY DEF OneOf
    <3>2. Cardinality(s \ {OneOf(s)}) = Cardinality(s) - 1
      BY <1>f, <3>1, FS_RemoveElement
    <3> QED BY <1>f, <2>0, <3>2
  <2>6. \A s \in D(k + 1) : B(g, s) = B(h, s)
    <3> HIDE DEF D, h
    <3> QED BY <2>4, <2>5
  <2>7. h = [s \in D(k + 1) |-> B(h, s)]
    <3> HIDE DEF D, B
    <3>1. h = [s \in D(k + 1) |-> B(g, s)]
      BY DEF h
    <3> HIDE DEF h
    <3> QED BY <3>1, <2>6
  <2>8. \E u : u = [s \in D(k + 1) |-> B(u, s)]
    <3> HIDE DEF D, B, h
    <3> QED BY <2>7
  <2> QED BY <2>0, <2>8
<1>3. N = Nat
  <2>1. N \in SUBSET Nat /\ \A k \in N : k + 1 \in N
    BY <1>2
  <2> HIDE DEF N
  <2> QED BY <1>1, <2>1, Induction
<1>4. Cardinality(S) \in N /\ D(Cardinality(S)) = SUBSET S
  BY <1>3, FS_CardinalityType, FS_Subset
<1> DEFINE it == CHOOSE g : g = [s \in SUBSET S |-> B(g, s)]
<1>5. \E g : g = [s \in SUBSET S |-> B(g, s)]
  <2>1. \E g : g = [s \in D(Cardinality(S)) |-> B(g, s)]
    BY <1>4
  <2> HIDE DEF D, B
  <2> QED BY <1>4, <2>1
<1>6. it = [s \in SUBSET S |-> B(it, s)]
  <2> HIDE DEF B
  <2> QED BY <1>5
<1>7. MergeTrends(f, S) = it[S]
  BY DEF MergeTrends, FoldFunctionOnSet, MapThenFoldSet, OneOf
<1> HIDE DEF it
<1>8. \A T \in SUBSET S : it[T] = B(it, T)
  BY <1>6
<1> QED BY <1>7, <1>8

\* A merged trend has counted what its parts have.
LEMMA MergeCount ==
  ASSUME NEW f, NEW S, IsFiniteSet(S), S \subseteq DOMAIN f, \A k \in S : f[k].count \in Nat
  PROVE  MergeTrends(f, S).count = SumFunctionOnSet(Field(f, "count"), S)
<1>1. PICK g : /\ \A T \in SUBSET S : g[T] = IF T = {} THEN TrendNew
                                               ELSE TrendMerge(g[T \ {OneOf(T)}], f[OneOf(T)])
               /\ g[S] = MergeTrends(f, S)
  BY MergeUnfold
<1> DEFINE c == Field(f, "count")
           P == {U \in SUBSET S : g[U].count = SumFunctionOnSet(c, U) /\ g[U].count \in Nat}
<1>0. \A k \in S : c[k] = f[k].count /\ c[k] \in Nat
  BY DEF Field
<1> HIDE DEF c
<1>2. {} \in P
  <2>1. {} \in SUBSET S /\ IsFiniteSet({})
    BY FS_EmptySet
  <2>2. SumFunctionOnSet(c, {}) = 0
    BY <2>1, SumStep
  <2>3. g[{}] = TrendNew
    BY <1>1, <2>1
  <2>4. TrendNew.count = 0
    BY DEF TrendNew
  <2> QED BY <2>1, <2>2, <2>3, <2>4
<1>3. ASSUME NEW U \in SUBSET S, U # {}, \A x \in U : U \ {x} \in P PROVE U \in P
  <2>1. OneOf(U) \in U /\ IsFiniteSet(U)
    BY <1>3, FS_Subset DEF OneOf
  <2>2. SumFunctionOnSet(c, U) = c[OneOf(U)] + SumFunctionOnSet(c, U \ {OneOf(U)})
    BY <1>3, <2>1, SumStep
  <2>3. SumFunctionOnSet(c, U \ {OneOf(U)}) = g[U \ {OneOf(U)}].count /\ g[U \ {OneOf(U)}].count \in Nat
    BY <1>3, <2>1
  <2>4. g[U] = TrendMerge(g[U \ {OneOf(U)}], f[OneOf(U)])
    BY <1>1, <1>3
  <2>5. g[U].count = g[U \ {OneOf(U)}].count + f[OneOf(U)].count
    BY <1>0, <2>1, <2>3, <2>4 DEF TrendMerge
  <2> QED BY <1>0, <2>1, <2>2, <2>3, <2>5
<1>4. P = SUBSET S
  <2>1. P \in SUBSET (SUBSET S)
    OBVIOUS
  <2> HIDE DEF P
  <2> QED BY <1>2, <1>3, <2>1, SetInduction
<1>5. S \in P
  BY <1>4
<1> QED BY <1>1, <1>5 DEF c

-----------------------------------------------------------------------------
(* The threshold evaluator.                                                *)

\* Threshold t failed at every tick from the i-th on.
FailsFrom(ticks, t, i) == \A j \in i..Len(ticks) : t \in ticks[j].failed

\* failing_since is None if the last tick passed t (or there was none), else the
\* time of a tick from which t failed throughout, and of the earliest such tick.
WindowOf(ticks, t, since) ==
    \/ since = -1 /\ (Len(ticks) > 0 => t \notin ticks[Len(ticks)].failed)
    \/ /\ \E i \in 1..Len(ticks) : since = ticks[i].at /\ FailsFrom(ticks, t, i)
       /\ \A i \in 1..Len(ticks) : FailsFrom(ticks, t, i) => since <= ticks[i].at

Ticks == [at : Nat, failed : SUBSET ts]

EvalInv ==
    /\ run \in Runs /\ now \in Nat
    /\ log \in Seq(Ticks) /\ \A i \in 1..Len(log) : log[i].at <= now
    /\ states \in [ts -> [last_failed : BOOLEAN, failing_since : Int]]
    /\ \A t \in ts : WindowOf(log, t, states[t].failing_since)
    /\ AbortExact

\* The windows decide as the ticks themselves do.
LEMMA WindowDecides ==
    ASSUME NEW thresholds, \A t \in thresholds : t.delay_abort_eval \in Nat,
           NEW ticks \in Seq([at : Nat, failed : SUBSET thresholds]), Len(ticks) > 0, NEW since \in [thresholds -> Int],
           \A t \in thresholds : WindowOf(ticks, t, since[t])
    PROVE  (\E t \in thresholds : /\ t.abort_on_fail /\ since[t] # -1
                          /\ ticks[Len(ticks)].at - since[t] >= t.delay_abort_eval)
           <=> \E t \in thresholds, i \in DOMAIN ticks :
                  /\ t.abort_on_fail
                  /\ \A j \in i..Len(ticks) : t \in ticks[j].failed
                  /\ ticks[Len(ticks)].at - ticks[i].at >= t.delay_abort_eval
<1>1. /\ Len(ticks) \in Nat /\ DOMAIN ticks = 1..Len(ticks)
      /\ \A i \in 1..Len(ticks) : ticks[i].at \in Nat
  <2>1. \A i \in 1..Len(ticks) : ticks[i] \in [at : Nat, failed : SUBSET thresholds]
    <3> DEFINE E == [at : Nat, failed : SUBSET thresholds]
    <3>1. ticks \in Seq(E)
      OBVIOUS
    <3> HIDE DEF E
    <3>2. \A i \in 1..Len(ticks) : ticks[i] \in E
      BY <3>1
    <3> QED BY <3>2 DEF E
  <2> QED BY <2>1
<1>2. \A t \in thresholds : t.delay_abort_eval \in Nat
  OBVIOUS
<1>3. ASSUME NEW t \in thresholds
      PROVE  (since[t] # -1 /\ ticks[Len(ticks)].at - since[t] >= t.delay_abort_eval)
             <=> \E i \in DOMAIN ticks : FailsFrom(ticks, t, i) /\ ticks[Len(ticks)].at - ticks[i].at >= t.delay_abort_eval
  <2>1. CASE since[t] = -1 /\ t \notin ticks[Len(ticks)].failed
    <3>1. \A i \in 1..Len(ticks) : ~FailsFrom(ticks, t, i)
      BY <1>1, <2>1 DEF FailsFrom
    <3> QED BY <1>1, <2>1, <3>1
  <2>2. CASE /\ \E i \in 1..Len(ticks) : since[t] = ticks[i].at /\ FailsFrom(ticks, t, i)
             /\ \A i \in 1..Len(ticks) : FailsFrom(ticks, t, i) => since[t] <= ticks[i].at
    <3>1. PICK k \in 1..Len(ticks) : since[t] = ticks[k].at /\ FailsFrom(ticks, t, k)
      BY <2>2
    <3>2. since[t] # -1 /\ ticks[Len(ticks)].at \in Nat /\ t.delay_abort_eval \in Nat
      BY <1>1, <1>2, <3>1
    <3>3. \A i \in 1..Len(ticks) : FailsFrom(ticks, t, i) /\ ticks[Len(ticks)].at - ticks[i].at >= t.delay_abort_eval
                                 => ticks[Len(ticks)].at - since[t] >= t.delay_abort_eval
      <4> SUFFICES ASSUME NEW i \in 1..Len(ticks), FailsFrom(ticks, t, i),
                          ticks[Len(ticks)].at - ticks[i].at >= t.delay_abort_eval
                   PROVE  ticks[Len(ticks)].at - since[t] >= t.delay_abort_eval
        OBVIOUS
      <4>1. since[t] <= ticks[i].at /\ since[t] \in Int /\ ticks[i].at \in Nat
        BY <1>1, <2>2
      <4>2. \A a, b \in Int, c \in Nat, d \in Nat : a <= b /\ c - b >= d => c - a >= d
        OBVIOUS
      <4>3. ticks[i].at \in Int /\ ticks[Len(ticks)].at \in Nat
        BY <3>2, <4>1
      <4> QED BY <3>2, <4>1, <4>2, <4>3, Zenon
    <3> QED BY <1>1, <3>1, <3>2, <3>3
  <2> QED BY <1>3, <2>1, <2>2 DEF WindowOf
<1> QED BY <1>3 DEF FailsFrom

\* One tick of the evaluator: a window opens, goes on or closes.
LEMMA TickWindow ==
    ASSUME NEW thresholds, NEW t \in thresholds, NEW s, NEW now0 \in Nat,
           NEW failing \in SUBSET thresholds, s.failing_since \in Int,
           NEW ticks \in Seq([at : Nat, failed : SUBSET thresholds]),
           \A i \in 1..Len(ticks) : ticks[i].at <= now0,
           WindowOf(ticks, t, s.failing_since),
           NEW u, u = UpdateState(s, t \in failing, now0)
    PROVE  /\ WindowOf(Append(ticks, [at |-> now0, failed |-> failing]), t, u.failing_since)
           /\ u \in [last_failed : BOOLEAN, failing_since : Int]
<1>1. PICK since, n, later :
         /\ since = s.failing_since /\ n = Len(ticks)
         /\ later = Append(ticks, [at |-> now0, failed |-> failing])
  OBVIOUS
<1>2. /\ n \in Nat /\ Len(later) = n + 1 /\ n + 1 \in 1..(n + 1) /\ since \in Int
      /\ later[n + 1].at = now0 /\ later[n + 1].failed = failing
      /\ \A i \in 1..n : later[i] = ticks[i] /\ ticks[i].at \in Nat /\ ticks[i].at <= now0
  <2> DEFINE E == [at : Nat, failed : SUBSET thresholds]
  <2>1. ticks \in Seq(E) /\ [at |-> now0, failed |-> failing] \in E
    OBVIOUS
  <2>2. \A x \in E : x.at \in Nat
    OBVIOUS
  <2> HIDE DEF E
  <2>3. /\ n \in Nat /\ Len(later) = n + 1 /\ later[n + 1] = [at |-> now0, failed |-> failing]
        /\ \A i \in 1..n : later[i] = ticks[i] /\ ticks[i] \in E
    BY <1>1, <2>1
  <2> QED BY <1>1, <2>2, <2>3
<1>3. WindowOf(ticks, t, since)
  BY <1>1
<1>4. /\ u \in [last_failed : BOOLEAN, failing_since : Int]
      /\ u.failing_since = IF t \notin failing THEN -1 ELSE IF since = -1 THEN now0 ELSE since
  BY <1>1, <1>2 DEF UpdateState
<1>5. ASSUME NEW i \in 1..n
      PROVE  FailsFrom(later, t, i) <=> FailsFrom(ticks, t, i) /\ t \in failing
  <2>1. \A j \in i..(n + 1) : j \in i..n \/ j = n + 1
    BY <1>2
  <2>2. n + 1 \in i..(n + 1) /\ \A j \in i..n : j \in i..(n + 1) /\ later[j] = ticks[j]
    BY <1>2
  <2> QED BY <1>1, <1>2, <2>1, <2>2 DEF FailsFrom
<1>6. FailsFrom(later, t, n + 1) <=> t \in failing
  <2>1. \A j \in (n + 1)..(n + 1) : j = n + 1
    BY <1>2
  <2> QED BY <1>2, <2>1 DEF FailsFrom
<1>7. \A i \in 1..(n + 1) : i \in 1..n \/ i = n + 1
  BY <1>2
<1>8. WindowOf(later, t, u.failing_since)
  <2>1. CASE t \notin failing
    BY <1>2, <1>4, <2>1 DEF WindowOf
  <2>2. CASE t \in failing /\ since = -1
    <3>1. n > 0 => t \notin ticks[n].failed
      <4>1. \A i \in 1..n : since # ticks[i].at
        BY <1>2, <2>2
      <4> QED BY <1>1, <1>3, <4>1 DEF WindowOf
    <3>2. \A i \in 1..n : ~FailsFrom(ticks, t, i)
      <4>1. \A i \in 1..n : n \in i..n /\ n > 0
        BY <1>2
      <4> QED BY <1>1, <3>1, <4>1 DEF FailsFrom
    <3>3. u.failing_since = now0
      BY <1>4, <2>2
    <3>4. \A i \in 1..(n + 1) : FailsFrom(later, t, i) => u.failing_since <= later[i].at
      BY <1>2, <1>5, <1>7, <3>2, <3>3
    <3>5. \E i \in 1..(n + 1) : u.failing_since = later[i].at /\ FailsFrom(later, t, i)
      BY <1>2, <1>6, <2>2, <3>3
    <3> QED BY <1>2, <3>4, <3>5 DEF WindowOf
  <2>3. CASE t \in failing /\ since # -1
    <3>1. /\ \E i \in 1..n : since = ticks[i].at /\ FailsFrom(ticks, t, i)
          /\ \A i \in 1..n : FailsFrom(ticks, t, i) => since <= ticks[i].at
      BY <1>1, <1>3, <2>3 DEF WindowOf
    <3>2. since <= now0 /\ u.failing_since = since
      BY <1>2, <1>4, <2>3, <3>1
    <3>3. \A i \in 1..n : i \in 1..(n + 1)
      BY <1>2
    <3>4. \E i \in 1..(n + 1) : u.failing_since = later[i].at /\ FailsFrom(later, t, i)
      BY <1>2, <1>5, <2>3, <3>1, <3>2, <3>3
    <3>5. \A i \in 1..(n + 1) : FailsFrom(later, t, i) => u.failing_since <= later[i].at
      BY <1>2, <1>5, <1>7, <3>1, <3>2
    <3> QED BY <1>2, <3>4, <3>5 DEF WindowOf
  <2> QED BY <2>1, <2>2, <2>3
<1> QED BY <1>1, <1>4, <1>8

\* Every step of the telemetry preserves the invariant behind AbortExact.
LEMMA EvalStep == EvalInv /\ [TelemetryNext]_tvars => EvalInv'
<1> SUFFICES ASSUME EvalInv, [TelemetryNext]_tvars PROVE EvalInv'
  OBVIOUS
<1>1. CASE EvalTick
  <2>1. PICK failing \in {evaluate(ts, SnapshotMaps(now))} :
           /\ states' = update_states(ts, failing, states, now)
           /\ log' = Append(log, [at |-> now, failed |-> failing])
    BY <1>1 DEF EvalTick
  <2>2. failing \in SUBSET ts
    BY DEF evaluate
  <2>3. UNCHANGED <<run, now>> /\ cancelled' = TickAborts(ts, states', now) /\ ts' = ts
    BY <1>1 DEF EvalTick, ts
  <2>4. log' \in Seq(Ticks)' /\ Len(log') > 0 /\ log'[Len(log')].at = now
        /\ \A i \in 1..Len(log') : log'[i].at <= now
    <3>1. log \in Seq(Ticks) /\ [at |-> now, failed |-> failing] \in Ticks /\ now \in Nat /\ Ticks' = Ticks
      BY <2>2, <2>3 DEF EvalInv, Ticks
    <3>2. \A i \in 1..Len(log) : log[i].at <= now
      BY DEF EvalInv
    <3>3. /\ log' \in Seq(Ticks) /\ Len(log) \in Nat /\ Len(log') = Len(log) + 1
          /\ log'[Len(log) + 1].at = now
          /\ \A i \in 1..Len(log) : log'[i] = log[i]
      BY <2>1, <3>1
    <3>4. \A i \in 1..(Len(log) + 1) : i \in 1..Len(log) \/ i = Len(log) + 1
      BY <3>3
    <3> QED BY <3>1, <3>2, <3>3, <3>4
  <2>5. ASSUME NEW t \in ts
        PROVE  /\ WindowOf(log', t, states'[t].failing_since)
               /\ states'[t] \in [last_failed : BOOLEAN, failing_since : Int]
    <3>1. states'[t] = UpdateState(states[t], t \in failing, now)
      BY <2>1 DEF update_states
    <3>2. /\ now \in Nat /\ states[t].failing_since \in Int /\ WindowOf(log, t, states[t].failing_since)
          /\ log \in Seq([at : Nat, failed : SUBSET ts]) /\ \A i \in 1..Len(log) : log[i].at <= now
      BY DEF EvalInv, Ticks
    <3> QED BY <2>1, <2>2, <3>1, <3>2, TickWindow
  <2>6. states' \in [ts -> [last_failed : BOOLEAN, failing_since : Int]]
    BY <2>1, <2>5 DEF update_states
  <2>7. AbortExact'
    <3>1. PICK since : since = [t \in ts |-> states'[t].failing_since]
      OBVIOUS
    <3>2. since \in [ts -> Int] /\ \A t \in ts : WindowOf(log', t, since[t])
      BY <2>5, <3>1
    <3>3. cancelled' <=> \E t \in ts : /\ t.abort_on_fail /\ since[t] # -1
                                     /\ log'[Len(log')].at - since[t] >= t.delay_abort_eval
      BY <2>3, <2>4, <3>1 DEF TickAborts
    <3>4. \A t \in ts : t.delay_abort_eval \in Nat
      BY TelemetryAssumption DEF EvalInv, ts
    <3>5. log' \in Seq([at : Nat, failed : SUBSET ts])
      BY <2>3, <2>4 DEF Ticks
    <3>6. (\E t \in ts : /\ t.abort_on_fail /\ since[t] # -1
                        /\ log'[Len(log')].at - since[t] >= t.delay_abort_eval)
          <=> \E t \in ts, i \in DOMAIN log' :
                 /\ t.abort_on_fail
                 /\ \A j \in i..Len(log') : t \in log'[j].failed
                 /\ log'[Len(log')].at - log'[i].at >= t.delay_abort_eval
      BY <2>4, <3>2, <3>4, <3>5, WindowDecides
    <3> QED BY <2>3, <3>3, <3>6 DEF AbortExact
  <2> QED BY <2>3, <2>4, <2>5, <2>6, <2>7 DEF EvalInv
<1>2. CASE UNCHANGED <<run, evaluator>> /\ now' \in {now, now + 1}
  <2>1. ts' = ts /\ log' = log /\ states' = states /\ cancelled' = cancelled /\ run' = run
    BY <1>2 DEF ts, evaluator
  <2>2. Ticks' = Ticks /\ (AbortExact' <=> AbortExact)
    BY <2>1 DEF Ticks, AbortExact
  <2>3. now' \in Nat /\ \A i \in 1..Len(log) : log[i].at <= now'
    <3>1. \A i \in 1..Len(log) : log[i].at \in Nat /\ log[i].at <= now
      <4>1. \A i \in 1..Len(log) : log[i] \in Ticks
        BY DEF EvalInv
      <4> QED BY <4>1 DEF EvalInv, Ticks
    <3> QED BY <1>2, <3>1 DEF EvalInv
  <2> QED BY <2>1, <2>2, <2>3 DEF EvalInv
<1>3. TelemetryNext => EvalTick \/ (UNCHANGED <<run, evaluator>> /\ now' \in {now, now + 1})
  BY DEF TelemetryNext, Recording, Clock, ScenarioEnds, FinalSnapshot, SnapshotDone
<1>4. UNCHANGED tvars => UNCHANGED <<run, evaluator>> /\ now' \in {now, now + 1}
  BY DEF tvars
<1> QED BY <1>1, <1>2, <1>3, <1>4

\* The evaluator cancels the run exactly when an abort_on_fail threshold has
\* failed at every tick over at least its delayAbortEval, however it flapped
\* before, for every set of thresholds and every length of the run.
THEOREM AbortSound == TelemetrySpec => []AbortExact
<1>1. TelemetryInit => EvalInv
  <2> SUFFICES ASSUME TelemetryInit PROVE EvalInv
    OBVIOUS
  <2>1. run \in Runs /\ now = 0 /\ log = << >> /\ cancelled = FALSE /\ states = [t \in ts |-> NeverFailed]
    BY DEF TelemetryInit
  <2>2. NeverFailed \in [last_failed : BOOLEAN, failing_since : Int] /\ NeverFailed.failing_since = -1
    BY DEF NeverFailed
  <2> QED BY <2>1, <2>2 DEF EvalInv, WindowOf, AbortExact
<1>2. EvalInv => AbortExact
  BY DEF EvalInv
<1> QED BY <1>1, <1>2, EvalStep, PTL DEF TelemetrySpec

-----------------------------------------------------------------------------
(* Recorder calls.                                                         *)

Stored == {"counter", "gauge", "rate", "trend"}

\* What a script can call: a recorder of BuiltinMetrics, or a metric of its own
\* under a name that none of the summary's sections has.
Recorder(c) ==
    \/ \E n \in Nat : c \in {set_vus(n), set_vus_max(n), record_data_sent(n), record_data_received(n),
                             record_dropped_iterations(n), record_iteration(n)}
    \/ \E path \in Seq(STRING), name \in STRING, passed \in BOOLEAN, x \in Nat :
          c \in {record_check(path, name, passed), group_enter(path), record_group_duration(path, x)}
    \/ \E tags : \E failed \in {<< >>, <<TRUE>>, <<FALSE>>}, x \in Nat :
          c \in {record_http_request(tags, failed, x), record_ws_session(tags, x),
                 record_ws_connecting(tags, x), record_ws_msg_sent(tags), record_ws_msg_received(tags),
                 record_ws_ping(tags, x), record_grpc_request(tags, x)}
    \/ \E kind \in {"counter", "gauge", "rate", "trend", "trend_time"} : \E name : \E x \in Nat :
          name \notin Printed /\ c = custom_metric(kind, name, x)

Recorders == \A r \in Runs : \A c \in r.calls : Recorder(c)

LEMMA CanonicalBare ==
    ASSUME NEW s, DOMAIN s.tags = {}
    PROVE  canonical(s) = s.name
BY DEF canonical

\* A key feeds the untagged metric of its name, if it parses.
LEMMA TargetName ==
    ASSUME NEW w, KeyReadsBack(w), NEW m, ~Braced(m)
    PROVE  m \in derive_targets(w.key) <=> w.name = m /\ ~HasComma(w)
<1>1. CASE HasComma(w)
  <2>1. ~Parsed[w.key].ok /\ DOMAIN TagsOf(w) # {}
    BY <1>1 DEF KeyReadsBack, HasComma
  <2>2. derive_targets(w.key) = {w.key}
    BY <2>1 DEF derive_targets
  <2>3. w.key # m
    BY <2>1 DEF KeyReadsBack
  <2> QED BY <1>1, <2>2, <2>3
<1>2. CASE ~HasComma(w)
  <2>1. PICK s : s = Parsed[w.key]
    OBVIOUS
  <2>2. s = [ok |-> TRUE, name |-> w.name, tags |-> TagsOf(w)]
    BY <1>2, <2>1 DEF KeyReadsBack, Selector
  <2>3. s.ok /\ s.name = w.name /\ s.tags = TagsOf(w)
    BY <2>2
  <2>4. canonical(s) = w.key
    BY <1>2, <2>1 DEF KeyReadsBack
  <2>5. derive_targets(w.key) = {canonical(s)} \cup (IF DOMAIN s.tags = {} THEN {} ELSE {s.name})
    BY <2>1, <2>3 DEF derive_targets
  <2>6. CASE DOMAIN s.tags = {}
    BY <1>2, <2>3, <2>5, <2>6, CanonicalBare
  <2>7. CASE DOMAIN s.tags # {}
    <3>1. w.key # m
      BY <2>3, <2>7 DEF KeyReadsBack
    <3> QED BY <1>2, <2>3, <2>4, <2>5, <2>7, <3>1
  <2> QED BY <2>6, <2>7
<1> QED BY <1>1, <1>2

-----------------------------------------------------------------------------
(* Causes and effects: what a call still owes.                             *)

\* At most one cause and one effect in a call, the cause first.
Ordered(q, C, E) ==
    /\ \A i, j \in DOMAIN q : q[i] \in C /\ q[j] \in C => i = j
    /\ \A i, j \in DOMAIN q : q[i] \in E /\ q[j] \in E => i = j
    /\ \A i \in DOMAIN q : q[i] \in C => \E j \in DOMAIN q : i < j /\ q[j] \in E

\* The cause has been recorded and the effect has not.
Owes(q, C, E) == (\E i \in DOMAIN q : q[i] \in E) /\ \A i \in DOMAIN q : q[i] \notin C

Owing(f, C, E) == {v \in Vus : Owes(f[v], C, E)}

LEMMA OwesTail ==
    ASSUME NEW W, NEW C \in SUBSET W, NEW E \in SUBSET W, C \cap E = {},
           NEW q \in Seq(W), q # << >>, Ordered(q, C, E)
    PROVE  /\ Ordered(Tail(q), C, E)
           /\ Head(q) \in C => ~Owes(q, C, E) /\ Owes(Tail(q), C, E)
           /\ Head(q) \in E => Owes(q, C, E) /\ ~Owes(Tail(q), C, E)
           /\ Head(q) \notin C \cup E => (Owes(Tail(q), C, E) <=> Owes(q, C, E))
<1>1. PICK t : t = Tail(q)
  OBVIOUS
<1>2. /\ Len(q) \in Nat /\ Len(q) > 0 /\ DOMAIN q = 1..Len(q) /\ Len(t) = Len(q) - 1
      /\ DOMAIN t = 1..(Len(q) - 1) /\ Head(q) = q[1]
      /\ \A i \in 1..(Len(q) - 1) : t[i] = q[i + 1]
  BY <1>1
<1>3. \A i \in DOMAIN t : i + 1 \in DOMAIN q /\ t[i] = q[i + 1] /\ i \in Nat
  BY <1>2
<1>4. \A j \in DOMAIN q : j # 1 => j - 1 \in DOMAIN t /\ q[j] = t[j - 1] /\ j \in Nat
  BY <1>2
<1>5. 1 \in DOMAIN q
  BY <1>2
<1>6. Ordered(t, C, E)
  <2>1. \A i, j \in DOMAIN t : t[i] \in C /\ t[j] \in C => i = j
    BY <1>3 DEF Ordered
  <2>2. \A i, j \in DOMAIN t : t[i] \in E /\ t[j] \in E => i = j
    BY <1>3 DEF Ordered
  <2>3. ASSUME NEW i \in DOMAIN t, t[i] \in C PROVE \E j \in DOMAIN t : i < j /\ t[j] \in E
    <3>1. PICK j \in DOMAIN q : i + 1 < j /\ q[j] \in E
      BY <1>3, <2>3 DEF Ordered
    <3>2. j # 1 /\ j \in Nat /\ i < j - 1
      BY <1>2, <1>3, <3>1
    <3> QED BY <1>4, <3>1, <3>2
  <2> QED BY <2>1, <2>2, <2>3 DEF Ordered
<1>7. ASSUME Head(q) \in C PROVE ~Owes(q, C, E) /\ Owes(t, C, E)
  <2>1. PICK j \in DOMAIN q : 1 < j /\ q[j] \in E
    BY <1>2, <1>5, <1>7 DEF Ordered
  <2>2. \A i \in DOMAIN t : t[i] \notin C
    <3> SUFFICES ASSUME NEW i \in DOMAIN t, t[i] \in C PROVE FALSE
      OBVIOUS
    <3>1. i + 1 = 1
      BY <1>2, <1>3, <1>5, <1>7 DEF Ordered
    <3> QED BY <1>2, <3>1
  <2>3. j # 1
    BY <1>2, <2>1
  <2> QED BY <1>2, <1>4, <1>5, <1>7, <2>1, <2>2, <2>3 DEF Owes
<1>8. ASSUME Head(q) \in E PROVE Owes(q, C, E) /\ ~Owes(t, C, E)
  <2>1. \A i \in DOMAIN t : t[i] \notin E
    <3> SUFFICES ASSUME NEW i \in DOMAIN t, t[i] \in E PROVE FALSE
      OBVIOUS
    <3>1. i + 1 = 1
      BY <1>2, <1>3, <1>5, <1>8 DEF Ordered
    <3> QED BY <1>2, <3>1
  <2>2. \A i \in DOMAIN q : q[i] \notin C
    <3> SUFFICES ASSUME NEW i \in DOMAIN q, q[i] \in C PROVE FALSE
      OBVIOUS
    <3>1. PICK j \in DOMAIN q : i < j /\ q[j] \in E
      BY DEF Ordered
    <3>2. j = 1
      BY <1>2, <1>5, <1>8, <3>1 DEF Ordered
    <3> QED BY <1>2, <3>1, <3>2
  <2> QED BY <1>2, <1>5, <1>8, <2>1, <2>2 DEF Owes
<1>9. ASSUME Head(q) \notin C \cup E PROVE Owes(t, C, E) <=> Owes(q, C, E)
  <2>1. ASSUME NEW X, Head(q) \notin X PROVE (\E i \in DOMAIN t : t[i] \in X) <=> \E i \in DOMAIN q : q[i] \in X
    BY <1>2, <1>3, <1>4, <2>1
  <2>2. (\E i \in DOMAIN t : t[i] \in C) <=> \E i \in DOMAIN q : q[i] \in C
    BY <1>9, <2>1
  <2>3. (\E i \in DOMAIN t : t[i] \in E) <=> \E i \in DOMAIN q : q[i] \in E
    BY <1>9, <2>1
  <2> QED BY <2>2, <2>3 DEF Owes
<1> QED BY <1>1, <1>6, <1>7, <1>8, <1>9

\* A write moves its VU in or out of the ones that owe an effect.
Moved(a, b, v, C, E) ==
    /\ \A u \in Vus : Ordered(b[u], C, E)
    /\ Cardinality(Owing(b, C, E)) \in Nat /\ Cardinality(Owing(a, C, E)) \in Nat
    /\ Cardinality(Owing(b, C, E)) + (IF Head(a[v]) \in E THEN 1 ELSE 0)
         = Cardinality(Owing(a, C, E)) + (IF Head(a[v]) \in C THEN 1 ELSE 0)

LEMMA OweStep ==
    ASSUME NEW W, NEW C \in SUBSET W, NEW E \in SUBSET W, C \cap E = {},
           NEW a \in [Vus -> Seq(W)], NEW v \in Vus, a[v] # << >>,
           \A u \in Vus : Ordered(a[u], C, E), NEW b, b = [a EXCEPT ![v] = Tail(a[v])]
    PROVE  Moved(a, b, v, C, E)
<1>1. /\ Ordered(Tail(a[v]), C, E)
      /\ Head(a[v]) \in C => ~Owes(a[v], C, E) /\ Owes(Tail(a[v]), C, E)
      /\ Head(a[v]) \in E => Owes(a[v], C, E) /\ ~Owes(Tail(a[v]), C, E)
      /\ Head(a[v]) \notin C \cup E => (Owes(Tail(a[v]), C, E) <=> Owes(a[v], C, E))
  BY OwesTail
<1>2. b[v] = Tail(a[v]) /\ \A u \in Vus \ {v} : b[u] = a[u]
  OBVIOUS
<1>3. \A u \in Vus : Ordered(b[u], C, E)
  BY <1>1, <1>2
<1> DEFINE A == Owing(a, C, E)
           B == Owing(b, C, E)
<1>4. IsFiniteSet(A) /\ IsFiniteSet(B) /\ Cardinality(A) \in Nat /\ Cardinality(B) \in Nat
  <2>1. A \in SUBSET Vus /\ B \in SUBSET Vus
    BY DEF Owing
  <2> QED BY <2>1, VusAssumption, FS_Subset, FS_CardinalityType
<1>5. CASE Head(a[v]) \in C
  <2>1. v \notin A /\ B = A \cup {v} /\ Head(a[v]) \notin E
    BY <1>1, <1>2, <1>5 DEF Owing
  <2>2. Cardinality(B) = Cardinality(A) + 1
    <3>1. IsFiniteSet(A) /\ v \notin A /\ B = A \cup {v}
      BY <1>4, <2>1
    <3> HIDE DEF A, B
    <3> QED BY <3>1, FS_AddElement
  <2>3. (IF Head(a[v]) \in C THEN 1 ELSE 0) = 1 /\ (IF Head(a[v]) \in E THEN 1 ELSE 0) = 0
    BY <1>5, <2>1
  <2> HIDE DEF A, B
  <2> QED BY <1>3, <1>4, <2>2, <2>3 DEF A, B, Moved
<1>6. CASE Head(a[v]) \in E
  <2>1. v \in A /\ B = A \ {v} /\ Head(a[v]) \notin C
    BY <1>1, <1>2, <1>6 DEF Owing
  <2>2. Cardinality(B) = Cardinality(A) - 1
    <3>1. IsFiniteSet(A) /\ v \in A /\ B = A \ {v}
      BY <1>4, <2>1
    <3> HIDE DEF A, B
    <3> QED BY <3>1, FS_RemoveElement
  <2>3. (IF Head(a[v]) \in C THEN 1 ELSE 0) = 0 /\ (IF Head(a[v]) \in E THEN 1 ELSE 0) = 1
    BY <1>6, <2>1
  <2> HIDE DEF A, B
  <2> QED BY <1>3, <1>4, <2>2, <2>3 DEF A, B, Moved
<1>7. CASE Head(a[v]) \notin C \cup E
  <2>1. B = A
    BY <1>1, <1>2, <1>7 DEF Owing
  <2> QED BY <1>3, <1>4, <1>7, <2>1 DEF Moved
<1> QED BY <1>5, <1>6, <1>7

-----------------------------------------------------------------------------
(* What the maps of a snapshot sum up.                                     *)

Fed(f, m) == SumFunctionOnSet(f, Sources(f, m))

LEMMA FedUpdate ==
  ASSUME NEW f, NEW g, NEW k, NEW d \in Int, IsFiniteSet(DOMAIN f), DOMAIN g = DOMAIN f \cup {k},
         \A x \in DOMAIN f : f[x] \in Int, \A x \in DOMAIN f \ {k} : g[x] = f[x],
         g[k] = (IF k \in DOMAIN f THEN f[k] ELSE 0) + d, NEW m
  PROVE  Fed(g, m) = Fed(f, m) + (IF m \in derive_targets(k) THEN d ELSE 0)
<1> DEFINE F == Sources(g, m)
<1>1. F \in SUBSET DOMAIN g /\ F \cap DOMAIN f = Sources(f, m) /\ (k \in F <=> m \in derive_targets(k))
  BY DEF Sources
<1> HIDE DEF F
<1>2. SumFunctionOnSet(g, F) = SumFunctionOnSet(f, F \cap DOMAIN f) + (IF k \in F THEN d ELSE 0)
  BY <1>1, SumUpdate
<1> QED BY <1>1, <1>2 DEF Fed, F

LEMMA FedNat ==
  ASSUME NEW f, IsFiniteSet(DOMAIN f), \A k \in DOMAIN f : f[k] \in Nat, NEW m
  PROVE  Fed(f, m) \in Nat
<1>1. Sources(f, m) \in SUBSET DOMAIN f
  BY DEF Sources
<1>2. IsFiniteSet(Sources(f, m))
  BY <1>1, FS_Subset
<1> QED BY <1>1, <1>2, SumNat DEF Fed

\* No source, no sum; and a target has a source.
LEMMA FedNone ==
  ASSUME NEW f, NEW m, m \notin Targets(f)
  PROVE  Fed(f, m) = 0
<1>1. Sources(f, m) = {} /\ IsFiniteSet({})
  BY FS_EmptySet DEF Sources, Targets
<1> QED BY <1>1, SumStep DEF Fed

LEMMA FieldFed ==
  ASSUME NEW f, NEW field, NEW m
  PROVE  /\ DOMAIN Field(f, field) = DOMAIN f /\ \A k \in DOMAIN f : Field(f, field)[k] = f[k][field]
         /\ Sources(Field(f, field), m) = Sources(f, m)
BY DEF Field, Sources

LEMMA DerivedCounter ==
  ASSUME NEW f, NEW m
  PROVE  Value(derive_counters(f), m) = Fed(f, m)
<1>1. CASE m \in Targets(f)
  BY <1>1 DEF Value, derive_counters, Fed
<1>2. CASE m \notin Targets(f)
  BY <1>2, FedNone DEF Value, derive_counters
<1> QED BY <1>1, <1>2

LEMMA DerivedRate ==
  ASSUME NEW f, NEW m
  PROVE  Total(derive_rates(f), m) = Fed(Field(f, "total"), m)
<1>1. CASE m \in Targets(f)
  BY <1>1, FieldFed DEF Total, derive_rates, Fed
<1>2. CASE m \notin Targets(f)
  <2>1. m \notin Targets(Field(f, "total"))
    BY <1>2, FieldFed DEF Targets
  <2> QED BY <1>2, <2>1, FedNone DEF Total, derive_rates
<1> QED BY <1>1, <1>2

LEMMA DerivedTrend ==
  ASSUME NEW f, IsFiniteSet(DOMAIN f), \A k \in DOMAIN f : f[k].count \in Nat, NEW m
  PROVE  Count(derive_trends(f), m) = Fed(Field(f, "count"), m)
<1>1. CASE m \in Targets(f)
  <2>1. Sources(f, m) \in SUBSET DOMAIN f
    BY DEF Sources
  <2>2. IsFiniteSet(Sources(f, m))
    BY <2>1, FS_Subset
  <2>3. MergeTrends(f, Sources(f, m)).count = SumFunctionOnSet(Field(f, "count"), Sources(f, m))
    BY <2>1, <2>2, MergeCount
  <2>4. Count(derive_trends(f), m) = MergeTrends(f, Sources(f, m)).count
    BY <1>1 DEF Count, derive_trends
  <2> QED BY <2>3, <2>4, FieldFed DEF Fed
<1>2. CASE m \notin Targets(f)
  <2>1. m \notin Targets(Field(f, "count"))
    BY <1>2, FieldFed DEF Targets
  <2> QED BY <1>2, <2>1, FedNone DEF Count, derive_trends
<1> QED BY <1>1, <1>2

-----------------------------------------------------------------------------
(* The writes of the recorders.                                            *)

\* The last seven writes of a request.
HttpTimings(tags, x) ==
    <<Trend(<<"http_req_duration">>, tags, x), Trend(<<"http_req_blocked">>, tags, 0),
      Trend(<<"http_req_connecting">>, tags, x), Trend(<<"http_req_tls_handshaking">>, tags, 0),
      Trend(<<"http_req_sending">>, tags, x), Trend(<<"http_req_waiting">>, tags, x),
      Trend(<<"http_req_receiving">>, tags, x)>>

Joined(s, a, b, c, S) ==
    /\ s \in Seq(S) /\ Len(s) = Len(a) + Len(b) + Len(c)
    /\ \A i \in 1..Len(a) : s[i] = a[i]
    /\ \A i \in 1..Len(b) : s[Len(a) + i] = b[i]
    /\ \A i \in 1..Len(c) : s[Len(a) + Len(b) + i] = c[i]

LEMMA Concat3 ==
    ASSUME NEW S, NEW a \in Seq(S), NEW b \in Seq(S), NEW c \in Seq(S)
    PROVE  Joined(a \o b \o c, a, b, c, S)
<1>0. ASSUME NEW p \in Seq(S), NEW q \in Seq(S)
      PROVE  /\ p \o q \in Seq(S) /\ Len(p \o q) = Len(p) + Len(q) /\ Len(p) \in Nat /\ Len(q) \in Nat
             /\ \A i \in 1..(Len(p) + Len(q)) : (p \o q)[i] = IF i <= Len(p) THEN p[i] ELSE q[i - Len(p)]
  OBVIOUS
<1>1. PICK d : d = a \o b
  OBVIOUS
<1>2. /\ d \in Seq(S) /\ Len(d) = Len(a) + Len(b) /\ Len(a) \in Nat /\ Len(b) \in Nat
      /\ \A i \in 1..(Len(a) + Len(b)) : d[i] = IF i <= Len(a) THEN a[i] ELSE b[i - Len(a)]
  BY <1>0, <1>1, Zenon
<1>3. PICK e : e = d \o c
  OBVIOUS
<1>4. /\ e \in Seq(S) /\ Len(e) = Len(d) + Len(c) /\ Len(c) \in Nat
      /\ \A i \in 1..(Len(d) + Len(c)) : e[i] = IF i <= Len(d) THEN d[i] ELSE c[i - Len(d)]
  BY <1>0, <1>2, <1>3, Zenon
<1>5. ASSUME NEW i \in 1..Len(a) PROVE e[i] = a[i]
  <2>1. i \in 1..(Len(d) + Len(c)) /\ i <= Len(d) /\ i \in 1..(Len(a) + Len(b)) /\ i <= Len(a)
    BY <1>2, <1>4
  <2> QED BY <1>2, <1>4, <2>1
<1>6. ASSUME NEW i \in 1..Len(b) PROVE e[Len(a) + i] = b[i]
  <2>1. Len(a) + i \in 1..(Len(a) + Len(b)) /\ ~(Len(a) + i <= Len(a)) /\ (Len(a) + i) - Len(a) = i
    BY <1>2
  <2>2. Len(a) + i \in 1..(Len(d) + Len(c)) /\ Len(a) + i <= Len(d)
    BY <1>2, <1>4
  <2> QED BY <1>2, <1>4, <2>1, <2>2
<1>7. ASSUME NEW i \in 1..Len(c) PROVE e[Len(a) + Len(b) + i] = c[i]
  <2>1. Len(d) + i \in 1..(Len(d) + Len(c)) /\ ~(Len(d) + i <= Len(d)) /\ (Len(d) + i) - Len(d) = i
    BY <1>2, <1>4
  <2> QED BY <1>2, <1>4, <2>1
<1>8. e \in Seq(S) /\ Len(e) = Len(a) + Len(b) + Len(c) /\ Len(a) + Len(b) = Len(d)
  BY <1>2, <1>4
<1>9. Joined(e, a, b, c, S)
  BY <1>5, <1>6, <1>7, <1>8 DEF Joined
<1> QED BY <1>1, <1>3, <1>9

\* A request: its count, its verdict if it has one, its timings.
HttpWrites(c, tags, x) ==
    \E n \in {1, 2} :
       /\ \E S : c \in Seq(S)
       /\ Len(c) = n + 7 /\ c[1] = Counter(<<"http_reqs">>, tags, 1)
       /\ n = 2 => c[2].op = "rate" /\ c[2].name = <<"http_req_failed">> /\ c[2].tags = tags
       /\ \A i \in 1..7 : c[n + i] = HttpTimings(tags, x)[i]

LEMMA HttpCall ==
    ASSUME NEW tags, NEW x, NEW failed \in {<< >>, <<TRUE>>, <<FALSE>>}, NEW c, c = record_http_request(tags, failed, x)
    PROVE  HttpWrites(c, tags, x)
<1> DEFINE a == <<Counter(<<"http_reqs">>, tags, 1)>>
           b == [i \in DOMAIN failed |-> Rate(<<"http_req_failed">>, tags, failed[i])]
           t == HttpTimings(tags, x)
<1>1. c = a \o b \o t
  BY DEF record_http_request, HttpTimings
<1>2. Len(t) = 7 /\ Len(a) = 1 /\ a[1] = Counter(<<"http_reqs">>, tags, 1)
  BY DEF HttpTimings
<1>3. CASE failed = << >>
  <2>1. b = << >>
    BY <1>3
  <2>2. PICK S : S = {a[1], t[1], t[2], t[3], t[4], t[5], t[6], t[7]}
    OBVIOUS
  <2>3. a \in Seq(S) /\ b \in Seq(S) /\ t \in Seq(S) /\ Len(b) = 0
    BY <2>1, <2>2 DEF HttpTimings
  <2> HIDE DEF a, b, t
  <2>c. Joined(c, a, b, t, S)
    BY <1>1, <2>3, Concat3
  <2>4. c \in Seq(S) /\ Len(c) = Len(a) + Len(b) + Len(t)
    BY <2>c DEF Joined
  <2>5. \A i \in 1..Len(a) : c[i] = a[i]
    BY <2>c DEF Joined
  <2>6. \A i \in 1..Len(t) : c[Len(a) + Len(b) + i] = t[i]
    BY <2>c DEF Joined
  <2>7. Len(a) + Len(b) = 1 /\ Len(c) = 1 + 7
    BY <1>2, <2>3, <2>4
  <2>8. c[1] = a[1] /\ \A i \in 1..7 : c[1 + i] = t[i]
    BY <1>2, <2>5, <2>6, <2>7
  <2>9. 1 \in {1, 2} /\ 1 # 2
    OBVIOUS
  <2> QED BY <1>2, <2>4, <2>7, <2>8, <2>9, Zenon DEF t, HttpWrites
<1>4. ASSUME NEW v, failed = <<v>> PROVE HttpWrites(c, tags, x)
  <2>0. PICK r : r = Rate(<<"http_req_failed">>, tags, v)
    OBVIOUS
  <2>1. b = <<r>>
    BY <1>4, <2>0
  <2>2. PICK S : S = {a[1], r, t[1], t[2], t[3], t[4], t[5], t[6], t[7]}
    OBVIOUS
  <2>3. a \in Seq(S) /\ b \in Seq(S) /\ t \in Seq(S)
    BY <2>1, <2>2 DEF HttpTimings
  <2>b. Len(b) = 1 /\ b[1] = r
    BY <2>1
  <2>r. r.op = "rate" /\ r.tags = tags /\ r.name = <<"http_req_failed">>
    BY <2>0 DEF Rate, Tagged
  <2> HIDE DEF a, b, t
  <2>c. Joined(c, a, b, t, S)
    BY <1>1, <2>3, Concat3
  <2>4. c \in Seq(S) /\ Len(c) = Len(a) + Len(b) + Len(t)
    BY <2>c DEF Joined
  <2>5. \A i \in 1..Len(a) : c[i] = a[i]
    BY <2>c DEF Joined
  <2>6. \A i \in 1..Len(b) : c[Len(a) + i] = b[i]
    BY <2>c DEF Joined
  <2>7. \A i \in 1..Len(t) : c[Len(a) + Len(b) + i] = t[i]
    BY <2>c DEF Joined
  <2>8. Len(a) + Len(b) = 2 /\ Len(a) + 1 = 2 /\ Len(c) = 2 + 7
    BY <1>2, <2>b, <2>4
  <2>9. c[1] = a[1] /\ c[2] = r /\ \A i \in 1..7 : c[2 + i] = t[i]
    BY <1>2, <2>b, <2>5, <2>6, <2>7, <2>8
  <2>10. 2 \in {1, 2}
    OBVIOUS
  <2> QED BY <1>2, <2>4, <2>8, <2>9, <2>10, <2>r, Zenon DEF t, HttpWrites
<1> QED BY <1>3, <1>4

\* The metrics of the summary's sections, by the type that records them.
SectionOf(op) ==
    CASE op = "counter" -> DataNames \cup {<<"http_reqs">>, <<"iterations">>, <<"dropped_iterations">>}
      [] op = "rate" -> {<<"checks">>} \cup HttpOrder
      [] op = "trend" -> HttpOrder \cup {<<"iteration_duration">>}
      [] OTHER -> Printed

\* What holds of every write a recorder makes.
Shape(w) ==
    /\ w.op \in Stored \cup {"check", "group", "group_duration", "contains"}
    /\ w.op \in Stored /\ w.name \in Printed => w.name \in SectionOf(w.op)
    /\ w.op = "counter" => w.x \in Nat
    /\ w.op = "counter" /\ w.name \in {<<"http_reqs">>, <<"iterations">>} => w.x = 1
    /\ w.op = "counter" /\ w.name = <<"dropped_iterations">> => w.x > 0
    /\ w.op \in {"check", "group", "group_duration"} => w.path \in Seq(STRING)
    /\ w.op = "check" => w.x \in BOOLEAN

\* The metrics that are causes or effects of one another.
Linked == {<<"checks">>, <<"http_reqs">>, <<"http_req_duration">>, <<"http_req_receiving">>,
           <<"iterations">>, <<"iteration_duration">>}
Quiet(w) == w.op # "check" /\ (w.op \in Stored => w.name \notin Linked)

CheckCall(c) ==
    \E a, b : /\ c = <<a, b>> /\ a.op = "check" /\ b.op = "rate" /\ b.name = <<"checks">>
              /\ b.tags = << >>
IterationCall(c) ==
    \E a, b : /\ c = <<a, b>> /\ a.op = "counter" /\ a.name = <<"iterations">>
              /\ b.op = "trend" /\ b.name = <<"iteration_duration">> /\ a.tags = b.tags
RequestCall(c) ==
    \E n \in {1, 2} :
       /\ Len(c) = n + 7
       /\ c[1].op = "counter" /\ c[1].name = <<"http_reqs">>
       /\ c[n + 1].op = "trend" /\ c[n + 1].name = <<"http_req_duration">>
       /\ c[n + 7].op = "trend" /\ c[n + 7].name = <<"http_req_receiving">>
       /\ c[1].tags = c[n + 1].tags /\ c[n + 1].tags = c[n + 7].tags
       /\ \A i \in DOMAIN c : i \in {1, n + 1, n + 7} \/ Quiet(c[i])

LEMMA TaggedFields ==
    ASSUME NEW op, NEW name, NEW tags, NEW x
    PROVE  /\ Tagged(op, name, tags, x).op = op /\ Tagged(op, name, tags, x).name = name
           /\ Tagged(op, name, tags, x).tags = tags /\ Tagged(op, name, tags, x).x = x
BY DEF Tagged

LEMMA NameSections ==
    /\ Linked \subseteq Printed
    /\ \A n \in HttpOrder : n \in SectionOf("rate") /\ n \in SectionOf("trend") /\ n \in Printed
    /\ SectionOf("counter") = DataNames \cup {<<"http_reqs">>, <<"iterations">>, <<"dropped_iterations">>}
    /\ <<"checks">> \in SectionOf("rate") /\ <<"iteration_duration">> \in SectionOf("trend")
    /\ SectionOf("gauge") = Printed
BY DEF SectionOf, Linked, Printed, HttpOrder, DataNames

\* A call of one stored write that is not linked to another.
LEMMA LoneCall ==
    ASSUME NEW op \in Stored, NEW name, NEW tags, NEW x,
           name \in Printed => name \in SectionOf(op), name \notin Linked,
           op = "counter" => x \in Nat, op = "counter" /\ name = <<"dropped_iterations">> => x > 0
    PROVE  Shape(Tagged(op, name, tags, x)) /\ Quiet(Tagged(op, name, tags, x))
<1>1. PICK w : w = Tagged(op, name, tags, x)
  OBVIOUS
<1>2. w.op = op /\ w.name = name /\ w.x = x
  BY <1>1, TaggedFields
<1>3. name \notin {<<"http_reqs">>, <<"iterations">>}
  BY DEF Linked
<1>4. Shape(w)
  BY <1>2, <1>3 DEF Shape, Stored
<1>5. Quiet(w)
  BY <1>2 DEF Quiet, Stored
<1> QED BY <1>1, <1>4, <1>5

Quietly(c) == (\E S : c \in Seq(S)) /\ \A i \in DOMAIN c : Shape(c[i]) /\ Quiet(c[i])

LEMMA QuietCalls ==
    /\ Quietly(<< >>)
    /\ \A a : Shape(a) /\ Quiet(a) => Quietly(<<a>>)
    /\ \A a, b : Shape(a) /\ Quiet(a) /\ Shape(b) /\ Quiet(b) => Quietly(<<a, b>>)
<1>1. Quietly(<< >>)
  BY DEF Quietly
<1>2. ASSUME NEW a, Shape(a), Quiet(a) PROVE Quietly(<<a>>)
  <2>1. <<a>> \in Seq({a}) /\ DOMAIN <<a>> = {1} /\ <<a>>[1] = a
    OBVIOUS
  <2> QED BY <1>2, <2>1 DEF Quietly
<1>3. ASSUME NEW a, NEW b, Shape(a), Quiet(a), Shape(b), Quiet(b) PROVE Quietly(<<a, b>>)
  <2>1. <<a, b>> \in Seq({a, b}) /\ DOMAIN <<a, b>> = {1, 2} /\ <<a, b>>[1] = a /\ <<a, b>>[2] = b
    OBVIOUS
  <2> QED BY <1>3, <2>1 DEF Quietly
<1> QED BY <1>1, <1>2, <1>3

\* The names of the recorders that have no effect of their own.
LoneNames(op) ==
    CASE op = "counter" -> DataNames \cup {<<"dropped_iterations">>, <<"ws_sessions">>, <<"ws_msgs_sent">>,
                                           <<"ws_msgs_received">>, <<"grpc_reqs">>}
      [] op = "trend" -> {<<"group_duration">>, <<"ws_session_duration">>, <<"ws_connecting">>, <<"ws_ping">>,
                          <<"grpc_req_duration">>}
      [] OTHER -> {<<"vus">>, <<"vus_max">>}

LEMMA LoneNamesFit ==
    ASSUME NEW op \in {"counter", "gauge", "trend"}, NEW name \in LoneNames(op)
    PROVE  (name \in Printed => name \in SectionOf(op)) /\ name \notin Linked
<1>1. CASE op = "counter"
  BY <1>1 DEF LoneNames, SectionOf, Linked, Printed, HttpOrder, DataNames
<1>2. CASE op = "trend"
  BY <1>2 DEF LoneNames, SectionOf, Linked, Printed, HttpOrder, DataNames
<1>3. CASE op = "gauge"
  BY <1>3 DEF LoneNames, SectionOf, Linked, Printed, HttpOrder, DataNames
<1> QED BY <1>1, <1>2, <1>3

LEMMA LoneWrite ==
    ASSUME NEW op \in {"counter", "gauge", "trend"}, NEW name \in LoneNames(op), NEW tags, NEW x,
           op = "counter" => x \in Nat, op = "counter" /\ name = <<"dropped_iterations">> => x > 0
    PROVE  Shape(Tagged(op, name, tags, x)) /\ Quiet(Tagged(op, name, tags, x))
<1>1. op \in Stored
  BY DEF Stored
<1>2. (name \in Printed => name \in SectionOf(op)) /\ name \notin Linked
  BY LoneNamesFit
<1> QED BY <1>1, <1>2, LoneCall

LEMMA GroupWrites ==
    ASSUME NEW path \in Seq(STRING), NEW x
    PROVE  /\ Shape([op |-> "group", path |-> path]) /\ Quiet([op |-> "group", path |-> path])
           /\ Shape([op |-> "group_duration", path |-> path, x |-> x])
           /\ Quiet([op |-> "group_duration", path |-> path, x |-> x])
<1>1. PICK g, d : g = [op |-> "group", path |-> path] /\ d = [op |-> "group_duration", path |-> path, x |-> x]
  OBVIOUS
<1>2. g.op = "group" /\ g.path = path /\ d.op = "group_duration" /\ d.path = path
  BY <1>1
<1> QED BY <1>1, <1>2 DEF Shape, Quiet, Stored

LEMMA CountCalls ==
    ASSUME NEW n \in Nat
    PROVE  \A c \in {set_vus(n), set_vus_max(n), record_data_sent(n), record_data_received(n),
                     record_dropped_iterations(n)} : Quietly(c)
<1>1. Quietly(set_vus(n)) /\ Quietly(set_vus_max(n))
  <2>1. <<"vus">> \in LoneNames("gauge") /\ <<"vus_max">> \in LoneNames("gauge")
    BY DEF LoneNames
  <2>2. \A m \in {<<"vus">>, <<"vus_max">>} : Shape(Gauge(m, n)) /\ Quiet(Gauge(m, n))
    BY <2>1, LoneWrite DEF Gauge
  <2> QED BY <2>2, QuietCalls DEF set_vus, set_vus_max
<1>2. Quietly(record_data_sent(n)) /\ Quietly(record_data_received(n))
  <2>1. <<"data_sent">> \in LoneNames("counter") /\ <<"data_received">> \in LoneNames("counter")
    BY DEF LoneNames, DataNames
  <2>2. \A m \in {<<"data_sent">>, <<"data_received">>} : Shape(Counter(m, << >>, n)) /\ Quiet(Counter(m, << >>, n))
    BY <2>1, LoneWrite DEF Counter
  <2> QED BY <2>2, QuietCalls DEF record_data_sent, record_data_received
<1>3. Quietly(record_dropped_iterations(n))
  <2>1. <<"dropped_iterations">> \in LoneNames("counter")
    BY DEF LoneNames
  <2>2. n > 0 => Shape(Counter(<<"dropped_iterations">>, << >>, n)) /\ Quiet(Counter(<<"dropped_iterations">>, << >>, n))
    BY <2>1, LoneWrite DEF Counter
  <2> QED BY <2>2, QuietCalls DEF record_dropped_iterations
<1> QED BY <1>1, <1>2, <1>3

LEMMA SessionCalls ==
    ASSUME NEW tags, NEW x \in Nat
    PROVE  \A c \in {record_ws_session(tags, x), record_ws_connecting(tags, x), record_ws_msg_sent(tags),
                     record_ws_msg_received(tags), record_ws_ping(tags, x), record_grpc_request(tags, x)} :
              Quietly(c)
<1>1. \A m \in LoneNames("trend") : Shape(Trend(m, tags, x)) /\ Quiet(Trend(m, tags, x))
  BY LoneWrite DEF Trend
<1>2. \A m \in {<<"ws_sessions">>, <<"ws_msgs_sent">>, <<"ws_msgs_received">>, <<"grpc_reqs">>} :
         Shape(Counter(m, tags, 1)) /\ Quiet(Counter(m, tags, 1))
  <2>1. \A m \in {<<"ws_sessions">>, <<"ws_msgs_sent">>, <<"ws_msgs_received">>, <<"grpc_reqs">>} :
           m \in LoneNames("counter") /\ m # <<"dropped_iterations">>
    BY DEF LoneNames
  <2> QED BY <2>1, LoneWrite DEF Counter
<1>3. /\ <<"ws_session_duration">> \in LoneNames("trend") /\ <<"ws_connecting">> \in LoneNames("trend")
      /\ <<"ws_ping">> \in LoneNames("trend") /\ <<"grpc_req_duration">> \in LoneNames("trend")
  BY DEF LoneNames
<1>4. Quietly(record_ws_session(tags, x)) /\ Quietly(record_grpc_request(tags, x))
  BY <1>1, <1>2, <1>3, QuietCalls DEF record_ws_session, record_grpc_request
<1>5. Quietly(record_ws_connecting(tags, x)) /\ Quietly(record_ws_ping(tags, x))
  BY <1>1, <1>3, QuietCalls DEF record_ws_connecting, record_ws_ping
<1>6. Quietly(record_ws_msg_sent(tags)) /\ Quietly(record_ws_msg_received(tags))
  BY <1>2, QuietCalls DEF record_ws_msg_sent, record_ws_msg_received
<1> QED BY <1>4, <1>5, <1>6

LEMMA GroupCalls ==
    ASSUME NEW path \in Seq(STRING), NEW x \in Nat
    PROVE  Quietly(group_enter(path)) /\ Quietly(record_group_duration(path, x))
<1>1. <<"group_duration">> \in LoneNames("trend")
  BY DEF LoneNames
<1>2. Shape(Trend(<<"group_duration">>, << >>, x)) /\ Quiet(Trend(<<"group_duration">>, << >>, x))
  BY <1>1, LoneWrite DEF Trend
<1> QED BY <1>2, GroupWrites, QuietCalls DEF group_enter, record_group_duration

LEMMA CustomCalls ==
    ASSUME NEW kind \in {"counter", "gauge", "rate", "trend", "trend_time"}, NEW name, name \notin Printed,
           NEW x \in Nat
    PROVE  Quietly(custom_metric(kind, name, x))
<1>1. PICK a : a = [op |-> "contains", name |-> name, x |-> IF kind = "trend_time" THEN "time" ELSE "default"]
  OBVIOUS
<1>2. Shape(a) /\ Quiet(a)
  <2>1. a.op = "contains"
    BY <1>1
  <2> QED BY <2>1 DEF Shape, Quiet, Stored
<1>3. PICK b : b = CASE kind \in {"trend", "trend_time"} -> Trend(name, << >>, x)
                     [] kind = "counter" -> Counter(name, << >>, IF x = 0 THEN 1 ELSE x)
                     [] kind = "rate"    -> Rate(name, << >>, x # 0)
                     [] OTHER            -> Gauge(name, x)
  OBVIOUS
<1>4. custom_metric(kind, name, x) = <<a, b>>
  BY <1>1, <1>3 DEF custom_metric
<1>5. name \notin Linked /\ name # <<"dropped_iterations">>
  BY NameSections DEF Printed
<1>6. \A op \in Stored : \A y : (op = "counter" => y \in Nat) =>
         Shape(Tagged(op, name, << >>, y)) /\ Quiet(Tagged(op, name, << >>, y))
  BY <1>5, LoneCall
<1>7. "counter" \in Stored /\ "gauge" \in Stored /\ "rate" \in Stored /\ "trend" \in Stored
  BY DEF Stored
<1>8. Shape(b) /\ Quiet(b)
  <2>1. CASE kind \in {"trend", "trend_time"}
    BY <1>3, <1>6, <1>7, <2>1 DEF Trend
  <2>2. CASE kind = "counter"
    <3>1. (IF x = 0 THEN 1 ELSE x) \in Nat
      OBVIOUS
    <3> QED BY <1>3, <1>6, <1>7, <2>2, <3>1 DEF Counter
  <2>3. CASE kind = "rate"
    BY <1>3, <1>6, <1>7, <2>3 DEF Rate
  <2>4. CASE kind = "gauge"
    BY <1>3, <1>6, <1>7, <2>4 DEF Gauge
  <2> QED BY <2>1, <2>2, <2>3, <2>4
<1> QED BY <1>2, <1>4, <1>8, QuietCalls

Shaped(c) == (\E S : c \in Seq(S)) /\ \A i \in DOMAIN c : Shape(c[i])

LEMMA PairShaped ==
    ASSUME NEW a, NEW b, Shape(a), Shape(b)
    PROVE  Shaped(<<a, b>>)
<1>1. <<a, b>> \in Seq({a, b}) /\ DOMAIN <<a, b>> = {1, 2} /\ <<a, b>>[1] = a /\ <<a, b>>[2] = b
  OBVIOUS
<1> QED BY <1>1 DEF Shaped

LEMMA CheckCalls ==
    ASSUME NEW path \in Seq(STRING), NEW name, NEW passed \in BOOLEAN
    PROVE  CheckCall(record_check(path, name, passed)) /\ Shaped(record_check(path, name, passed))
<1>1. PICK a : a = [op |-> "check", path |-> path, name |-> name, x |-> passed]
  OBVIOUS
<1>2. a.op = "check" /\ a.path = path /\ a.x = passed
  BY <1>1
<1>3. Shape(a)
  BY <1>2 DEF Shape, Stored
<1>4. PICK b : b = Rate(<<"checks">>, << >>, passed)
  OBVIOUS
<1>5. b.op = "rate" /\ b.name = <<"checks">> /\ b.tags = << >>
  BY <1>4, TaggedFields DEF Rate
<1>6. Shape(b)
  BY <1>5, NameSections DEF Shape, Stored
<1>7. record_check(path, name, passed) = <<a, b>>
  BY <1>1, <1>4 DEF record_check
<1> QED BY <1>2, <1>3, <1>5, <1>6, <1>7, PairShaped DEF CheckCall

LEMMA IterationCalls ==
    ASSUME NEW x
    PROVE  IterationCall(record_iteration(x)) /\ Shaped(record_iteration(x))
<1>1. PICK a : a = Counter(<<"iterations">>, << >>, 1)
  OBVIOUS
<1>2. a.op = "counter" /\ a.name = <<"iterations">> /\ a.tags = << >> /\ a.x = 1
  BY <1>1, TaggedFields DEF Counter
<1>3. Shape(a)
  BY <1>2, NameSections DEF Shape, Stored
<1>4. PICK b : b = Trend(<<"iteration_duration">>, << >>, x)
  OBVIOUS
<1>5. b.op = "trend" /\ b.name = <<"iteration_duration">> /\ b.tags = << >>
  BY <1>4, TaggedFields DEF Trend
<1>6. Shape(b)
  BY <1>5, NameSections DEF Shape, Stored
<1>7. record_iteration(x) = <<a, b>>
  BY <1>1, <1>4 DEF record_iteration
<1> QED BY <1>2, <1>3, <1>5, <1>6, <1>7, PairShaped DEF IterationCall

\* The timings of a request, one by one.
LEMMA Timings ==
    ASSUME NEW tags, NEW x, NEW t, t = HttpTimings(tags, x)
    PROVE  /\ \A i \in 1..7 : t[i].op = "trend" /\ t[i].tags = tags /\ t[i].name \in HttpOrder
           /\ t[1].name = <<"http_req_duration">> /\ t[7].name = <<"http_req_receiving">>
           /\ \A i \in 2..6 : t[i].name \notin Linked
<1>1. \A m, y : Trend(m, tags, y).op = "trend" /\ Trend(m, tags, y).tags = tags /\ Trend(m, tags, y).name = m
  BY TaggedFields DEF Trend
<1>2. /\ t[1] = Trend(<<"http_req_duration">>, tags, x) /\ t[2] = Trend(<<"http_req_blocked">>, tags, 0)
      /\ t[3] = Trend(<<"http_req_connecting">>, tags, x) /\ t[4] = Trend(<<"http_req_tls_handshaking">>, tags, 0)
      /\ t[5] = Trend(<<"http_req_sending">>, tags, x) /\ t[6] = Trend(<<"http_req_waiting">>, tags, x)
      /\ t[7] = Trend(<<"http_req_receiving">>, tags, x)
  BY DEF HttpTimings
<1>3. /\ t[1].name = <<"http_req_duration">> /\ t[2].name = <<"http_req_blocked">>
      /\ t[3].name = <<"http_req_connecting">> /\ t[4].name = <<"http_req_tls_handshaking">>
      /\ t[5].name = <<"http_req_sending">> /\ t[6].name = <<"http_req_waiting">>
      /\ t[7].name = <<"http_req_receiving">>
  BY <1>1, <1>2
<1>4. \A i \in 1..7 : i = 1 \/ i = 2 \/ i = 3 \/ i = 4 \/ i = 5 \/ i = 6 \/ i = 7
  OBVIOUS
<1>5. \A i \in 1..7 : t[i].op = "trend" /\ t[i].tags = tags
  BY <1>1, <1>2, <1>4
<1>6. \A i \in 1..7 : t[i].name \in HttpOrder
  BY <1>3, <1>4 DEF HttpOrder
<1>7. \A i \in 2..6 : i = 2 \/ i = 3 \/ i = 4 \/ i = 5 \/ i = 6
  OBVIOUS
<1>8. \A i \in 2..6 : t[i].name \notin Linked
  BY <1>3, <1>7 DEF Linked
<1> QED BY <1>3, <1>5, <1>6, <1>8

LEMMA RequestCalls ==
    ASSUME NEW tags, NEW failed \in {<< >>, <<TRUE>>, <<FALSE>>}, NEW x, NEW c, c = record_http_request(tags, failed, x)
    PROVE  RequestCall(c) /\ Shaped(c)
<1>0. HttpWrites(c, tags, x)
  BY HttpCall
<1>1. PICK n \in {1, 2} :
         /\ \E S : c \in Seq(S)
         /\ Len(c) = n + 7 /\ c[1] = Counter(<<"http_reqs">>, tags, 1)
         /\ n = 2 => c[2].op = "rate" /\ c[2].name = <<"http_req_failed">> /\ c[2].tags = tags
         /\ \A i \in 1..7 : c[n + i] = HttpTimings(tags, x)[i]
  BY <1>0 DEF HttpWrites
<1>2. PICK t : t = HttpTimings(tags, x)
  OBVIOUS
<1>3. DOMAIN c = 1..(n + 7)
  BY <1>1
<1>4. c[1].op = "counter" /\ c[1].name = <<"http_reqs">> /\ c[1].tags = tags /\ c[1].x = 1
  BY <1>1, TaggedFields DEF Counter
<1>5. /\ \A i \in 1..7 : t[i].op = "trend" /\ t[i].tags = tags /\ t[i].name \in HttpOrder
      /\ t[1].name = <<"http_req_duration">> /\ t[7].name = <<"http_req_receiving">>
      /\ \A i \in 2..6 : t[i].name \notin Linked
  BY <1>2, Timings
<1>6. \A i \in 1..7 : c[n + i] = t[i]
  BY <1>1, <1>2
<1>7. \A i \in 1..(n + 7) : i = 1 \/ (n = 2 /\ i = 2) \/ \E j \in 1..7 : i = n + j
  <2>1. ASSUME NEW i \in 1..(n + 7), i # 1, ~(n = 2 /\ i = 2) PROVE i - n \in 1..7 /\ i = n + (i - n)
    BY <2>1
  <2> QED BY <2>1
<1>8. \A j \in 1..7 : j = 1 \/ j = 7 \/ j \in 2..6
  OBVIOUS
<1>9. n = 2 => c[2].name \in HttpOrder /\ c[2].name \notin Linked
  BY <1>1 DEF HttpOrder, Linked
<1>10. Shape(c[1])
  BY <1>4, NameSections DEF Shape, Stored
<1>11. n = 2 => Shape(c[2]) /\ Quiet(c[2])
  BY <1>1, <1>9, NameSections DEF Shape, Quiet, Stored
<1>12. \A j \in 1..7 : Shape(t[j])
  BY <1>5, NameSections DEF Shape, Stored
<1>13. \A j \in 2..6 : Quiet(t[j])
  BY <1>5, <1>8 DEF Quiet, Stored
<1>14. Shaped(c)
  BY <1>1, <1>3, <1>6, <1>7, <1>10, <1>11, <1>12 DEF Shaped
<1>15. \A i \in DOMAIN c : i \in {1, n + 1, n + 7} \/ Quiet(c[i])
  <2>1. ASSUME NEW j \in 1..7 PROVE n + j \in {1, n + 1, n + 7} \/ Quiet(c[n + j])
    BY <1>6, <1>8, <1>13
  <2> QED BY <1>3, <1>7, <1>11, <2>1
<1>16. c[n + 1] = t[1] /\ c[n + 7] = t[7]
  BY <1>6
<1>17. RequestCall(c)
  <2>1. t[1].op = "trend" /\ t[7].op = "trend" /\ t[1].tags = tags /\ t[7].tags = tags
    BY <1>5
  <2> QED BY <1>1, <1>4, <1>5, <1>15, <1>16, <2>1 DEF RequestCall
<1> QED BY <1>14, <1>17

\* Every call is one of four kinds, and its writes have their shape.
LEMMA CallKinds ==
    ASSUME NEW c, Recorder(c)
    PROVE  /\ Shaped(c)
           /\ Quietly(c) \/ CheckCall(c) \/ IterationCall(c) \/ RequestCall(c)
<1>0. Quietly(c) => Shaped(c)
  BY DEF Quietly, Shaped
<1>1. CASE \E n \in Nat : c \in {set_vus(n), set_vus_max(n), record_data_sent(n), record_data_received(n),
                                 record_dropped_iterations(n), record_iteration(n)}
  BY <1>0, <1>1, CountCalls, IterationCalls
<1>2. CASE \E path \in Seq(STRING), name \in STRING, passed \in BOOLEAN, x \in Nat :
              c \in {record_check(path, name, passed), group_enter(path), record_group_duration(path, x)}
  BY <1>0, <1>2, CheckCalls, GroupCalls
<1>3. CASE \E tags : \E failed \in {<< >>, <<TRUE>>, <<FALSE>>}, x \in Nat :
              c \in {record_http_request(tags, failed, x), record_ws_session(tags, x),
                     record_ws_connecting(tags, x), record_ws_msg_sent(tags), record_ws_msg_received(tags),
                     record_ws_ping(tags, x), record_grpc_request(tags, x)}
  BY <1>0, <1>3, RequestCalls, SessionCalls
<1>4. CASE \E kind \in {"counter", "gauge", "rate", "trend", "trend_time"} : \E name : \E x \in Nat :
              name \notin Printed /\ c = custom_metric(kind, name, x)
  BY <1>0, <1>4, CustomCalls
<1> QED BY <1>1, <1>2, <1>3, <1>4 DEF Recorder

\* A write that reaches the registry as its recorder means it.
Sound(w) == Shape(w) /\ (w.op \in Stored => KeyReadsBack(w))

LEMMA CallWrites ==
    ASSUME Recorders, NEW c \in Calls
    PROVE  /\ c \in Seq(AllWrites) /\ Recorder(c)
           /\ \A i \in DOMAIN c : Sound(c[i])
<1>1. PICK r \in Runs : c \in r.calls
  BY DEF Calls
<1>2. Recorder(c)
  BY <1>1 DEF Recorders
<1>3. Shaped(c)
  BY <1>2, CallKinds
<1>4. \A i \in DOMAIN c : c[i] \in AllWrites
  BY DEF AllWrites
<1>5. \A i \in DOMAIN c : c[i].op \in Stored => KeyReadsBack(c[i])
  BY <1>4, KeysAssumption DEF Stored, SeriesWrites
<1>6. c \in Seq(AllWrites)
  <2>1. PICK S : c \in Seq(S)
    BY <1>3 DEF Shaped
  <2>2. c = [i \in 1..Len(c) |-> c[i]] /\ Len(c) \in Nat /\ DOMAIN c = 1..Len(c)
    BY <2>1
  <2> QED BY <1>4, <2>2
<1> QED BY <1>2, <1>3, <1>5, <1>6 DEF Shaped, Sound

LEMMA WritesSound ==
    ASSUME Recorders, NEW w \in AllWrites
    PROVE  Sound(w)
<1>1. PICK c \in Calls : \E i \in DOMAIN c : w = c[i]
  BY DEF AllWrites
<1> QED BY <1>1, CallWrites

\* The names of metrics have no tags.
LEMMA NoToken ==
    ASSUME NEW n, NEW t, n # t
    PROVE  At(<<n>>, t) = {}
<1>1. Len(<<n>>) = 1 /\ <<n>>[1] = n /\ 1..1 = {1}
  OBVIOUS
<1> QED BY <1>1 DEF At

LEMMA BareNames == \A m \in Linked : ~Braced(m)
<1>1. \A n, t : n # t => At(<<n>>, t) = {}
  BY NoToken
<1>2. /\ "checks" # "{" /\ "http_reqs" # "{" /\ "http_req_duration" # "{"
      /\ "http_req_receiving" # "{" /\ "iterations" # "{" /\ "iteration_duration" # "{"
  BY Zenon
<1>3. /\ At(<<"checks">>, "{") = {} /\ At(<<"http_reqs">>, "{") = {} /\ At(<<"http_req_duration">>, "{") = {}
      /\ At(<<"http_req_receiving">>, "{") = {} /\ At(<<"iterations">>, "{") = {}
      /\ At(<<"iteration_duration">>, "{") = {}
  BY <1>1, <1>2, Zenon
<1>4. /\ ~Braced(<<"checks">>) /\ ~Braced(<<"http_reqs">>) /\ ~Braced(<<"http_req_duration">>)
      /\ ~Braced(<<"http_req_receiving">>) /\ ~Braced(<<"iterations">>) /\ ~Braced(<<"iteration_duration">>)
  BY <1>3, Zenon DEF Braced
<1> QED BY <1>4 DEF Linked

-----------------------------------------------------------------------------
(* The four pairs of a cause and its effect.                               *)

CheckWrites == {w \in AllWrites : w.op = "check"}

\* The writes whose series feed the untagged metric m.
Feeding(op, m) == {w \in AllWrites : w.op = op /\ m \in derive_targets(w.key)}

LEMMA FeedingName ==
    ASSUME Recorders, NEW op \in Stored, NEW m \in Linked, NEW w \in AllWrites
    PROVE  w \in Feeding(op, m) <=> w.op = op /\ w.name = m /\ ~HasComma(w)
<1>1. Sound(w) /\ ~Braced(m)
  BY WritesSound, BareNames
<1>2. w.op = op => (m \in derive_targets(w.key) <=> w.name = m /\ ~HasComma(w))
  BY <1>1, TargetName DEF Sound
<1> QED BY <1>2 DEF Feeding

Pairs == {<<CheckWrites, Feeding("rate", <<"checks">>)>>,
          <<Feeding("counter", <<"http_reqs">>), Feeding("trend", <<"http_req_duration">>)>>,
          <<Feeding("trend", <<"http_req_duration">>), Feeding("trend", <<"http_req_receiving">>)>>,
          <<Feeding("counter", <<"iterations">>), Feeding("trend", <<"iteration_duration">>)>>}

LEMMA PairMembers ==
    ASSUME Recorders, NEW w \in AllWrites
    PROVE  /\ w \in CheckWrites <=> w.op = "check"
           /\ w \in Feeding("rate", <<"checks">>) <=> w.op = "rate" /\ w.name = <<"checks">> /\ ~HasComma(w)
           /\ w \in Feeding("counter", <<"http_reqs">>)
                <=> w.op = "counter" /\ w.name = <<"http_reqs">> /\ ~HasComma(w)
           /\ w \in Feeding("trend", <<"http_req_duration">>)
                <=> w.op = "trend" /\ w.name = <<"http_req_duration">> /\ ~HasComma(w)
           /\ w \in Feeding("trend", <<"http_req_receiving">>)
                <=> w.op = "trend" /\ w.name = <<"http_req_receiving">> /\ ~HasComma(w)
           /\ w \in Feeding("counter", <<"iterations">>)
                <=> w.op = "counter" /\ w.name = <<"iterations">> /\ ~HasComma(w)
           /\ w \in Feeding("trend", <<"iteration_duration">>)
                <=> w.op = "trend" /\ w.name = <<"iteration_duration">> /\ ~HasComma(w)
<1>1. \A op \in Stored, m \in Linked : w \in Feeding(op, m) <=> w.op = op /\ w.name = m /\ ~HasComma(w)
  BY FeedingName
<1>2. {"counter", "rate", "trend"} \subseteq Stored
  BY DEF Stored
<1>3. /\ <<"checks">> \in Linked /\ <<"http_reqs">> \in Linked /\ <<"http_req_duration">> \in Linked
      /\ <<"http_req_receiving">> \in Linked /\ <<"iterations">> \in Linked /\ <<"iteration_duration">> \in Linked
  BY DEF Linked
<1>4. w \in CheckWrites <=> w.op = "check"
  BY DEF CheckWrites
<1> QED BY <1>1, <1>2, <1>3, <1>4

\* No pair has a write that is both cause and effect, nor one that is quiet.
LEMMA PairsApart ==
    ASSUME Recorders, NEW p \in Pairs
    PROVE  /\ p[1] \in SUBSET AllWrites /\ p[2] \in SUBSET AllWrites /\ p[1] \cap p[2] = {}
           /\ \A w \in AllWrites : Quiet(w) => w \notin p[1] \cup p[2]
<1>1. p[1] \in SUBSET AllWrites /\ p[2] \in SUBSET AllWrites
  BY DEF Pairs, CheckWrites, Feeding
<1>2. <<"http_req_duration">> # <<"http_req_receiving">>
  OBVIOUS
<1>3. ASSUME NEW w \in AllWrites PROVE w \notin p[1] \cap p[2]
  BY <1>2, PairMembers DEF Pairs
<1>4. ASSUME NEW w \in AllWrites, Quiet(w) PROVE w \notin p[1] \cup p[2]
  <2>1. w.op # "check" /\ (w.op \in {"counter", "rate", "trend"} => w.name \notin Linked)
    BY <1>4 DEF Quiet, Stored
  <2>2. /\ <<"checks">> \in Linked /\ <<"http_reqs">> \in Linked /\ <<"http_req_duration">> \in Linked
        /\ <<"http_req_receiving">> \in Linked /\ <<"iterations">> \in Linked
        /\ <<"iteration_duration">> \in Linked
    BY DEF Linked
  <2> QED BY <2>1, <2>2, PairMembers DEF Pairs
<1> QED BY <1>1, <1>3, <1>4

LEMMA SameTags ==
    ASSUME NEW a, NEW b
    PROVE  /\ a.tags = b.tags => (HasComma(a) <=> HasComma(b))
           /\ a.tags = << >> => ~HasComma(a)
<1>1. a.tags = b.tags => TagsOf(a) = TagsOf(b)
  BY DEF TagsOf
<1>2. a.tags = << >> => DOMAIN TagsOf(a) = {}
  BY DEF TagsOf
<1> QED BY <1>1, <1>2 DEF HasComma

\* A call that has not begun: it is in order, and owes nothing.
Due(q, C, E) == Ordered(q, C, E) /\ ~Owes(q, C, E)

LEMMA DueNone ==
    ASSUME NEW q, NEW C, NEW E, \A i \in DOMAIN q : q[i] \notin C \cup E
    PROVE  Due(q, C, E)
BY DEF Due, Ordered, Owes

LEMMA DueOne ==
    ASSUME NEW q, NEW C, NEW E, NEW i \in DOMAIN q, NEW j \in DOMAIN q, i < j,
           q[i] \in C <=> q[j] \in E,
           \A k \in DOMAIN q : (q[k] \in C => k = i) /\ (q[k] \in E => k = j)
    PROVE  Due(q, C, E)
BY DEF Due, Ordered, Owes

LEMMA TwoDue ==
    ASSUME NEW a, NEW b, NEW q, q = <<a, b>>, NEW C, NEW E, a \in C <=> b \in E, a \notin E, b \notin C
    PROVE  Due(q, C, E)
<1>1. DOMAIN q = {1, 2} /\ q[1] = a /\ q[2] = b /\ 1 < 2
  OBVIOUS
<1>2. 1 \in DOMAIN q /\ 2 \in DOMAIN q /\ \A k \in DOMAIN q : (q[k] \in C => k = 1) /\ (q[k] \in E => k = 2)
  BY <1>1
<1> QED BY <1>1, <1>2, DueOne

LEMMA CheckDue ==
    ASSUME Recorders, NEW c \in Seq(AllWrites), CheckCall(c), NEW p \in Pairs
    PROVE  Due(c, p[1], p[2])
<1>1. PICK a, b : /\ c = <<a, b>> /\ a.op = "check" /\ b.op = "rate" /\ b.name = <<"checks">>
                  /\ b.tags = << >>
  BY DEF CheckCall
<1>2. a \in AllWrites /\ b \in AllWrites /\ ~HasComma(b)
  <2>1. a = c[1] /\ b = c[2] /\ 1 \in DOMAIN c /\ 2 \in DOMAIN c
    BY <1>1
  <2> QED BY <1>1, <2>1, SameTags
<1>3. (a \in p[1] <=> b \in p[2]) /\ a \notin p[2] /\ b \notin p[1]
  BY <1>1, <1>2, PairMembers DEF Pairs
<1> QED BY <1>1, <1>3, TwoDue

LEMMA IterationDue ==
    ASSUME Recorders, NEW c \in Seq(AllWrites), IterationCall(c), NEW p \in Pairs
    PROVE  Due(c, p[1], p[2])
<1>1. PICK a, b : /\ c = <<a, b>> /\ a.op = "counter" /\ a.name = <<"iterations">>
                  /\ b.op = "trend" /\ b.name = <<"iteration_duration">> /\ a.tags = b.tags
  BY DEF IterationCall
<1>2. a \in AllWrites /\ b \in AllWrites /\ (HasComma(a) <=> HasComma(b))
  <2>1. a = c[1] /\ b = c[2] /\ 1 \in DOMAIN c /\ 2 \in DOMAIN c
    BY <1>1
  <2> QED BY <1>1, <2>1, SameTags
<1>3. <<"iterations">> # <<"http_reqs">> /\ <<"iteration_duration">> # <<"http_req_duration">>
      /\ <<"iteration_duration">> # <<"http_req_receiving">>
  OBVIOUS
<1>4. (a \in p[1] <=> b \in p[2]) /\ a \notin p[2] /\ b \notin p[1]
  BY <1>1, <1>2, <1>3, PairMembers DEF Pairs
<1> QED BY <1>1, <1>4, TwoDue

LEMMA RequestDue ==
    ASSUME Recorders, NEW c \in Seq(AllWrites), RequestCall(c), NEW p \in Pairs
    PROVE  Due(c, p[1], p[2])
<1>1. PICK n \in {1, 2} :
       /\ Len(c) = n + 7
       /\ c[1].op = "counter" /\ c[1].name = <<"http_reqs">>
       /\ c[n + 1].op = "trend" /\ c[n + 1].name = <<"http_req_duration">>
       /\ c[n + 7].op = "trend" /\ c[n + 7].name = <<"http_req_receiving">>
       /\ c[1].tags = c[n + 1].tags /\ c[n + 1].tags = c[n + 7].tags
       /\ \A i \in DOMAIN c : i \in {1, n + 1, n + 7} \/ Quiet(c[i])
  BY DEF RequestCall
<1>2. /\ 1 \in DOMAIN c /\ n + 1 \in DOMAIN c /\ n + 7 \in DOMAIN c
      /\ \A i \in DOMAIN c : c[i] \in AllWrites
      /\ 1 < n + 1 /\ n + 1 < n + 7
  BY <1>1
<1>3. (HasComma(c[1]) <=> HasComma(c[n + 1])) /\ (HasComma(c[n + 1]) <=> HasComma(c[n + 7]))
  BY <1>1, SameTags
<1>4. \A i \in DOMAIN c : i \in {1, n + 1, n + 7} \/ c[i] \notin p[1] \cup p[2]
  BY <1>1, <1>2, PairsApart
<1>5. /\ <<"http_reqs">> # <<"iterations">> /\ <<"http_req_duration">> # <<"http_req_receiving">>
      /\ <<"iteration_duration">> # <<"http_req_duration">> /\ <<"iteration_duration">> # <<"http_req_receiving">>
  OBVIOUS
<1> DEFINE a == c[1]  b == c[n + 1]  d == c[n + 7]
<1>6. /\ a \in AllWrites /\ b \in AllWrites /\ d \in AllWrites
      /\ a.op = "counter" /\ a.name = <<"http_reqs">> /\ b.op = "trend" /\ b.name = <<"http_req_duration">>
      /\ d.op = "trend" /\ d.name = <<"http_req_receiving">>
  BY <1>1, <1>2
<1>7. CASE p = <<CheckWrites, Feeding("rate", <<"checks">>)>>
  <2>1. \A w \in {a, b, d} : w \notin p[1] \cup p[2]
    BY <1>6, <1>7, PairMembers
  <2> QED BY <1>4, <2>1, DueNone
<1>8. CASE p = <<Feeding("counter", <<"iterations">>), Feeding("trend", <<"iteration_duration">>)>>
  <2>1. \A w \in {a, b, d} : w \notin p[1] \cup p[2]
    BY <1>5, <1>6, <1>8, PairMembers
  <2> QED BY <1>4, <2>1, DueNone
<1>9. CASE p = <<Feeding("counter", <<"http_reqs">>), Feeding("trend", <<"http_req_duration">>)>>
  <2>1. (a \in p[1] <=> b \in p[2]) /\ a \notin p[2] /\ b \notin p[1] /\ d \notin p[1] \cup p[2]
    BY <1>3, <1>5, <1>6, <1>9, PairMembers
  <2>2. \A k \in DOMAIN c : (c[k] \in p[1] => k = 1) /\ (c[k] \in p[2] => k = n + 1)
    BY <1>4, <2>1
  <2> QED BY <1>2, <2>1, <2>2, DueOne
<1>10. CASE p = <<Feeding("trend", <<"http_req_duration">>), Feeding("trend", <<"http_req_receiving">>)>>
  <2>1. (b \in p[1] <=> d \in p[2]) /\ b \notin p[2] /\ d \notin p[1] /\ a \notin p[1] \cup p[2]
    BY <1>3, <1>5, <1>6, <1>10, PairMembers
  <2>2. \A k \in DOMAIN c : (c[k] \in p[1] => k = n + 1) /\ (c[k] \in p[2] => k = n + 7)
    BY <1>4, <2>1
  <2> QED BY <1>2, <2>1, <2>2, DueOne
<1> QED BY <1>7, <1>8, <1>9, <1>10 DEF Pairs

LEMMA CallDue ==
    ASSUME Recorders, NEW c \in Calls, NEW p \in Pairs
    PROVE  c \in Seq(AllWrites) /\ Due(c, p[1], p[2])
<1>1. c \in Seq(AllWrites) /\ Recorder(c)
  BY CallWrites
<1>2. CASE Quietly(c)
  <2>1. \A i \in DOMAIN c : c[i] \in AllWrites /\ Quiet(c[i])
    BY <1>1, <1>2 DEF Quietly
  <2> QED BY <1>1, <2>1, PairsApart, DueNone
<1> QED BY <1>1, <1>2, CallKinds, CheckDue, IterationDue, RequestDue

-----------------------------------------------------------------------------
(* What a write adds to the maps.                                          *)

Numbered(f) == IsFiniteSet(DOMAIN f) /\ \A k \in DOMAIN f : f[k] \in Nat
Gain(m, key, d) == IF m \in derive_targets(key) THEN d ELSE 0

LEMMA CounterAdds ==
    ASSUME NEW f, Numbered(f), NEW key, NEW x \in Nat, NEW g,
           DOMAIN g = DOMAIN f \cup {key}, \A k \in DOMAIN f \ {key} : g[k] = f[k],
           g[key] = (IF key \in DOMAIN f THEN f[key] ELSE 0) + x
    PROVE  Numbered(g) /\ \A m : Fed(g, m) = Fed(f, m) + Gain(m, key, x)
<1>1. IsFiniteSet(DOMAIN f) /\ \A k \in DOMAIN f : f[k] \in Nat /\ f[k] \in Int
  BY DEF Numbered
<1>2. g[key] \in Nat
  BY <1>1
<1>3. IsFiniteSet(DOMAIN g)
  BY <1>1, FS_AddElement
<1>4. Numbered(g)
  BY <1>1, <1>2, <1>3 DEF Numbered
<1>5. ASSUME NEW m PROVE Fed(g, m) = Fed(f, m) + Gain(m, key, x)
  BY <1>1, FedUpdate DEF Gain
<1> QED BY <1>4, <1>5

LEMMA RateAdds ==
    ASSUME NEW f, Numbered(Field(f, "total")), NEW key, NEW g,
           DOMAIN g = DOMAIN f \cup {key}, \A k \in DOMAIN f \ {key} : g[k] = f[k],
           g[key].total = (IF key \in DOMAIN f THEN f[key].total ELSE 0) + 1
    PROVE  /\ Numbered(Field(g, "total"))
           /\ \A m : Fed(Field(g, "total"), m) = Fed(Field(f, "total"), m) + Gain(m, key, 1)
<1>1. PICK a, b : a = Field(f, "total") /\ b = Field(g, "total")
  OBVIOUS
<1>2. /\ DOMAIN a = DOMAIN f /\ \A k \in DOMAIN f : a[k] = f[k].total
      /\ DOMAIN b = DOMAIN g /\ \A k \in DOMAIN g : b[k] = g[k].total
  BY <1>1 DEF Field
<1>3. /\ DOMAIN b = DOMAIN a \cup {key} /\ \A k \in DOMAIN a \ {key} : b[k] = a[k]
      /\ b[key] = (IF key \in DOMAIN a THEN a[key] ELSE 0) + 1
  BY <1>2
<1>4. Numbered(a) /\ 1 \in Nat
  BY <1>1
<1>5. Numbered(b) /\ \A m : Fed(b, m) = Fed(a, m) + Gain(m, key, 1)
  BY <1>3, <1>4, CounterAdds
<1> QED BY <1>1, <1>5

LEMMA TrendAdds ==
    ASSUME NEW f, Numbered(Field(f, "count")), NEW key, NEW g,
           DOMAIN g = DOMAIN f \cup {key}, \A k \in DOMAIN f \ {key} : g[k] = f[k],
           g[key].count = (IF key \in DOMAIN f THEN f[key].count ELSE 0) + 1
    PROVE  /\ Numbered(Field(g, "count"))
           /\ \A m : Fed(Field(g, "count"), m) = Fed(Field(f, "count"), m) + Gain(m, key, 1)
<1>1. PICK a, b : a = Field(f, "count") /\ b = Field(g, "count")
  OBVIOUS
<1>2. /\ DOMAIN a = DOMAIN f /\ \A k \in DOMAIN f : a[k] = f[k].count
      /\ DOMAIN b = DOMAIN g /\ \A k \in DOMAIN g : b[k] = g[k].count
  BY <1>1 DEF Field
<1>3. /\ DOMAIN b = DOMAIN a \cup {key} /\ \A k \in DOMAIN a \ {key} : b[k] = a[k]
      /\ b[key] = (IF key \in DOMAIN a THEN a[key] ELSE 0) + 1
  BY <1>2
<1>4. Numbered(a) /\ 1 \in Nat
  BY <1>1
<1>5. Numbered(b) /\ \A m : Fed(b, m) = Fed(a, m) + Gain(m, key, 1)
  BY <1>3, <1>4, CounterAdds
<1> QED BY <1>1, <1>5

-----------------------------------------------------------------------------
(* What a write does to the tree.                                          *)

LEMMA Ancestors ==
    ASSUME NEW path \in Seq(STRING)
    PROVE  /\ path \in PathPrefixes(path)
           /\ \A q \in PathPrefixes(path) : PathPrefixes(q) \subseteq PathPrefixes(path)
<1>1. path \in PathPrefixes(path)
  <2>1. Len(path) \in 0..Len(path) /\ SubSeq(path, 1, Len(path)) = path
    BY SubSeqFull
  <2> QED BY <2>1 DEF PathPrefixes
<1>2. ASSUME NEW i \in 0..Len(path), NEW q, q = SubSeq(path, 1, i), NEW j \in 0..Len(q)
      PROVE  SubSeq(q, 1, j) \in PathPrefixes(path)
  <2>1. Len(path) \in Nat /\ i \in Nat /\ i <= Len(path) /\ \A k \in 1..i : path[k] \in STRING
    OBVIOUS
  <2>2. q \in Seq(STRING) /\ Len(q) = i
    <3>1. Len(q) = IF 1 <= i THEN i - 1 + 1 ELSE 0
      BY <1>2, <2>1, SubSeqProperties
    <3>2. q \in Seq(STRING)
      BY <1>2, <2>1, SubSeqProperties
    <3> QED BY <2>1, <3>1, <3>2
  <2>3. j \in 0..Len(path)
    BY <2>1, <2>2
  <2>4. SubSeq(q, 1, j) = SubSeq(path, 1, j)
    <3>1. CASE j = 0
      BY <3>1, SubSeqEmpty
    <3>2. CASE j # 0
      <4>1. /\ i \in 1..Len(path) /\ 1 \in 1..Len(path) /\ 1 \in 1..(i - 1 + 1) /\ j \in 1..(i - 1 + 1)
            /\ 1 + 1 - 1 = 1 /\ 1 + j - 1 = j
        BY <2>1, <2>2, <3>2
      <4>2. SubSeq(SubSeq(path, 1, i), 1, j) = SubSeq(path, 1 + 1 - 1, 1 + j - 1)
        BY <4>1, SubSeqOfSubSeq
      <4> QED BY <1>2, <4>1, <4>2
    <3> QED BY <3>1, <3>2
  <2> QED BY <2>3, <2>4 DEF PathPrefixes
<1>3. \A q \in PathPrefixes(path) : PathPrefixes(q) \subseteq PathPrefixes(path)
  BY <1>2 DEF PathPrefixes
<1> QED BY <1>1, <1>3

\* The counts of the checks, by path and name.
Flat(t) ==
    [pc \in UNION {{p} \X DOMAIN t[p].checks : p \in DOMAIN t} |->
        t[pc[1]].checks[pc[2]].passes + t[pc[1]].checks[pc[2]].fails]

IsNode(n) ==
    /\ n = [checks |-> n.checks, duration |-> n.duration]
    /\ \A k \in DOMAIN n.checks : n.checks[k] \in [passes : Nat, fails : Nat]

Tree(t) ==
    /\ \A p \in DOMAIN t : PathPrefixes(p) \subseteq DOMAIN t
    /\ \A p \in DOMAIN t : IsNode(t[p])
    /\ IsFiniteSet(DOMAIN Flat(t))

LEMMA FlatOf ==
    ASSUME NEW t
    PROVE  /\ \A pc : pc \in DOMAIN Flat(t) <=>
                  \E p \in DOMAIN t : \E n \in DOMAIN t[p].checks : pc = <<p, n>>
           /\ \A p, n : <<p, n>> \in DOMAIN Flat(t) <=> p \in DOMAIN t /\ n \in DOMAIN t[p].checks
           /\ \A p, n : <<p, n>> \in DOMAIN Flat(t) =>
                  Flat(t)[<<p, n>>] = t[p].checks[n].passes + t[p].checks[n].fails
           /\ CheckTotal(t) = SumFunctionOnSet(Flat(t), DOMAIN Flat(t))
<1> DEFINE D == UNION {{p} \X DOMAIN t[p].checks : p \in DOMAIN t}
<1>1. \A pc : pc \in D <=> \E p \in DOMAIN t : \E n \in DOMAIN t[p].checks : pc = <<p, n>>
  OBVIOUS
<1>2. \A p, n : <<p, n>> \in D <=> p \in DOMAIN t /\ n \in DOMAIN t[p].checks
  OBVIOUS
<1>3. DOMAIN Flat(t) = D
  BY DEF Flat
<1>4. \A p, n : <<p, n>> \in D => Flat(t)[<<p, n>>] = t[p].checks[n].passes + t[p].checks[n].fails
  BY DEF Flat
<1>5. CheckTotal(t) = SumFunctionOnSet(Flat(t), DOMAIN Flat(t))
  BY DEF CheckTotal, Flat, SumFunction
<1> HIDE DEF D
<1> QED BY <1>1, <1>2, <1>3, <1>4, <1>5

\* Trees with the same checks have the same counts.
LEMMA SameChecks ==
    ASSUME NEW t, NEW u, DOMAIN t \subseteq DOMAIN u, \A p \in DOMAIN t : u[p].checks = t[p].checks,
           \A p \in DOMAIN u \ DOMAIN t : DOMAIN u[p].checks = {}, IsFiniteSet(DOMAIN Flat(t))
    PROVE  IsFiniteSet(DOMAIN Flat(u)) /\ CheckTotal(u) = CheckTotal(t)
<1>1. \A pc : pc \in DOMAIN Flat(u) <=> pc \in DOMAIN Flat(t)
  <2>1. \A p \in DOMAIN u : \A n : n \in DOMAIN u[p].checks <=> p \in DOMAIN t /\ n \in DOMAIN t[p].checks
    OBVIOUS
  <2>2. \A pc : pc \in DOMAIN Flat(u) <=> \E p \in DOMAIN u : \E n \in DOMAIN u[p].checks : pc = <<p, n>>
    BY FlatOf
  <2>3. \A pc : pc \in DOMAIN Flat(t) <=> \E p \in DOMAIN t : \E n \in DOMAIN t[p].checks : pc = <<p, n>>
    BY FlatOf
  <2> QED BY <2>1, <2>2, <2>3
<1>2. DOMAIN Flat(u) = DOMAIN Flat(t)
  BY <1>1
<1>3. ASSUME NEW pc \in DOMAIN Flat(t) PROVE Flat(u)[pc] = Flat(t)[pc]
  <2>1. PICK p \in DOMAIN t : \E n \in DOMAIN t[p].checks : pc = <<p, n>>
    BY FlatOf
  <2>2. PICK n \in DOMAIN t[p].checks : pc = <<p, n>>
    BY <2>1
  <2>3. <<p, n>> \in DOMAIN Flat(t) /\ <<p, n>> \in DOMAIN Flat(u)
    BY <1>2, <2>2
  <2>4. Flat(t)[<<p, n>>] = t[p].checks[n].passes + t[p].checks[n].fails
    BY <2>3, FlatOf
  <2>5. Flat(u)[<<p, n>>] = u[p].checks[n].passes + u[p].checks[n].fails
    BY <2>3, FlatOf
  <2> QED BY <2>1, <2>2, <2>4, <2>5
<1>4. SumFunctionOnSet(Flat(t), DOMAIN Flat(t)) = SumFunctionOnSet(Flat(u), DOMAIN Flat(t))
  <2>1. \A pc \in DOMAIN Flat(t) : Flat(t)[pc] = Flat(u)[pc]
    BY <1>3
  <2> QED BY <2>1, SumCong
<1> QED BY <1>2, <1>4, FlatOf

LEMMA Navigate ==
    ASSUME NEW t, Tree(t), NEW path \in Seq(STRING), NEW u, u = navigate_or_create(t, path)
    PROVE  Tree(u) /\ path \in DOMAIN u /\ CheckTotal(u) = CheckTotal(t)
<1>1. /\ DOMAIN u = DOMAIN t \cup PathPrefixes(path)
      /\ \A p \in DOMAIN t : u[p] = t[p]
      /\ \A p \in DOMAIN u \ DOMAIN t : u[p] = GroupNode
  BY DEF navigate_or_create
<1>2. IsNode(GroupNode) /\ DOMAIN GroupNode.checks = {}
  BY DEF IsNode, GroupNode
<1>3. /\ path \in DOMAIN u
      /\ \A p \in DOMAIN u : PathPrefixes(p) \subseteq DOMAIN u
  BY <1>1, Ancestors DEF Tree
<1>4. \A p \in DOMAIN u : IsNode(u[p])
  BY <1>1, <1>2 DEF Tree
<1>5. IsFiniteSet(DOMAIN Flat(u)) /\ CheckTotal(u) = CheckTotal(t)
  <2>1. /\ DOMAIN t \subseteq DOMAIN u /\ \A p \in DOMAIN t : u[p].checks = t[p].checks
        /\ \A p \in DOMAIN u \ DOMAIN t : DOMAIN u[p].checks = {}
    BY <1>1, <1>2
  <2> QED BY <2>1, SameChecks DEF Tree
<1> QED BY <1>3, <1>4, <1>5 DEF Tree

\* A group's duration leaves the checks alone.
LEMMA Durations ==
    ASSUME NEW t, Tree(t), NEW path \in DOMAIN t, NEW u, DOMAIN u = DOMAIN t, \A p \in DOMAIN t \ {path} : u[p] = t[p],
           u[path].checks = t[path].checks, IsNode(u[path])
    PROVE  Tree(u) /\ CheckTotal(u) = CheckTotal(t)
<1>1. \A p \in DOMAIN u : IsNode(u[p])
  BY DEF Tree
<1>2. \A p \in DOMAIN t : u[p].checks = t[p].checks
  OBVIOUS
<1>3. IsFiniteSet(DOMAIN Flat(u)) /\ CheckTotal(u) = CheckTotal(t)
  BY <1>2, SameChecks DEF Tree
<1> QED BY <1>1, <1>3 DEF Tree

LEMMA CheckAdded ==
    ASSUME NEW n, IsNode(n), NEW name, NEW passed \in BOOLEAN, NEW m, m = CheckAdd(n, name, passed)
    PROVE  /\ IsNode(m) /\ DOMAIN m.checks = DOMAIN n.checks \cup {name}
           /\ \A k \in DOMAIN n.checks \ {name} : m.checks[k] = n.checks[k]
           /\ m.checks[name].passes + m.checks[name].fails
                = (IF name \in DOMAIN n.checks THEN n.checks[name].passes + n.checks[name].fails ELSE 0) + 1
<1>1. PICK c, d : c = n.checks /\ n = [checks |-> c, duration |-> d]
  BY DEF IsNode
<1>2. PICK old : old = IF name \in DOMAIN c THEN c[name] ELSE [passes |-> 0, fails |-> 0]
  OBVIOUS
<1>3. PICK new : new = [old EXCEPT !.passes = IF passed THEN @ + 1 ELSE @, !.fails = IF passed THEN @ ELSE @ + 1]
  OBVIOUS
<1>4. m = [checks |-> [k \in DOMAIN c \cup {name} |-> IF k # name THEN c[k] ELSE new], duration |-> d]
  BY <1>1, <1>2, <1>3 DEF CheckAdd, Upsert
<1>5. \A k \in DOMAIN c : c[k] \in [passes : Nat, fails : Nat]
  BY <1>1 DEF IsNode
<1>6. old \in [passes : Nat, fails : Nat]
  BY <1>2, <1>5
<1>7. new \in [passes : Nat, fails : Nat] /\ new.passes + new.fails = old.passes + old.fails + 1
  <2>1. PICK a \in Nat, b \in Nat : old = [passes |-> a, fails |-> b]
    BY <1>6
  <2>2. CASE passed
    <3>1. new = [passes |-> a + 1, fails |-> b]
      BY <1>3, <2>1, <2>2
    <3> QED BY <2>1, <3>1
  <2>3. CASE ~passed
    <3>1. new = [passes |-> a, fails |-> b + 1]
      BY <1>3, <2>1, <2>3
    <3> QED BY <2>1, <3>1
  <2> QED BY <2>2, <2>3
<1>8. /\ DOMAIN m.checks = DOMAIN c \cup {name} /\ m.checks[name] = new
      /\ \A k \in DOMAIN c \ {name} : m.checks[k] = c[k]
  BY <1>4
<1>9. IsNode(m)
  <2>1. \A k \in DOMAIN m.checks : m.checks[k] \in [passes : Nat, fails : Nat]
    BY <1>5, <1>7, <1>8
  <2> QED BY <1>4, <2>1 DEF IsNode
<1>10. old.passes + old.fails = IF name \in DOMAIN c THEN c[name].passes + c[name].fails ELSE 0
  BY <1>2
<1> QED BY <1>1, <1>7, <1>8, <1>9, <1>10

Counts(t, f) ==
    /\ \A p, n : <<p, n>> \in DOMAIN f <=> p \in DOMAIN t /\ n \in DOMAIN t[p].checks
    /\ \A pc \in DOMAIN f : \E p, n : pc = <<p, n>>
    /\ \A p, n : <<p, n>> \in DOMAIN f => f[<<p, n>>] = t[p].checks[n].passes + t[p].checks[n].fails
    /\ CheckTotal(t) = SumFunctionOnSet(f, DOMAIN f)

LEMMA CountsOf ==
    ASSUME NEW t
    PROVE  Counts(t, Flat(t))
<1>1. \A pc : pc \in DOMAIN Flat(t) <=> \E p \in DOMAIN t : \E n \in DOMAIN t[p].checks : pc = <<p, n>>
  BY FlatOf
<1>2. \A p, n : <<p, n>> \in DOMAIN Flat(t) <=> p \in DOMAIN t /\ n \in DOMAIN t[p].checks
  BY FlatOf
<1>3. \A p, n : <<p, n>> \in DOMAIN Flat(t) =>
         Flat(t)[<<p, n>>] = t[p].checks[n].passes + t[p].checks[n].fails
  BY FlatOf
<1>4. CheckTotal(t) = SumFunctionOnSet(Flat(t), DOMAIN Flat(t))
  BY FlatOf
<1>5. \A pc \in DOMAIN Flat(t) : \E p, n : pc = <<p, n>>
  BY <1>1
<1> QED BY <1>2, <1>3, <1>4, <1>5 DEF Counts

\* A check adds one to the counts.
LEMMA CheckCounted ==
    ASSUME NEW t, Tree(t), NEW path \in DOMAIN t, NEW name, NEW passed \in BOOLEAN,
           NEW u, u = [t EXCEPT ![path] = CheckAdd(t[path], name, passed)]
    PROVE  Tree(u) /\ CheckTotal(u) = CheckTotal(t) + 1
<1>1. DOMAIN u = DOMAIN t /\ (\A p \in DOMAIN t \ {path} : u[p] = t[p]) /\ u[path] = CheckAdd(t[path], name, passed)
  OBVIOUS
<1>2. /\ IsNode(u[path]) /\ DOMAIN u[path].checks = DOMAIN t[path].checks \cup {name}
      /\ \A k \in DOMAIN t[path].checks \ {name} : u[path].checks[k] = t[path].checks[k]
      /\ u[path].checks[name].passes + u[path].checks[name].fails
           = (IF name \in DOMAIN t[path].checks
              THEN t[path].checks[name].passes + t[path].checks[name].fails ELSE 0) + 1
  BY <1>1, CheckAdded DEF Tree
<1>3. \A p \in DOMAIN u : IsNode(u[p])
  BY <1>1, <1>2 DEF Tree
<1>4. PICK f, g : f = Flat(t) /\ g = Flat(u)
  OBVIOUS
<1>5. Counts(t, f) /\ Counts(u, g)
  BY <1>4, CountsOf
<1>6. IsFiniteSet(DOMAIN f)
  BY <1>4 DEF Tree
<1>a. /\ \A p, n : <<p, n>> \in DOMAIN f <=> p \in DOMAIN t /\ n \in DOMAIN t[p].checks
      /\ \A pc \in DOMAIN f : \E p, n : pc = <<p, n>>
      /\ \A p, n : <<p, n>> \in DOMAIN f => f[<<p, n>>] = t[p].checks[n].passes + t[p].checks[n].fails
      /\ CheckTotal(t) = SumFunctionOnSet(f, DOMAIN f)
  BY <1>5 DEF Counts
<1>b. /\ \A p, n : <<p, n>> \in DOMAIN g <=> p \in DOMAIN u /\ n \in DOMAIN u[p].checks
      /\ \A pc \in DOMAIN g : \E p, n : pc = <<p, n>>
      /\ \A p, n : <<p, n>> \in DOMAIN g => g[<<p, n>>] = u[p].checks[n].passes + u[p].checks[n].fails
      /\ CheckTotal(u) = SumFunctionOnSet(g, DOMAIN g)
  BY <1>5 DEF Counts
<1>7. PICK k : k = <<path, name>>
  OBVIOUS
<1>8. \A p, n : <<p, n>> \in DOMAIN g <=> <<p, n>> \in DOMAIN f \/ <<p, n>> = k
  BY <1>1, <1>2, <1>a, <1>b, <1>7
<1>9. DOMAIN g = DOMAIN f \cup {k}
  <2>1. \A pc : pc \in DOMAIN g => pc \in DOMAIN f \cup {k}
    BY <1>a, <1>b, <1>8
  <2>2. \A pc : pc \in DOMAIN f \cup {k} => pc \in DOMAIN g
    BY <1>a, <1>b, <1>7, <1>8
  <2> QED BY <2>1, <2>2
<1>10. \A pc \in DOMAIN f : f[pc] \in Int
  <2> SUFFICES ASSUME NEW pc \in DOMAIN f PROVE f[pc] \in Int
    OBVIOUS
  <2>1. PICK p, n : pc = <<p, n>>
    BY <1>a
  <2>2. p \in DOMAIN t /\ n \in DOMAIN t[p].checks
    BY <1>a, <2>1
  <2>3. t[p].checks[n] \in [passes : Nat, fails : Nat]
    BY <2>2 DEF Tree, IsNode
  <2>4. f[<<p, n>>] = t[p].checks[n].passes + t[p].checks[n].fails
    BY <1>a, <2>1
  <2> QED BY <2>1, <2>3, <2>4
<1>11. \A pc \in DOMAIN f \ {k} : g[pc] = f[pc]
  <2> SUFFICES ASSUME NEW pc \in DOMAIN f, pc # k PROVE g[pc] = f[pc]
    OBVIOUS
  <2>1. PICK p, n : pc = <<p, n>>
    BY <1>a
  <2>2. p \in DOMAIN t /\ n \in DOMAIN t[p].checks /\ <<p, n>> \in DOMAIN g
    BY <1>a, <1>8, <2>1
  <2>3. u[p].checks[n] = t[p].checks[n]
    BY <1>1, <1>2, <1>7, <2>1, <2>2
  <2>4. f[<<p, n>>] = t[p].checks[n].passes + t[p].checks[n].fails
    BY <1>a, <2>1
  <2>5. g[<<p, n>>] = u[p].checks[n].passes + u[p].checks[n].fails
    BY <1>b, <2>2
  <2> QED BY <2>1, <2>3, <2>4, <2>5
<1>12. g[k] = (IF k \in DOMAIN f THEN f[k] ELSE 0) + 1
  <2>1. k \in DOMAIN g /\ (k \in DOMAIN f <=> name \in DOMAIN t[path].checks)
    BY <1>a, <1>7, <1>9
  <2>2. g[k] = u[path].checks[name].passes + u[path].checks[name].fails
    BY <1>b, <1>7, <2>1
  <2>3. k \in DOMAIN f => f[k] = t[path].checks[name].passes + t[path].checks[name].fails
    BY <1>a, <1>7
  <2> QED BY <1>2, <2>1, <2>2, <2>3
<1>13. SumFunctionOnSet(g, DOMAIN g) = SumFunctionOnSet(f, DOMAIN g \cap DOMAIN f) + (IF k \in DOMAIN g THEN 1 ELSE 0)
  <2>1. 1 \in Int /\ DOMAIN g \in SUBSET DOMAIN g
    OBVIOUS
  <2> QED BY <1>6, <1>9, <1>10, <1>11, <1>12, <2>1, SumUpdate
<1>14. DOMAIN g \cap DOMAIN f = DOMAIN f /\ k \in DOMAIN g
  BY <1>9
<1>15. CheckTotal(u) = CheckTotal(t) + 1
  BY <1>a, <1>b, <1>13, <1>14
<1>16. IsFiniteSet(DOMAIN g)
  BY <1>6, <1>9, FS_AddElement
<1>17. \A p \in DOMAIN u : PathPrefixes(p) \subseteq DOMAIN u
  BY <1>1 DEF Tree
<1> QED BY <1>3, <1>4, <1>15, <1>16, <1>17 DEF Tree

LEMMA CheckNat ==
    ASSUME NEW t, Tree(t)
    PROVE  CheckTotal(t) \in Nat
<1>1. PICK f : f = Flat(t)
  OBVIOUS
<1>2. Counts(t, f) /\ IsFiniteSet(DOMAIN f)
  BY <1>1, CountsOf DEF Tree
<1>3. ASSUME NEW pc \in DOMAIN f PROVE f[pc] \in Nat
  <2>1. PICK p, n : pc = <<p, n>>
    BY <1>2 DEF Counts
  <2>2. p \in DOMAIN t /\ n \in DOMAIN t[p].checks /\ f[<<p, n>>] = t[p].checks[n].passes + t[p].checks[n].fails
    BY <1>2, <2>1 DEF Counts
  <2>3. t[p].checks[n] \in [passes : Nat, fails : Nat]
    BY <2>2 DEF Tree, IsNode
  <2> QED BY <2>1, <2>2, <2>3
<1>4. SumFunctionOnSet(f, DOMAIN f) \in Nat
  BY <1>2, <1>3, SumNat
<1> QED BY <1>2, <1>4 DEF Counts

-----------------------------------------------------------------------------
(* What a write does to the registry.                                      *)

Registry ==
    /\ Numbered(counters) /\ Numbered(Field(rates, "total")) /\ Numbered(Field(trends, "count"))
    /\ Tree(tree)

One(w, S) == IF w \in S THEN 1 ELSE 0

RateRecord(r, passed) == [passes |-> r.passes + (IF passed THEN 1 ELSE 0), total |-> r.total + 1]

LEMMA ApplyMaps ==
    ASSUME NEW w, Apply(w)
    PROVE  /\ counters' = IF w.op = "counter"
                          THEN [k \in DOMAIN counters \cup {w.key} |-> IF k # w.key THEN counters[k]
                                  ELSE (IF w.key \in DOMAIN counters THEN counters[w.key] ELSE 0) + w.x]
                          ELSE counters
           /\ rates' = IF w.op = "rate"
                       THEN [k \in DOMAIN rates \cup {w.key} |-> IF k # w.key THEN rates[k]
                              ELSE RateRecord(IF w.key \in DOMAIN rates THEN rates[w.key]
                                              ELSE [passes |-> 0, total |-> 0], w.x)]
                       ELSE rates
           /\ trends' = IF w.op = "trend"
                        THEN [k \in DOMAIN trends \cup {w.key} |-> IF k # w.key THEN trends[k]
                                ELSE TrendRecord(IF w.key \in DOMAIN trends THEN trends[w.key] ELSE TrendNew, w.x)]
                        ELSE trends
<1>1. counters' = IF w.op = "counter"
                  THEN [k \in DOMAIN counters \cup {w.key} |-> IF k # w.key THEN counters[k]
                          ELSE (IF w.key \in DOMAIN counters THEN counters[w.key] ELSE 0) + w.x]
                  ELSE counters
  BY Zenon DEF Apply, Upsert
<1>2. rates' = IF w.op = "rate"
               THEN [k \in DOMAIN rates \cup {w.key} |-> IF k # w.key THEN rates[k]
                      ELSE RateRecord(IF w.key \in DOMAIN rates THEN rates[w.key]
                                      ELSE [passes |-> 0, total |-> 0], w.x)]
               ELSE rates
  BY Zenon DEF Apply, Upsert, RateRecord
<1>3. trends' = IF w.op = "trend"
                THEN [k \in DOMAIN trends \cup {w.key} |-> IF k # w.key THEN trends[k]
                        ELSE TrendRecord(IF w.key \in DOMAIN trends THEN trends[w.key] ELSE TrendNew, w.x)]
                ELSE trends
  BY Zenon DEF Apply, Upsert
<1> QED BY <1>1, <1>2, <1>3, Zenon

LEMMA CounterWrite ==
    ASSUME Recorders, Registry, NEW w \in AllWrites, Apply(w)
    PROVE  /\ Numbered(counters')
           /\ \A m : Fed(counters', m) = Fed(counters, m) + (IF w \in Feeding("counter", m) THEN w.x ELSE 0)
<1>1. CASE w.op = "counter"
  <2>1. PICK f, g : f = counters /\ g = counters'
    OBVIOUS
  <2>2. g = [k \in DOMAIN f \cup {w.key} |-> IF k # w.key THEN f[k]
                ELSE (IF w.key \in DOMAIN f THEN f[w.key] ELSE 0) + w.x]
    BY <1>1, <2>1, ApplyMaps
  <2>3. /\ DOMAIN g = DOMAIN f \cup {w.key} /\ \A k \in DOMAIN f \ {w.key} : g[k] = f[k]
        /\ g[w.key] = (IF w.key \in DOMAIN f THEN f[w.key] ELSE 0) + w.x
    BY <2>2
  <2>4. Numbered(f) /\ w.x \in Nat
    BY <1>1, <2>1, WritesSound DEF Registry, Sound, Shape
  <2>5. Numbered(g) /\ \A m : Fed(g, m) = Fed(f, m) + Gain(m, w.key, w.x)
    BY <2>3, <2>4, CounterAdds
  <2>6. \A m : Gain(m, w.key, w.x) = IF w \in Feeding("counter", m) THEN w.x ELSE 0
    BY <1>1 DEF Gain, Feeding
  <2> QED BY <2>1, <2>5, <2>6
<1>2. CASE w.op # "counter"
  <2>1. counters' = counters
    BY <1>2, ApplyMaps
  <2>2. \A m : w \notin Feeding("counter", m) /\ Fed(counters, m) \in Nat
    BY <1>2, FedNat DEF Feeding, Registry, Numbered
  <2> QED BY <2>1, <2>2 DEF Registry
<1> QED BY <1>1, <1>2

LEMMA RateWrite ==
    ASSUME Recorders, Registry, NEW w \in AllWrites, Apply(w)
    PROVE  /\ Numbered(Field(rates', "total"))
           /\ \A m : Fed(Field(rates', "total"), m) = Fed(Field(rates, "total"), m) + One(w, Feeding("rate", m))
<1>1. CASE w.op = "rate"
  <2>1. PICK f, g : f = rates /\ g = rates'
    OBVIOUS
  <2>2. g = [k \in DOMAIN f \cup {w.key} |-> IF k # w.key THEN f[k]
                ELSE RateRecord(IF w.key \in DOMAIN f THEN f[w.key] ELSE [passes |-> 0, total |-> 0], w.x)]
    BY <1>1, <2>1, ApplyMaps
  <2>7. [passes |-> 0, total |-> 0].total = 0 /\ \A r : RateRecord(r, w.x).total = r.total + 1
    BY DEF RateRecord
  <2>8. /\ DOMAIN g = DOMAIN f \cup {w.key} /\ \A k \in DOMAIN f \ {w.key} : g[k] = f[k]
        /\ g[w.key] = RateRecord(IF w.key \in DOMAIN f THEN f[w.key] ELSE [passes |-> 0, total |-> 0], w.x)
    BY <2>2
  <2>3. g[w.key].total = (IF w.key \in DOMAIN f THEN f[w.key].total ELSE 0) + 1
    BY <2>7, <2>8
  <2>4. Numbered(Field(f, "total"))
    BY <2>1 DEF Registry
  <2>5. /\ Numbered(Field(g, "total"))
        /\ \A m : Fed(Field(g, "total"), m) = Fed(Field(f, "total"), m) + Gain(m, w.key, 1)
    BY <2>3, <2>4, <2>8, RateAdds
  <2>6. \A m : Gain(m, w.key, 1) = One(w, Feeding("rate", m))
    BY <1>1 DEF Gain, Feeding, One
  <2> QED BY <2>1, <2>5, <2>6
<1>2. CASE w.op # "rate"
  <2>1. rates' = rates
    BY <1>2, ApplyMaps
  <2>2. \A m : w \notin Feeding("rate", m) /\ Fed(Field(rates, "total"), m) \in Nat
    BY <1>2, FedNat DEF Feeding, Registry, Numbered
  <2> QED BY <2>1, <2>2 DEF Registry, One
<1> QED BY <1>1, <1>2

LEMMA TrendWrite ==
    ASSUME Recorders, Registry, NEW w \in AllWrites, Apply(w)
    PROVE  /\ Numbered(Field(trends', "count"))
           /\ \A m : Fed(Field(trends', "count"), m) = Fed(Field(trends, "count"), m) + One(w, Feeding("trend", m))
<1>1. CASE w.op = "trend"
  <2>1. PICK f, g : f = trends /\ g = trends'
    OBVIOUS
  <2>2. g = [k \in DOMAIN f \cup {w.key} |-> IF k # w.key THEN f[k]
                ELSE TrendRecord(IF w.key \in DOMAIN f THEN f[w.key] ELSE TrendNew, w.x)]
    BY <1>1, <2>1, ApplyMaps
  <2>3. TrendNew.count = 0 /\ \A t : TrendRecord(t, w.x).count = t.count + 1
    BY DEF TrendNew, TrendRecord
  <2>4. /\ DOMAIN g = DOMAIN f \cup {w.key} /\ \A k \in DOMAIN f \ {w.key} : g[k] = f[k]
        /\ g[w.key] = TrendRecord(IF w.key \in DOMAIN f THEN f[w.key] ELSE TrendNew, w.x)
    BY <2>2
  <2>5. g[w.key].count = (IF w.key \in DOMAIN f THEN f[w.key].count ELSE 0) + 1
    BY <2>3, <2>4
  <2>6. Numbered(Field(f, "count"))
    BY <2>1 DEF Registry
  <2>7. /\ Numbered(Field(g, "count"))
        /\ \A m : Fed(Field(g, "count"), m) = Fed(Field(f, "count"), m) + Gain(m, w.key, 1)
    BY <2>4, <2>5, <2>6, TrendAdds
  <2>8. \A m : Gain(m, w.key, 1) = One(w, Feeding("trend", m))
    BY <1>1 DEF Gain, Feeding, One
  <2> QED BY <2>1, <2>7, <2>8
<1>2. CASE w.op # "trend"
  <2>1. trends' = trends
    BY <1>2, ApplyMaps
  <2>2. \A m : w \notin Feeding("trend", m) /\ Fed(Field(trends, "count"), m) \in Nat
    BY <1>2, FedNat DEF Feeding, Registry, Numbered
  <2> QED BY <2>1, <2>2 DEF Registry, One
<1> QED BY <1>1, <1>2

LEMMA TreeWrite ==
    ASSUME Recorders, Registry, NEW w \in AllWrites, Apply(w)
    PROVE  Tree(tree') /\ CheckTotal(tree') = CheckTotal(tree) + One(w, CheckWrites)
<1>1. Tree(tree)
  BY DEF Registry
<1>2. /\ w.op \in {"check", "group", "group_duration"} => w.path \in Seq(STRING)
      /\ w.op = "check" => w.x \in BOOLEAN
  BY WritesSound DEF Sound, Shape
<1>3. PICK u : u = navigate_or_create(tree, w.path)
  OBVIOUS
<1>4. w.op \in {"check", "group", "group_duration"} =>
         Tree(u) /\ w.path \in DOMAIN u /\ CheckTotal(u) = CheckTotal(tree)
  BY <1>1, <1>2, <1>3, Navigate
<1>5. CASE w.op = "check"
  <2>1. tree' = [u EXCEPT ![w.path] = CheckAdd(u[w.path], w.name, w.x)]
    BY <1>3, <1>5 DEF Apply
  <2>4. Tree(u) /\ w.path \in DOMAIN u /\ w.x \in BOOLEAN
    BY <1>2, <1>4, <1>5
  <2>5. PICK t, n, x : t = tree' /\ n = w.name /\ x = w.x
    OBVIOUS
  <2>6. t = [u EXCEPT ![w.path] = CheckAdd(u[w.path], n, x)] /\ x \in BOOLEAN
    BY <2>1, <2>4, <2>5
  <2>7. Tree(t) /\ CheckTotal(t) = CheckTotal(u) + 1
    BY <2>4, <2>6, CheckCounted
  <2>2. Tree(tree') /\ CheckTotal(tree') = CheckTotal(u) + 1
    BY <2>5, <2>7
  <2>3. One(w, CheckWrites) = 1
    BY <1>5 DEF CheckWrites, One
  <2> QED BY <1>4, <1>5, <2>2, <2>3
<1>6. w.op # "check" => One(w, CheckWrites) = 0
  BY DEF CheckWrites, One
<1>7. CheckTotal(tree) \in Nat
  BY <1>1, CheckNat
<1>8. CASE w.op = "group"
  <2>1. tree' = u
    BY <1>3, <1>8 DEF Apply
  <2> QED BY <1>4, <1>6, <1>7, <1>8, <2>1
<1>9. CASE w.op = "group_duration"
  <2>1. PICK d : tree' = [u EXCEPT ![w.path].duration = d]
    BY <1>3, <1>9 DEF Apply
  <2>3. PICK t, p : t = tree' /\ p = w.path
    OBVIOUS
  <2>4. Tree(u) /\ p \in DOMAIN u /\ t = [u EXCEPT ![p].duration = d]
    BY <1>4, <1>9, <2>1, <2>3
  <2>6. PICK c, e : u[p] = [checks |-> c, duration |-> e]
    BY <2>4 DEF Tree, IsNode
  <2>7. /\ DOMAIN t = DOMAIN u /\ \A q \in DOMAIN u \ {p} : t[q] = u[q]
        /\ t[p] = [u[p] EXCEPT !.duration = d]
    BY <2>4
  <2>8. t[p] = [checks |-> c, duration |-> d]
    BY <2>6, <2>7
  <2>9. t[p].checks = u[p].checks /\ IsNode(t[p])
    BY <2>4, <2>6, <2>8 DEF Tree, IsNode
  <2>5. Tree(t) /\ CheckTotal(t) = CheckTotal(u)
    BY <2>4, <2>7, <2>9, Durations
  <2>2. Tree(tree') /\ CheckTotal(tree') = CheckTotal(u)
    BY <2>3, <2>5
  <2> QED BY <1>4, <1>6, <1>7, <1>9, <2>2
<1>10. CASE w.op \notin {"check", "group", "group_duration"}
  <2>1. tree' = tree
    BY <1>10 DEF Apply
  <2> QED BY <1>1, <1>6, <1>7, <1>10, <2>1
<1> QED BY <1>5, <1>8, <1>9, <1>10

-----------------------------------------------------------------------------
(* No effect before its cause.                                             *)

Queues ==
    /\ todo \in [Vus -> Seq(AllWrites)]
    /\ \A v \in Vus, p \in Pairs : Ordered(todo[v], p[1], p[2])

Owed(queues, p) == Cardinality(Owing(queues, p[1], p[2]))

LEMMA CallStep ==
    ASSUME Recorders, Queues, NEW v \in Vus, todo[v] = << >>, NEW c \in Calls, todo' = [todo EXCEPT ![v] = c]
    PROVE  Queues' /\ \A p \in Pairs : Owed(todo', p) = Owed(todo, p)
<1>1. c \in Seq(AllWrites) /\ \A p \in Pairs : Due(c, p[1], p[2])
  <2>1. \A p \in Pairs : c \in Seq(AllWrites) /\ Due(c, p[1], p[2])
    BY CallDue
  <2>2. Pairs # {}
    BY DEF Pairs
  <2> QED BY <2>1, <2>2
<1>2. todo \in [Vus -> Seq(AllWrites)] /\ \A u \in Vus, p \in Pairs : Ordered(todo[u], p[1], p[2])
  BY DEF Queues
<1>3. todo'[v] = c /\ \A u \in Vus \ {v} : todo'[u] = todo[u]
  BY <1>2
<1>4. todo' \in [Vus -> Seq(AllWrites)]
  BY <1>1, <1>2
<1>5. \A u \in Vus, p \in Pairs : Ordered(todo'[u], p[1], p[2])
  BY <1>1, <1>2, <1>3 DEF Due
<1>6. ASSUME NEW p \in Pairs PROVE Owing(todo', p[1], p[2]) = Owing(todo, p[1], p[2])
  <2>1. ~Owes(todo[v], p[1], p[2])
    BY DEF Owes
  <2>2. ~Owes(todo'[v], p[1], p[2])
    BY <1>1, <1>3 DEF Due
  <2> QED BY <1>3, <2>1, <2>2 DEF Owing
<1> QED BY <1>4, <1>5, <1>6 DEF Queues, Owed

LEMMA QueueStep ==
    ASSUME Recorders, Queues, NEW v \in Vus, todo[v] # << >>, todo' = [todo EXCEPT ![v] = Tail(todo[v])]
    PROVE  /\ Queues' /\ Head(todo[v]) \in AllWrites
           /\ \A p \in Pairs : /\ Owed(todo', p) \in Nat /\ Owed(todo, p) \in Nat
                               /\ Owed(todo', p) + One(Head(todo[v]), p[2]) = Owed(todo, p) + One(Head(todo[v]), p[1])
<1>1. todo \in [Vus -> Seq(AllWrites)] /\ \A u \in Vus, p \in Pairs : Ordered(todo[u], p[1], p[2])
  BY DEF Queues
<1>2. Head(todo[v]) \in AllWrites /\ Tail(todo[v]) \in Seq(AllWrites)
  <2>1. todo[v] \in Seq(AllWrites)
    BY <1>1
  <2> QED BY <2>1
<1>3. todo' \in [Vus -> Seq(AllWrites)]
  BY <1>1, <1>2
<1>4. ASSUME NEW p \in Pairs
      PROVE  /\ \A u \in Vus : Ordered(todo'[u], p[1], p[2])
             /\ Owed(todo', p) \in Nat /\ Owed(todo, p) \in Nat
             /\ Owed(todo', p) + One(Head(todo[v]), p[2]) = Owed(todo, p) + One(Head(todo[v]), p[1])
  <2>1. PICK C, E : C = p[1] /\ E = p[2]
    OBVIOUS
  <2>2. C \in SUBSET AllWrites /\ E \in SUBSET AllWrites /\ C \cap E = {}
    BY <2>1, PairsApart
  <2>3. PICK a, b : a = todo /\ b = todo'
    OBVIOUS
  <2>4. /\ a \in [Vus -> Seq(AllWrites)] /\ a[v] # << >> /\ b = [a EXCEPT ![v] = Tail(a[v])]
        /\ \A u \in Vus : Ordered(a[u], C, E)
    BY <1>1, <2>1, <2>3
  <2>5. Moved(a, b, v, C, E)
    BY <2>2, <2>4, OweStep
  <2> QED BY <2>1, <2>3, <2>5 DEF Owed, One, Moved
<1> QED BY <1>2, <1>3, <1>4 DEF Queues

\* A cause was counted as often as its effect, and once more for each call that
\* is between the two.
Balance ==
    /\ CheckTotal(tree) = Fed(Field(rates, "total"), <<"checks">>)
                            + Owed(todo, <<CheckWrites, Feeding("rate", <<"checks">>)>>)
    /\ Fed(counters, <<"http_reqs">>) = Fed(Field(trends, "count"), <<"http_req_duration">>)
         + Owed(todo, <<Feeding("counter", <<"http_reqs">>), Feeding("trend", <<"http_req_duration">>)>>)
    /\ Fed(Field(trends, "count"), <<"http_req_duration">>) = Fed(Field(trends, "count"), <<"http_req_receiving">>)
         + Owed(todo, <<Feeding("trend", <<"http_req_duration">>), Feeding("trend", <<"http_req_receiving">>)>>)
    /\ Fed(counters, <<"iterations">>) = Fed(Field(trends, "count"), <<"iteration_duration">>)
         + Owed(todo, <<Feeding("counter", <<"iterations">>), Feeding("trend", <<"iteration_duration">>)>>)

LEMMA Amounts ==
    ASSUME Registry
    PROVE  /\ CheckTotal(tree) \in Nat
           /\ \A m : /\ Fed(counters, m) \in Nat /\ Fed(Field(rates, "total"), m) \in Nat
                     /\ Fed(Field(trends, "count"), m) \in Nat
BY CheckNat, FedNat DEF Registry, Numbered

Kept(x, y, a, b, p, w) == x + One(w, p[1]) = (y + One(w, p[2])) + b

LEMMA Balancing ==
    ASSUME NEW p, NEW w, NEW x \in Nat, NEW y \in Nat, NEW a \in Nat, NEW b \in Nat, x = y + a,
           b + One(w, p[2]) = a + One(w, p[1])
    PROVE  Kept(x, y, a, b, p, w)
<1>1. PICK c \in Nat, e \in Nat : c = One(w, p[1]) /\ e = One(w, p[2])
  BY DEF One
<1>2. x = y + a /\ b + e = a + c
  BY <1>1
<1>3. x + c = (y + e) + b
  BY <1>2
<1> QED BY <1>1, <1>3 DEF Kept

LEMMA WriteStep ==
    ASSUME Recorders, Registry, Queues, Balance, NEW v \in Vus, todo[v] # << >>, Apply(Head(todo[v])),
           todo' = [todo EXCEPT ![v] = Tail(todo[v])]
    PROVE  Registry' /\ Queues' /\ Balance' /\ CheckTotal(tree') >= CheckTotal(tree)
<1>1. PICK w : w = Head(todo[v])
  OBVIOUS
<1>2. /\ Queues' /\ w \in AllWrites /\ Apply(w)
      /\ \A p \in Pairs : /\ Owed(todo', p) \in Nat /\ Owed(todo, p) \in Nat
                          /\ Owed(todo', p) + One(w, p[2]) = Owed(todo, p) + One(w, p[1])
  BY <1>1, QueueStep
<1>3. Registry'
  <2>1. Numbered(counters') /\ Numbered(Field(rates', "total")) /\ Numbered(Field(trends', "count")) /\ Tree(tree')
    BY <1>2, CounterWrite, RateWrite, TrendWrite, TreeWrite
  <2> QED BY <2>1 DEF Registry
<1>4. \A S : One(w, S) \in Nat
  BY DEF One
<1>5. CheckTotal(tree') = CheckTotal(tree) + One(w, CheckWrites)
  BY <1>2, TreeWrite
<1>6. \A m : Fed(Field(rates', "total"), m) = Fed(Field(rates, "total"), m) + One(w, Feeding("rate", m))
  BY <1>2, RateWrite
<1>7. \A m : Fed(Field(trends', "count"), m) = Fed(Field(trends, "count"), m) + One(w, Feeding("trend", m))
  BY <1>2, TrendWrite
<1>8. \A m \in {<<"http_reqs">>, <<"iterations">>} :
         Fed(counters', m) = Fed(counters, m) + One(w, Feeding("counter", m))
  <2> SUFFICES ASSUME NEW m \in {<<"http_reqs">>, <<"iterations">>}
               PROVE  Fed(counters', m) = Fed(counters, m) + One(w, Feeding("counter", m))
    OBVIOUS
  <2>1. Fed(counters', m) = Fed(counters, m) + (IF w \in Feeding("counter", m) THEN w.x ELSE 0)
    BY <1>2, CounterWrite
  <2>2. w \in Feeding("counter", m) => w.op = "counter" /\ w.name = m
    BY <1>2, PairMembers
  <2>3. w.op = "counter" /\ w.name = m => w.x = 1
    BY <1>2, WritesSound DEF Sound, Shape
  <2> QED BY <2>1, <2>2, <2>3 DEF One
<1>9. CheckTotal(tree') >= CheckTotal(tree)
  BY <1>4, <1>5, Amounts
<1>10. Balance'
  <2>1. ASSUME NEW p \in Pairs, NEW x \in Nat, NEW y \in Nat, x = y + Owed(todo, p)
        PROVE  Kept(x, y, Owed(todo, p), Owed(todo', p), p, w)
    <3>1. PICK a, b : a = Owed(todo, p) /\ b = Owed(todo', p)
      OBVIOUS
    <3>2. a \in Nat /\ b \in Nat /\ x = y + a /\ b + One(w, p[2]) = a + One(w, p[1])
      BY <1>2, <2>1, <3>1
    <3>3. Kept(x, y, a, b, p, w)
      BY <3>2, Balancing
    <3> QED BY <3>1, <3>3
  <2>2. /\ CheckTotal(tree) \in Nat
        /\ \A m : /\ Fed(counters, m) \in Nat /\ Fed(Field(rates, "total"), m) \in Nat
                  /\ Fed(Field(trends, "count"), m) \in Nat
    BY Amounts
  <2>3. CheckTotal(tree') = Fed(Field(rates', "total"), <<"checks">>)
                              + Owed(todo', <<CheckWrites, Feeding("rate", <<"checks">>)>>)
    <3>1. PICK p \in Pairs : p = <<CheckWrites, Feeding("rate", <<"checks">>)>>
      BY DEF Pairs
    <3>2. CheckTotal(tree) = Fed(Field(rates, "total"), <<"checks">>) + Owed(todo, p)
      BY <3>1 DEF Balance
    <3>3. PICK x \in Nat, y \in Nat : x = CheckTotal(tree) /\ y = Fed(Field(rates, "total"), <<"checks">>)
      BY <2>2
    <3>4. Kept(x, y, Owed(todo, p), Owed(todo', p), p, w)
      BY <2>1, <3>2, <3>3
    <3> QED BY <1>5, <1>6, <3>1, <3>3, <3>4 DEF Kept
  <2>4. Fed(counters', <<"http_reqs">>) = Fed(Field(trends', "count"), <<"http_req_duration">>)
          + Owed(todo', <<Feeding("counter", <<"http_reqs">>), Feeding("trend", <<"http_req_duration">>)>>)
    <3>1. PICK p \in Pairs : p = <<Feeding("counter", <<"http_reqs">>), Feeding("trend", <<"http_req_duration">>)>>
      BY DEF Pairs
    <3>2. Fed(counters, <<"http_reqs">>) = Fed(Field(trends, "count"), <<"http_req_duration">>) + Owed(todo, p)
      BY <3>1 DEF Balance
    <3>3. PICK x \in Nat, y \in Nat : x = Fed(counters, <<"http_reqs">>) /\ y = Fed(Field(trends, "count"), <<"http_req_duration">>)
      BY <2>2
    <3>4. Kept(x, y, Owed(todo, p), Owed(todo', p), p, w)
      BY <2>1, <3>2, <3>3
    <3> QED BY <1>7, <1>8, <3>1, <3>3, <3>4 DEF Kept
  <2>5. Fed(Field(trends', "count"), <<"http_req_duration">>) = Fed(Field(trends', "count"), <<"http_req_receiving">>)
          + Owed(todo', <<Feeding("trend", <<"http_req_duration">>), Feeding("trend", <<"http_req_receiving">>)>>)
    <3>1. PICK p \in Pairs : p = <<Feeding("trend", <<"http_req_duration">>), Feeding("trend", <<"http_req_receiving">>)>>
      BY DEF Pairs
    <3>2. Fed(Field(trends, "count"), <<"http_req_duration">>)
            = Fed(Field(trends, "count"), <<"http_req_receiving">>) + Owed(todo, p)
      BY <3>1 DEF Balance
    <3>3. PICK x \in Nat, y \in Nat : x = Fed(Field(trends, "count"), <<"http_req_duration">>) /\ y = Fed(Field(trends, "count"), <<"http_req_receiving">>)
      BY <2>2
    <3>4. Kept(x, y, Owed(todo, p), Owed(todo', p), p, w)
      BY <2>1, <3>2, <3>3
    <3> QED BY <1>7, <3>1, <3>3, <3>4 DEF Kept
  <2>6. Fed(counters', <<"iterations">>) = Fed(Field(trends', "count"), <<"iteration_duration">>)
          + Owed(todo', <<Feeding("counter", <<"iterations">>), Feeding("trend", <<"iteration_duration">>)>>)
    <3>1. PICK p \in Pairs : p = <<Feeding("counter", <<"iterations">>), Feeding("trend", <<"iteration_duration">>)>>
      BY DEF Pairs
    <3>2. Fed(counters, <<"iterations">>) = Fed(Field(trends, "count"), <<"iteration_duration">>) + Owed(todo, p)
      BY <3>1 DEF Balance
    <3>3. PICK x \in Nat, y \in Nat : x = Fed(counters, <<"iterations">>) /\ y = Fed(Field(trends, "count"), <<"iteration_duration">>)
      BY <2>2
    <3>4. Kept(x, y, Owed(todo, p), Owed(todo', p), p, w)
      BY <2>1, <3>2, <3>3
    <3> QED BY <1>7, <1>8, <3>1, <3>3, <3>4 DEF Kept
  <2> QED BY <2>3, <2>4, <2>5, <2>6 DEF Balance
<1> QED BY <1>2, <1>3, <1>9, <1>10

Below(a, b, final) == IF final THEN a = b ELSE a >= b

\* SnapshotOrdered, one pair a line.
SnapOk(s, t) ==
    /\ Total(s.maps.rates, <<"checks">>) \in Nat
    /\ Below(CheckTotal(t), Total(s.maps.rates, <<"checks">>), s.final)
    /\ Below(Value(s.maps.counters, <<"http_reqs">>), Count(s.maps.trends, <<"http_req_duration">>), s.final)
    /\ Below(Count(s.maps.trends, <<"http_req_duration">>), Count(s.maps.trends, <<"http_req_receiving">>), s.final)
    /\ Below(Value(s.maps.counters, <<"iterations">>), Count(s.maps.trends, <<"iteration_duration">>), s.final)

LEMMA SnapOkOrdered ==
    ASSUME Registry, snap # NoSnap => SnapOk(snap, tree)
    PROVE  SnapshotOrdered
<1> SUFFICES ASSUME snap # NoSnap PROVE SnapshotOrdered
  BY DEF SnapshotOrdered
<1>1. SnapOk(snap, tree)
  OBVIOUS
<1>2. \A p \in DOMAIN tree : PathPrefixes(p) \subseteq DOMAIN tree
  BY DEF Registry, Tree
<1> QED BY <1>1, <1>2 DEF SnapOk, Below, SnapshotOrdered

LEMMA OwedNat ==
    ASSUME NEW p
    PROVE  Owed(todo, p) \in Nat /\ ((\A v \in Vus : todo[v] = << >>) => Owed(todo, p) = 0)
<1>1. Owing(todo, p[1], p[2]) \in SUBSET Vus
  BY DEF Owing
<1>2. Owed(todo, p) \in Nat
  BY <1>1, VusAssumption, FS_Subset, FS_CardinalityType DEF Owed
<1>3. (\A v \in Vus : todo[v] = << >>) => Owing(todo, p[1], p[2]) = {}
  BY DEF Owing, Owes
<1> QED BY <1>2, <1>3, FS_EmptySet DEF Owed

\* A snapshot taken now is in order, and exact when no call is under way.
LEMMA SnapTaken ==
    ASSUME Registry, Balance, NEW b, NEW final \in BOOLEAN, final => \A v \in Vus : todo[v] = << >>,
           NEW s, s = [of |-> b, final |-> final, maps |-> SnapshotMaps(now)]
    PROVE  SnapOk(s, tree) /\ s.final = final
<1>1. PICK m : m = s.maps
  OBVIOUS
<1>2. /\ m.counters = derive_counters(counters) /\ m.rates = derive_rates(rates)
      /\ m.trends = derive_trends(trends) /\ s.final = final
  BY <1>1 DEF SnapshotMaps
<1>3. /\ \A n : Value(m.counters, n) = Fed(counters, n)
      /\ \A n : Total(m.rates, n) = Fed(Field(rates, "total"), n)
  BY <1>2, DerivedCounter, DerivedRate
<1>4. \A n : Count(m.trends, n) = Fed(Field(trends, "count"), n)
  <2>1. IsFiniteSet(DOMAIN trends) /\ \A k \in DOMAIN trends : trends[k].count \in Nat
    BY FieldFed DEF Registry, Numbered
  <2> QED BY <1>2, <2>1, DerivedTrend
<1>5. /\ CheckTotal(tree) \in Nat
      /\ \A n : /\ Fed(counters, n) \in Nat /\ Fed(Field(rates, "total"), n) \in Nat
                /\ Fed(Field(trends, "count"), n) \in Nat
  BY Amounts
<1>6. \A p : Owed(todo, p) \in Nat /\ (final => Owed(todo, p) = 0)
  BY OwedNat
<1>7. ASSUME NEW x \in Nat, NEW y \in Nat, NEW p, x = y + Owed(todo, p) PROVE Below(x, y, final)
  BY <1>6, <1>7 DEF Below
<1>8. Below(CheckTotal(tree), Fed(Field(rates, "total"), <<"checks">>), final)
  BY <1>5, <1>7 DEF Balance
<1>9. Below(Fed(counters, <<"http_reqs">>), Fed(Field(trends, "count"), <<"http_req_duration">>), final)
  BY <1>5, <1>7 DEF Balance
<1>10. Below(Fed(Field(trends, "count"), <<"http_req_duration">>),
             Fed(Field(trends, "count"), <<"http_req_receiving">>), final)
  BY <1>5, <1>7 DEF Balance
<1>11. Below(Fed(counters, <<"iterations">>), Fed(Field(trends, "count"), <<"iteration_duration">>), final)
  BY <1>5, <1>7 DEF Balance
<1> QED BY <1>1, <1>2, <1>3, <1>4, <1>5, <1>8, <1>9, <1>10, <1>11 DEF SnapOk

OrderInv ==
    /\ run \in Runs
    /\ Registry /\ Queues /\ Balance
    /\ snap # NoSnap => SnapOk(snap, tree) /\ (snap.final => phase = "reporting")

LEMMA OrderInit == TelemetryInit => OrderInv
<1> SUFFICES ASSUME TelemetryInit PROVE OrderInv
  OBVIOUS
<1>1. /\ counters = << >> /\ rates = << >> /\ trends = << >> /\ tree = [p \in {<< >>} |-> GroupNode]
      /\ todo = [v \in Vus |-> << >>] /\ run \in Runs /\ snap = NoSnap
  BY DEF TelemetryInit, MetricsInit
<1>2. DOMAIN counters = {} /\ DOMAIN rates = {} /\ DOMAIN trends = {}
  BY <1>1
<1>3. Numbered(counters) /\ Numbered(Field(rates, "total")) /\ Numbered(Field(trends, "count"))
  BY <1>2, FieldFed, FS_EmptySet DEF Numbered
<1>4. DOMAIN tree = {<< >>} /\ tree[<< >>] = GroupNode
  BY <1>1
<1>5. IsNode(GroupNode) /\ DOMAIN GroupNode.checks = {}
  BY DEF IsNode, GroupNode
<1>6. PathPrefixes(<< >>) = {<< >>}
  <2>1. Len(<< >>) = 0 /\ 0..0 = {0} /\ SubSeq(<< >>, 1, 0) = << >>
    BY SubSeqEmpty
  <2> QED BY <2>1 DEF PathPrefixes
<1>7. PICK f : f = Flat(tree)
  OBVIOUS
<1>8. DOMAIN f = {}
  <2>1. Counts(tree, f)
    BY <1>7, CountsOf
  <2> QED BY <1>4, <1>5, <2>1 DEF Counts
<1>9. Tree(tree) /\ CheckTotal(tree) = 0
  <2>1. IsFiniteSet({})
    BY FS_EmptySet
  <2>2. Tree(tree)
    BY <1>4, <1>5, <1>6, <1>7, <1>8, <2>1 DEF Tree
  <2>3. CheckTotal(tree) = SumFunctionOnSet(f, {})
    BY <1>7, <1>8, CountsOf DEF Counts
  <2> QED BY <2>1, <2>2, <2>3, SumStep
<1>10. \A m : Fed(counters, m) = 0 /\ Fed(Field(rates, "total"), m) = 0 /\ Fed(Field(trends, "count"), m) = 0
  <2>1. \A g : DOMAIN g = {} => Targets(g) = {}
    BY DEF Targets
  <2> QED BY <1>2, <2>1, FieldFed, FedNone
<1>11. \A v \in Vus : todo[v] = << >>
  BY <1>1
<1>12. \A p : Owed(todo, p) = 0
  BY <1>11, OwedNat
<1>13. Queues
  <2>1. \A C, E : Ordered(<< >>, C, E)
    BY DEF Ordered
  <2>2. todo \in [Vus -> Seq(AllWrites)]
    BY <1>1
  <2> QED BY <1>11, <2>1, <2>2 DEF Queues
<1>14. Balance
  BY <1>9, <1>10, <1>12 DEF Balance
<1> QED BY <1>1, <1>3, <1>9, <1>13, <1>14 DEF OrderInv, Registry

LEMMA OrderStep == Recorders /\ OrderInv /\ [TelemetryNext]_tvars => OrderInv'
<1> SUFFICES ASSUME Recorders, OrderInv, [TelemetryNext]_tvars PROVE OrderInv'
  OBVIOUS
<1>0. /\ run \in Runs /\ Registry /\ Queues /\ Balance
      /\ snap # NoSnap => SnapOk(snap, tree) /\ (snap.final => phase = "reporting")
  BY DEF OrderInv
\* The steps that leave the registry and the calls alone.
<1>1. ASSUME UNCHANGED <<registry, todo, run>> PROVE run' \in Runs /\ Registry' /\ Queues' /\ Balance'
  <2>1. /\ counters' = counters /\ rates' = rates /\ trends' = trends /\ tree' = tree /\ todo' = todo /\ run' = run
    BY <1>1 DEF registry
  <2>2. Registry'
    BY <1>0, <2>1 DEF Registry
  <2>3. Queues'
    BY <1>0, <2>1 DEF Queues
  <2>4. Balance'
    BY <1>0, <2>1 DEF Balance
  <2> QED BY <1>0, <2>1, <2>2, <2>3, <2>4
<1>2. ASSUME UNCHANGED <<registry, todo, run, snap, phase>> PROVE OrderInv'
  <2>1. tree' = tree /\ snap' = snap /\ phase' = phase
    BY <1>2 DEF registry
  <2> QED BY <1>0, <1>1, <1>2, <2>1 DEF OrderInv, NoSnap
<1>3. ASSUME NEW v \in Vus, Recording(v) PROVE OrderInv'
  <2>1. phase = "running" /\ UNCHANGED <<run, snap, phase>>
    BY <1>3 DEF Recording
  <2>2. CASE Record(v, run.calls, run.writes)
    <3>1. PICK c \in run.calls : todo' = [todo EXCEPT ![v] = c]
      BY <2>2, Zenon DEF Record
    <3>2. todo[v] = << >> /\ UNCHANGED registry
      BY <2>2, Zenon DEF Record
    <3>3. c \in Calls
      BY <1>0 DEF Calls
    <3>4. Queues' /\ \A p \in Pairs : Owed(todo', p) = Owed(todo, p)
      BY <1>0, <3>1, <3>2, <3>3, CallStep
    <3>5. counters' = counters /\ rates' = rates /\ trends' = trends /\ tree' = tree
      BY <3>2 DEF registry
    <3>6. Registry'
      BY <1>0, <3>5 DEF Registry
    <3>7. Balance'
      BY <1>0, <3>4, <3>5 DEF Balance, Pairs
    <3> QED BY <1>0, <2>1, <3>4, <3>5, <3>6, <3>7 DEF OrderInv, NoSnap
  <2>3. CASE Write(v)
    <3>1. todo[v] # << >> /\ Apply(Head(todo[v])) /\ todo' = [todo EXCEPT ![v] = Tail(todo[v])]
      BY <2>3, Zenon DEF Write
    <3>2. Registry' /\ Queues' /\ Balance' /\ CheckTotal(tree') >= CheckTotal(tree)
      BY <1>0, <3>1, WriteStep
    <3>3. snap # NoSnap => SnapOk(snap, tree')
      <4> SUFFICES ASSUME snap # NoSnap PROVE SnapOk(snap, tree')
        OBVIOUS
      <4>1. SnapOk(snap, tree) /\ ~snap.final
        BY <1>0, <2>1
      <4>2. CheckTotal(tree) \in Nat /\ CheckTotal(tree') \in Nat
        BY <1>0, <3>2, CheckNat DEF Registry
      <4>3. Below(CheckTotal(tree'), Total(snap.maps.rates, <<"checks">>), snap.final)
        BY <3>2, <4>1, <4>2 DEF SnapOk, Below
      <4> QED BY <4>1, <4>3 DEF SnapOk
    <3> QED BY <1>0, <2>1, <3>2, <3>3 DEF OrderInv, NoSnap
  <2> QED BY <1>3, <2>2, <2>3 DEF Recording
<1>4. CASE Clock
  BY <1>2, <1>4 DEF Clock
<1>5. CASE EvalTick
  <2>1. UNCHANGED <<registry, todo, run, snap, phase>>
    BY <1>5, Zenon DEF EvalTick
  <2> QED BY <1>2, <2>1
<1>6. ASSUME ScenarioEnds PROVE OrderInv'
  <2>1. /\ UNCHANGED <<registry, todo, run, phase>>
        /\ snap' = NoSnap \/ snap' = [of |-> made, final |-> FALSE, maps |-> SnapshotMaps(now)]
    BY <1>6 DEF ScenarioEnds
  <2>2. run' \in Runs /\ Registry' /\ Queues' /\ Balance'
    BY <1>1, <2>1
  <2>3. CASE snap' = NoSnap
    BY <2>2, <2>3 DEF OrderInv, NoSnap
  <2>4. CASE snap' = [of |-> made, final |-> FALSE, maps |-> SnapshotMaps(now)]
    <3>1. SnapOk(snap', tree) /\ snap'.final = FALSE
      BY <1>0, <2>4, SnapTaken
    <3>2. tree' = tree
      BY <2>1 DEF registry
    <3> QED BY <2>2, <3>1, <3>2 DEF OrderInv
  <2> QED BY <2>1, <2>3, <2>4
<1>7. ASSUME FinalSnapshot PROVE OrderInv'
  <2>1. /\ UNCHANGED <<registry, todo, run>> /\ phase' = "reporting" /\ \A v \in Vus : todo[v] = << >>
        /\ snap' = [of |-> made, final |-> TRUE, maps |-> SnapshotMaps(now)]
    BY <1>7 DEF FinalSnapshot
  <2>2. run' \in Runs /\ Registry' /\ Queues' /\ Balance'
    BY <1>1, <2>1
  <2>3. SnapOk(snap', tree) /\ snap'.final = TRUE
    BY <1>0, <2>1, SnapTaken
  <2>4. tree' = tree
    BY <2>1 DEF registry
  <2> QED BY <2>1, <2>2, <2>3, <2>4 DEF OrderInv
<1>8. CASE SnapshotDone
  <2>1. UNCHANGED <<registry, todo, run>> /\ snap' = NoSnap
    BY <1>8 DEF SnapshotDone
  <2> QED BY <1>1, <2>1 DEF OrderInv, NoSnap
<1>9. CASE UNCHANGED tvars
  BY <1>2, <1>9 DEF tvars
<1> QED BY <1>3, <1>4, <1>5, <1>6, <1>7, <1>8, <1>9 DEF TelemetryNext

(***************************************************************************)
(* A snapshot never shows an effect without its cause: whatever the VUs    *)
(* call and however their writes interleave with the locks of snapshot(),  *)
(* the per-check records cover the `checks` rate, the requests their       *)
(* durations, the iterations theirs; the final snapshot has them equal.    *)
(***************************************************************************)
THEOREM OrderSound == Recorders /\ TelemetrySpec => []SnapshotOrdered
<1>1. TelemetryInit => OrderInv
  BY OrderInit
<1>2. Recorders /\ OrderInv /\ [TelemetryNext]_tvars => OrderInv'
  BY OrderStep
<1>3. OrderInv => SnapshotOrdered
  BY SnapOkOrdered DEF OrderInv
<1>4. Recorders => []Recorders
  OBVIOUS
<1> QED BY <1>1, <1>2, <1>3, <1>4, PTL DEF TelemetrySpec

-----------------------------------------------------------------------------
(* What was written, against what is stored.                               *)

\* The sum over a part of a set of naturals is at most that over the whole set.
LEMMA SumSubset ==
    ASSUME NEW S, IsFiniteSet(S), NEW f, \A x \in S : f[x] \in Nat, NEW T \in SUBSET S
    PROVE  SumFunctionOnSet(f, T) <= SumFunctionOnSet(f, S)
<1> DEFINE P == {U \in SUBSET S : \A V \in SUBSET U : SumFunctionOnSet(f, V) <= SumFunctionOnSet(f, U)}
<1>0. \A U \in SUBSET S : IsFiniteSet(U) /\ SumFunctionOnSet(f, U) \in Nat
  BY FS_Subset, SumNat
<1>1. {} \in P
  <2>1. \A V \in SUBSET {} : V = {}
    OBVIOUS
  <2>2. SumFunctionOnSet(f, {}) <= SumFunctionOnSet(f, {})
    BY <1>0
  <2> QED BY <2>1, <2>2
<1>2. ASSUME NEW U \in SUBSET S, \A x \in U : U \ {x} \in P PROVE U \in P
  <2> SUFFICES ASSUME NEW V \in SUBSET U, V # U
               PROVE  SumFunctionOnSet(f, V) <= SumFunctionOnSet(f, U)
    BY <1>0
  <2>1. PICK x \in U : x \notin V
    OBVIOUS
  <2>2. SumFunctionOnSet(f, V) <= SumFunctionOnSet(f, U \ {x})
    BY <1>2, <2>1
  <2>3. SumFunctionOnSet(f, U) = f[x] + SumFunctionOnSet(f, U \ {x})
    BY <1>0, SumRemove
  <2>4. PICK a, b, c : a = SumFunctionOnSet(f, V) /\ b = SumFunctionOnSet(f, U \ {x}) /\ c = f[x]
    OBVIOUS
  <2>5. a \in Nat /\ b \in Nat /\ c \in Nat
    BY <1>0, <2>1, <2>4
  <2>6. a <= c + b
    BY <2>2, <2>4, <2>5
  <2> QED BY <2>3, <2>4, <2>6
<1> HIDE DEF P
<1>3. P \in SUBSET (SUBSET S)
  BY DEF P
<1>4. P = SUBSET S
  BY <1>1, <1>2, <1>3, SetInduction
<1> QED BY <1>4 DEF P

LEMMA SumOne ==
    ASSUME NEW f, NEW k, f[k] \in Nat
    PROVE  SumFunctionOnSet(f, {k}) = f[k]
<1>1. IsFiniteSet({k}) /\ \A x \in {k} : f[x] \in Int
  <2>1. IsFiniteSet({k})
    BY FS_Singleton
  <2>2. f[k] \in Int
    OBVIOUS
  <2> QED BY <2>1, <2>2
<1>2. SumFunctionOnSet(f, {k}) = f[k] + SumFunctionOnSet(f, {k} \ {k})
  BY <1>1, SumRemove
<1>3. {k} \ {k} = {}
  OBVIOUS
<1>4. SumFunctionOnSet(f, {}) = 0
  BY SumStep, FS_EmptySet
<1> QED BY <1>2, <1>3, <1>4

\* The series of f that a selector names.
Selected(f, s) == {k \in DOMAIN f : Parsed[k].ok /\ SupersetOf(Parsed[k], s)}

LEMMA SelectedAdds ==
    ASSUME NEW f, Numbered(f), NEW key, NEW x \in Nat, NEW g,
           DOMAIN g = DOMAIN f \cup {key}, \A k \in DOMAIN f \ {key} : g[k] = f[k],
           g[key] = (IF key \in DOMAIN f THEN f[key] ELSE 0) + x, NEW s
    PROVE  SumFunctionOnSet(g, Selected(g, s)) = SumFunctionOnSet(f, Selected(f, s))
             + (IF Parsed[key].ok /\ SupersetOf(Parsed[key], s) THEN x ELSE 0)
<1>1. PICK F : F = Selected(g, s)
  OBVIOUS
<1>2. F \in SUBSET DOMAIN g /\ F \cap DOMAIN f = Selected(f, s)
  BY <1>1 DEF Selected
<1>3. key \in F <=> Parsed[key].ok /\ SupersetOf(Parsed[key], s)
  BY <1>1 DEF Selected
<1>4. x \in Int /\ IsFiniteSet(DOMAIN f) /\ \A k \in DOMAIN f : f[k] \in Int
  BY DEF Numbered
<1>5. SumFunctionOnSet(g, F) = SumFunctionOnSet(f, F \cap DOMAIN f) + (IF key \in F THEN x ELSE 0)
  BY <1>2, <1>4, SumUpdate
<1> QED BY <1>1, <1>2, <1>3, <1>5

\* A bag of writes with one more w.
Counting(b) == IsFiniteSet(DOMAIN b) /\ \A w \in DOMAIN b : w \in AllWrites /\ b[w] \in Nat
OneMore(b, w, c) ==
    /\ DOMAIN c = DOMAIN b \cup {w} /\ \A v \in DOMAIN b \ {w} : c[v] = b[v]
    /\ c[w] = (IF w \in DOMAIN b THEN b[w] ELSE 0) + 1

LEMMA BagAdds ==
    ASSUME NEW b, Counting(b), NEW w \in AllWrites, NEW c, c = b (+) SetToBag({w})
    PROVE  Counting(c) /\ OneMore(b, w, c)
<1>1. OneMore(b, w, c)
  BY DEF Counting, OneMore, (+), SetToBag
<1>2. IsFiniteSet(DOMAIN c)
  BY <1>1, FS_AddElement DEF Counting, OneMore
<1>3. \A v \in DOMAIN c : v \in AllWrites /\ c[v] \in Nat
  BY <1>1 DEF Counting, OneMore
<1> QED BY <1>1, <1>2, <1>3 DEF Counting

LEMMA Times == \A x, y \in Nat : x * (y + 1) = x * y + x /\ x * y \in Int /\ x * (0 + 1) = 0 + x
OBVIOUS

LEMMA CountedAdds ==
    ASSUME Recorders, NEW b, Counting(b), NEW w \in AllWrites, NEW c, Counting(c), OneMore(b, w, c), NEW n, NEW q
    PROVE  /\ Counted(n, q, b) \in Int
           /\ Counted(n, q, c) = Counted(n, q, b)
                + (IF w.op = "counter" /\ w.name = n /\ Carries(w, q) THEN w.x ELSE 0)
<1> DEFINE D(bag) == {v \in WritesOf("counter", n, bag) : Carries(v, q)}
           G(bag) == [v \in D(bag) |-> v.x * bag[v]]
<1>1. PICK f, g : f = G(b) /\ g = G(c)
  OBVIOUS
<1>2. Counted(n, q, b) = SumFunctionOnSet(f, DOMAIN f) /\ Counted(n, q, c) = SumFunctionOnSet(g, DOMAIN g)
  BY <1>1 DEF Counted, SumFunction
<1>3. \A v : /\ v \in DOMAIN f <=> v \in DOMAIN b /\ v.op = "counter" /\ v.name = n /\ Carries(v, q)
             /\ v \in DOMAIN g <=> v \in DOMAIN c /\ v.op = "counter" /\ v.name = n /\ Carries(v, q)
  BY <1>1 DEF WritesOf
<1>4. (\A v \in DOMAIN f : f[v] = v.x * b[v]) /\ \A v \in DOMAIN g : g[v] = v.x * c[v]
  BY <1>1
<1> HIDE DEF D, G
<1>5. \A v \in AllWrites : v.op = "counter" => v.x \in Nat
  BY WritesSound DEF Sound, Shape
<1>6. IsFiniteSet(DOMAIN f)
  BY <1>3, FS_Subset DEF Counting
<1>7. \A v \in DOMAIN f : f[v] \in Int
  BY <1>3, <1>4, <1>5, Times DEF Counting
<1>8. Counted(n, q, b) \in Int
  BY <1>2, <1>6, <1>7, SumRemove
<1>9. \A v \in DOMAIN f \ {w} : v \in DOMAIN g /\ g[v] = f[v]
  BY <1>3, <1>4 DEF OneMore
<1>10. CASE w.op = "counter" /\ w.name = n /\ Carries(w, q)
  <2>1. DOMAIN g = DOMAIN f \cup {w}
    BY <1>3, <1>10 DEF OneMore
  <2>2. g[w] = (IF w \in DOMAIN f THEN f[w] ELSE 0) + w.x
    <3>1. w.x \in Nat /\ g[w] = w.x * c[w] /\ (w \in DOMAIN f <=> w \in DOMAIN b)
      BY <1>3, <1>4, <1>5, <1>10, <2>1
    <3>2. CASE w \in DOMAIN b
      <4>1. c[w] = b[w] + 1 /\ b[w] \in Nat /\ f[w] = w.x * b[w]
        BY <1>4, <3>1, <3>2 DEF OneMore, Counting
      <4> QED BY <3>1, <3>2, <4>1, Times
    <3>3. CASE w \notin DOMAIN b
      <4>1. c[w] = 0 + 1
        BY <3>3 DEF OneMore
      <4> QED BY <3>1, <3>3, <4>1, Times
    <3> QED BY <3>2, <3>3
  <2>3. w.x \in Int /\ DOMAIN g \in SUBSET DOMAIN g /\ DOMAIN g \cap DOMAIN f = DOMAIN f /\ w \in DOMAIN g
    BY <1>5, <1>10, <2>1
  <2>4. SumFunctionOnSet(g, DOMAIN g) = SumFunctionOnSet(f, DOMAIN g \cap DOMAIN f)
                                          + (IF w \in DOMAIN g THEN w.x ELSE 0)
    <3>1. PICK d, F : d = w.x /\ F = DOMAIN g
      OBVIOUS
    <3>2. /\ d \in Int /\ IsFiniteSet(DOMAIN f) /\ DOMAIN g = DOMAIN f \cup {w} /\ F \in SUBSET DOMAIN g
          /\ (\A x \in DOMAIN f : f[x] \in Int) /\ \A x \in DOMAIN f \ {w} : g[x] = f[x]
          /\ g[w] = (IF w \in DOMAIN f THEN f[w] ELSE 0) + d
      BY <1>6, <1>7, <1>9, <2>1, <2>2, <2>3, <3>1
    <3>3. SumFunctionOnSet(g, F) = SumFunctionOnSet(f, F \cap DOMAIN f) + (IF w \in F THEN d ELSE 0)
      BY <3>2, SumUpdate
    <3> QED BY <3>1, <3>3
  <2> QED BY <1>2, <1>8, <1>10, <2>3, <2>4
<1>11. CASE ~(w.op = "counter" /\ w.name = n /\ Carries(w, q))
  <2>1. DOMAIN g = DOMAIN f /\ w \notin DOMAIN f
    BY <1>3, <1>11 DEF OneMore
  <2>2. SumFunctionOnSet(g, DOMAIN f) = SumFunctionOnSet(f, DOMAIN f)
    BY <1>6, <1>9, <2>1, SumCong
  <2> QED BY <1>2, <1>8, <1>11, <2>1, <2>2
<1> QED BY <1>8, <1>10, <1>11

LEMMA ObservedAdds ==
    ASSUME NEW b, Counting(b), NEW w \in AllWrites, NEW c, OneMore(b, w, c), NEW n, NEW q
    PROVE  /\ Observed(n, q, b) \in Int
           /\ Observed(n, q, c) = Observed(n, q, b)
                + (IF w.op = "trend" /\ w.name = n /\ Carries(w, q) THEN 1 ELSE 0)
<1>1. PICK F, G : /\ F = {v \in WritesOf("trend", n, b) : Carries(v, q)}
                  /\ G = {v \in WritesOf("trend", n, c) : Carries(v, q)}
  OBVIOUS
<1>2. G \in SUBSET DOMAIN c /\ G \cap DOMAIN b = F /\ F \in SUBSET DOMAIN b
      /\ (w \in G <=> w.op = "trend" /\ w.name = n /\ Carries(w, q))
  BY <1>1 DEF WritesOf, OneMore
<1>3. IsFiniteSet(DOMAIN b) /\ \A v \in DOMAIN b : b[v] \in Int
  BY DEF Counting
<1>4. SumFunctionOnSet(c, G) = SumFunctionOnSet(b, G \cap DOMAIN b) + (IF w \in G THEN 1 ELSE 0)
  <2>1. PICK d : d = 1
    OBVIOUS
  <2>2. /\ d \in Int /\ DOMAIN c = DOMAIN b \cup {w} /\ \A x \in DOMAIN b \ {w} : c[x] = b[x]
        /\ c[w] = (IF w \in DOMAIN b THEN b[w] ELSE 0) + d
        /\ IsFiniteSet(DOMAIN b) /\ (\A v \in DOMAIN b : b[v] \in Int) /\ G \in SUBSET DOMAIN c
    BY <1>2, <1>3, <2>1 DEF OneMore
  <2>3. SumFunctionOnSet(c, G) = SumFunctionOnSet(b, G \cap DOMAIN b) + (IF w \in G THEN d ELSE 0)
    BY <2>2, SumUpdate
  <2> QED BY <2>1, <2>3
<1>5. IsFiniteSet(F) /\ \A v \in F : b[v] \in Int
  BY <1>2, <1>3, FS_Subset
<1>6. SumFunctionOnSet(b, F) \in Int
  BY <1>5, SumRemove
<1> QED BY <1>1, <1>2, <1>4, <1>6 DEF Observed

\* A write goes to a series that a selector names exactly if it is one of the
\* writes the selector is about, unless its key does not parse.
LEMMA WriteSelected ==
    ASSUME NEW w, KeyReadsBack(w), NEW s, w.name = s.name => ~HasComma(w)
    PROVE  (Parsed[w.key].ok /\ SupersetOf(Parsed[w.key], s)) <=> w.name = s.name /\ Carries(w, s.tags)
<1>1. CASE HasComma(w)
  BY <1>1 DEF KeyReadsBack
<1>2. CASE ~HasComma(w)
  <2>1. Parsed[w.key] = Selector(w.name, TagsOf(w))
    BY <1>2 DEF KeyReadsBack
  <2>2. Parsed[w.key].ok /\ Parsed[w.key].name = w.name /\ Parsed[w.key].tags = TagsOf(w)
    BY <2>1 DEF Selector
  <2> QED BY <2>2 DEF SupersetOf, Carries
<1> QED BY <1>1, <1>2

\* Every series was written.
Written(f, op, b) == \A k \in DOMAIN f : \E w \in DOMAIN b : w.op = op /\ w.key = k

Ledger ==
    /\ Counting(made)
    /\ Written(counters, "counter", made) /\ Written(gauges, "gauge", made)
    /\ Written(rates, "rate", made) /\ Written(trends, "trend", made)
    /\ \A k \in DOMAIN counters :
          Parsed[k].ok /\ Parsed[k].name = <<"dropped_iterations">> => counters[k] > 0
    /\ \A s : CommaFree("counter", s.name, made) =>
          SumFunctionOnSet(counters, Selected(counters, s)) = Counted(s.name, s.tags, made)
    /\ \A s : CommaFree("trend", s.name, made) =>
          SumFunctionOnSet(Field(trends, "count"), Selected(trends, s)) = Observed(s.name, s.tags, made)

LEMMA GaugeMap ==
    ASSUME NEW w, Apply(w)
    PROVE  DOMAIN gauges' = IF w.op = "gauge" THEN DOMAIN gauges \cup {w.key} ELSE DOMAIN gauges
<1>1. gauges' = IF w.op = "gauge"
                THEN [k \in DOMAIN gauges \cup {w.key} |-> IF k # w.key THEN gauges[k]
                        ELSE GaugeSet(IF w.key \in DOMAIN gauges THEN gauges[w.key] ELSE GaugeNew, w.x)]
                ELSE gauges
  BY Zenon DEF Apply, Upsert
<1> QED BY <1>1

LEMMA WrittenStep ==
    ASSUME NEW f, NEW g, NEW op, NEW b, NEW c, NEW w, OneMore(b, w, c), Written(f, op, b),
           DOMAIN g = IF w.op = op THEN DOMAIN f \cup {w.key} ELSE DOMAIN f
    PROVE  Written(g, op, c)
BY DEF Written, OneMore

\* Fewer writes have fewer commas.
LEMMA CommaFreeBefore ==
    ASSUME NEW op, NEW n, NEW b, NEW w, NEW c, OneMore(b, w, c), CommaFree(op, n, c)
    PROVE  CommaFree(op, n, b) /\ (w.op = op /\ w.name = n => ~HasComma(w))
BY DEF CommaFree, WritesOf, OneMore

LEMMA CounterLedger ==
    ASSUME Recorders, Registry, Ledger, NEW w \in AllWrites, Apply(w), NEW c, OneMore(made, w, c), Counting(c), NEW s,
           CommaFree("counter", s.name, c)
    PROVE  SumFunctionOnSet(counters', Selected(counters', s)) = Counted(s.name, s.tags, c)
<1>1. CommaFree("counter", s.name, made) /\ (w.op = "counter" /\ w.name = s.name => ~HasComma(w))
  BY CommaFreeBefore
<1>2. SumFunctionOnSet(counters, Selected(counters, s)) = Counted(s.name, s.tags, made)
  BY <1>1 DEF Ledger
<1>3. /\ Counted(s.name, s.tags, made) \in Int
      /\ Counted(s.name, s.tags, c) = Counted(s.name, s.tags, made)
           + (IF w.op = "counter" /\ w.name = s.name /\ Carries(w, s.tags) THEN w.x ELSE 0)
  BY CountedAdds DEF Ledger
<1>4. CASE w.op = "counter"
  <2>1. PICK f, g : f = counters /\ g = counters'
    OBVIOUS
  <2>2. g = [k \in DOMAIN f \cup {w.key} |-> IF k # w.key THEN f[k]
                ELSE (IF w.key \in DOMAIN f THEN f[w.key] ELSE 0) + w.x]
    BY <1>4, <2>1, ApplyMaps
  <2>3. /\ DOMAIN g = DOMAIN f \cup {w.key} /\ \A k \in DOMAIN f \ {w.key} : g[k] = f[k]
        /\ g[w.key] = (IF w.key \in DOMAIN f THEN f[w.key] ELSE 0) + w.x
    BY <2>2
  <2>4. Numbered(f) /\ w.x \in Nat /\ KeyReadsBack(w)
    BY <1>4, <2>1, WritesSound DEF Registry, Sound, Shape, Stored
  <2>5. SumFunctionOnSet(g, Selected(g, s)) = SumFunctionOnSet(f, Selected(f, s))
           + (IF Parsed[w.key].ok /\ SupersetOf(Parsed[w.key], s) THEN w.x ELSE 0)
    BY <2>3, <2>4, SelectedAdds
  <2>6. (Parsed[w.key].ok /\ SupersetOf(Parsed[w.key], s)) <=> w.name = s.name /\ Carries(w, s.tags)
    BY <1>1, <1>4, <2>4, WriteSelected
  <2> QED BY <1>2, <1>3, <1>4, <2>1, <2>5, <2>6
<1>5. CASE w.op # "counter"
  <2>1. counters' = counters
    BY <1>5, ApplyMaps
  <2> QED BY <1>2, <1>3, <1>5, <2>1
<1> QED BY <1>4, <1>5

LEMMA TrendLedger ==
    ASSUME Recorders, Registry, Ledger, NEW w \in AllWrites, Apply(w), NEW c, OneMore(made, w, c), NEW s,
           CommaFree("trend", s.name, c)
    PROVE  SumFunctionOnSet(Field(trends', "count"), Selected(trends', s)) = Observed(s.name, s.tags, c)
<1>1. CommaFree("trend", s.name, made) /\ (w.op = "trend" /\ w.name = s.name => ~HasComma(w))
  BY CommaFreeBefore
<1>2. SumFunctionOnSet(Field(trends, "count"), Selected(trends, s)) = Observed(s.name, s.tags, made)
  BY <1>1 DEF Ledger
<1>3. /\ Observed(s.name, s.tags, made) \in Int
      /\ Observed(s.name, s.tags, c) = Observed(s.name, s.tags, made)
           + (IF w.op = "trend" /\ w.name = s.name /\ Carries(w, s.tags) THEN 1 ELSE 0)
  BY ObservedAdds DEF Ledger
<1>4. CASE w.op = "trend"
  <2>1. PICK f, g : f = trends /\ g = trends'
    OBVIOUS
  <2>2. g = [k \in DOMAIN f \cup {w.key} |-> IF k # w.key THEN f[k]
                ELSE TrendRecord(IF w.key \in DOMAIN f THEN f[w.key] ELSE TrendNew, w.x)]
    BY <1>4, <2>1, ApplyMaps
  <2>3. /\ DOMAIN g = DOMAIN f \cup {w.key} /\ \A k \in DOMAIN f \ {w.key} : g[k] = f[k]
        /\ g[w.key].count = (IF w.key \in DOMAIN f THEN f[w.key].count ELSE 0) + 1
    BY <2>2 DEF TrendRecord, TrendNew
  <2>4. Numbered(Field(f, "count")) /\ KeyReadsBack(w)
    BY <1>4, <2>1, WritesSound DEF Registry, Sound, Stored
  <2>5. PICK F, G : F = Field(f, "count") /\ G = Field(g, "count")
    OBVIOUS
  <2>6. /\ DOMAIN F = DOMAIN f /\ DOMAIN G = DOMAIN g
        /\ (\A k \in DOMAIN f : F[k] = f[k].count) /\ \A k \in DOMAIN g : G[k] = g[k].count
    BY <2>5 DEF Field
  <2>7. /\ DOMAIN G = DOMAIN F \cup {w.key} /\ \A k \in DOMAIN F \ {w.key} : G[k] = F[k]
        /\ G[w.key] = (IF w.key \in DOMAIN F THEN F[w.key] ELSE 0) + 1
    BY <2>3, <2>6
  <2>8. Numbered(F) /\ 1 \in Nat
    BY <2>4, <2>5
  <2>9. SumFunctionOnSet(G, Selected(G, s)) = SumFunctionOnSet(F, Selected(F, s))
           + (IF Parsed[w.key].ok /\ SupersetOf(Parsed[w.key], s) THEN 1 ELSE 0)
    BY <2>7, <2>8, SelectedAdds
  <2>10. Selected(G, s) = Selected(g, s) /\ Selected(F, s) = Selected(f, s)
    BY <2>6 DEF Selected
  <2>11. (Parsed[w.key].ok /\ SupersetOf(Parsed[w.key], s)) <=> w.name = s.name /\ Carries(w, s.tags)
    BY <1>1, <1>4, <2>4, WriteSelected
  <2> QED BY <1>2, <1>3, <1>4, <2>1, <2>5, <2>9, <2>10, <2>11
<1>5. CASE w.op # "trend"
  <2>1. trends' = trends
    BY <1>5, ApplyMaps
  <2> QED BY <1>2, <1>3, <1>5, <2>1
<1> QED BY <1>4, <1>5

LEMMA DroppedWrite ==
    ASSUME Recorders, Registry, Ledger, NEW w \in AllWrites, Apply(w), NEW k \in DOMAIN counters',
           Parsed[k].ok, Parsed[k].name = <<"dropped_iterations">>
    PROVE  counters'[k] > 0
<1>1. PICK f, g, n : f = counters /\ g = counters' /\ n = <<"dropped_iterations">>
  OBVIOUS
<1>2. \A j \in DOMAIN f : f[j] \in Nat /\ (Parsed[j].ok /\ Parsed[j].name = n => f[j] > 0)
  BY <1>1 DEF Ledger, Registry, Numbered
<1>3. CASE w.op = "counter"
  <2>1. g = [j \in DOMAIN f \cup {w.key} |-> IF j # w.key THEN f[j]
                ELSE (IF w.key \in DOMAIN f THEN f[w.key] ELSE 0) + w.x]
    <3>1. counters' = [j \in DOMAIN counters \cup {w.key} |-> IF j # w.key THEN counters[j]
                ELSE (IF w.key \in DOMAIN counters THEN counters[w.key] ELSE 0) + w.x]
      BY <1>3, ApplyMaps, Zenon
    <3> QED BY <1>1, <3>1
  <2>2. w.x \in Nat /\ (w.name = n => w.x > 0) /\ KeyReadsBack(w)
    BY <1>1, <1>3, WritesSound DEF Sound, Shape, Stored
  <2>3. CASE k = w.key
    <3>1. ~HasComma(w) /\ Parsed[w.key] = Selector(w.name, TagsOf(w))
      BY <2>2, <2>3 DEF KeyReadsBack
    <3>2. w.name = n
      BY <1>1, <2>3, <3>1 DEF Selector
    <3> QED BY <1>1, <1>2, <2>1, <2>2, <2>3, <3>2
  <2>4. CASE k # w.key
    BY <1>1, <1>2, <2>1, <2>4
  <2> QED BY <2>3, <2>4
<1>4. CASE w.op # "counter"
  <2>1. counters' = counters
    BY <1>4, ApplyMaps
  <2> QED BY <2>1 DEF Ledger
<1> QED BY <1>3, <1>4

LEMMA LedgerWrite ==
    ASSUME Recorders, Registry, Ledger, NEW w \in AllWrites, Apply(w), made' = made (+) SetToBag({w})
    PROVE  Ledger' /\ OneMore(made, w, made')
<1>1. PICK c : c = made'
  OBVIOUS
<1>2. Counting(c) /\ OneMore(made, w, c)
  BY <1>1, BagAdds DEF Ledger
<1>3. /\ Written(counters', "counter", c) /\ Written(gauges', "gauge", c)
      /\ Written(rates', "rate", c) /\ Written(trends', "trend", c)
  <2>1. /\ DOMAIN counters' = IF w.op = "counter" THEN DOMAIN counters \cup {w.key} ELSE DOMAIN counters
        /\ DOMAIN rates' = IF w.op = "rate" THEN DOMAIN rates \cup {w.key} ELSE DOMAIN rates
        /\ DOMAIN trends' = IF w.op = "trend" THEN DOMAIN trends \cup {w.key} ELSE DOMAIN trends
    BY ApplyMaps
  <2> QED BY <1>2, <2>1, GaugeMap, WrittenStep DEF Ledger
<1>4. \A k \in DOMAIN counters' :
         Parsed[k].ok /\ Parsed[k].name = <<"dropped_iterations">> => counters'[k] > 0
  BY DroppedWrite
<1>5. \A s : CommaFree("counter", s.name, c) =>
         SumFunctionOnSet(counters', Selected(counters', s)) = Counted(s.name, s.tags, c)
  BY <1>2, CounterLedger
<1>6. \A s : CommaFree("trend", s.name, c) =>
         SumFunctionOnSet(Field(trends', "count"), Selected(trends', s)) = Observed(s.name, s.tags, c)
  BY <1>2, TrendLedger
<1> QED BY <1>1, <1>2, <1>3, <1>4, <1>5, <1>6 DEF Ledger

-----------------------------------------------------------------------------
(* What a snapshot makes of it.                                            *)

\* The names that a write's series reaches.
LEMMA TargetsOf ==
    ASSUME NEW w, KeyReadsBack(w)
    PROVE  derive_targets(w.key) = IF HasComma(w) THEN {w.key} ELSE {w.key, w.name}
<1>1. CASE HasComma(w)
  <2>1. ~Parsed[w.key].ok
    BY <1>1 DEF KeyReadsBack
  <2> QED BY <1>1, <2>1 DEF derive_targets
<1>2. CASE ~HasComma(w)
  <2>1. Parsed[w.key] = Selector(w.name, TagsOf(w)) /\ canonical(Parsed[w.key]) = w.key
    BY <1>2 DEF KeyReadsBack
  <2>2. PICK s : s = Parsed[w.key]
    OBVIOUS
  <2>3. s.ok /\ s.name = w.name /\ canonical(s) = w.key
    BY <2>1, <2>2 DEF Selector
  <2>4. derive_targets(w.key) = {w.key} \cup (IF DOMAIN s.tags = {} THEN {} ELSE {w.name})
    BY <2>2, <2>3 DEF derive_targets
  <2>5. DOMAIN s.tags = {} => w.key = w.name
    BY <2>3, CanonicalBare
  <2> QED BY <1>2, <2>4, <2>5
<1> QED BY <1>1, <1>2

\* A series read back: its key is that of a write, and stands for what was written.
LEMMA SeriesOf ==
    ASSUME Recorders, NEW f, NEW op \in Stored, NEW b, Counting(b), Written(f, op, b), NEW j \in DOMAIN f
    PROVE  \E w \in DOMAIN b : /\ w \in AllWrites /\ w.op = op /\ w.key = j /\ KeyReadsBack(w)
                               /\ derive_targets(j) = IF HasComma(w) THEN {w.key} ELSE {w.key, w.name}
<1>1. PICK w \in DOMAIN b : w.op = op /\ w.key = j
  BY DEF Written
<1>2. w \in AllWrites /\ KeyReadsBack(w)
  BY <1>1, WritesSound DEF Counting, Sound
<1> QED BY <1>1, <1>2, TargetsOf

\* A name without tags collects every series of its metric.
LEMMA SourcesPlain ==
    ASSUME Recorders, NEW f, NEW op \in Stored, NEW b, Counting(b), Written(f, op, b),
           NEW s, DOMAIN s.tags = {}, ~Braced(s.name)
    PROVE  Sources(f, s.name) = Selected(f, s)
<1> SUFFICES ASSUME NEW j \in DOMAIN f
             PROVE  s.name \in derive_targets(j) <=> Parsed[j].ok /\ SupersetOf(Parsed[j], s)
  BY DEF Sources, Selected
<1>1. PICK w \in DOMAIN b : w.op = op /\ w.key = j /\ KeyReadsBack(w)
  BY SeriesOf
<1>2. s.name \in derive_targets(j) <=> w.name = s.name /\ ~HasComma(w)
  BY <1>1, TargetName
<1>3. CASE HasComma(w)
  <2>1. ~Parsed[j].ok
    BY <1>1, <1>3 DEF KeyReadsBack
  <2> QED BY <1>2, <1>3, <2>1
<1>4. CASE ~HasComma(w)
  <2>1. Parsed[j] = Selector(w.name, TagsOf(w))
    BY <1>1, <1>4 DEF KeyReadsBack
  <2>2. Parsed[j].ok /\ Parsed[j].name = w.name
    BY <2>1 DEF Selector
  <2>3. SupersetOf(Parsed[j], s) <=> w.name = s.name
    BY <2>2 DEF SupersetOf
  <2> QED BY <1>2, <1>4, <2>2, <2>3
<1> QED BY <1>3, <1>4

\* A selector with tags finds the stored series it names, each by itself.
LEMMA SourcesTagged ==
    ASSUME Recorders, NEW f, NEW op \in Stored, NEW b, Counting(b), Written(f, op, b),
           NEW s, DOMAIN s.tags # {}, NEW g, DOMAIN g = Targets(f)
    PROVE  Selected(g, s) = Selected(f, s) /\ \A k \in Selected(f, s) : Sources(f, k) = {k}
<1>1. ASSUME NEW j \in DOMAIN f, NEW k \in derive_targets(j), Parsed[k].ok, SupersetOf(Parsed[k], s)
      PROVE  k = j
  <2>1. PICK w \in DOMAIN b : /\ w.key = j /\ KeyReadsBack(w)
                              /\ derive_targets(j) = IF HasComma(w) THEN {w.key} ELSE {w.key, w.name}
    BY SeriesOf
  <2>2. Parsed[w.name] = Selector(w.name, << >>)
    BY <2>1 DEF KeyReadsBack
  <2>3. DOMAIN Parsed[w.name].tags = {}
    BY <2>2 DEF Selector
  <2>4. DOMAIN Parsed[k].tags # {}
    BY <1>1 DEF SupersetOf
  <2>5. k # w.name
    BY <2>3, <2>4
  <2> QED BY <1>1, <2>1, <2>5
<1>2. ASSUME NEW k \in DOMAIN f, Parsed[k].ok, SupersetOf(Parsed[k], s) PROVE k \in derive_targets(k)
  BY SeriesOf
<1>3. Selected(g, s) = Selected(f, s)
  <2>1. \A k : k \in DOMAIN g <=> \E j \in DOMAIN f : k \in derive_targets(j)
    BY DEF Targets
  <2>2. \A k \in Selected(g, s) : k \in Selected(f, s)
    BY <1>1, <2>1 DEF Selected
  <2>3. \A k \in Selected(f, s) : k \in Selected(g, s)
    BY <1>2, <2>1 DEF Selected
  <2> QED BY <2>2, <2>3
<1>4. ASSUME NEW k \in Selected(f, s) PROVE Sources(f, k) = {k}
  <2>1. k \in DOMAIN f /\ Parsed[k].ok /\ SupersetOf(Parsed[k], s)
    BY <1>4 DEF Selected
  <2>2. \A j \in DOMAIN f : k \in derive_targets(j) <=> j = k
    BY <1>1, <1>2, <2>1
  <2> QED BY <2>1, <2>2 DEF Sources
<1> QED BY <1>3, <1>4

\* What a selector reads off a snapshot's counters or trends is what it reads
\* off the stored ones.
LEMMA MergedCounter ==
    ASSUME Recorders, NEW f, Numbered(f), NEW b, Counting(b), Written(f, "counter", b),
           NEW s, s.ok, DOMAIN s.tags # {}, SelectorReadsBack(s), NEW m, m.counters = derive_counters(f)
    PROVE  merged_counter_for_threshold(canonical(s), m) = SumFunctionOnSet(f, Selected(f, s))
<1>1. PICK g : g = derive_counters(f)
  OBVIOUS
<1>2. DOMAIN g = Targets(f) /\ \A k \in DOMAIN g : g[k] = Fed(f, k)
  BY <1>1 DEF derive_counters, Fed
<1>3. Selected(g, s) = Selected(f, s) /\ \A k \in Selected(f, s) : Sources(f, k) = {k}
  BY <1>2, SourcesTagged DEF Stored
<1>4. Subset(g, canonical(s)) = Selected(g, s)
  <2>1. Parsed[canonical(s)] = s
    BY DEF SelectorReadsBack
  <2> QED BY <2>1 DEF Subset, Selected, stored_is_subset_match
<1>5. IsFiniteSet(Selected(f, s)) /\ Selected(f, s) \in SUBSET DOMAIN f
  BY FS_Subset DEF Selected, Numbered
<1>6. ASSUME NEW k \in Selected(f, s) PROVE g[k] = f[k]
  <2>1. k \in DOMAIN g /\ k \in DOMAIN f /\ f[k] \in Nat
    BY <1>3, <1>5, <1>6 DEF Selected, Numbered
  <2>2. g[k] = SumFunctionOnSet(f, {k})
    BY <1>2, <1>3, <1>6, <2>1 DEF Fed
  <2> QED BY <2>1, <2>2, SumOne
<1>7. SumFunctionOnSet(g, Selected(f, s)) = SumFunctionOnSet(f, Selected(f, s))
  BY <1>5, <1>6, SumCong
<1> QED BY <1>1, <1>3, <1>4, <1>7 DEF merged_counter_for_threshold

LEMMA MergedTrend ==
    ASSUME Recorders, NEW f, Numbered(Field(f, "count")), NEW b, Counting(b), Written(f, "trend", b),
           NEW s, s.ok, DOMAIN s.tags # {}, SelectorReadsBack(s), NEW m, m.trends = derive_trends(f)
    PROVE  merged_trend_for_threshold(canonical(s), m).count = SumFunctionOnSet(Field(f, "count"), Selected(f, s))
<1>1. PICK g, F, G : g = derive_trends(f) /\ F = Field(f, "count") /\ G = Field(g, "count")
  OBVIOUS
<1>2. DOMAIN g = Targets(f) /\ \A k \in DOMAIN g : g[k] = MergeTrends(f, Sources(f, k))
  BY <1>1 DEF derive_trends
<1>3. /\ DOMAIN F = DOMAIN f /\ DOMAIN G = DOMAIN g
      /\ (\A k \in DOMAIN f : F[k] = f[k].count) /\ \A k \in DOMAIN g : G[k] = g[k].count
  BY <1>1 DEF Field
<1>4. IsFiniteSet(DOMAIN f) /\ \A k \in DOMAIN f : f[k].count \in Nat /\ F[k] \in Nat
  BY <1>1, <1>3 DEF Numbered
<1>5. Selected(g, s) = Selected(f, s) /\ \A k \in Selected(f, s) : Sources(f, k) = {k}
  BY <1>2, SourcesTagged DEF Stored
<1>6. Subset(g, canonical(s)) = Selected(f, s)
  <2>1. Parsed[canonical(s)] = s
    BY DEF SelectorReadsBack
  <2> QED BY <1>5, <2>1 DEF Subset, Selected, stored_is_subset_match
<1>7. IsFiniteSet(Selected(f, s)) /\ Selected(f, s) \in SUBSET DOMAIN f /\ Selected(f, s) \subseteq DOMAIN g
  BY <1>4, <1>5, FS_Subset DEF Selected
<1>8. ASSUME NEW k \in Selected(f, s) PROVE g[k].count = f[k].count /\ G[k] = F[k] /\ g[k].count \in Nat
  <2>1. k \in DOMAIN g /\ k \in DOMAIN f /\ F[k] \in Nat /\ F[k] = f[k].count
    BY <1>3, <1>4, <1>7, <1>8
  <2>2. g[k] = MergeTrends(f, {k})
    BY <1>2, <1>5, <1>8, <2>1
  <2>3. IsFiniteSet({k}) /\ {k} \subseteq DOMAIN f /\ \A j \in {k} : f[j].count \in Nat
    BY <1>4, <2>1, FS_Singleton
  <2>4. MergeTrends(f, {k}).count = SumFunctionOnSet(F, {k})
    BY <1>1, <2>3, MergeCount
  <2>5. SumFunctionOnSet(F, {k}) = F[k]
    BY <2>1, SumOne
  <2> QED BY <1>3, <2>1, <2>2, <2>4, <2>5
<1>9. MergeTrends(g, Selected(f, s)).count = SumFunctionOnSet(G, Selected(f, s))
  BY <1>1, <1>7, <1>8, MergeCount
<1>10. SumFunctionOnSet(G, Selected(f, s)) = SumFunctionOnSet(F, Selected(f, s))
  BY <1>7, <1>8, SumCong
<1> QED BY <1>1, <1>6, <1>9, <1>10 DEF merged_trend_for_threshold

\* The keys of a map of a snapshot are those of series and the names of metrics.
Leads(f, op) == \A k \in DOMAIN f : \E w \in AllWrites : w.op = op /\ k \in {w.key, w.name}

\* What the summary needs of a snapshot m taken after the writes b.
Exported(m, b) ==
    /\ Leads(m.counters, "counter") /\ Leads(m.gauges, "gauge")
    /\ Leads(m.rates, "rate") /\ Leads(m.trends, "trend")
    /\ \A n \in DOMAIN m.counters : n = <<"dropped_iterations">> => m.counters[n] > 0
    /\ \A s : DOMAIN s.tags = {} /\ ~Braced(s.name) =>
          /\ s.name \in DOMAIN m.counters /\ CommaFree("counter", s.name, b) =>
                m.counters[s.name] = Counted(s.name, s.tags, b)
          /\ s.name \in DOMAIN m.trends /\ CommaFree("trend", s.name, b) =>
                m.trends[s.name].count = Observed(s.name, s.tags, b)
    /\ \A s : s.ok /\ DOMAIN s.tags # {} /\ SelectorReadsBack(s) =>
          /\ CommaFree("counter", s.name, b) =>
                merged_counter_for_threshold(canonical(s), m) = Counted(s.name, s.tags, b)
          /\ CommaFree("trend", s.name, b) =>
                merged_trend_for_threshold(canonical(s), m).count = Observed(s.name, s.tags, b)

LEMMA TargetsLead ==
    ASSUME Recorders, NEW f, NEW op \in Stored, NEW b, Counting(b), Written(f, op, b), NEW g, DOMAIN g = Targets(f)
    PROVE  Leads(g, op)
<1> SUFFICES ASSUME NEW k \in DOMAIN g PROVE \E w \in AllWrites : w.op = op /\ k \in {w.key, w.name}
  BY DEF Leads
<1>1. PICK j \in DOMAIN f : k \in derive_targets(j)
  BY DEF Targets
<1>2. PICK w \in DOMAIN b : /\ w \in AllWrites /\ w.op = op
                            /\ derive_targets(j) = IF HasComma(w) THEN {w.key} ELSE {w.key, w.name}
  BY SeriesOf
<1> QED BY <1>1, <1>2

LEMMA PlainDropped == ~Braced(<<"dropped_iterations">>)
BY NoToken, Zenon DEF Braced

LEMMA DroppedKept ==
    ASSUME Recorders, Registry, Ledger, NEW n, n = <<"dropped_iterations">>, n \in Targets(counters)
    PROVE  Fed(counters, n) > 0
<1>1. PICK f, s : f = counters /\ s = Selector(n, << >>)
  OBVIOUS
<1>2. s.name = n /\ DOMAIN s.tags = {} /\ ~Braced(n)
  BY <1>1, PlainDropped DEF Selector
<1>3. Sources(f, n) = Selected(f, s)
  BY <1>1, <1>2, SourcesPlain DEF Ledger, Stored
<1>4. PICK j \in DOMAIN f : n \in derive_targets(j)
  BY <1>1 DEF Targets
<1>5. j \in Selected(f, s)
  BY <1>3, <1>4 DEF Sources
<1>6. IsFiniteSet(Selected(f, s)) /\ \A k \in Selected(f, s) : f[k] \in Nat
  BY <1>1, FS_Subset DEF Registry, Numbered, Selected
<1>7. f[j] > 0
  <2>1. Parsed[j].ok /\ Parsed[j].name = n
    BY <1>2, <1>5 DEF Selected, SupersetOf
  <2> QED BY <1>1, <1>4, <2>1 DEF Ledger
<1>8. SumFunctionOnSet(f, Selected(f, s)) = f[j] + SumFunctionOnSet(f, Selected(f, s) \ {j})
  BY <1>5, <1>6, SumRemove
<1>9. SumFunctionOnSet(f, Selected(f, s) \ {j}) \in Nat
  BY <1>6, FS_Subset, SumNat
<1> QED BY <1>1, <1>3, <1>5, <1>6, <1>7, <1>8, <1>9 DEF Fed

LEMMA PlainCounter ==
    ASSUME Recorders, Registry, Ledger, NEW m, m.counters = derive_counters(counters),
           NEW s, DOMAIN s.tags = {}, ~Braced(s.name), s.name \in DOMAIN m.counters, CommaFree("counter", s.name, made)
    PROVE  m.counters[s.name] = Counted(s.name, s.tags, made)
<1>1. m.counters[s.name] = SumFunctionOnSet(counters, Sources(counters, s.name))
  BY DEF derive_counters
<1>2. Sources(counters, s.name) = Selected(counters, s)
  BY SourcesPlain DEF Ledger, Stored
<1> QED BY <1>1, <1>2 DEF Ledger

LEMMA PlainTrend ==
    ASSUME Recorders, Registry, Ledger, NEW m, m.trends = derive_trends(trends),
           NEW s, DOMAIN s.tags = {}, ~Braced(s.name), s.name \in DOMAIN m.trends, CommaFree("trend", s.name, made)
    PROVE  m.trends[s.name].count = Observed(s.name, s.tags, made)
<1>1. m.trends[s.name] = MergeTrends(trends, Sources(trends, s.name))
  BY DEF derive_trends
<1>2. Sources(trends, s.name) = Selected(trends, s)
  BY SourcesPlain DEF Ledger, Stored
<1>3. DOMAIN Field(trends, "count") = DOMAIN trends /\ \A k \in DOMAIN trends : Field(trends, "count")[k] = trends[k].count
  BY FieldFed
<1>4. IsFiniteSet(Selected(trends, s)) /\ Selected(trends, s) \subseteq DOMAIN trends
      /\ \A k \in Selected(trends, s) : trends[k].count \in Nat
  BY <1>3, FS_Subset DEF Registry, Numbered, Selected
<1>5. MergeTrends(trends, Selected(trends, s)).count = SumFunctionOnSet(Field(trends, "count"), Selected(trends, s))
  BY <1>4, MergeCount
<1> QED BY <1>1, <1>2, <1>5 DEF Ledger

\* A snapshot exports what was recorded up to it.
LEMMA SnapshotExports ==
    ASSUME Recorders, Registry, Ledger, NEW m, m = SnapshotMaps(now)
    PROVE  Exported(m, made)
<1>1. /\ m.counters = derive_counters(counters) /\ m.rates = derive_rates(rates)
      /\ m.trends = derive_trends(trends) /\ m.gauges = GaugeViews(gauges)
  BY DEF SnapshotMaps
<1>2. /\ DOMAIN m.counters = Targets(counters) /\ DOMAIN m.rates = Targets(rates)
      /\ DOMAIN m.trends = Targets(trends) /\ DOMAIN m.gauges = DOMAIN gauges
  BY <1>1 DEF derive_counters, derive_rates, derive_trends, GaugeViews
<1>3. /\ Leads(m.counters, "counter") /\ Leads(m.rates, "rate") /\ Leads(m.trends, "trend")
  BY <1>2, TargetsLead DEF Ledger, Stored
<1>4. Leads(m.gauges, "gauge")
  BY <1>2 DEF Ledger, Written, Counting, Leads
<1>5. ASSUME NEW n \in DOMAIN m.counters, n = <<"dropped_iterations">> PROVE m.counters[n] > 0
  <2>1. m.counters[n] = Fed(counters, n) /\ n \in Targets(counters)
    BY <1>1, <1>2, <1>5 DEF derive_counters, Fed
  <2> QED BY <1>5, <2>1, DroppedKept
<1>6. ASSUME NEW s, DOMAIN s.tags = {}, ~Braced(s.name)
      PROVE  /\ s.name \in DOMAIN m.counters /\ CommaFree("counter", s.name, made) =>
                   m.counters[s.name] = Counted(s.name, s.tags, made)
             /\ s.name \in DOMAIN m.trends /\ CommaFree("trend", s.name, made) =>
                   m.trends[s.name].count = Observed(s.name, s.tags, made)
  BY <1>1, <1>6, PlainCounter, PlainTrend
<1>7. ASSUME NEW s, s.ok, DOMAIN s.tags # {}, SelectorReadsBack(s)
      PROVE  /\ CommaFree("counter", s.name, made) =>
                   merged_counter_for_threshold(canonical(s), m) = Counted(s.name, s.tags, made)
             /\ CommaFree("trend", s.name, made) =>
                   merged_trend_for_threshold(canonical(s), m).count = Observed(s.name, s.tags, made)
  <2>1. merged_counter_for_threshold(canonical(s), m) = SumFunctionOnSet(counters, Selected(counters, s))
    BY <1>1, <1>7, MergedCounter DEF Ledger, Registry
  <2>2. merged_trend_for_threshold(canonical(s), m).count
          = SumFunctionOnSet(Field(trends, "count"), Selected(trends, s))
    BY <1>1, <1>7, MergedTrend DEF Ledger, Registry
  <2> QED BY <2>1, <2>2 DEF Ledger
<1> QED BY <1>3, <1>4, <1>5, <1>6, <1>7 DEF Exported

-----------------------------------------------------------------------------
(* The summary.                                                            *)

\* A key of a snapshot that parses without tags is the name of its metric.
LEMMA LedBack ==
    ASSUME Recorders, NEW f, NEW op \in Stored, Leads(f, op), NEW k \in DOMAIN f, Parsed[k].ok
    PROVE  /\ DOMAIN Parsed[k].tags = {} => /\ Parsed[k].name = k /\ ~Braced(k)
                                            /\ \E w \in AllWrites : w.op = op /\ w.name = k
           /\ ~Braced(k) => DOMAIN Parsed[k].tags = {}
<1>1. PICK w \in AllWrites : w.op = op /\ k \in {w.key, w.name}
  BY DEF Leads
<1>2. KeyReadsBack(w)
  BY <1>1, WritesSound DEF Sound
<1>3. CASE k = w.name
  <2>1. Parsed[k] = Selector(w.name, << >>) /\ ~Braced(k)
    BY <1>2, <1>3 DEF KeyReadsBack
  <2>2. Parsed[k].name = k /\ DOMAIN Parsed[k].tags = {}
    BY <1>3, <2>1 DEF Selector
  <2> QED BY <1>1, <1>3, <2>1, <2>2
<1>4. CASE k = w.key
  <2>1. /\ Parsed[k] = Selector(w.name, TagsOf(w)) /\ canonical(Parsed[k]) = k
        /\ Braced(k) <=> DOMAIN TagsOf(w) # {}
    BY <1>2, <1>4 DEF KeyReadsBack
  <2>2. Parsed[k].name = w.name /\ Parsed[k].tags = TagsOf(w)
    BY <2>1 DEF Selector
  <2>3. DOMAIN Parsed[k].tags = {} => w.name = k
    BY <2>1, <2>2, CanonicalBare
  <2> QED BY <1>1, <2>1, <2>2, <2>3
<1> QED BY <1>1, <1>3, <1>4

LEMMA TargetedBack ==
    ASSUME run \in Runs, NEW u \in threshold_selectors(ts)
    PROVE  u.ok /\ DOMAIN u.tags # {} /\ SelectorReadsBack(u) /\ Parsed[canonical(u)] = u
<1>1. CASE u = ExpectedResponse
  <2>1. u.ok /\ DOMAIN u.tags # {}
    BY <1>1 DEF ExpectedResponse, Selector
  <2>2. SelectorReadsBack(u)
    BY <1>1, KeysAssumption
  <2> QED BY <2>1, <2>2 DEF SelectorReadsBack
<1>2. CASE u # ExpectedResponse
  <2>1. PICK t \in ts : u = Parsed[t.metric]
    BY <1>2 DEF threshold_selectors
  <2>2. u.ok /\ DOMAIN u.tags # {}
    BY <1>2 DEF threshold_selectors
  <2>3. SelectorReadsBack(u)
    BY <2>1, KeysAssumption DEF ts
  <2> QED BY <2>2, <2>3 DEF SelectorReadsBack
<1> QED BY <1>1, <1>2

\* Every metric has a line in the text: a section prints it, or the rest.
LEMMA HasLine ==
    ASSUME Recorders, NEW m, NEW b, Exported(m, b), NEW k \in SnapKeys(m), Parsed[k].ok, DOMAIN Parsed[k].tags = {}
    PROVE  \E l \in Lines(m) : l[2] = k
<1>1. /\ Leads(m.counters, "counter") /\ Leads(m.gauges, "gauge")
      /\ Leads(m.rates, "rate") /\ Leads(m.trends, "trend")
  BY DEF Exported
<1>2. ASSUME NEW f, NEW op \in Stored, Leads(f, op), k \in DOMAIN f
      PROVE  k \in Printed => k \in SectionOf(op)
  <2>1. PICK w \in AllWrites : w.op = op /\ w.name = k
    BY <1>2, LedBack
  <2> QED BY <2>1, WritesSound DEF Sound, Shape
<1>3. CASE k \in DOMAIN m.gauges
  <2>1. <<"gauge", k>> \in Lines(m)
    BY <1>3 DEF Lines
  <2> QED BY <2>1
<1>4. CASE k \in DOMAIN m.counters
  <2>1. k \in Printed => k \in SectionOf("counter")
    BY <1>1, <1>2, <1>4 DEF Stored
  <2>2. k = <<"dropped_iterations">> => m.counters[k] > 0
    BY <1>4 DEF Exported
  <2>3. <<"counter", k>> \in Lines(m)
    BY <1>4, <2>1, <2>2 DEF Lines, SectionOf
  <2> QED BY <2>3
<1>5. CASE k \in DOMAIN m.rates
  <2>1. k \in Printed => k \in SectionOf("rate")
    BY <1>1, <1>2, <1>5 DEF Stored
  <2>2. <<"rate", k>> \in Lines(m)
    BY <1>5, <2>1 DEF Lines, SectionOf
  <2> QED BY <2>2
<1>6. CASE k \in DOMAIN m.trends
  <2>1. k \in Printed => k \in SectionOf("trend")
    BY <1>1, <1>2, <1>6 DEF Stored
  <2>2. <<"trend", k>> \in Lines(m)
    BY <1>6, <2>1 DEF Lines, SectionOf
  <2> QED BY <2>2
<1> QED BY <1>3, <1>4, <1>5, <1>6 DEF SnapKeys

\* What SummaryExact says of one entry x of the summary, under the selector s.
EntryExact(x, s, b) ==
    /\ (x.type = "counter" /\ CommaFree("counter", s.name, b)) => x.count = Counted(s.name, s.tags, b)
    /\ (x.type = "trend" /\ CommaFree("trend", s.name, b)) => x.stats.count = Observed(s.name, s.tags, b)

LEMMA StatsCount ==
    ASSUME NEW t
    PROVE  /\ MetricTrend(t).type = "trend" /\ MetricTrend(t).stats.count = t.count
           /\ \A n, m : MetricCounter(n, m).type = "counter" /\ MetricCounter(n, m).count = n
           /\ \A r : MetricRate(r).type = "rate"
           /\ \A g : MetricGauge(g).type = "gauge"
<1>1. TrendStats(t).count = t.count
  BY DEF TrendStats
<1> QED BY <1>1 DEF MetricTrend, MetricCounter, MetricRate, MetricGauge

\* The merge over the wider series counts what its selector names.
LEMMA SynthesizedExact ==
    ASSUME NEW m, NEW b, Exported(m, b), NEW s, s.ok, DOMAIN s.tags # {}, SelectorReadsBack(s)
    PROVE  EntryExact(synthesize_subset_metric(s, m), s, b)
<1>1. PICK x : x = synthesize_subset_metric(s, m)
  OBVIOUS
<1>2. PICK c, t, r : /\ c = merged_counter_for_threshold(canonical(s), m)
                     /\ t = merged_trend_for_threshold(canonical(s), m)
                     /\ r = merged_rate_for_threshold(canonical(s), m)
  OBVIOUS
<1>3. x = MetricTrend(t) \/ x = MetricCounter(c, m) \/ x = MetricRate(r)
  BY <1>1, <1>2 DEF synthesize_subset_metric
<1>4. /\ CommaFree("counter", s.name, b) => c = Counted(s.name, s.tags, b)
      /\ CommaFree("trend", s.name, b) => t.count = Observed(s.name, s.tags, b)
  BY <1>2 DEF Exported
<1> QED BY <1>1, <1>3, <1>4, StatsCount DEF EntryExact

\* So does the entry of a metric itself.
LEMMA PassedExact ==
    ASSUME NEW m, NEW b, Exported(m, b), NEW s, DOMAIN s.tags = {}, ~Braced(s.name), s.name \in SnapKeys(m)
    PROVE  EntryExact(PassThrough(s.name, m), s, b)
<1>1. PICK x, k : x = PassThrough(s.name, m) /\ k = s.name
  OBVIOUS
<1>2. \/ k \in DOMAIN m.trends /\ x = MetricTrend(m.trends[k])
      \/ x = MetricRate(m.rates[k]) \/ x = MetricGauge(m.gauges[k])
      \/ k \in DOMAIN m.counters /\ x = MetricCounter(m.counters[k], m)
  BY <1>1 DEF PassThrough, SnapKeys
<1>3. /\ k \in DOMAIN m.counters /\ CommaFree("counter", k, b) => m.counters[k] = Counted(k, s.tags, b)
      /\ k \in DOMAIN m.trends /\ CommaFree("trend", k, b) => m.trends[k].count = Observed(k, s.tags, b)
  BY <1>1 DEF Exported
<1> QED BY <1>1, <1>2, <1>3, StatsCount DEF EntryExact

\* A submetric that a threshold names and the snapshot has is never passed through
\* as it is, but for a gauge.
LEMMA NotPassed ==
    ASSUME NEW m, NEW u, u.ok, Parsed[canonical(u)] = u, ~Synthesizable(u, m), canonical(u) \in SnapKeys(m)
    PROVE  PassThrough(canonical(u), m).type = "gauge"
<1>1. PICK k : k = canonical(u)
  OBVIOUS
<1>2. \A f : k \in DOMAIN f => k \in Subset(f, k)
  BY <1>1 DEF Subset, stored_is_subset_match, SupersetOf
<1>3. k \notin DOMAIN m.trends /\ k \notin DOMAIN m.counters /\ k \notin DOMAIN m.rates
  BY <1>1, <1>2 DEF Synthesizable
<1>4. k \in DOMAIN m.gauges
  BY <1>1, <1>3 DEF SnapKeys
<1>5. PassThrough(k, m) = MetricGauge(m.gauges[k])
  BY <1>3, <1>4 DEF PassThrough
<1> QED BY <1>1, <1>5, StatsCount

\* Every entry of the summary is one that belongs there, and exact.
Belongs(sum, k, s, m, b, active) ==
    /\ DOMAIN s.tags = {} \/ ~active \/ s \in threshold_selectors(ts)
    /\ DOMAIN s.tags = {} => \E l \in Lines(m) : l[2] = k
    /\ DOMAIN s.tags = {} \/ active => EntryExact(sum[k], s, b)

LEMMA SummaryEntry ==
    ASSUME Recorders, run \in Runs, NEW m, NEW b, Exported(m, b), NEW active \in BOOLEAN,
           NEW sum, sum = build_summary_data(m, active, ts), NEW k \in DOMAIN sum, NEW s, s = Parsed[k], s.ok
    PROVE  Belongs(sum, k, s, m, b, active)
<1> DEFINE shown == {j \in SnapKeys(m) : include_tagged(j, active, ts)}
           synth == {canonical(u) : u \in {v \in IF active THEN threshold_selectors(ts)
                                                 ELSE {ExpectedResponse} : Synthesizable(v, m)}}
<1>1. /\ k \in shown \cup synth
      /\ sum[k] = IF k \in synth THEN synthesize_subset_metric(s, m) ELSE PassThrough(k, m)
  BY DEF build_summary_data
<1>2. CASE k \in synth
  <2>1. PICK u \in threshold_selectors(ts) : k = canonical(u)
    BY <1>2 DEF threshold_selectors
  <2>2. s = u /\ DOMAIN s.tags # {} /\ SelectorReadsBack(s)
    BY <2>1, TargetedBack
  <2>3. EntryExact(sum[k], s, b)
    BY <1>1, <1>2, <2>2, SynthesizedExact
  <2> QED BY <2>1, <2>2, <2>3 DEF Belongs
<1>3. CASE k \notin synth
  <2>1. k \in SnapKeys(m) /\ include_tagged(k, active, ts) /\ sum[k] = PassThrough(k, m)
    BY <1>1, <1>3
  <2>2. /\ DOMAIN s.tags = {} => s.name = k /\ ~Braced(k)
        /\ ~Braced(k) => DOMAIN s.tags = {}
    BY <2>1, LedBack DEF SnapKeys, Exported, Stored
  <2>3. CASE DOMAIN s.tags = {}
    <3>1. EntryExact(sum[k], s, b)
      BY <2>1, <2>2, <2>3, PassedExact
    <3>2. \E l \in Lines(m) : l[2] = k
      BY <2>1, <2>3, HasLine
    <3> QED BY <2>3, <3>1, <3>2 DEF Belongs
  <2>4. CASE DOMAIN s.tags # {} /\ ~active
    BY <2>4 DEF Belongs
  <2>5. CASE DOMAIN s.tags # {} /\ active
    <3>1. PICK u \in threshold_selectors(ts) : k = canonical(u)
      BY <2>1, <2>2, <2>5 DEF include_tagged
    <3>2. u.ok /\ Parsed[canonical(u)] = u /\ s = u
      BY <3>1, TargetedBack
    <3>3. ~Synthesizable(u, m)
      BY <1>3, <2>5, <3>1
    <3>4. sum[k].type = "gauge"
      BY <2>1, <3>1, <3>2, <3>3, NotPassed
    <3>5. EntryExact(sum[k], s, b)
      BY <3>4 DEF EntryExact
    <3> QED BY <2>5, <3>1, <3>2, <3>5 DEF Belongs
  <2> QED BY <2>3, <2>4, <2>5
<1> QED BY <1>2, <1>3

LEMMA SummaryFollows ==
    ASSUME Recorders, run \in Runs, run.no_thresholds \in BOOLEAN, snap # NoSnap => Exported(snap.maps, snap.of)
    PROVE  SummaryExact
<1> SUFFICES ASSUME snap # NoSnap PROVE SummaryExact
  BY DEF SummaryExact, UpToDate
<1>1. PICK m, b, active, sum, text :
         /\ m = snap.maps /\ b = snap.of /\ active = ~run.no_thresholds
         /\ sum = build_summary_data(m, active, ts) /\ text = {l.line[2] : l \in format_summary(m, ts)}
  OBVIOUS
<1>2. Exported(m, b) /\ active \in BOOLEAN
  BY <1>1
<1>3. ASSUME NEW l \in Lines(m) PROVE l[2] \in text
  <2>1. PICK x : x = IF Marked(l) THEN threshold_mark(ts, l[2], m) ELSE ""
    OBVIOUS
  <2>2. [line |-> l, mark |-> x] \in format_summary(m, ts)
    BY <2>1 DEF format_summary
  <2> QED BY <1>1, <2>2
<1>4. ASSUME NEW k \in DOMAIN sum, NEW s \in {Parsed[k]}, s.ok
      PROVE  /\ DOMAIN s.tags = {} \/ run.no_thresholds \/ s \in threshold_selectors(ts)
             /\ DOMAIN s.tags = {} => k \in text
             /\ DOMAIN s.tags = {} \/ ~run.no_thresholds => EntryExact(sum[k], s, b)
  <2>1. s = Parsed[k] /\ sum = build_summary_data(m, active, ts)
    BY <1>1
  <2>2. Belongs(sum, k, s, m, b, active)
    BY <1>2, <1>4, <2>1, SummaryEntry
  <2> QED BY <1>1, <1>3, <2>2 DEF Belongs
<1> QED BY <1>1, <1>4 DEF SummaryExact, EntryExact

ReportInv ==
    /\ Ledger
    /\ snap # NoSnap => Exported(snap.maps, snap.of)

LEMMA NoWrites ==
    ASSUME NEW b, DOMAIN b = {}, NEW n, NEW q
    PROVE  Counted(n, q, b) = 0 /\ Observed(n, q, b) = 0
<1>1. WritesOf("counter", n, b) = {} /\ WritesOf("trend", n, b) = {}
  BY DEF WritesOf
<1>2. \A g : DOMAIN g = {} => SumFunction(g) = 0
  BY SumStep, FS_EmptySet DEF SumFunction
<1>3. Counted(n, q, b) = 0
  BY <1>1, <1>2 DEF Counted
<1>4. {w \in WritesOf("trend", n, b) : Carries(w, q)} = {}
  BY <1>1
<1>5. SumFunctionOnSet(b, {}) = 0
  BY SumStep, FS_EmptySet
<1> QED BY <1>3, <1>4, <1>5 DEF Observed

LEMMA ReportInit == TelemetryInit => ReportInv
<1> SUFFICES ASSUME TelemetryInit PROVE ReportInv
  OBVIOUS
<1>1. /\ counters = << >> /\ gauges = << >> /\ rates = << >> /\ trends = << >>
      /\ made = EmptyBag /\ snap = NoSnap
  BY DEF TelemetryInit, MetricsInit
<1>2. /\ DOMAIN counters = {} /\ DOMAIN gauges = {} /\ DOMAIN rates = {} /\ DOMAIN trends = {}
      /\ DOMAIN made = {}
  BY <1>1 DEF EmptyBag, SetToBag
<1>3. Counting(made)
  BY <1>2, FS_EmptySet DEF Counting
<1>4. DOMAIN Field(trends, "count") = {}
  BY <1>2 DEF Field
<1>5. \A s : Selected(counters, s) = {} /\ Selected(trends, s) = {}
  BY <1>2 DEF Selected
<1>6. \A f : SumFunctionOnSet(f, {}) = 0
  BY SumStep, FS_EmptySet
<1>7. \A s : Counted(s.name, s.tags, made) = 0 /\ Observed(s.name, s.tags, made) = 0
  BY <1>2, NoWrites
<1>8. \A s : /\ SumFunctionOnSet(counters, Selected(counters, s)) = Counted(s.name, s.tags, made)
             /\ SumFunctionOnSet(Field(trends, "count"), Selected(trends, s)) = Observed(s.name, s.tags, made)
  BY <1>5, <1>6, <1>7
<1> QED BY <1>1, <1>2, <1>3, <1>8 DEF ReportInv, Ledger, Written

LEMMA ReportStep == Recorders /\ OrderInv /\ ReportInv /\ [TelemetryNext]_tvars => ReportInv'
<1> SUFFICES ASSUME Recorders, OrderInv, ReportInv, [TelemetryNext]_tvars PROVE ReportInv'
  OBVIOUS
<1>0. /\ run \in Runs /\ Registry /\ Queues
      /\ Ledger /\ (snap # NoSnap => Exported(snap.maps, snap.of))
  BY DEF OrderInv, ReportInv
\* The steps that leave the registry alone.
<1>1. ASSUME UNCHANGED <<registry, made>> PROVE Ledger'
  <2>1. /\ counters' = counters /\ gauges' = gauges /\ rates' = rates /\ trends' = trends /\ made' = made
    BY <1>1 DEF registry
  <2> QED BY <1>0, <2>1 DEF Ledger
<1>2. ASSUME UNCHANGED <<registry, made, snap>> PROVE ReportInv'
  BY <1>0, <1>1, <1>2 DEF ReportInv, NoSnap
<1>3. ASSUME NEW final, UNCHANGED <<registry, made>>,
             snap' = NoSnap \/ snap' = [of |-> made, final |-> final, maps |-> SnapshotMaps(now)]
      PROVE  ReportInv'
  <2>1. Exported(SnapshotMaps(now), made)
    BY <1>0, SnapshotExports
  <2>2. snap' # NoSnap => Exported(snap'.maps, snap'.of)
    <3>1. CASE snap' = [of |-> made, final |-> final, maps |-> SnapshotMaps(now)]
      <4>1. snap'.maps = SnapshotMaps(now) /\ snap'.of = made
        BY <3>1
      <4> QED BY <2>1, <4>1
    <3> QED BY <1>3, <3>1
  <2> QED BY <1>1, <1>3, <2>2 DEF ReportInv, NoSnap
<1>4. ASSUME NEW v \in Vus, Recording(v) PROVE ReportInv'
  <2>1. snap' = snap
    BY <1>4 DEF Recording
  <2>2. CASE Record(v, run.calls, run.writes)
    <3>1. UNCHANGED <<registry, made>>
      BY <2>2, Zenon DEF Record
    <3> QED BY <1>2, <2>1, <3>1
  <2>3. CASE Write(v)
    <3>1. PICK w : w = Head(todo[v])
      OBVIOUS
    <3>2. /\ todo[v] # << >> /\ Apply(w) /\ todo' = [todo EXCEPT ![v] = Tail(todo[v])]
          /\ made' = made (+) SetToBag({w})
      BY <2>3, <3>1, Zenon DEF Write
    <3>3. w \in AllWrites
      BY <1>0, <3>1, <3>2, QueueStep
    <3>4. Ledger'
      BY <1>0, <3>2, <3>3, LedgerWrite
    <3> QED BY <1>0, <2>1, <3>4 DEF ReportInv, NoSnap
  <2> QED BY <1>4, <2>2, <2>3 DEF Recording
<1>5. CASE Clock
  BY <1>2, <1>5 DEF Clock
<1>6. CASE EvalTick
  <2>1. UNCHANGED <<registry, made, snap>>
    BY <1>6, Zenon DEF EvalTick
  <2> QED BY <1>2, <2>1
<1>7. CASE ScenarioEnds
  <2>1. UNCHANGED <<registry, made>>
        /\ (snap' = NoSnap \/ snap' = [of |-> made, final |-> FALSE, maps |-> SnapshotMaps(now)])
    BY <1>7 DEF ScenarioEnds
  <2> QED BY <1>3, <2>1
<1>8. CASE FinalSnapshot
  <2>1. UNCHANGED <<registry, made>> /\ snap' = [of |-> made, final |-> TRUE, maps |-> SnapshotMaps(now)]
    BY <1>8 DEF FinalSnapshot
  <2> QED BY <1>3, <2>1
<1>9. CASE SnapshotDone
  <2>1. UNCHANGED <<registry, made>> /\ snap' = NoSnap
    BY <1>9 DEF SnapshotDone
  <2> QED BY <1>3, <2>1
<1>10. CASE UNCHANGED tvars
  BY <1>2, <1>10 DEF tvars
<1> QED BY <1>4, <1>5, <1>6, <1>7, <1>8, <1>9, <1>10 DEF TelemetryNext

LEMMA ReportSound == Recorders /\ TelemetrySpec => [](OrderInv /\ ReportInv)
<1>1. TelemetryInit => OrderInv /\ ReportInv
  BY OrderInit, ReportInit
<1>2. Recorders /\ OrderInv /\ ReportInv /\ [TelemetryNext]_tvars => OrderInv' /\ ReportInv'
  BY OrderStep, ReportStep
<1>3. Recorders => []Recorders
  OBVIOUS
<1> QED BY <1>1, <1>2, <1>3, PTL DEF TelemetrySpec

(***************************************************************************)
(* The summary counts what was recorded: an untagged metric all of its     *)
(* samples, a submetric that a threshold names those that carry its tags,  *)
(* none counted twice, and every untagged metric has its line in the text, *)
(* for every set of thresholds and every interleaving of the VUs' writes.  *)
(***************************************************************************)
THEOREM SummarySound == Recorders /\ TelemetrySpec => []SummaryExact
<1>1. Recorders /\ OrderInv /\ ReportInv => SummaryExact
  <2> SUFFICES ASSUME Recorders, OrderInv, ReportInv PROVE SummaryExact
    OBVIOUS
  <2>1. run \in Runs /\ (snap # NoSnap => Exported(snap.maps, snap.of))
    BY DEF OrderInv, ReportInv
  <2>2. run.no_thresholds \in BOOLEAN
    BY <2>1, TelemetryAssumption
  <2> QED BY <2>1, <2>2, SummaryFollows
<1>2. Recorders => []Recorders
  OBVIOUS
<1> QED BY <1>1, <1>2, ReportSound, PTL

-----------------------------------------------------------------------------
(* The rows of the CSV file.                                               *)

\* The map of a snapshot that holds the metrics of a type, and what it counts.
MapOf(m, op) ==
    CASE op = "counter" -> m.counters [] op = "gauge" -> m.gauges [] op = "rate" -> m.rates [] OTHER -> m.trends
CountTypes == {"counter", "trend"}
CountOf(m, op, k) == IF op = "trend" THEN m.trends[k].count ELSE m.counters[k]

ValueOf(m, op, k) ==
    CASE op = "counter" -> [count |-> m.counters[k], rate |-> PerSecond(m.counters[k], m)]
      [] op = "gauge"   -> m.gauges[k]
      [] op = "rate"    -> [rate |-> Ratio(m.rates[k].passes, m.rates[k].total),
                            passes |-> m.rates[k].passes, total |-> m.rates[k].total]
      [] OTHER          -> TrendStats(m.trends[k])

RowAt(m, op, k, at) == csv_row(Sample(op, k, ValueOf(m, op, k), at))
Batch(m, at) == {csv_row(s) : s \in snapshot_to_samples(m, at)}

RowCount(r) == IF r.metric_type = "trend" THEN r.metric_value[7] ELSE r.metric_value[1]
RowSeries(r) == <<r.metric_name, r.metric_type, r.tags>>

LEMMA BatchRows ==
    ASSUME NEW m, NEW at
    PROVE  /\ \A r \in Batch(m, at) : \E op \in Stored : \E k \in DOMAIN MapOf(m, op) : r = RowAt(m, op, k, at)
           /\ \A op \in Stored : \A k \in DOMAIN MapOf(m, op) : RowAt(m, op, k, at) \in Batch(m, at)
<1>1. ASSUME NEW s \in snapshot_to_samples(m, at)
      PROVE  \E op \in Stored : \E k \in DOMAIN MapOf(m, op) : s = Sample(op, k, ValueOf(m, op, k), at)
  <2>1. CASE \E k \in DOMAIN m.counters :
               s = Sample("counter", k, [count |-> m.counters[k], rate |-> PerSecond(m.counters[k], m)], at)
    BY <2>1 DEF MapOf, ValueOf, Stored
  <2>2. CASE \E k \in DOMAIN m.gauges : s = Sample("gauge", k, m.gauges[k], at)
    BY <2>2 DEF MapOf, ValueOf, Stored
  <2>3. CASE \E k \in DOMAIN m.rates :
               s = Sample("rate", k, [rate |-> Ratio(m.rates[k].passes, m.rates[k].total),
                                      passes |-> m.rates[k].passes, total |-> m.rates[k].total], at)
    BY <2>3 DEF MapOf, ValueOf, Stored
  <2>4. CASE \E k \in DOMAIN m.trends : s = Sample("trend", k, TrendStats(m.trends[k]), at)
    BY <2>4 DEF MapOf, ValueOf, Stored
  <2> QED BY <2>1, <2>2, <2>3, <2>4 DEF snapshot_to_samples
<1>2. ASSUME NEW op \in Stored, NEW k \in DOMAIN MapOf(m, op)
      PROVE  Sample(op, k, ValueOf(m, op, k), at) \in snapshot_to_samples(m, at)
  <2>1. CASE op = "counter"
    BY <2>1 DEF MapOf, ValueOf, snapshot_to_samples
  <2>2. CASE op = "gauge"
    BY <2>2 DEF MapOf, ValueOf, snapshot_to_samples
  <2>3. CASE op = "rate"
    BY <2>3 DEF MapOf, ValueOf, snapshot_to_samples
  <2>4. CASE op = "trend"
    BY <2>4 DEF MapOf, ValueOf, snapshot_to_samples
  <2> QED BY <2>1, <2>2, <2>3, <2>4 DEF Stored
<1> QED BY <1>1, <1>2 DEF Batch, RowAt

LEMMA RowFields ==
    ASSUME NEW m, NEW op \in Stored, NEW k, NEW at
    PROVE  /\ RowSeries(RowAt(m, op, k, at))
                = <<parse_metric_name(k).name, op, TagPairs(parse_metric_name(k).tags)>>
           /\ RowAt(m, op, k, at).metric_type = op
           /\ RowAt(m, op, k, at).metric_name = parse_metric_name(k).name
           /\ op \in CountTypes => RowCount(RowAt(m, op, k, at)) = CountOf(m, op, k)
<1>1. PICK p, v : p = parse_metric_name(k) /\ v = ValueOf(m, op, k)
  OBVIOUS
<1>2. PICK s : s = [metric |-> p.name, tags |-> p.tags, metric_type |-> op, timestamp |-> at, value |-> v]
  OBVIOUS
<1>3. RowAt(m, op, k, at) = csv_row(s) /\ s.value = v /\ s.metric_type = op /\ s.metric = p.name /\ s.tags = p.tags
  BY <1>1, <1>2 DEF RowAt, Sample
<1>4. PICK r : r = csv_row(s)
  OBVIOUS
<1>5. r.metric_name = p.name /\ r.metric_type = op /\ r.tags = TagPairs(p.tags)
  BY <1>3, <1>4 DEF csv_row
<1>6. op = "counter" => RowCount(r) = m.counters[k]
  <2> SUFFICES ASSUME op = "counter" PROVE RowCount(r) = m.counters[k]
    OBVIOUS
  <2>1. v.count = m.counters[k]
    BY <1>1 DEF ValueOf
  <2>2. r.metric_value = <<v.count, v.rate>>
    BY <1>3, <1>4 DEF csv_row
  <2> QED BY <1>5, <2>1, <2>2 DEF RowCount
<1>7. op = "trend" => RowCount(r) = m.trends[k].count
  <2> SUFFICES ASSUME op = "trend" PROVE RowCount(r) = m.trends[k].count
    OBVIOUS
  <2>1. v = TrendStats(m.trends[k])
    BY <1>1 DEF ValueOf
  <2>2. v.count = m.trends[k].count
    BY <2>1 DEF TrendStats
  <2>3. r.metric_value = <<v.avg, v.min, v.med, v.max, v.p90, v.p95, v.count>>
    BY <1>3, <1>4 DEF csv_row
  <2>4. r.metric_value[7] = v.count
    BY <2>3
  <2> QED BY <1>5, <2>2, <2>4 DEF RowCount
<1> QED BY <1>1, <1>3, <1>4, <1>5, <1>6, <1>7 DEF RowSeries, CountOf, CountTypes

\* What an output reads off a key: the name and the tags it was built from, or
\* at least its name.
ReadsAs(w, k, p) ==
    /\ p = [name |-> p.name, tags |-> p.tags] /\ p.tags = [x \in DOMAIN p.tags |-> p.tags[x]]
    /\ p.name = w.name
    /\ (k = w.key /\ HasComma(w)) \/ (Parsed[k].ok /\ k = canonical(Selector(p.name, p.tags)))

LEMMA KeyRead ==
    ASSUME NEW w, KeyReadsBack(w), NEW k \in {w.key, w.name}
    PROVE  ReadsAs(w, k, parse_metric_name(k))
<1>1. CASE k = w.key /\ HasComma(w)
  <2>1. ~Parsed[k].ok /\ split_canonical_for_sink(k).name = w.name
    BY <1>1 DEF KeyReadsBack
  <2>2. PICK p : p = split_canonical_for_sink(k)
    OBVIOUS
  <2>3. p = [name |-> p.name, tags |-> p.tags] /\ p.tags = [x \in DOMAIN p.tags |-> p.tags[x]]
    <3>1. \E n, t : p = [name |-> n, tags |-> t] /\ t = [x \in DOMAIN t |-> t[x]]
      <4>1. CASE ~Braced(k)
        <5>1. p = [name |-> k, tags |-> << >>]
          BY <2>2, <4>1, Zenon DEF split_canonical_for_sink
        <5>2. << >> = [x \in DOMAIN << >> |-> << >>[x]]
          OBVIOUS
        <5> QED BY <5>1, <5>2, Zenon
      <4>2. CASE Braced(k)
        <5> DEFINE body == SubSeq(k, First(k, "{") + 1, Len(k) - 1)
                   parts == SelectSeq(Split(body, ","), LAMBDA x : At(x, ":") # {})
                   cut(x) == First(x, ":")
                   keyof(x) == SubSeq(x, 1, cut(x) - 1)
                   keys == {keyof(parts[i]) : i \in DOMAIN parts}
                   value(x) == LET i == CHOOSE i \in DOMAIN parts : /\ keyof(parts[i]) = x
                                          /\ \A j \in DOMAIN parts : keyof(parts[j]) = x => j <= i
                               IN  SubSeq(parts[i], cut(parts[i]) + 1, Len(parts[i]))
                   name == SubSeq(k, 1, First(k, "{") - 1)
        <5>1. p = [name |-> name, tags |-> [x \in keys |-> value(x)]]
          BY <2>2, <4>2, Zenon DEF split_canonical_for_sink
        <5> HIDE DEF keys, value, name
        <5>2. PICK t : t = [x \in keys |-> value(x)]
          OBVIOUS
        <5>3. t = [x \in DOMAIN t |-> t[x]]
          BY <5>2
        <5> QED BY <5>1, <5>2, <5>3, Zenon
      <4> QED BY <4>1, <4>2
    <3>2. PICK n, t : p = [name |-> n, tags |-> t] /\ t = [x \in DOMAIN t |-> t[x]]
      BY <3>1
    <3>3. p.name = n /\ p.tags = t
      BY <3>2
    <3> QED BY <3>2, <3>3
  <2>4. parse_metric_name(k) = p
    BY <2>1, <2>2 DEF parse_metric_name
  <2> QED BY <1>1, <2>1, <2>2, <2>3, <2>4 DEF ReadsAs
<1>2. CASE k = w.name
  <2>1. PICK s : s = Parsed[k]
    OBVIOUS
  <2>2. s = Selector(w.name, << >>)
    BY <1>2, <2>1 DEF KeyReadsBack
  <2>3. s.ok /\ s.name = w.name /\ s.tags = << >>
    BY <2>2 DEF Selector
  <2>4. parse_metric_name(k) = [name |-> s.name, tags |-> s.tags]
    BY <2>1, <2>3 DEF parse_metric_name
  <2>5. canonical(s) = k
    BY <1>2, <2>3, CanonicalBare
  <2>6. << >> = [x \in DOMAIN << >> |-> << >>[x]]
    OBVIOUS
  <2> QED BY <2>1, <2>2, <2>3, <2>4, <2>5, <2>6 DEF ReadsAs
<1>3. CASE k = w.key /\ ~HasComma(w)
  <2>1. PICK s : s = Parsed[k]
    OBVIOUS
  <2>2. s = Selector(w.name, TagsOf(w)) /\ canonical(s) = k
    BY <1>3, <2>1 DEF KeyReadsBack
  <2>3. s.ok /\ s.name = w.name /\ s.tags = TagsOf(w)
    BY <2>2 DEF Selector
  <2>4. parse_metric_name(k) = [name |-> s.name, tags |-> s.tags]
    BY <2>1, <2>3 DEF parse_metric_name
  <2>5. PICK t : t = TagsOf(w)
    OBVIOUS
  <2>6. t = [x \in DOMAIN t |-> t[x]]
    BY <2>5 DEF TagsOf
  <2> QED BY <2>1, <2>2, <2>3, <2>4, <2>5, <2>6 DEF ReadsAs
<1> QED BY <1>1, <1>2, <1>3

LEMMA SamePairs ==
    ASSUME NEW f, NEW g, f = [x \in DOMAIN f |-> f[x]], g = [x \in DOMAIN g |-> g[x]], TagPairs(f) = TagPairs(g)
    PROVE  f = g
<1>1. ASSUME NEW a, NEW b, TagPairs(a) = TagPairs(b), NEW x \in DOMAIN a PROVE x \in DOMAIN b /\ b[x] = a[x]
  <2>1. <<x, a[x]>> \in TagPairs(b)
    BY <1>1 DEF TagPairs
  <2>2. PICK y \in DOMAIN b : <<x, a[x]>> = <<y, b[y]>>
    BY <2>1 DEF TagPairs
  <2> QED BY <2>2
<1>2. DOMAIN f = DOMAIN g /\ \A x \in DOMAIN f : f[x] = g[x]
  BY <1>1
<1> QED BY <1>2

\* Two keys that an output cannot tell apart are one.
LEMMA OneKey ==
    ASSUME NEW w \in SeriesWrites, NEW u \in SeriesWrites, NEW k \in {w.key, w.name}, NEW j \in {u.key, u.name},
           parse_metric_name(k).name = parse_metric_name(j).name,
           TagPairs(parse_metric_name(k).tags) = TagPairs(parse_metric_name(j).tags)
    PROVE  k = j
<1>1. PICK p, q : p = parse_metric_name(k) /\ q = parse_metric_name(j)
  OBVIOUS
<1>2. ReadsAs(w, k, p) /\ ReadsAs(u, j, q)
  BY <1>1, KeyRead, KeysAssumption
<1>3. p.tags = q.tags
  BY <1>1, <1>2, SamePairs DEF ReadsAs
<1>4. p = q
  BY <1>1, <1>2, <1>3 DEF ReadsAs
<1>5. CASE k = w.key /\ HasComma(w)
  BY <1>1, <1>4, <1>5, RowsAssumption
<1>6. CASE j = u.key /\ HasComma(u)
  BY <1>1, <1>4, <1>6, RowsAssumption
<1>7. CASE k = canonical(Selector(p.name, p.tags)) /\ j = canonical(Selector(q.name, q.tags))
  BY <1>4, <1>7
<1> QED BY <1>2, <1>5, <1>6, <1>7 DEF ReadsAs

LEMMA Image ==
    ASSUME NEW S, IsFiniteSet(S), NEW h, DOMAIN h = S, h = [x \in S |-> h[x]], NEW T, T = {h[x] : x \in S}
    PROVE  IsFiniteSet(T)
<1>1. h \in Surjection(S, T)
  BY DEF Surjection
<1> QED BY <1>1, FS_Surjection

\* A finite set of rows no two of which share a series has as many series.
LEMMA SeriesCount ==
    ASSUME NEW B, IsFiniteSet(B), \A r, q \in B : RowSeries(r) = RowSeries(q) => r = q
    PROVE  Cardinality({RowSeries(r) : r \in B}) = Cardinality(B)
<1>1. PICK T, f : T = {RowSeries(r) : r \in B} /\ f = [r \in B |-> RowSeries(r)]
  OBVIOUS
<1>2. f \in Surjection(B, T)
  BY <1>1 DEF Surjection
<1>3. f \in Injection(B, T)
  BY <1>1 DEF Injection, IsInjective
<1>4. Cardinality(T) = Cardinality(B)
  BY <1>2, <1>3, FS_Surjection
<1> QED BY <1>1, <1>4

LEMMA TargetsFinite ==
    ASSUME NEW f, IsFiniteSet(DOMAIN f)
    PROVE  IsFiniteSet(Targets(f))
<1>1. ASSUME NEW k PROVE IsFiniteSet(derive_targets(k))
  <2>1. PICK s : s = Parsed[k]
    OBVIOUS
  <2>2. /\ IsFiniteSet({k}) /\ IsFiniteSet({canonical(s)}) /\ IsFiniteSet({s.name}) /\ IsFiniteSet({})
    BY FS_Singleton, FS_EmptySet
  <2>3. IsFiniteSet({canonical(s)} \cup {}) /\ IsFiniteSet({canonical(s)} \cup {s.name})
    BY <2>2, FS_Union
  <2> QED BY <2>1, <2>2, <2>3 DEF derive_targets
<1>2. PICK h, T : h = [k \in DOMAIN f |-> derive_targets(k)] /\ T = {h[k] : k \in DOMAIN f}
  OBVIOUS
<1>3. IsFiniteSet(T)
  BY <1>2, Image
<1>4. (\A U \in T : IsFiniteSet(U)) /\ Targets(f) = UNION T
  BY <1>1, <1>2 DEF Targets
<1> QED BY <1>3, <1>4, FS_UNION

\* The maps of a snapshot: finite, of series that were written, with counts.
Sized(m) ==
    /\ \A op \in Stored : /\ IsFiniteSet(DOMAIN MapOf(m, op))
                          /\ \A k \in DOMAIN MapOf(m, op) : \E w \in SeriesWrites : k \in {w.key, w.name}
    /\ \A op \in CountTypes : \A k \in DOMAIN MapOf(m, op) : CountOf(m, op, k) \in Nat

LEMMA BatchFinite ==
    ASSUME NEW m, Sized(m), NEW at
    PROVE  IsFiniteSet(Batch(m, at))
<1> DEFINE R(op) == {RowAt(m, op, k, at) : k \in DOMAIN MapOf(m, op)}
<1>1. ASSUME NEW op \in Stored PROVE IsFiniteSet(R(op))
  <2>1. PICK h : h = [k \in DOMAIN MapOf(m, op) |-> RowAt(m, op, k, at)]
    OBVIOUS
  <2>2. R(op) = {h[k] : k \in DOMAIN MapOf(m, op)}
    BY <2>1
  <2>3. IsFiniteSet(DOMAIN MapOf(m, op))
    BY DEF Sized
  <2> QED BY <2>1, <2>2, <2>3, Image
<1>2. IsFiniteSet(R("counter")) /\ IsFiniteSet(R("gauge")) /\ IsFiniteSet(R("rate")) /\ IsFiniteSet(R("trend"))
  BY <1>1 DEF Stored
<1>3. \A r \in Batch(m, at) : \E op \in Stored : r \in R(op)
  BY BatchRows
<1> HIDE DEF R
<1>4. Batch(m, at) \subseteq (R("counter") \cup R("gauge")) \cup (R("rate") \cup R("trend"))
  BY <1>3 DEF Stored
<1>5. IsFiniteSet((R("counter") \cup R("gauge")) \cup (R("rate") \cup R("trend")))
  BY <1>2, FS_Union
<1> QED BY <1>4, <1>5, FS_Subset

\* No two rows of a batch are about the same series.
LEMMA BatchSeries ==
    ASSUME NEW m, Sized(m), NEW at
    PROVE  Cardinality({RowSeries(r) : r \in Batch(m, at)}) = Cardinality(Batch(m, at))
<1>1. ASSUME NEW r \in Batch(m, at), NEW q \in Batch(m, at), RowSeries(r) = RowSeries(q) PROVE r = q
  <2>1. PICK op \in Stored : \E k \in DOMAIN MapOf(m, op) : r = RowAt(m, op, k, at)
    BY BatchRows
  <2>2. PICK k \in DOMAIN MapOf(m, op) : r = RowAt(m, op, k, at)
    BY <2>1
  <2>3. PICK type \in Stored : \E j \in DOMAIN MapOf(m, type) : q = RowAt(m, type, j, at)
    BY BatchRows
  <2>4. PICK j \in DOMAIN MapOf(m, type) : q = RowAt(m, type, j, at)
    BY <2>3
  <2>5. PICK a, b : a = parse_metric_name(k) /\ b = parse_metric_name(j)
    OBVIOUS
  <2>6. RowSeries(r) = <<a.name, op, TagPairs(a.tags)>> /\ RowSeries(q) = <<b.name, type, TagPairs(b.tags)>>
    BY <2>2, <2>4, <2>5, RowFields
  <2>7. op = type /\ a.name = b.name /\ TagPairs(a.tags) = TagPairs(b.tags)
    <3>1. \A x1, x2, x3, y1, y2, y3 : <<x1, x2, x3>> = <<y1, y2, y3>> => x1 = y1 /\ x2 = y2 /\ x3 = y3
      OBVIOUS
    <3>2. <<a.name, op, TagPairs(a.tags)>> = <<b.name, type, TagPairs(b.tags)>>
      BY <1>1, <2>6, Zenon
    <3> QED BY <3>1, <3>2, Zenon
  <2>8. PICK w \in SeriesWrites : k \in {w.key, w.name}
    BY DEF Sized
  <2>9. PICK u \in SeriesWrites : j \in {u.key, u.name}
    BY DEF Sized
  <2>10. k = j
    BY <2>5, <2>7, <2>8, <2>9, OneKey
  <2> QED BY <2>2, <2>4, <2>7, <2>10
<1>2. \A r, q \in Batch(m, at) : RowSeries(r) = RowSeries(q) => r = q
  BY <1>1
<1> QED BY <1>2, BatchFinite, SeriesCount

\* From one snapshot to a later one nothing is lost and no count goes down.
Grown(m, n) ==
    \A op \in Stored : \A k \in DOMAIN MapOf(m, op) :
        /\ k \in DOMAIN MapOf(n, op)
        /\ op \in CountTypes => CountOf(m, op, k) <= CountOf(n, op, k)

LEMMA GrownOn ==
    ASSUME NEW m, NEW n, NEW o, Sized(m), Sized(n), Sized(o), Grown(m, n), Grown(n, o)
    PROVE  Grown(m, o)
<1> SUFFICES ASSUME NEW op \in Stored, NEW k \in DOMAIN MapOf(m, op)
             PROVE  k \in DOMAIN MapOf(o, op) /\ (op \in CountTypes => CountOf(m, op, k) <= CountOf(o, op, k))
  BY DEF Grown
<1>1. k \in DOMAIN MapOf(n, op) /\ k \in DOMAIN MapOf(o, op)
  BY DEF Grown
<1>2. ASSUME op \in CountTypes PROVE CountOf(m, op, k) <= CountOf(o, op, k)
  <2>1. PICK x, y, z : x = CountOf(m, op, k) /\ y = CountOf(n, op, k) /\ z = CountOf(o, op, k)
    OBVIOUS
  <2>2. x \in Nat /\ y \in Nat /\ z \in Nat
    BY <1>1, <1>2, <2>1 DEF Sized
  <2>3. x <= y /\ y <= z
    BY <1>1, <1>2, <2>1 DEF Grown
  <2>4. x <= z
    BY <2>2, <2>3
  <2> QED BY <2>1, <2>4
<1> QED BY <1>1, <1>2

Follows(a, b) ==
    \A r \in a : \E q \in b :
        RowSeries(q) = RowSeries(r) /\ (r.metric_type \in CountTypes => RowCount(q) >= RowCount(r))

LEMMA GrownFollows ==
    ASSUME NEW m, NEW n, Sized(m), Sized(n), Grown(m, n), NEW a, NEW b
    PROVE  Follows(Batch(m, a), Batch(n, b))
<1> SUFFICES ASSUME NEW r \in Batch(m, a)
             PROVE  \E q \in Batch(n, b) : /\ RowSeries(q) = RowSeries(r)
                                           /\ r.metric_type \in CountTypes => RowCount(q) >= RowCount(r)
  BY DEF Follows
<1>1. PICK op \in Stored : \E k \in DOMAIN MapOf(m, op) : r = RowAt(m, op, k, a)
  BY BatchRows
<1>2. PICK k \in DOMAIN MapOf(m, op) : r = RowAt(m, op, k, a)
  BY <1>1
<1>3. k \in DOMAIN MapOf(n, op) /\ (op \in CountTypes => CountOf(m, op, k) <= CountOf(n, op, k))
  BY DEF Grown
<1>4. PICK q : q = RowAt(n, op, k, b)
  OBVIOUS
<1>5. q \in Batch(n, b)
  BY <1>3, <1>4, BatchRows
<1>6. RowSeries(q) = RowSeries(r) /\ r.metric_type = op
  BY <1>2, <1>4, RowFields
<1>7. ASSUME op \in CountTypes PROVE RowCount(q) >= RowCount(r)
  <2>1. PICK x, y : x = CountOf(m, op, k) /\ y = CountOf(n, op, k)
    OBVIOUS
  <2>2. x \in Nat /\ y \in Nat /\ x <= y
    BY <1>3, <1>7, <2>1 DEF Sized
  <2>3. RowCount(r) = x /\ RowCount(q) = y
    BY <1>2, <1>4, <1>7, <2>1, RowFields
  <2> QED BY <2>2, <2>3
<1> QED BY <1>5, <1>6, <1>7

\* Nothing is reported that was not recorded: in the maps, in a batch.
Covered(m, b) ==
    \A k \in DOMAIN m.counters :
        CommaFree("counter", parse_metric_name(k).name, b) =>
            m.counters[k] <= Counted(parse_metric_name(k).name, << >>, b)
Bounded(rows, b) ==
    \A r \in rows : r.metric_type = "counter" =>
        /\ RowCount(r) \in Nat
        /\ CommaFree("counter", r.metric_name, b) => RowCount(r) <= Counted(r.metric_name, << >>, b)

LEMMA CoveredRows ==
    ASSUME NEW m, Sized(m), NEW b, Covered(m, b), NEW at
    PROVE  Bounded(Batch(m, at), b)
<1> SUFFICES ASSUME NEW r \in Batch(m, at), r.metric_type = "counter"
             PROVE  /\ RowCount(r) \in Nat
                    /\ CommaFree("counter", r.metric_name, b) => RowCount(r) <= Counted(r.metric_name, << >>, b)
  BY DEF Bounded
<1>1. PICK op \in Stored : \E k \in DOMAIN MapOf(m, op) : r = RowAt(m, op, k, at)
  BY BatchRows
<1>2. PICK k \in DOMAIN MapOf(m, op) : r = RowAt(m, op, k, at)
  BY <1>1
<1>3. op = "counter" /\ r.metric_name = parse_metric_name(k).name
  BY <1>2, RowFields
<1>4. RowCount(r) = CountOf(m, op, k)
  BY <1>2, <1>3, RowFields DEF CountTypes
<1>5. CountOf(m, op, k) \in Nat /\ CountOf(m, op, k) = m.counters[k] /\ k \in DOMAIN m.counters
  BY <1>2, <1>3 DEF Sized, CountOf, MapOf, CountTypes
<1> QED BY <1>3, <1>4, <1>5 DEF Covered

\* What is recorded afterwards only adds to it.
LEMMA CountedGrows ==
    ASSUME Recorders, NEW b, Counting(b), NEW w \in AllWrites, NEW c, Counting(c), OneMore(b, w, c), NEW n, NEW x \in Nat,
           CommaFree("counter", n, b) => x <= Counted(n, << >>, b), CommaFree("counter", n, c)
    PROVE  x <= Counted(n, << >>, c)
<1>1. CommaFree("counter", n, b)
  BY CommaFreeBefore
<1>2. PICK y, z : y = Counted(n, << >>, b) /\ z = Counted(n, << >>, c)
  OBVIOUS
<1>3. y \in Int /\ z = y + (IF w.op = "counter" /\ w.name = n /\ Carries(w, << >>) THEN w.x ELSE 0)
  BY <1>2, CountedAdds
<1>4. w.op = "counter" => w.x \in Nat
  BY WritesSound DEF Sound, Shape
<1>5. z >= y /\ z \in Int
  BY <1>3, <1>4
<1> QED BY <1>1, <1>2, <1>3, <1>5

LEMMA StillCovered ==
    ASSUME Recorders, NEW b, Counting(b), NEW w \in AllWrites, NEW c, Counting(c), OneMore(b, w, c)
    PROVE  /\ \A m : Sized(m) /\ Covered(m, b) => Covered(m, c)
           /\ \A rows : Bounded(rows, b) => Bounded(rows, c)
<1>1. ASSUME NEW m, Sized(m), Covered(m, b), NEW k \in DOMAIN m.counters,
             CommaFree("counter", parse_metric_name(k).name, c)
      PROVE  m.counters[k] <= Counted(parse_metric_name(k).name, << >>, c)
  <2>1. m.counters[k] \in Nat
    <3>1. PICK op \in CountTypes : op = "counter"
      BY DEF CountTypes
    <3>2. k \in DOMAIN MapOf(m, op) /\ CountOf(m, op, k) = m.counters[k]
      BY <3>1 DEF CountOf, MapOf
    <3> QED BY <1>1, <3>2 DEF Sized
  <2>2. PICK x, n : x = m.counters[k] /\ n = parse_metric_name(k).name
    OBVIOUS
  <2>3. x \in Nat /\ (CommaFree("counter", n, b) => x <= Counted(n, << >>, b)) /\ CommaFree("counter", n, c)
    BY <1>1, <2>1, <2>2 DEF Covered
  <2>4. x <= Counted(n, << >>, c)
    BY <2>3, CountedGrows
  <2> QED BY <2>2, <2>4
<1>2. ASSUME NEW rows, Bounded(rows, b), NEW r \in rows, r.metric_type = "counter",
             CommaFree("counter", r.metric_name, c)
      PROVE  RowCount(r) <= Counted(r.metric_name, << >>, c)
  <2>1. PICK x, n : x = RowCount(r) /\ n = r.metric_name
    OBVIOUS
  <2>2. x \in Nat /\ (CommaFree("counter", n, b) => x <= Counted(n, << >>, b)) /\ CommaFree("counter", n, c)
    BY <1>2, <2>1 DEF Bounded
  <2>3. x <= Counted(n, << >>, c)
    BY <2>2, CountedGrows
  <2> QED BY <2>1, <2>3
<1>3. \A m : Sized(m) /\ Covered(m, b) => Covered(m, c)
  BY <1>1 DEF Covered
<1>4. \A rows : Bounded(rows, b) => Bounded(rows, c)
  BY <1>2 DEF Bounded
<1> QED BY <1>3, <1>4

\* m has the maps of a snapshot taken now.
TakenNow(m) ==
    /\ DOMAIN m.counters = Targets(counters) /\ DOMAIN m.gauges = DOMAIN gauges
    /\ DOMAIN m.rates = Targets(rates) /\ DOMAIN m.trends = Targets(trends)
    /\ \A k \in DOMAIN m.counters : m.counters[k] = Fed(counters, k)
    /\ \A k \in DOMAIN m.trends : m.trends[k].count = Fed(Field(trends, "count"), k)

LEMMA SnapshotNow ==
    ASSUME Registry, NEW secs
    PROVE  TakenNow(SnapshotMaps(secs))
<1>1. PICK m : m = SnapshotMaps(secs)
  OBVIOUS
<1>2. /\ m.counters = derive_counters(counters) /\ m.rates = derive_rates(rates)
      /\ m.trends = derive_trends(trends) /\ m.gauges = GaugeViews(gauges)
  BY <1>1 DEF SnapshotMaps
<1>3. /\ DOMAIN m.counters = Targets(counters) /\ DOMAIN m.rates = Targets(rates)
      /\ DOMAIN m.trends = Targets(trends) /\ DOMAIN m.gauges = DOMAIN gauges
  BY <1>2 DEF derive_counters, derive_rates, derive_trends, GaugeViews
<1>4. \A k \in DOMAIN m.counters : m.counters[k] = Fed(counters, k)
  BY <1>2 DEF derive_counters, Fed
<1>5. ASSUME NEW k \in DOMAIN m.trends PROVE m.trends[k].count = Fed(Field(trends, "count"), k)
  <2>1. IsFiniteSet(DOMAIN trends) /\ \A j \in DOMAIN trends : trends[j].count \in Nat
    BY FieldFed DEF Registry, Numbered
  <2>2. Count(derive_trends(trends), k) = Fed(Field(trends, "count"), k)
    BY <2>1, DerivedTrend
  <2> QED BY <1>2, <2>2 DEF Count
<1> QED BY <1>1, <1>3, <1>4, <1>5 DEF TakenNow

LEMMA NowFinite ==
    ASSUME Registry, Ledger, NEW m, TakenNow(m), NEW op \in Stored
    PROVE  IsFiniteSet(DOMAIN MapOf(m, op))
<1>1. /\ IsFiniteSet(DOMAIN counters) /\ IsFiniteSet(DOMAIN rates) /\ IsFiniteSet(DOMAIN trends)
  BY FieldFed DEF Registry, Numbered
<1>2. IsFiniteSet(Targets(counters)) /\ IsFiniteSet(Targets(rates)) /\ IsFiniteSet(Targets(trends))
  BY <1>1, TargetsFinite
<1>3. IsFiniteSet(DOMAIN gauges)
  <2>1. PICK h, T : h = [w \in DOMAIN made |-> w.key] /\ T = {h[w] : w \in DOMAIN made}
    OBVIOUS
  <2>2. IsFiniteSet(T)
    BY <2>1, Image DEF Ledger, Counting
  <2>3. DOMAIN gauges \subseteq T
    BY <2>1 DEF Ledger, Written
  <2> QED BY <2>2, <2>3, FS_Subset
<1> QED BY <1>2, <1>3 DEF TakenNow, MapOf, Stored

LEMMA NowLeads ==
    ASSUME Recorders, Ledger, NEW m, TakenNow(m), NEW op \in Stored
    PROVE  Leads(MapOf(m, op), op)
<1>1. CASE op = "gauge"
  <2>1. MapOf(m, op) = m.gauges
    BY <1>1 DEF MapOf
  <2> QED BY <1>1, <2>1 DEF TakenNow, Ledger, Written, Counting, Leads
<1>2. CASE op = "counter"
  <2>1. DOMAIN MapOf(m, op) = Targets(counters) /\ Written(counters, op, made) /\ Counting(made)
    BY <1>2 DEF MapOf, TakenNow, Ledger
  <2> QED BY <2>1, TargetsLead
<1>3. CASE op = "rate"
  <2>1. DOMAIN MapOf(m, op) = Targets(rates) /\ Written(rates, op, made) /\ Counting(made)
    BY <1>3 DEF MapOf, TakenNow, Ledger
  <2> QED BY <2>1, TargetsLead
<1>4. CASE op = "trend"
  <2>1. DOMAIN MapOf(m, op) = Targets(trends) /\ Written(trends, op, made) /\ Counting(made)
    BY <1>4 DEF MapOf, TakenNow, Ledger
  <2> QED BY <2>1, TargetsLead
<1> QED BY <1>1, <1>2, <1>3, <1>4 DEF Stored

LEMMA NowCounts ==
    ASSUME Registry, NEW m, TakenNow(m), NEW op \in CountTypes, NEW k \in DOMAIN MapOf(m, op)
    PROVE  /\ CountOf(m, op, k) = IF op = "counter" THEN Fed(counters, k) ELSE Fed(Field(trends, "count"), k)
           /\ CountOf(m, op, k) \in Nat
<1>1. Fed(counters, k) \in Nat /\ Fed(Field(trends, "count"), k) \in Nat
  BY Amounts
<1>2. CASE op = "counter"
  BY <1>1, <1>2 DEF CountOf, MapOf, TakenNow
<1>3. CASE op = "trend"
  BY <1>1, <1>3 DEF CountOf, MapOf, TakenNow
<1> QED BY <1>2, <1>3 DEF CountTypes

LEMMA NowSized ==
    ASSUME Recorders, Registry, Ledger, NEW m, TakenNow(m)
    PROVE  Sized(m)
<1>1. ASSUME NEW op \in Stored, NEW k \in DOMAIN MapOf(m, op) PROVE \E w \in SeriesWrites : k \in {w.key, w.name}
  <2>1. Leads(MapOf(m, op), op)
    BY NowLeads
  <2>2. PICK w \in AllWrites : w.op = op /\ k \in {w.key, w.name}
    BY <2>1 DEF Leads
  <2> QED BY <2>2 DEF SeriesWrites, Stored
<1> QED BY <1>1, NowFinite, NowCounts DEF Sized

\* Any two snapshots taken now agree.
LEMMA NowGrown ==
    ASSUME Registry, NEW m, TakenNow(m), NEW n, TakenNow(n)
    PROVE  Grown(m, n)
<1> SUFFICES ASSUME NEW op \in Stored, NEW k \in DOMAIN MapOf(m, op)
             PROVE  k \in DOMAIN MapOf(n, op) /\ (op \in CountTypes => CountOf(m, op, k) <= CountOf(n, op, k))
  BY DEF Grown
<1>1. k \in DOMAIN MapOf(n, op)
  BY DEF MapOf, TakenNow
<1>2. ASSUME op \in CountTypes PROVE CountOf(m, op, k) <= CountOf(n, op, k)
  <2>1. CountOf(m, op, k) = CountOf(n, op, k) /\ CountOf(m, op, k) \in Nat
    BY <1>1, <1>2, NowCounts
  <2> QED BY <2>1
<1> QED BY <1>1, <1>2

\* A counter of a snapshot is no more than the metric it reads as has counted.
LEMMA NowCovered ==
    ASSUME Recorders, Registry, Ledger, NEW m, TakenNow(m)
    PROVE  Covered(m, made)
<1> SUFFICES ASSUME NEW k \in DOMAIN m.counters, CommaFree("counter", parse_metric_name(k).name, made)
             PROVE  m.counters[k] <= Counted(parse_metric_name(k).name, << >>, made)
  BY DEF Covered
<1>1. PICK f, n, s : f = counters /\ n = parse_metric_name(k).name /\ s = Selector(n, << >>)
  OBVIOUS
<1>2. s.name = n /\ s.tags = << >>
  BY <1>1 DEF Selector
<1>3. ASSUME NEW j \in Sources(f, k) PROVE j \in Selected(f, s)
  <2>1. j \in DOMAIN f /\ k \in derive_targets(j)
    BY <1>3 DEF Sources
  <2>2. PICK w \in DOMAIN made : /\ w \in AllWrites /\ w.op = "counter" /\ w.key = j /\ KeyReadsBack(w)
                                 /\ derive_targets(j) = IF HasComma(w) THEN {w.key} ELSE {w.key, w.name}
    BY <1>1, <2>1, SeriesOf DEF Ledger, Stored
  <2>3. k \in {w.key, w.name}
    BY <2>1, <2>2
  <2>4. w.name = n
    BY <1>1, <2>2, <2>3, KeyRead DEF ReadsAs
  <2>5. ~HasComma(w)
    BY <1>1, <2>2, <2>4 DEF CommaFree, WritesOf
  <2>6. Parsed[j] = Selector(w.name, TagsOf(w))
    BY <2>2, <2>5 DEF KeyReadsBack
  <2>7. Parsed[j].ok /\ Parsed[j].name = n
    BY <2>4, <2>6 DEF Selector
  <2> QED BY <1>2, <2>1, <2>7 DEF Selected, SupersetOf
<1>4. /\ Sources(f, k) \in SUBSET Selected(f, s) /\ IsFiniteSet(Selected(f, s))
      /\ \A j \in Selected(f, s) : f[j] \in Nat
  <2>1. Numbered(f) /\ Selected(f, s) \subseteq DOMAIN f
    BY <1>1 DEF Registry, Selected
  <2> QED BY <1>3, <2>1, FS_Subset DEF Numbered
<1>5. SumFunctionOnSet(f, Sources(f, k)) <= SumFunctionOnSet(f, Selected(f, s))
  BY <1>4, SumSubset
<1>6. SumFunctionOnSet(f, Selected(f, s)) = Counted(n, << >>, made)
  BY <1>1, <1>2 DEF Ledger
<1>7. m.counters[k] = SumFunctionOnSet(f, Sources(f, k))
  BY <1>1 DEF TakenNow, Fed
<1> QED BY <1>1, <1>5, <1>6, <1>7

\* A write takes nothing away.
LEMMA WriteGrows ==
    ASSUME Recorders, Registry, NEW w \in AllWrites, Apply(w), Registry', NEW m, TakenNow(m), NEW n, TakenNow(n)'
    PROVE  Grown(m, n)
<1>1. /\ DOMAIN counters \subseteq DOMAIN counters' /\ DOMAIN gauges \subseteq DOMAIN gauges'
      /\ DOMAIN rates \subseteq DOMAIN rates' /\ DOMAIN trends \subseteq DOMAIN trends'
  BY ApplyMaps, GaugeMap
<1>2. \A f, g : DOMAIN f \subseteq DOMAIN g => Targets(f) \subseteq Targets(g)
  BY DEF Targets
<1>3. /\ DOMAIN m.counters \subseteq DOMAIN n.counters /\ DOMAIN m.gauges \subseteq DOMAIN n.gauges
      /\ DOMAIN m.rates \subseteq DOMAIN n.rates /\ DOMAIN m.trends \subseteq DOMAIN n.trends
  <2>1. /\ Targets(counters) \subseteq Targets(counters') /\ Targets(rates) \subseteq Targets(rates')
        /\ Targets(trends) \subseteq Targets(trends')
    BY <1>1, <1>2
  <2> QED BY <1>1, <2>1 DEF TakenNow
<1>4. ASSUME NEW k \in DOMAIN m.counters PROVE m.counters[k] <= n.counters[k]
  <2>1. PICK x, y : x = Fed(counters, k) /\ y = Fed(counters', k)
    OBVIOUS
  <2>2. x \in Nat /\ y = x + (IF w \in Feeding("counter", k) THEN w.x ELSE 0)
    BY <2>1, Amounts, CounterWrite
  <2>3. w \in Feeding("counter", k) => w.x \in Nat
    BY WritesSound DEF Feeding, Sound, Shape
  <2>4. x <= y
    BY <2>2, <2>3
  <2>5. m.counters[k] = x /\ n.counters[k] = y
    BY <1>3, <2>1 DEF TakenNow
  <2> QED BY <2>4, <2>5
<1>5. ASSUME NEW k \in DOMAIN m.trends PROVE m.trends[k].count <= n.trends[k].count
  <2>1. PICK x, y : x = Fed(Field(trends, "count"), k) /\ y = Fed(Field(trends', "count"), k)
    OBVIOUS
  <2>2. x \in Nat /\ y = x + One(w, Feeding("trend", k))
    BY <2>1, Amounts, TrendWrite
  <2>3. x <= y
    BY <2>2 DEF One
  <2>4. m.trends[k].count = x /\ n.trends[k].count = y
    BY <1>3, <2>1 DEF TakenNow
  <2> QED BY <2>3, <2>4
<1> SUFFICES ASSUME NEW op \in Stored, NEW k \in DOMAIN MapOf(m, op)
             PROVE  k \in DOMAIN MapOf(n, op) /\ (op \in CountTypes => CountOf(m, op, k) <= CountOf(n, op, k))
  BY DEF Grown
<1>6. CASE op = "counter"
  BY <1>3, <1>4, <1>6 DEF MapOf, CountOf
<1>7. CASE op = "trend"
  BY <1>3, <1>5, <1>7 DEF MapOf, CountOf
<1>8. CASE op \in {"gauge", "rate"}
  BY <1>3, <1>8 DEF MapOf, CountTypes
<1> QED BY <1>6, <1>7, <1>8 DEF Stored

\* Every snapshot from now on is at least m.
Before(m) == Sized(m) /\ \A n : TakenNow(n) => Grown(m, n)

LEMMA BeforeNow ==
    ASSUME Recorders, Registry, Ledger, NEW secs
    PROVE  /\ Before(SnapshotMaps(secs)) /\ Covered(SnapshotMaps(secs), made)
           /\ \A m : Before(m) => Grown(m, SnapshotMaps(secs))
<1>1. PICK n : n = SnapshotMaps(secs)
  OBVIOUS
<1>2. TakenNow(n)
  BY <1>1, SnapshotNow
<1> QED BY <1>1, <1>2, NowSized, NowGrown, NowCovered DEF Before

LEMMA NextSized ==
    ASSUME NEW m
    PROVE  (Recorders /\ Registry /\ Ledger /\ TakenNow(m))' => Sized(m)'
<1>1. Recorders /\ Registry /\ Ledger /\ TakenNow(m) => Sized(m)
  BY NowSized
<1> QED BY <1>1, PTL

LEMMA BeforeWrite ==
    ASSUME Recorders, Registry, Ledger, NEW w \in AllWrites, Apply(w), Registry', Ledger', NEW m, Before(m)
    PROVE  Before(m)'
<1>1. PICK o : o = SnapshotMaps(0)
  OBVIOUS
<1>2. TakenNow(o) /\ Sized(o) /\ Sized(m) /\ Grown(m, o)
  BY <1>1, SnapshotNow, NowSized DEF Before
<1>3. ASSUME NEW n, TakenNow(n)' PROVE Grown(m, n)
  <2>1. Grown(o, n)
    BY <1>2, <1>3, WriteGrows
  <2>2. Sized(n)'
    BY <1>3, NextSized
  <2>3. Sized(n)
    BY <2>2
  <2> QED BY <1>2, <2>1, <2>3, GrownOn
<1> QED BY <1>2, <1>3 DEF Before

\* What RowsCumulative says of a list of batches.
RowsSoFar(batches, b) ==
    /\ \A i \in 2..Len(batches) : Follows(batches[i - 1], batches[i])
    /\ \A i \in DOMAIN batches : Cardinality({RowSeries(r) : r \in batches[i]}) = Cardinality(batches[i])
    /\ \A i \in DOMAIN batches : Bounded(batches[i], b)

\* The last batch is of a snapshot, before the one under way and all others.
LastOf(batches, s) ==
    batches # << >> =>
        \E m, at : /\ batches[Len(batches)] = Batch(m, at) /\ Sized(m)
                   /\ IF s = NoSnap THEN Before(m) ELSE Grown(m, s.maps)

Reported(p) ==
    /\ p.name = "csv" /\ p = [name |-> p.name, arg |-> p.arg, written |-> p.written]
    /\ \E S : p.written \in Seq(S)
    /\ RowsSoFar(p.written, made)
    /\ LastOf(p.written, snap)

RowsInv ==
    /\ snap # NoSnap => Before(snap.maps) /\ Covered(snap.maps, made)
    /\ \A f \in run.outs : f.name = "csv" => Reported(sinks[f])

LEMMA RowsAppend ==
    ASSUME NEW batches, NEW S, batches \in Seq(S), NEW b, RowsSoFar(batches, b), NEW m, Sized(m), Covered(m, b),
           NEW at, batches # << >> => \E n, t : batches[Len(batches)] = Batch(n, t) /\ Sized(n) /\ Grown(n, m)
    PROVE  RowsSoFar(Append(batches, Batch(m, at)), b)
<1>1. PICK c, x, l : c = Append(batches, Batch(m, at)) /\ x = Batch(m, at) /\ l = Len(batches)
  OBVIOUS
<1>2. /\ Len(c) = l + 1 /\ DOMAIN c = 1..(l + 1) /\ c[l + 1] = x /\ l \in Nat
      /\ DOMAIN batches = 1..l /\ \A i \in 1..l : c[i] = batches[i]
  BY <1>1
<1>3. ASSUME NEW i \in 2..Len(c) PROVE Follows(c[i - 1], c[i])
  <2>1. CASE i \in 2..l
    <3>1. i - 1 \in 1..l /\ i \in 1..l
      BY <1>2, <2>1
    <3>2. c[i - 1] = batches[i - 1] /\ c[i] = batches[i]
      BY <1>2, <3>1
    <3> QED BY <1>1, <2>1, <3>2 DEF RowsSoFar
  <2>2. CASE i = l + 1
    <3>1. l >= 1 /\ i - 1 = l /\ l \in 1..l
      BY <1>2, <2>2
    <3>2. batches # << >>
      BY <1>1, <3>1
    <3>3. PICK n, t : batches[l] = Batch(n, t) /\ Sized(n) /\ Grown(n, m)
      BY <1>1, <3>2
    <3>4. c[i - 1] = Batch(n, t) /\ c[i] = Batch(m, at)
      BY <1>1, <1>2, <2>2, <3>1, <3>3
    <3> QED BY <3>3, <3>4, GrownFollows
  <2> QED BY <1>2, <2>1, <2>2
<1>4. Cardinality({RowSeries(r) : r \in x}) = Cardinality(x) /\ Bounded(x, b)
  BY <1>1, BatchSeries, CoveredRows
<1>5. ASSUME NEW i \in DOMAIN c
      PROVE  Cardinality({RowSeries(r) : r \in c[i]}) = Cardinality(c[i]) /\ Bounded(c[i], b)
  <2>1. CASE i = l + 1
    BY <1>2, <1>4, <2>1
  <2>2. CASE i \in 1..l
    <3>1. c[i] = batches[i] /\ i \in DOMAIN batches
      BY <1>2, <2>2
    <3> QED BY <3>1 DEF RowsSoFar
  <2> QED BY <1>2, <2>1, <2>2
<1> QED BY <1>1, <1>3, <1>5 DEF RowsSoFar

\* The two ways a CSV plugin gets a snapshot.
LEMMA CsvAdds ==
    ASSUME Recorders, Registry, Ledger, RowsInv, snap # NoSnap, NEW p, Reported(p), NEW q,
           q = add_snapshot(p, snap.maps, now)
    PROVE  /\ q.name = "csv" /\ q = [name |-> q.name, arg |-> q.arg, written |-> q.written]
           /\ \E S : q.written \in Seq(S)
           /\ RowsSoFar(q.written, made)
           /\ \E m, at : q.written[Len(q.written)] = Batch(m, at) /\ Before(m)
<1>1. PICK m, x, W : m = snap.maps /\ x = Batch(m, now) /\ W = p.written
  OBVIOUS
<1>2. p.name = "csv" /\ p = [name |-> p.name, arg |-> p.arg, written |-> W]
  BY <1>1 DEF Reported
<1>3. PICK S : W \in Seq(S)
  BY <1>1 DEF Reported
<1>4. Rows("csv", snapshot_to_samples(m, now)) = x
  BY <1>1 DEF Rows, Batch
<1>5. q = [p EXCEPT !.written = Append(p.written, x)]
  BY <1>1, <1>2, <1>4, Zenon DEF add_snapshot
<1>6. q = [name |-> p.name, arg |-> p.arg, written |-> Append(W, x)]
  BY <1>1, <1>2, <1>5
<1>7. q.name = "csv" /\ q.arg = p.arg /\ q.written = Append(W, x)
  BY <1>2, <1>6
<1>8. Sized(m) /\ Covered(m, made) /\ Before(m)
  BY <1>1 DEF RowsInv, Before
<1>9. W # << >> => \E n, t : W[Len(W)] = Batch(n, t) /\ Sized(n) /\ Grown(n, m)
  BY <1>1 DEF Reported, LastOf
<1>10. RowsSoFar(W, made)
  BY <1>1 DEF Reported
<1>11. RowsSoFar(Append(W, x), made)
  BY <1>1, <1>3, <1>8, <1>9, <1>10, RowsAppend
<1>12. Append(W, x)[Len(Append(W, x))] = x /\ \E T : Append(W, x) \in Seq(T)
  <2>1. W \in Seq(S \cup {x}) /\ x \in S \cup {x}
    BY <1>3
  <2>2. Append(W, x) \in Seq(S \cup {x}) /\ Append(W, x)[Len(Append(W, x))] = x
    BY <2>1
  <2> QED BY <2>2
<1> QED BY <1>1, <1>2, <1>6, <1>7, <1>8, <1>11, <1>12

LEMMA CsvStops ==
    ASSUME NEW p, Reported(p)
    PROVE  stop(p) = p
BY DEF Reported, stop

LEMMA RowsInit == TelemetryInit => RowsInv
<1> SUFFICES ASSUME TelemetryInit PROVE RowsInv
  OBVIOUS
<1>1. snap = NoSnap /\ sinks = [f \in run.outs |-> start(f)]
  BY DEF TelemetryInit
<1>2. ASSUME NEW f \in run.outs, f.name = "csv" PROVE Reported(sinks[f])
  <2>1. PICK p, a : p = sinks[f] /\ a = create_output(f).arg
    OBVIOUS
  <2>2. p = [name |-> "csv", arg |-> a, written |-> << >>]
    BY <1>1, <1>2, <2>1 DEF start
  <2>3. p.name = "csv" /\ p.arg = a /\ p.written = << >>
    BY <2>2
  <2>4. RowsSoFar(<< >>, made)
    <3>1. DOMAIN << >> = {} /\ Len(<< >>) = 0 /\ 2..0 = {}
      OBVIOUS
    <3> QED BY <3>1 DEF RowsSoFar
  <2>5. LastOf(<< >>, snap) /\ << >> \in Seq({})
    BY DEF LastOf
  <2> QED BY <2>1, <2>2, <2>3, <2>4, <2>5 DEF Reported
<1> QED BY <1>1, <1>2 DEF RowsInv

LEMMA RowsStep ==
    Recorders /\ OrderInv /\ ReportInv /\ RowsInv /\ [TelemetryNext]_tvars /\ OrderInv' /\ ReportInv' => RowsInv'
<1> SUFFICES ASSUME Recorders, OrderInv, ReportInv, RowsInv, [TelemetryNext]_tvars, OrderInv', ReportInv'
             PROVE  RowsInv'
  OBVIOUS
<1>0. /\ run \in Runs /\ Registry /\ Queues /\ Ledger /\ Registry' /\ Ledger'
      /\ snap # NoSnap => Before(snap.maps) /\ Covered(snap.maps, made)
      /\ \A f \in run.outs : f.name = "csv" => Reported(sinks[f])
  BY DEF OrderInv, ReportInv, RowsInv
<1>1. ASSUME UNCHANGED registry PROVE \A m : Before(m) => Before(m)'
  <2>1. counters' = counters /\ gauges' = gauges /\ rates' = rates /\ trends' = trends
    BY <1>1 DEF registry
  <2> QED BY <2>1 DEF Before, TakenNow
\* A plugin is as it was, and so is the snapshot under way.
<1>2. ASSUME UNCHANGED <<run, snap, sinks>>, \A m : Before(m) => Before(m)',
             \A m : Sized(m) /\ Covered(m, made) => Covered(m, made'),
             \A rows : Bounded(rows, made) => Bounded(rows, made')
      PROVE  RowsInv'
  <2>2. snap # NoSnap => Before(snap.maps)' /\ Covered(snap.maps, made')
    BY <1>0, <1>2 DEF Before
  <2>3. ASSUME NEW f \in run.outs, f.name = "csv" PROVE Reported(sinks[f])'
    <3>1. PICK p : p = sinks[f]
      OBVIOUS
    <3>2. Reported(p)
      BY <1>0, <2>3, <3>1
    <3>3. RowsSoFar(p.written, made')
      BY <1>2, <3>2 DEF Reported, RowsSoFar
    <3>4. LastOf(p.written, snap)'
      BY <1>2, <3>2 DEF Reported, LastOf
    <3>5. Reported(p)'
      BY <3>2, <3>3, <3>4 DEF Reported
    <3> QED BY <1>2, <3>1, <3>5
  <2> QED BY <1>2, <2>2, <2>3 DEF RowsInv, NoSnap
<1>3. ASSUME UNCHANGED <<registry, made, run, snap, sinks>> PROVE RowsInv'
  BY <1>1, <1>2, <1>3
<1>4. ASSUME NEW v \in Vus, Recording(v) PROVE RowsInv'
  <2>1. UNCHANGED <<run, snap, sinks>>
    BY <1>4 DEF Recording
  <2>2. CASE Record(v, run.calls, run.writes)
    <3>1. UNCHANGED <<registry, made>>
      BY <2>2, Zenon DEF Record
    <3> QED BY <1>3, <2>1, <3>1
  <2>3. CASE Write(v)
    <3>1. PICK w : w = Head(todo[v])
      OBVIOUS
    <3>2. /\ todo[v] # << >> /\ Apply(w) /\ todo' = [todo EXCEPT ![v] = Tail(todo[v])]
          /\ made' = made (+) SetToBag({w})
      BY <2>3, <3>1, Zenon DEF Write
    <3>3. w \in AllWrites
      BY <1>0, <3>1, <3>2, QueueStep
    <3>4. OneMore(made, w, made') /\ Counting(made) /\ Counting(made')
      BY <1>0, <3>2, <3>3, LedgerWrite DEF Ledger
    <3>5. \A m : Before(m) => Before(m)'
      BY <1>0, <3>2, <3>3, BeforeWrite
    <3>6. /\ \A m : Sized(m) /\ Covered(m, made) => Covered(m, made')
          /\ \A rows : Bounded(rows, made) => Bounded(rows, made')
      BY <3>3, <3>4, StillCovered
    <3> QED BY <1>2, <2>1, <3>5, <3>6
  <2> QED BY <1>4, <2>2, <2>3 DEF Recording
<1>5. CASE Clock
  BY <1>3, <1>5 DEF Clock
<1>6. CASE EvalTick
  <2>1. UNCHANGED <<registry, made, run, snap, sinks>>
    BY <1>6, Zenon DEF EvalTick
  <2> QED BY <1>3, <2>1
<1>7. ASSUME NEW final, UNCHANGED <<registry, made, run, sinks>>, snap = NoSnap,
             snap' = [of |-> made, final |-> final, maps |-> SnapshotMaps(now)]
      PROVE  RowsInv'
  <2>1. PICK n : n = SnapshotMaps(now)
    OBVIOUS
  <2>2. Before(n) /\ Covered(n, made) /\ \A m : Before(m) => Grown(m, n)
    BY <1>0, <2>1, BeforeNow
  <2>3. snap'.maps = n
    BY <1>7, <2>1
  <2>5. (Before(snap.maps) /\ Covered(snap.maps, made))'
    <3>1. Before(n)'
      BY <1>1, <1>7, <2>2
    <3> QED BY <1>7, <2>2, <2>3, <3>1
  <2>6. ASSUME NEW f \in run.outs, f.name = "csv" PROVE Reported(sinks[f])'
    <3>1. PICK p : p = sinks[f]
      OBVIOUS
    <3>2. Reported(p)
      BY <1>0, <2>6, <3>1
    <3>3. LastOf(p.written, snap)'
      <4> SUFFICES ASSUME p.written # << >>, snap' # NoSnap
                   PROVE  \E m, at : p.written[Len(p.written)] = Batch(m, at) /\ Sized(m) /\ Grown(m, n)
        BY <2>3, <1>7 DEF LastOf, NoSnap
      <4>1. PICK m, at : p.written[Len(p.written)] = Batch(m, at) /\ Sized(m) /\ Before(m)
        BY <1>7, <3>2 DEF Reported, LastOf
      <4> QED BY <2>2, <4>1
    <3>4. Reported(p)'
      BY <1>7, <3>2, <3>3 DEF Reported
    <3> QED BY <1>7, <3>1, <3>4
  <2> QED BY <1>7, <2>5, <2>6 DEF RowsInv
<1>8. CASE ScenarioEnds
  <2>1. UNCHANGED <<registry, made, run, sinks>> /\ snap = NoSnap
        /\ (snap' = NoSnap \/ snap' = [of |-> made, final |-> FALSE, maps |-> SnapshotMaps(now)])
    BY <1>8 DEF ScenarioEnds
  <2> QED BY <1>3, <1>7, <2>1 DEF NoSnap
<1>9. CASE FinalSnapshot
  <2>1. UNCHANGED <<registry, made, run, sinks>> /\ snap = NoSnap
        /\ snap' = [of |-> made, final |-> TRUE, maps |-> SnapshotMaps(now)]
    BY <1>9 DEF FinalSnapshot
  <2> QED BY <1>7, <2>1
<1>10. ASSUME SnapshotDone PROVE RowsInv'
  <2>1. /\ UNCHANGED <<registry, made, run>> /\ snap # NoSnap /\ snap' = NoSnap
        /\ sinks' = [f \in run.outs |-> IF snap.final THEN stop(sinks[f]) ELSE add_snapshot(sinks[f], snap.maps, now)]
    BY <1>10 DEF SnapshotDone
  <2>2. ASSUME NEW f \in run.outs, f.name = "csv" PROVE Reported(sinks[f])'
    <3>1. PICK p, q : p = sinks[f] /\ q = sinks'[f]
      OBVIOUS
    <3>2. Reported(p)
      BY <1>0, <2>2, <3>1
    <3>3. q = IF snap.final THEN p ELSE add_snapshot(p, snap.maps, now)
      BY <2>1, <3>1, <3>2, CsvStops
    <3>4. CASE snap.final
      <4>1. LastOf(p.written, snap)'
        <5> SUFFICES ASSUME p.written # << >>
                     PROVE  \E m, at : p.written[Len(p.written)] = Batch(m, at) /\ Sized(m) /\ Before(m)'
          BY <2>1 DEF LastOf, NoSnap
        <5>1. PICK m, at : p.written[Len(p.written)] = Batch(m, at) /\ Sized(m) /\ Grown(m, snap.maps)
          BY <2>1, <3>2 DEF Reported, LastOf
        <5>2. ASSUME NEW n, TakenNow(n) PROVE Grown(m, n)
          <6>1. Sized(n) /\ Sized(snap.maps) /\ Grown(snap.maps, n)
            BY <1>0, <2>1, <5>2, NowSized DEF Before
          <6> QED BY <5>1, <6>1, GrownOn
        <5>3. Before(m)'
          BY <1>1, <2>1, <5>1, <5>2 DEF Before
        <5> QED BY <5>1, <5>3
      <4>2. Reported(p)'
        BY <2>1, <3>2, <4>1 DEF Reported
      <4> QED BY <3>1, <3>3, <3>4, <4>2
    <3>5. CASE ~snap.final
      <4>1. /\ q.name = "csv" /\ q = [name |-> q.name, arg |-> q.arg, written |-> q.written]
            /\ \E S : q.written \in Seq(S)
            /\ RowsSoFar(q.written, made)
            /\ \E m, at : q.written[Len(q.written)] = Batch(m, at) /\ Before(m)
        BY <1>0, <2>1, <3>2, <3>3, <3>5, CsvAdds
      <4>2. PICK m, at : q.written[Len(q.written)] = Batch(m, at) /\ Before(m)
        BY <4>1
      <4>3. Before(m)' /\ Sized(m)
        BY <1>1, <2>1, <4>2 DEF Before
      <4>4. LastOf(q.written, snap)'
        BY <2>1, <4>2, <4>3 DEF LastOf, NoSnap
      <4>5. Reported(q)'
        BY <2>1, <4>1, <4>4 DEF Reported
      <4> QED BY <3>1, <4>5
    <3> QED BY <3>4, <3>5
  <2> QED BY <2>1, <2>2 DEF RowsInv, NoSnap
<1>11. CASE UNCHANGED tvars
  BY <1>3, <1>11 DEF tvars
<1> QED BY <1>4, <1>5, <1>6, <1>8, <1>9, <1>10, <1>11 DEF TelemetryNext

LEMMA RowsFollow ==
    ASSUME RowsInv
    PROVE  RowsCumulative
<1> SUFFICES ASSUME NEW f \in run.outs, f.name = "csv", NEW W, W = sinks[f].written
             PROVE  /\ \A i \in 2..Len(W) : \A r \in W[i - 1] : \E q \in W[i] :
                          /\ RowSeries(q) = RowSeries(r)
                          /\ r.metric_type \in CountTypes => RowCount(q) >= RowCount(r)
                    /\ \A i \in DOMAIN W : Cardinality({RowSeries(r) : r \in W[i]}) = Cardinality(W[i])
                    /\ \A i \in DOMAIN W : \A r \in W[i] :
                          (r.metric_type = "counter" /\ CommaFree("counter", r.metric_name, made)) =>
                             RowCount(r) <= Counted(r.metric_name, << >>, made)
  BY Zenon DEF RowsCumulative, RowSeries, RowCount, CountTypes
<1>1. RowsSoFar(W, made)
  BY DEF RowsInv, Reported
<1> QED BY <1>1 DEF RowsSoFar, Follows, Bounded

(***************************************************************************)
(* The CSV file reports running totals: every series of a batch of rows is *)
(* in each later batch, under a key of its own, its count never goes down  *)
(* and is never more than what was recorded, however many scenarios end    *)
(* while the others still record.                                          *)
(***************************************************************************)
THEOREM RowsSound == Recorders /\ TelemetrySpec => []RowsCumulative
<1>1. TelemetryInit => RowsInv
  BY RowsInit
<1>2. Recorders /\ OrderInv /\ ReportInv /\ RowsInv /\ [TelemetryNext]_tvars /\ OrderInv' /\ ReportInv' => RowsInv'
  BY RowsStep
<1>3. RowsInv => RowsCumulative
  BY RowsFollow
<1>4. Recorders => []Recorders
  OBVIOUS
<1> QED BY <1>1, <1>2, <1>3, <1>4, ReportSound, PTL DEF TelemetrySpec
=============================================================================
