---------------------------- MODULE DataTheorems ----------------------------
(***************************************************************************)
(* What the models' operators on data return, for every argument: sums over *)
(* finite sets, in which the books of the contracts, the tables and the     *)
(* rate limiter are kept, and the loop of Slices.  SumFunctionOnSet of the  *)
(* community modules adds up a function by taking CHOOSEn elements out of   *)
(* the set one at a time; the lemmas below show that it is the sum,         *)
(* whichever element is taken out first.                                    *)
(*                                                                         *)
(* Induction is over a set that stands for the claim, by minimal            *)
(* counterexample: among the subsets of a finite set that refute a claim    *)
(* there is one none of whose proper subsets does.                          *)
(***************************************************************************)
EXTENDS Integers, Functions, Slices, FiniteSetTheorems, SequenceTheorems,
        WellFoundedInduction, TLAPS

(* Every nonempty collection of subsets of a finite set has a minimal one.  *)
LEMMA MinimalSubset ==
  ASSUME NEW S, IsFiniteSet(S), NEW C \in SUBSET (SUBSET S), C # {}
  PROVE  \E T \in C : \A U \in C : U \subseteq T => U = T
<1>1. IsWellFoundedOn(StrictSubsetOrdering(S), SUBSET S)
  BY FS_StrictSubsetOrderingWellFounded, FS_FiniteSubsetsOfFinite, Zenon
<1>2. PICK T \in C : \A U \in C : ~ (<<U, T>> \in StrictSubsetOrdering(S))
  BY <1>1, WFMin, Zenon
<1>3. \A U \in C : U \subseteq T => U = T
  <2>1. SUFFICES ASSUME NEW U \in C, U \subseteq T, U # T PROVE FALSE
    OBVIOUS
  <2>2. <<U, T>> \in StrictSubsetOrdering(S)
    BY <2>1, SMT DEF StrictSubsetOrdering
  <2> QED BY <1>2, <2>2
<1> QED BY <1>3

(* Induction over the subsets of a finite set: a set C of subsets that      *)
(* contains every T all of whose proper subsets it contains has them all.   *)
LEMMA SubsetInduction ==
  ASSUME NEW S, IsFiniteSet(S), NEW C,
         \A T \in SUBSET S : (\A U \in SUBSET T : U # T => U \in C) => T \in C
  PROVE  \A T \in SUBSET S : T \in C
<1> DEFINE Bad == {T \in SUBSET S : T \notin C}
<1>1. SUFFICES ASSUME Bad # {} PROVE FALSE
  OBVIOUS
<1>2. Bad \in SUBSET (SUBSET S)
  OBVIOUS
<1> HIDE DEF Bad
<1>3. PICK T \in Bad : \A U \in Bad : U \subseteq T => U = T
  BY <1>1, <1>2, MinimalSubset
<1>4. T \in SUBSET S /\ T \notin C
  BY <1>3 DEF Bad
<1>5. ASSUME NEW U \in SUBSET T, U # T PROVE U \in C
  <2>1. U \in SUBSET S
    BY <1>4
  <2>2. U \notin Bad
    BY <1>3, <1>5
  <2> QED BY <2>1, <2>2 DEF Bad
<1> QED BY <1>4, <1>5, Zenon

(* Induction over the naturals: a set with 0 and the successor of each of   *)
(* its numbers has them all.                                                *)
LEMMA NumberInduction ==
  ASSUME NEW C, 0 \in C, \A n \in Nat : n \in C => n + 1 \in C
  PROVE  \A n \in Nat : n \in C
<1> SUFFICES ASSUME NEW n \in Nat PROVE n \in C
  OBVIOUS
<1> DEFINE S == 0 .. n
           D == {T \in SUBSET S : \A k \in S : T = 0 .. k => k \in C}
<1>1. IsFiniteSet(S)
  BY FS_Interval
<1>2. ASSUME NEW T \in SUBSET S, \A U \in SUBSET T : U # T => U \in D
      PROVE  T \in D
  <2> SUFFICES ASSUME NEW k \in S, T = 0 .. k PROVE k \in C
    OBVIOUS
  <2>1. CASE k = 0
    BY <2>1
  <2>2. CASE k # 0
    <3> DEFINE U == 0 .. (k - 1)
    <3>1. k \in Nat /\ k - 1 \in Nat /\ k - 1 \in S
      BY <2>2
    <3>2. U \in SUBSET T /\ k \in T /\ k \notin U
      BY <3>1
    <3>3. U \in D
      BY <1>2, <3>2
    <3>4. k - 1 \in C
      BY <3>1, <3>3
    <3>5. k = (k - 1) + 1
      BY <3>1
    <3> QED BY <3>1, <3>4, <3>5
  <2> QED BY <2>1, <2>2
<1>3. \A T \in SUBSET S : T \in D
  <2> HIDE DEF S, D
  <2> QED BY <1>1, <1>2, SubsetInduction
<1>4. S \in SUBSET S /\ n \in S
  OBVIOUS
<1>5. S \in D
  BY <1>3, <1>4
<1> QED BY <1>4, <1>5

(* Induction over sequences, by appending.                                  *)
LEMMA AppendInduction ==
  ASSUME NEW S, NEW C, <<>> \in C,
         \A s \in Seq(S), e \in S : s \in C => Append(s, e) \in C
  PROVE  \A s \in Seq(S) : s \in C
<1> DEFINE D == {n \in Nat : \A s \in Seq(S) : Len(s) = n => s \in C}
<1>1. 0 \in D
  <2> SUFFICES ASSUME NEW s \in Seq(S), Len(s) = 0 PROVE s \in C
    OBVIOUS
  <2>1. s = <<>>
    BY EmptySeq
  <2> QED BY <2>1
<1>2. ASSUME NEW n \in Nat, n \in D PROVE n + 1 \in D
  <2> SUFFICES ASSUME NEW s \in Seq(S), Len(s) = n + 1 PROVE s \in C
    OBVIOUS
  <2>1. s # <<>>
    BY EmptySeq
  <2>2. PICK t \in Seq(S), e \in S : s = Append(t, e)
    BY <2>1, SequenceEmptyOrAppend
  <2>3. Len(s) = Len(t) + 1 /\ Len(t) \in Nat
    BY <2>2, AppendProperties, LenProperties
  <2>4. t \in C
    BY <1>2, <2>3
  <2> QED BY <2>2, <2>4
<1>3. \A n \in Nat : n \in D
  <2> HIDE DEF D
  <2> QED BY <1>1, <1>2, NumberInduction
<1> SUFFICES ASSUME NEW s \in Seq(S) PROVE s \in C
  OBVIOUS
<1>4. Len(s) \in D
  BY <1>3, LenProperties
<1> QED BY <1>4

----------------------------------------------------------------------------
(* The element a sum takes out first, and the function that sums f over     *)
(* every subset of T.                                                       *)
First(s) == CHOOSE x \in s : TRUE
Sums(f, T, g) ==
  g = [s \in SUBSET T |-> IF s = {} THEN 0 ELSE f[First(s)] + g[s \ {First(s)}]]

LEMMA SumIsSums ==
  ASSUME NEW f, NEW S
  PROVE  SumFunctionOnSet(f, S) = (CHOOSE g : Sums(f, S, g))[S]
BY Zenon DEF SumFunctionOnSet, FoldFunctionOnSet, MapThenFoldSet, Sums, First

LEMMA FirstIn == ASSUME NEW s, s # {} PROVE First(s) \in s
BY Zenon DEF First

(* The recursion equation, pointwise.                                       *)
LEMMA SumsAt ==
  ASSUME NEW f, NEW T, NEW g, Sums(f, T, g), NEW s \in SUBSET T
  PROVE  /\ s = {} => g[s] = 0
         /\ s # {} => g[s] = f[First(s)] + g[s \ {First(s)}]
BY Zenon DEF Sums

(* Two solutions agree wherever both are defined.                           *)
LEMMA SumsAgree ==
  ASSUME NEW f, NEW S, NEW T, IsFiniteSet(S), NEW g, NEW h,
         Sums(f, S, g), Sums(f, T, h)
  PROVE  \A s \in SUBSET S : s \in SUBSET T => g[s] = h[s]
<1> DEFINE Bad == {s \in SUBSET S : s \in SUBSET T /\ g[s] # h[s]}
<1>0. Bad \in SUBSET (SUBSET S)
  OBVIOUS
<1>1. SUFFICES ASSUME Bad # {} PROVE FALSE
  OBVIOUS
<1> HIDE DEF Bad
<1>2. PICK s \in Bad : \A t \in Bad : t \subseteq s => t = s
  BY <1>0, <1>1, MinimalSubset
<1>3. s \in SUBSET S /\ s \in SUBSET T /\ g[s] # h[s]
  BY <1>2 DEF Bad
<1>4. s # {}
  BY <1>3, SumsAt, Zenon
<1> DEFINE t == s \ {First(s)}
<1>5. First(s) \in s
  BY <1>4, FirstIn, Zenon
<1>6. t \in SUBSET S /\ t \in SUBSET T /\ t \subseteq s /\ t # s
  BY <1>3, <1>5
<1>7. t \notin Bad
  BY <1>2, <1>6, Zenon
<1>8. g[t] = h[t]
  BY <1>6, <1>7, Zenon DEF Bad
<1>9. g[s] = f[First(s)] + g[t] /\ h[s] = f[First(s)] + h[t]
  BY <1>3, <1>4, SumsAt
<1> QED BY <1>3, <1>8, <1>9, Zenon

(* One step of the recursion, from a solution to one for the smaller set.   *)
LEMMA SumsStep ==
  ASSUME NEW f, NEW S, IsFiniteSet(S), S # {}, NEW g, Sums(f, S, g),
         NEW h, Sums(f, S \ {First(S)}, h)
  PROVE  g[S] = f[First(S)] + h[S \ {First(S)}]
<1>1. PICK T : T = S \ {First(S)}
  OBVIOUS
<1>2. T \in SUBSET S /\ T \in SUBSET T /\ S \in SUBSET S
  BY <1>1
<1>3. Sums(f, T, h)
  BY <1>1
<1>4. \A s \in SUBSET S : s \in SUBSET T => g[s] = h[s]
  BY <1>3, SumsAgree
<1>5. g[T] = h[T]
  BY <1>2, <1>4, Zenon
<1>6. g[S] = f[First(S)] + g[T]
  BY <1>1, <1>2, SumsAt
<1> QED BY <1>1, <1>5, <1>6, Zenon

(* A solution exists over the subsets of every finite set.                  *)
LEMMA SumsExists ==
  ASSUME NEW f, NEW S, IsFiniteSet(S)
  PROVE  \E g : Sums(f, S, g)
<1> DEFINE Bad == {T \in SUBSET S : ~ \E g : Sums(f, T, g)}
<1>0. Bad \in SUBSET (SUBSET S)
  OBVIOUS
<1>1. SUFFICES ASSUME Bad # {} PROVE FALSE
  BY Zenon
<1> HIDE DEF Bad
<1>2. PICK T \in Bad : \A U \in Bad : U \subseteq T => U = T
  BY <1>0, <1>1, MinimalSubset
<1>3. T \in SUBSET S /\ ~ \E g : Sums(f, T, g)
  BY <1>2 DEF Bad
<1> DEFINE Sol(U) == CHOOSE g : Sums(f, U, g)
           val(U) == Sol(U)[U]
           G == [s \in SUBSET T |-> IF s = {} THEN 0
                                    ELSE f[First(s)] + val(s \ {First(s)})]
<1>4. \A U \in SUBSET T : U # T => Sums(f, U, Sol(U))
  <2>1. SUFFICES ASSUME NEW U \in SUBSET T, U # T PROVE \E g : Sums(f, U, g)
    BY Zenon
  <2>2. U \in SUBSET S /\ U \notin Bad
    BY <1>2, <1>3, <2>1, Zenon
  <2> QED BY <2>2, Zenon DEF Bad
<1> HIDE DEF Sol
<1>5. ASSUME NEW s \in SUBSET T, s # {} PROVE G[s \ {First(s)}] = val(s \ {First(s)})
  <2> DEFINE t == s \ {First(s)}
  <2>1. First(s) \in s
    BY <1>5, FirstIn, Zenon
  <2>2. t \in SUBSET T /\ t # T
    BY <2>1
  <2>3. Sums(f, t, Sol(t))
    BY <1>4, <2>2, Zenon
  <2>4. CASE t = {}
    BY <2>2, <2>3, <2>4, SumsAt, Zenon
  <2>5. CASE t # {}
    <3> DEFINE v == t \ {First(t)}
    <3>1. First(t) \in t
      BY <2>5, FirstIn, Zenon
    <3>2. v \in SUBSET T /\ v # T /\ v \in SUBSET t /\ v \in SUBSET v
      BY <2>2, <3>1
    <3>3. Sums(f, v, Sol(v))
      BY <1>4, <3>2, Zenon
    <3>4. IsFiniteSet(t)
      BY <1>3, <2>2, FS_Subset, SMT
    <3>7. Sol(t)[t] = f[First(t)] + Sol(v)[v]
      <4>1. PICK k : k = Sol(v)
        OBVIOUS
      <4>2. Sums(f, t \ {First(t)}, k)
        BY <3>3, <4>1, Zenon
      <4> HIDE DEF t
      <4>3. Sol(t)[t] = f[First(t)] + k[t \ {First(t)}]
        BY <2>3, <2>5, <3>4, <4>2, SumsStep, Zenon
      <4> QED BY <4>1, <4>3, Zenon
    <3>8. G[t] = f[First(t)] + val(v)
      BY <2>2, <2>5, Zenon
    <3> QED BY <3>7, <3>8, Zenon
  <2> QED BY <2>4, <2>5, Zenon
<1>6. G = [s \in SUBSET T |-> IF s = {} THEN 0 ELSE f[First(s)] + G[s \ {First(s)}]]
  <2>1. \A s \in SUBSET T :
          (IF s = {} THEN 0 ELSE f[First(s)] + val(s \ {First(s)}))
          = (IF s = {} THEN 0 ELSE f[First(s)] + G[s \ {First(s)}])
    BY <1>5, Zenon
  <2> QED BY <2>1, Zenon
<1>7. Sums(f, T, G)
  BY <1>6, Zenon DEF Sums
<1> QED BY <1>3, <1>7, Zenon

----------------------------------------------------------------------------
(* The sum satisfies its recursion equation.                                *)
LEMMA SumEmpty == ASSUME NEW f PROVE SumFunctionOnSet(f, {}) = 0
<1>1. IsFiniteSet({})
  BY FS_EmptySet
<1>2. PICK g : g = CHOOSE h : Sums(f, {}, h)
  OBVIOUS
<1>3. Sums(f, {}, g)
  BY <1>1, <1>2, SumsExists, Zenon
<1>4. g[{}] = 0
  BY <1>3, SumsAt, Zenon
<1> QED BY <1>2, <1>4, SumIsSums, Zenon

LEMMA SumFirst ==
  ASSUME NEW f, NEW S, IsFiniteSet(S), S # {}
  PROVE  SumFunctionOnSet(f, S) = f[First(S)] + SumFunctionOnSet(f, S \ {First(S)})
<1> DEFINE T == S \ {First(S)}
<1>1. IsFiniteSet(T)
  BY FS_Subset, SMT
<1>2. PICK g : g = CHOOSE k : Sums(f, S, k)
  OBVIOUS
<1>3. PICK h : h = CHOOSE k : Sums(f, T, k)
  OBVIOUS
<1>4. Sums(f, S, g) /\ Sums(f, T, h)
  BY <1>1, <1>2, <1>3, SumsExists, Zenon
<1>5. g[S] = f[First(S)] + h[T]
  BY <1>4, SumsStep, Zenon
<1>6. SumFunctionOnSet(f, S) = g[S] /\ SumFunctionOnSet(f, T) = h[T]
  BY <1>2, <1>3, SumIsSums, Zenon
<1> QED BY <1>5, <1>6, Zenon

(* A sum of naturals is a natural.                                          *)
LEMMA SumType ==
  ASSUME NEW f, NEW S, IsFiniteSet(S), \A s \in S : f[s] \in Nat
  PROVE  SumFunctionOnSet(f, S) \in Nat
<1> DEFINE C == {T \in SUBSET S : SumFunctionOnSet(f, T) \in Nat}
<1>1. ASSUME NEW T \in SUBSET S, \A U \in SUBSET T : U # T => U \in C
      PROVE  T \in C
  <2>1. CASE T = {}
    BY <2>1, SumEmpty DEF First
  <2>2. CASE T # {}
    <3>1. First(T) \in T
      BY <2>2, FirstIn, Zenon
    <3>2. PICK n : n = SumFunctionOnSet(f, T \ {First(T)})
      OBVIOUS
    <3>3. n \in Nat /\ f[First(T)] \in Nat
      BY <1>1, <3>1, <3>2
    <3>4. IsFiniteSet(T)
      BY FS_Subset, SMT
    <3>5. SumFunctionOnSet(f, T) = f[First(T)] + n
      BY <2>2, <3>2, <3>4, SumFirst, Zenon
    <3>6. SumFunctionOnSet(f, T) \in Nat
      BY <3>3, <3>5
    <3> QED BY <3>6
  <2> QED BY <2>1, <2>2
<1> HIDE DEF C
<1>2. \A T \in SUBSET S : T \in C
  BY <1>1, SubsetInduction
<1>3. S \in C
  BY <1>2
<1> QED BY <1>3 DEF C

(* A sum of zeroes is zero.                                                 *)
LEMMA SumZero ==
  ASSUME NEW f, NEW S, IsFiniteSet(S), \A s \in S : f[s] = 0
  PROVE  SumFunctionOnSet(f, S) = 0
<1> DEFINE C == {T \in SUBSET S : SumFunctionOnSet(f, T) = 0}
<1>1. ASSUME NEW T \in SUBSET S, \A U \in SUBSET T : U # T => U \in C
      PROVE  T \in C
  <2>1. CASE T = {}
    BY <2>1, SumEmpty
  <2>2. CASE T # {}
    <3>1. First(T) \in T
      BY <2>2, FirstIn, Zenon
    <3>2. PICK n : n = SumFunctionOnSet(f, T \ {First(T)})
      OBVIOUS
    <3>3. n = 0 /\ f[First(T)] = 0
      BY <1>1, <3>1, <3>2
    <3>4. IsFiniteSet(T)
      BY FS_Subset, SMT
    <3>5. SumFunctionOnSet(f, T) = f[First(T)] + n
      BY <2>2, <3>2, <3>4, SumFirst, Zenon
    <3>6. SumFunctionOnSet(f, T) = 0
      BY <3>3, <3>5
    <3> QED BY <3>6
  <2> QED BY <2>1, <2>2
<1> HIDE DEF C
<1>2. \A T \in SUBSET S : T \in C
  BY <1>1, SubsetInduction
<1>3. S \in C
  BY <1>2
<1> QED BY <1>3 DEF C

(* A sum depends only on the values it adds up.                             *)
LEMMA SumSame ==
  ASSUME NEW f, NEW g, NEW S, IsFiniteSet(S), \A s \in S : f[s] = g[s]
  PROVE  SumFunctionOnSet(f, S) = SumFunctionOnSet(g, S)
<1> DEFINE C == {T \in SUBSET S : SumFunctionOnSet(f, T) = SumFunctionOnSet(g, T)}
<1>1. ASSUME NEW T \in SUBSET S, \A U \in SUBSET T : U # T => U \in C
      PROVE  T \in C
  <2>1. CASE T = {}
    BY <2>1, SumEmpty
  <2>2. CASE T # {}
    <3>1. First(T) \in T
      BY <2>2, FirstIn, Zenon
    <3>2. PICK U : U = T \ {First(T)}
      OBVIOUS
    <3>3. SumFunctionOnSet(f, U) = SumFunctionOnSet(g, U) /\ f[First(T)] = g[First(T)]
      BY <1>1, <3>1, <3>2
    <3>4. IsFiniteSet(T)
      BY FS_Subset, SMT
    <3>5. /\ SumFunctionOnSet(f, T) = f[First(T)] + SumFunctionOnSet(f, U)
          /\ SumFunctionOnSet(g, T) = g[First(T)] + SumFunctionOnSet(g, U)
      BY <2>2, <3>2, <3>4, SumFirst, Zenon
    <3>6. SumFunctionOnSet(f, T) = SumFunctionOnSet(g, T)
      BY <3>3, <3>5, Zenon
    <3> QED BY <3>6
  <2> QED BY <2>1, <2>2
<1> HIDE DEF C
<1>2. \A T \in SUBSET S : T \in C
  BY <1>1, SubsetInduction
<1>3. S \in C
  BY <1>2
<1> QED BY <1>3 DEF C

(* Any element may be taken out first.                                      *)
LEMMA SumRemove ==
  ASSUME NEW f, NEW S, IsFiniteSet(S), \A s \in S : f[s] \in Nat, NEW x \in S
  PROVE  SumFunctionOnSet(f, S) = f[x] + SumFunctionOnSet(f, S \ {x})
<1> DEFINE C == {T \in SUBSET S : \A y \in T :
                   SumFunctionOnSet(f, T) = f[y] + SumFunctionOnSet(f, T \ {y})}
<1>1. ASSUME NEW T \in SUBSET S, \A U \in SUBSET T : U # T => U \in C
      PROVE  T \in C
  <2>1. SUFFICES ASSUME NEW y \in T
                 PROVE  SumFunctionOnSet(f, T) = f[y] + SumFunctionOnSet(f, T \ {y})
    OBVIOUS
  <2>2. PICK z \in T : z = First(T)
    BY FirstIn, Zenon
  <2>3. IsFiniteSet(T)
    BY FS_Subset, SMT
  <2>4. PICK U : U = T \ {z}
    OBVIOUS
  <2>5. SumFunctionOnSet(f, T) = f[z] + SumFunctionOnSet(f, U)
    BY <2>2, <2>3, <2>4, SumFirst, Zenon
  <2>6. CASE y = z
    BY <2>4, <2>5, <2>6
  <2>7. CASE y # z
    <3>1. PICK V : V = T \ {y}
      OBVIOUS
    <3>2. PICK W : W = U \ {y}
      OBVIOUS
    <3>3. W = V \ {z} /\ y \in U /\ z \in V
      BY <2>4, <2>7, <3>1, <3>2
    <3>4. U \in C /\ V \in C
      BY <1>1, <2>4, <3>1
    <3>5. /\ SumFunctionOnSet(f, U) = f[y] + SumFunctionOnSet(f, W)
          /\ SumFunctionOnSet(f, V) = f[z] + SumFunctionOnSet(f, W)
      BY <3>2, <3>3, <3>4
    <3>6. PICK n : n = SumFunctionOnSet(f, W)
      OBVIOUS
    <3>7. W \subseteq S /\ IsFiniteSet(W)
      BY <2>3, <2>4, <3>2, FS_Subset, SMT
    <3>8. n \in Nat /\ f[y] \in Nat /\ f[z] \in Nat
      BY <3>6, <3>7, SumType
    <3>9. f[z] + (f[y] + n) = f[y] + (f[z] + n)
      BY <3>8
    <3> QED BY <2>5, <3>1, <3>5, <3>6, <3>9, Zenon
  <2> QED BY <2>6, <2>7
<1> HIDE DEF C
<1>2. \A T \in SUBSET S : T \in C
  BY <1>1, SubsetInduction
<1>3. S \in C
  BY <1>2
<1> QED BY <1>3 DEF C

(* The same, adding an element.                                             *)
LEMMA SumAdd ==
  ASSUME NEW f, NEW S, IsFiniteSet(S), NEW x, x \notin S,
         \A s \in S \cup {x} : f[s] \in Nat
  PROVE  SumFunctionOnSet(f, S \cup {x}) = SumFunctionOnSet(f, S) + f[x]
<1>1. PICK T : T = S \cup {x}
  OBVIOUS
<1>2. IsFiniteSet(T) /\ x \in T /\ S = T \ {x}
  BY <1>1, FS_AddElement
<1>3. \A s \in T : f[s] \in Nat
  BY <1>1
<1>4. SumFunctionOnSet(f, T) = f[x] + SumFunctionOnSet(f, S)
  BY <1>2, <1>3, SumRemove
<1>5. PICK n : n = SumFunctionOnSet(f, S)
  OBVIOUS
<1>6. n \in Nat /\ f[x] \in Nat
  BY <1>1, <1>2, <1>3, <1>5, SumType
<1>7. f[x] + n = n + f[x]
  BY <1>6
<1> QED BY <1>1, <1>4, <1>5, <1>7, Zenon

(* Changing one of the values changes the sum by the difference.            *)
LEMMA SumOneChanged ==
  ASSUME NEW f, NEW g, NEW S, IsFiniteSet(S), NEW x \in S,
         \A s \in S : f[s] \in Nat /\ g[s] \in Nat,
         \A s \in S \ {x} : f[s] = g[s]
  PROVE  SumFunctionOnSet(g, S) + f[x] = SumFunctionOnSet(f, S) + g[x]
<1>1. PICK T : T = S \ {x}
  OBVIOUS
<1>2. IsFiniteSet(T)
  BY <1>1, FS_Subset, SMT
<1>3. SumFunctionOnSet(f, T) = SumFunctionOnSet(g, T)
  BY <1>1, <1>2, SumSame
<1>4. PICK n : n = SumFunctionOnSet(f, T)
  OBVIOUS
<1>5. n \in Nat /\ f[x] \in Nat /\ g[x] \in Nat
  BY <1>1, <1>2, <1>4, SumType
<1>6. SumFunctionOnSet(f, S) = f[x] + n /\ SumFunctionOnSet(g, S) = g[x] + n
  BY <1>1, <1>3, <1>4, SumRemove
<1> QED BY <1>5, <1>6

(* A sum of values each at most k times (another value and one).            *)
LEMMA SumScaled ==
  ASSUME NEW f, NEW g, NEW S, IsFiniteSet(S), NEW k \in Nat,
         \A s \in S : f[s] \in Nat /\ g[s] \in Nat /\ g[s] <= k * (f[s] + 1)
  PROVE  SumFunctionOnSet(g, S) <= k * (SumFunctionOnSet(f, S) + Cardinality(S))
<1> DEFINE C == {T \in SUBSET S :
                   SumFunctionOnSet(g, T) <= k * (SumFunctionOnSet(f, T) + Cardinality(T))}
<1>1. ASSUME NEW T \in SUBSET S, \A U \in SUBSET T : U # T => U \in C
      PROVE  T \in C
  <2>1. CASE T = {}
    <3>1. Cardinality(T) = 0
      BY <2>1, FS_EmptySet
    <3>2. SumFunctionOnSet(f, T) = 0 /\ SumFunctionOnSet(g, T) = 0
      BY <2>1, SumEmpty
    <3> QED BY <3>1, <3>2
  <2>2. CASE T # {}
    <3>1. PICK x : x \in T
      BY <2>2
    <3>2. PICK U : U = T \ {x}
      OBVIOUS
    <3>3. IsFiniteSet(T) /\ IsFiniteSet(U)
      <4>1. U \in SUBSET S
        BY <3>2
      <4> QED BY <4>1, FS_Subset
    <3>4. U \in C
      BY <1>1, <3>1, <3>2
    <3>5. Cardinality(U) \in Nat /\ Cardinality(T) = Cardinality(U) + 1
      BY <3>1, <3>2, <3>3, FS_CardinalityType, FS_RemoveElement
    <3>6. PICK a, b, c : /\ a = SumFunctionOnSet(f, U) /\ b = SumFunctionOnSet(g, U)
                         /\ c = Cardinality(U)
      OBVIOUS
    <3>7. a \in Nat /\ b \in Nat
      <4>1. \A s \in U : f[s] \in Nat /\ g[s] \in Nat
        BY <3>2
      <4> QED BY <3>3, <3>6, <4>1, SumType
    <3>8. SumFunctionOnSet(f, T) = f[x] + a /\ SumFunctionOnSet(g, T) = g[x] + b
      BY <3>1, <3>2, <3>3, <3>6, SumRemove
    <3>9. PICK m, n : m = f[x] /\ n = g[x]
      OBVIOUS
    <3>10. m \in Nat /\ n \in Nat /\ n <= k * (m + 1)
      BY <3>1, <3>9
    <3>11. c \in Nat /\ b <= k * (a + c)
      BY <3>4, <3>5, <3>6
    <3>12. n + b <= k * ((m + a) + (c + 1))
      <4>1. k * ((m + a) + (c + 1)) = k * (m + 1) + k * (a + c)
        BY <3>7, <3>10, <3>11
      <4>2. k * (m + 1) \in Nat /\ k * (a + c) \in Nat
        BY <3>7, <3>10, <3>11
      <4> QED BY <3>7, <3>10, <3>11, <4>1, <4>2
    <3> QED BY <3>5, <3>6, <3>8, <3>9, <3>12
  <2> QED BY <2>1, <2>2
<1> HIDE DEF C
<1>2. \A T \in SUBSET S : T \in C
  BY <1>1, SubsetInduction
<1>3. S \in C
  BY <1>2
<1> QED BY <1>3 DEF C

(* A sum over fewer elements, of smaller values, is smaller.                *)
LEMMA SumSmaller ==
  ASSUME NEW f, NEW g, NEW S, NEW T, IsFiniteSet(T), S \subseteq T,
         \A s \in T : f[s] \in Nat /\ g[s] \in Nat, \A s \in S : f[s] <= g[s]
  PROVE  SumFunctionOnSet(f, S) <= SumFunctionOnSet(g, T)
<1> DEFINE C == {U \in SUBSET T :
                   SumFunctionOnSet(f, S \cap U) <= SumFunctionOnSet(g, U)}
<1>1. ASSUME NEW U \in SUBSET T, \A V \in SUBSET U : V # U => V \in C
      PROVE  U \in C
  <2>1. CASE U = {}
    <3>1. S \cap U = {}
      BY <2>1
    <3>2. SumFunctionOnSet(f, S \cap U) = 0 /\ SumFunctionOnSet(g, U) = 0
      BY <2>1, <3>1, SumEmpty
    <3> QED BY <3>2
  <2>2. CASE U # {}
    <3>1. PICK x : x \in U
      BY <2>2
    <3>2. PICK V : V = U \ {x}
      OBVIOUS
    <3>3. V \in C
      BY <1>1, <3>1, <3>2
    <3>4. IsFiniteSet(U) /\ IsFiniteSet(V) /\ IsFiniteSet(S \cap U) /\ IsFiniteSet(S \cap V)
      <4>1. /\ U \in SUBSET T /\ V \in SUBSET T
            /\ S \cap U \in SUBSET T /\ S \cap V \in SUBSET T
        BY <3>2
      <4> QED BY <4>1, FS_Subset
    <3>5. PICK m : m = SumFunctionOnSet(g, V)
      OBVIOUS
    <3>6. PICK n : n = SumFunctionOnSet(f, S \cap V)
      OBVIOUS
    <3>7. m \in Nat /\ n \in Nat /\ f[x] \in Nat /\ g[x] \in Nat
      <4>1. \A s \in V : g[s] \in Nat
        BY <3>2
      <4>2. \A s \in S \cap V : f[s] \in Nat
        BY <3>2
      <4>3. m \in Nat
        BY <3>4, <3>5, <4>1, SumType
      <4>4. n \in Nat
        BY <3>4, <3>6, <4>2, SumType
      <4> QED BY <3>1, <4>3, <4>4
    <3>8. n <= m
      BY <3>3, <3>5, <3>6
    <3>9. SumFunctionOnSet(g, U) = g[x] + m
      BY <3>1, <3>2, <3>4, <3>5, SumRemove
    <3>10. CASE x \in S
      <4>1. PICK W : W = S \cap U
        OBVIOUS
      <4>2. x \in W /\ S \cap V = W \ {x} /\ W \subseteq T
        BY <3>1, <3>2, <3>10, <4>1
      <4>3. SumFunctionOnSet(f, W) = f[x] + n
        BY <3>4, <3>6, <4>1, <4>2, SumRemove
      <4>4. f[x] <= g[x]
        BY <3>10
      <4>5. f[x] + n <= g[x] + m
        BY <3>7, <3>8, <4>4
      <4>6. SumFunctionOnSet(f, S \cap U) <= SumFunctionOnSet(g, U)
        BY <3>9, <4>1, <4>3, <4>5
      <4> QED BY <4>6
    <3>11. CASE x \notin S
      <4>1. S \cap U = S \cap V
        BY <3>1, <3>2, <3>11
      <4>2. n <= g[x] + m
        BY <3>7, <3>8
      <4>3. SumFunctionOnSet(f, S \cap U) <= SumFunctionOnSet(g, U)
        BY <3>6, <3>9, <4>1, <4>2
      <4> QED BY <4>3
    <3> QED BY <3>10, <3>11
  <2> QED BY <2>1, <2>2
<1> HIDE DEF C
<1>2. \A U \in SUBSET T : U \in C
  BY <1>1, SubsetInduction
<1>3. T \in C /\ S \cap T = S
  BY <1>2
<1> QED BY <1>3 DEF C

----------------------------------------------------------------------------
(* The prefixes of the slice that Keep fills, n steps of its loop.          *)
Kept(f, list, wanted, n) ==
  f = [i \in 0 .. n |->
        IF i = 0 THEN <<>>
        ELSE IF list[i] \in wanted THEN Append(f[i - 1], list[i]) ELSE f[i - 1]]

LEMMA KeepIsKept ==
  ASSUME NEW list, NEW wanted
  PROVE  Keep(list, wanted) = (CHOOSE f : Kept(f, list, wanted, Len(list)))[Len(list)]
  BY Zenon DEF Keep, Kept

LEMMA KeptAt ==
  ASSUME NEW f, NEW list, NEW wanted, NEW n \in Nat, Kept(f, list, wanted, n)
  PROVE  /\ f[0] = <<>>
         /\ \A i \in 0 .. n : i # 0 =>
              f[i] = IF list[i] \in wanted THEN Append(f[i - 1], list[i]) ELSE f[i - 1]
  <1>1. 0 \in 0 .. n
    OBVIOUS
  <1> QED BY <1>1, Zenon DEF Kept

LEMMA KeptLast ==
  ASSUME NEW f, NEW list, NEW wanted, NEW n \in Nat, n # 0, Kept(f, list, wanted, n)
  PROVE  f[n] = IF list[n] \in wanted THEN Append(f[n - 1], list[n]) ELSE f[n - 1]
<1>1. n \in 0 .. n
  OBVIOUS
<1> QED BY <1>1, KeptAt

(* Loops over two lists fill the same slices as long as the lists agree.    *)
LEMMA KeptAgree ==
  ASSUME NEW f, NEW g, NEW list, NEW longer, NEW wanted, NEW n \in Nat, NEW m \in Nat,
         n <= m, Kept(f, list, wanted, n), Kept(g, longer, wanted, m),
         \A i \in 1 .. n : list[i] = longer[i]
  PROVE  \A i \in 0 .. n : f[i] = g[i]
<1> DEFINE C == {i \in Nat : i <= n => f[i] = g[i]}
<1>1. 0 \in C
  BY KeptAt
<1>2. ASSUME NEW i \in Nat, i \in C PROVE i + 1 \in C
  <2> SUFFICES ASSUME i + 1 <= n PROVE f[i + 1] = g[i + 1]
    OBVIOUS
  <2> PICK k : k = i + 1
    OBVIOUS
  <2>1. k \in 0 .. n /\ k \in 0 .. m /\ k \in 1 .. n /\ k # 0 /\ k - 1 = i /\ f[i] = g[i]
    BY <1>2
  <2>2. f[k] = IF list[k] \in wanted THEN Append(f[k - 1], list[k]) ELSE f[k - 1]
    BY <2>1, KeptAt
  <2>3. g[k] = IF longer[k] \in wanted THEN Append(g[k - 1], longer[k]) ELSE g[k - 1]
    BY <2>1, KeptAt
  <2> QED BY <2>1, <2>2, <2>3
<1>3. \A i \in Nat : i \in C
  <2> HIDE DEF C
  <2> QED BY <1>1, <1>2, NumberInduction
<1> QED BY <1>3

LEMMA KeptExists ==
  ASSUME NEW list, NEW wanted
  PROVE  \A n \in Nat : \E f : Kept(f, list, wanted, n)
<1> DEFINE C == {n \in Nat : \E f : Kept(f, list, wanted, n)}
<1>1. 0 \in C
  <2>1. PICK f : f = [i \in 0 .. 0 |-> <<>>]
    OBVIOUS
  <2>2. \A i \in 0 .. 0 : i = 0
    OBVIOUS
  <2>3. Kept(f, list, wanted, 0)
    BY <2>1, <2>2, Zenon DEF Kept
  <2> QED BY <2>3
<1>2. ASSUME NEW n \in Nat, n \in C PROVE n + 1 \in C
  <2>1. PICK f : Kept(f, list, wanted, n)
    BY <1>2
  <2> PICK k : k = n + 1
    OBVIOUS
  <2> DEFINE next == IF list[k] \in wanted THEN Append(f[n], list[k]) ELSE f[n]
  <2>2. PICK g : g = [i \in 0 .. k |-> IF i = k THEN next ELSE f[i]]
    OBVIOUS
  <2>3. /\ k # 0 /\ k - 1 = n
        /\ \A i \in 0 .. k : i # k => i \in 0 .. n
        /\ \A i \in 0 .. k : i # 0 => i - 1 \in 0 .. k /\ i - 1 # k
    OBVIOUS
  <2>4. \A i \in 0 .. k :
          g[i] = IF i = 0 THEN <<>>
                 ELSE IF list[i] \in wanted THEN Append(g[i - 1], list[i]) ELSE g[i - 1]
    <3> SUFFICES ASSUME NEW i \in 0 .. k
                 PROVE  g[i] = IF i = 0 THEN <<>>
                               ELSE IF list[i] \in wanted THEN Append(g[i - 1], list[i])
                               ELSE g[i - 1]
      OBVIOUS
    <3>1. i # 0 => g[i - 1] = f[i - 1]
      BY <2>2, <2>3
    <3>2. CASE i = k
      BY <3>1, <3>2, <2>2, <2>3
    <3>3. CASE i # k
      <4>1. g[i] = f[i] /\ i \in 0 .. n
        BY <3>3, <2>2, <2>3
      <4>2. CASE i = 0
        BY <4>1, <4>2, <2>1, KeptAt
      <4>3. CASE i # 0
        BY <4>1, <4>3, <3>1, <2>1, KeptAt
      <4> QED BY <4>2, <4>3
    <3> QED BY <3>2, <3>3
  <2>5. g = [i \in 0 .. k |->
              IF i = 0 THEN <<>>
              ELSE IF list[i] \in wanted THEN Append(g[i - 1], list[i]) ELSE g[i - 1]]
    BY <2>2, <2>4, Zenon
  <2>6. Kept(g, list, wanted, k)
    BY <2>5, Zenon DEF Kept
  <2> QED BY <2>6
<1>3. \A n \in Nat : n \in C
  <2> HIDE DEF C
  <2> QED BY <1>1, <1>2, NumberInduction
<1> QED BY <1>3

LEMMA KeepLast ==
  ASSUME NEW list, NEW wanted, NEW f, Len(list) \in Nat, Kept(f, list, wanted, Len(list))
  PROVE  Keep(list, wanted) = f[Len(list)]
<1>1. PICK g : g = CHOOSE h : Kept(h, list, wanted, Len(list))
  OBVIOUS
<1>2. Kept(g, list, wanted, Len(list))
  BY <1>1, Zenon
<1>3. Keep(list, wanted) = g[Len(list)]
  BY <1>1, KeepIsKept, Zenon
<1>4. PICK n \in Nat : n = Len(list)
  OBVIOUS
<1>5. \A i \in 0 .. n : g[i] = f[i]
  BY <1>2, <1>4, KeptAgree
<1> QED BY <1>3, <1>4, <1>5

(* Keep, by recursion over its list.                                        *)
LEMMA KeepEmpty == ASSUME NEW wanted PROVE Keep(<<>>, wanted) = <<>>
<1>1. PICK n \in Nat : n = 0
  OBVIOUS
<1>2. PICK f : Kept(f, <<>>, wanted, n)
  BY KeptExists
<1>3. f[n] = <<>>
  BY <1>1, <1>2, KeptAt
<1>4. Len(<<>>) = n
  BY <1>1
<1> QED BY <1>2, <1>3, <1>4, KeepLast

LEMMA KeepAppend ==
  ASSUME NEW S, NEW list \in Seq(S), NEW e \in S, NEW wanted
  PROVE  Keep(Append(list, e), wanted) =
           IF e \in wanted THEN Append(Keep(list, wanted), e) ELSE Keep(list, wanted)
<1>0. PICK longer, n, m : longer = Append(list, e) /\ n = Len(list) /\ m = n + 1
  OBVIOUS
<1>1. /\ n \in Nat /\ m \in Nat /\ n <= m /\ Len(longer) = m /\ longer[m] = e
      /\ \A i \in 1 .. n : list[i] = longer[i]
  BY <1>0, AppendProperties, LenProperties
<1>2. PICK f : Kept(f, list, wanted, n)
  BY <1>1, KeptExists
<1>3. PICK g : Kept(g, longer, wanted, m)
  BY <1>1, KeptExists
<1>4. Keep(list, wanted) = f[n] /\ Keep(longer, wanted) = g[m]
  BY <1>0, <1>1, <1>2, <1>3, KeepLast
<1>5. f[n] = g[n]
  <2>1. \A i \in 0 .. n : f[i] = g[i]
    BY <1>1, <1>2, <1>3, KeptAgree
  <2> QED BY <1>1, <2>1
<1>6. m \in 0 .. m /\ m # 0 /\ m - 1 = n
  BY <1>0, <1>1
<1>7. g[m] = IF longer[m] \in wanted THEN Append(g[m - 1], longer[m]) ELSE g[m - 1]
  BY <1>1, <1>3, <1>6, KeptLast
<1> QED BY <1>0, <1>1, <1>4, <1>5, <1>6, <1>7

(* What Keep returns.                                                       *)
LEMMA KeepType ==
  ASSUME NEW S, NEW wanted
  PROVE  \A list \in Seq(S) :
           Keep(list, wanted) \in Seq(S) /\ Len(Keep(list, wanted)) <= Len(list)
<1> DEFINE C == {list \in Seq(S) :
             Keep(list, wanted) \in Seq(S) /\ Len(Keep(list, wanted)) <= Len(list)}
<1>1. <<>> \in C
  <2>1. Keep(<<>>, wanted) = <<>> /\ <<>> \in Seq(S)
    BY KeepEmpty, EmptySeq
  <2>2. Len(<<>>) <= Len(<<>>)
    OBVIOUS
  <2> QED BY <2>1, <2>2
<1>2. ASSUME NEW list \in Seq(S), NEW e \in S, list \in C
      PROVE  Append(list, e) \in C
  <2> PICK kept, longer : kept = Keep(list, wanted) /\ longer = Append(list, e)
    OBVIOUS
  <2>1. /\ kept \in Seq(S) /\ Len(kept) <= Len(list)
        /\ longer \in Seq(S) /\ Len(longer) = Len(list) + 1
        /\ Len(list) \in Nat /\ Len(kept) \in Nat
    BY <1>2, AppendProperties, LenProperties
  <2>2. /\ Append(kept, e) \in Seq(S) /\ Len(Append(kept, e)) = Len(kept) + 1
    BY <2>1, AppendProperties
  <2>3. Keep(longer, wanted) = IF e \in wanted THEN Append(kept, e) ELSE kept
    BY KeepAppend
  <2>4. Keep(longer, wanted) \in Seq(S) /\ Len(Keep(longer, wanted)) <= Len(longer)
    BY <2>1, <2>2, <2>3
  <2> QED BY <2>1, <2>4
<1>3. \A list \in Seq(S) : list \in C
  <2> HIDE DEF C
  <2> QED BY <1>1, <1>2, AppendInduction
<1> QED BY <1>3

LEMMA KeepElements ==
  ASSUME NEW S, NEW wanted
  PROVE  \A list \in Seq(S) :
           \A i \in 1 .. Len(Keep(list, wanted)) : Keep(list, wanted)[i] \in wanted
<1> DEFINE C == {list \in Seq(S) :
             \A i \in 1 .. Len(Keep(list, wanted)) : Keep(list, wanted)[i] \in wanted}
<1>1. <<>> \in C
  BY KeepEmpty, EmptySeq
<1>2. ASSUME NEW list \in Seq(S), NEW e \in S, list \in C
      PROVE  Append(list, e) \in C
  <2> PICK kept, longer : kept = Keep(list, wanted) /\ longer = Append(list, e)
    OBVIOUS
  <2>1. /\ kept \in Seq(S) /\ longer \in Seq(S)
        /\ \A i \in 1 .. Len(kept) : kept[i] \in wanted
    BY <1>2, KeepType, AppendProperties
  <2>2. Keep(longer, wanted) = IF e \in wanted THEN Append(kept, e) ELSE kept
    BY KeepAppend
  <2>3. CASE e \in wanted
    <3> PICK more : more = Append(kept, e)
      OBVIOUS
    <3>1. /\ Len(more) = Len(kept) + 1 /\ Len(kept) \in Nat
          /\ \A i \in 1 .. Len(kept) : more[i] = kept[i]
          /\ more[Len(kept) + 1] = e
      BY <2>1, AppendProperties, LenProperties
    <3>2. \A i \in 1 .. Len(more) : more[i] \in wanted
      BY <2>1, <2>3, <3>1
    <3> QED BY <2>1, <2>2, <2>3, <3>2
  <2>4. CASE e \notin wanted
    BY <2>1, <2>2, <2>4
  <2> QED BY <2>3, <2>4
<1>3. \A list \in Seq(S) : list \in C
  <2> HIDE DEF C
  <2> QED BY <1>1, <1>2, AppendInduction
<1> QED BY <1>3

(* An element that is not wanted makes it shorter.                          *)
LEMMA KeepDrops ==
  ASSUME NEW S, NEW wanted
  PROVE  \A list \in Seq(S) :
           (\E i \in 1 .. Len(list) : list[i] \notin wanted) =>
             Len(Keep(list, wanted)) < Len(list)
<1> DEFINE C == {list \in Seq(S) :
             (\E i \in 1 .. Len(list) : list[i] \notin wanted) =>
               Len(Keep(list, wanted)) < Len(list)}
<1>1. <<>> \in C
  OBVIOUS
<1>2. ASSUME NEW list \in Seq(S), NEW e \in S, list \in C
      PROVE  Append(list, e) \in C
  <2> PICK kept, longer : kept = Keep(list, wanted) /\ longer = Append(list, e)
    OBVIOUS
  <2>1. /\ kept \in Seq(S) /\ Len(kept) <= Len(list) /\ Len(kept) \in Nat
        /\ longer \in Seq(S) /\ Len(longer) = Len(list) + 1 /\ Len(list) \in Nat
        /\ \A i \in 1 .. Len(list) : longer[i] = list[i]
        /\ longer[Len(list) + 1] = e
        /\ Len(Append(kept, e)) = Len(kept) + 1
    BY KeepType, AppendProperties, LenProperties
  <2>2. Keep(longer, wanted) = IF e \in wanted THEN Append(kept, e) ELSE kept
    BY KeepAppend
  <2>3. SUFFICES ASSUME NEW i \in 1 .. Len(longer), longer[i] \notin wanted
                 PROVE  Len(Keep(longer, wanted)) < Len(longer)
    BY <2>1
  <2>4. CASE e \in wanted
    <3>1. i \in 1 .. Len(list) /\ list[i] \notin wanted
      BY <2>1, <2>3, <2>4
    <3>2. Len(kept) < Len(list)
      BY <1>2, <3>1
    <3> QED BY <2>1, <2>2, <2>4, <3>2
  <2>5. CASE e \notin wanted
    BY <2>1, <2>2, <2>5
  <2> QED BY <2>4, <2>5
<1>3. \A list \in Seq(S) : list \in C
  <2> HIDE DEF C
  <2> QED BY <1>1, <1>2, AppendInduction
<1> QED BY <1>3

(* Keeping less first changes nothing for a test that keeps less still, and *)
(* never leaves more.                                                       *)
LEMMA KeepTwice ==
  ASSUME NEW S, NEW wanted, NEW more
  PROVE  \A list \in Seq(S) :
           /\ Len(Keep(Keep(list, more), wanted)) <= Len(Keep(list, wanted))
           /\ wanted \subseteq more => Keep(Keep(list, more), wanted) = Keep(list, wanted)
<1> DEFINE C == {list \in Seq(S) :
             /\ Len(Keep(Keep(list, more), wanted)) <= Len(Keep(list, wanted))
             /\ wanted \subseteq more => Keep(Keep(list, more), wanted) = Keep(list, wanted)}
<1>1. <<>> \in C
  BY KeepEmpty, EmptySeq
<1>2. ASSUME NEW list \in Seq(S), NEW e \in S, list \in C
      PROVE  Append(list, e) \in C
  <2> PICK longer, first, both, one :
        /\ longer = Append(list, e) /\ first = Keep(list, more)
        /\ both = Keep(first, wanted) /\ one = Keep(list, wanted)
    OBVIOUS
  <2>1. /\ longer \in Seq(S) /\ first \in Seq(S) /\ both \in Seq(S) /\ one \in Seq(S)
    BY KeepType, AppendProperties
  <2>2. /\ Len(both) \in Nat /\ Len(one) \in Nat
        /\ Len(Append(both, e)) = Len(both) + 1 /\ Len(Append(one, e)) = Len(one) + 1
        /\ Len(both) <= Len(one) /\ (wanted \subseteq more => both = one)
    BY <1>2, <2>1, AppendProperties, LenProperties
  <2>3. Keep(longer, more) = IF e \in more THEN Append(first, e) ELSE first
    BY KeepAppend
  <2>8. Keep(longer, wanted) = IF e \in wanted THEN Append(one, e) ELSE one
    BY KeepAppend
  <2>9. Keep(Append(first, e), wanted) = IF e \in wanted THEN Append(both, e) ELSE both
    BY <2>1, KeepAppend
  <2> PICK after, last : after = Keep(Keep(longer, more), wanted) /\ last = Keep(longer, wanted)
    OBVIOUS
  <2>4. after = IF e \in more /\ e \in wanted THEN Append(both, e) ELSE both
    BY <2>3, <2>9
  <2>5. last = IF e \in wanted THEN Append(one, e) ELSE one
    BY <2>8
  <2>6. Len(after) <= Len(last)
    BY <2>2, <2>4, <2>5
  <2>7. wanted \subseteq more => after = last
    BY <2>2, <2>4, <2>5
  <2> QED BY <2>1, <2>6, <2>7
<1>3. \A list \in Seq(S) : list \in C
  <2> HIDE DEF C
  <2> QED BY <1>1, <1>2, AppendInduction
<1> QED BY <1>3
=============================================================================
