----------------------------- MODULE SumTheorems -----------------------------
(***************************************************************************)
(* Facts about sums over finite sets (SumFunctionOnSet of module Functions)    *)
(* that the proofs about bytes, copies and budgets cite.                      *)
(*                                                                         *)
(* A sum is defined by taking one chosen element after another.  The facts     *)
(* rest on an induction over finite sets whose hypothesis is a set of sets,    *)
(* and that on the least element of a set of naturals.                        *)
(***************************************************************************)
EXTENDS Integers, FiniteSets, Functions, FiniteSetTheorems, TLAPS

\* A nonempty set of naturals has a least element.
LEMMA LeastNatural ==
  ASSUME NEW S, S \subseteq Nat, S # {}
  PROVE  \E x \in S : \A y \in S : x <= y
<1> DEFINE T == {0..n : n \in S}
<1>1. T \subseteq FiniteSubsetsOf(Nat)
  <2>1. \A n \in S : IsFiniteSet(0..n) /\ 0..n \subseteq Nat
        BY FS_Interval
  <2> QED BY <2>1 DEF FiniteSubsetsOf
<1>2. \E s \in T : \A t \in T : <<t, s>> \notin StrictSubsetOrdering(Nat)
  <2> HIDE DEF T
  <2>1. IsWellFoundedOn(StrictSubsetOrdering(Nat), FiniteSubsetsOf(Nat))
        BY FS_StrictSubsetOrderingWellFounded
  <2>2. ASSUME T # {} PROVE <1>2
        BY <1>1, <2>1, <2>2, WFMin
  <2> QED BY <2>2 DEF T
<1>3. PICK x \in S : \A y \in S : <<0..y, 0..x>> \notin StrictSubsetOrdering(Nat)
      BY <1>2
<1>4. ASSUME NEW y \in S, ~(x <= y) PROVE FALSE
  <2>1. 0..y \subseteq 0..x /\ x \in 0..x /\ x \notin 0..y
        BY <1>4
  <2>2. 0..y \in SUBSET Nat /\ 0..x \in SUBSET Nat
        BY <1>4
  <2> QED BY <1>3, <2>1, <2>2 DEF StrictSubsetOrdering
<1> QED BY <1>4

\* What holds of the empty set, and of a set with one more element if it holds without
\* it, holds of every subset of a finite set; F are the subsets it holds of.
LEMMA SetInduction ==
  ASSUME NEW S, IsFiniteSet(S), NEW F, {} \in F,
         \A T \in SUBSET S, x \in S : T \in F /\ x \notin T => T \cup {x} \in F
  PROVE  \A T \in SUBSET S : T \in F
<1> DEFINE Bad == {T \in SUBSET S : T \notin F}
           Sizes == {Cardinality(T) : T \in Bad}
<1>1. \A T \in SUBSET S : IsFiniteSet(T) /\ Cardinality(T) \in Nat
      BY FS_Subset, FS_CardinalityType
<1>2. SUFFICES ASSUME Bad # {} PROVE FALSE
      OBVIOUS
<1>3. Sizes \subseteq Nat /\ Sizes # {}
      BY <1>1, <1>2
<1>4. \E n \in Sizes : \A m \in Sizes : n <= m
  <2> HIDE DEF Sizes
  <2> QED BY <1>3, LeastNatural
<1>5. PICK T \in Bad : \A U \in Bad : Cardinality(T) <= Cardinality(U)
      BY <1>4
<1>6. PICK x \in T : TRUE
      BY <1>5
<1>7. T \ {x} \in SUBSET S /\ x \in S /\ (T \ {x}) \cup {x} = T
      BY <1>6
<1>8. Cardinality(T \ {x}) = Cardinality(T) - 1
      BY <1>1, <1>6, FS_RemoveElement
<1>9. T \ {x} \notin Bad
      BY <1>1, <1>5, <1>7, <1>8
<1> QED BY <1>7, <1>9

-----------------------------------------------------------------------------
(* The recursion behind a sum *)

Picked(s) == CHOOSE x \in s : TRUE

\* One step of the recursion: the sum of s, by the sums g of smaller sets.
Unfolded(f, g, s) == IF s = {} THEN 0 ELSE f[Picked(s)] + g[s \ {Picked(s)}]

\* The sums of all subsets of S.
Sums(f, S) == CHOOSE g : g = [s \in SUBSET S |-> Unfolded(f, g, s)]

LEMMA SumIsOneOfSums ==
  ASSUME NEW f, NEW S
  PROVE  SumFunctionOnSet(f, S) = Sums(f, S)[S]
BY DEF SumFunctionOnSet, FoldFunctionOnSet, MapThenFoldSet, Sums, Picked, Unfolded

LEMMA PickedIn == ASSUME NEW s, s # {} PROVE Picked(s) \in s
BY DEF Picked

\* The recursion has a solution: one for the sets of at most n elements gives one for
\* those of at most n + 1.
LEMMA SumsUnfold ==
  ASSUME NEW S, IsFiniteSet(S), NEW f
  PROVE  \A T \in SUBSET S : Sums(f, S)[T] = Unfolded(f, Sums(f, S), T)
<1> DEFINE Upto(n) == {s \in SUBSET S : Cardinality(s) <= n}
           Solved(n) == \E g : g = [s \in Upto(n) |-> Unfolded(f, g, s)]
           Open == {n \in Nat : ~Solved(n)}
<1>1. \A T \in SUBSET S : IsFiniteSet(T) /\ Cardinality(T) \in Nat /\ Cardinality(T) <= Cardinality(S)
      BY FS_Subset, FS_CardinalityType
<1>2. ASSUME NEW s \in SUBSET S, s # {}
      PROVE  s \ {Picked(s)} \in SUBSET S /\ Cardinality(s \ {Picked(s)}) = Cardinality(s) - 1
      BY <1>1, <1>2, PickedIn, FS_RemoveElement
<1>3. Solved(0)
  <2>1. \A s \in Upto(0) : s = {}
        BY <1>1, FS_EmptySet
  <2>2. [s \in Upto(0) |-> 0] = [s \in Upto(0) |-> Unfolded(f, [t \in Upto(0) |-> 0], s)]
        BY <2>1 DEF Unfolded
  <2> QED BY <2>2
<1>4. ASSUME NEW n \in Nat, Solved(n) PROVE Solved(n + 1)
  <2>1. PICK g : g = [s \in Upto(n) |-> Unfolded(f, g, s)]
        BY <1>4
  <2> DEFINE h == [s \in Upto(n + 1) |-> Unfolded(f, g, s)]
  <2>2. ASSUME NEW s \in Upto(n + 1) PROVE Unfolded(f, h, s) = Unfolded(f, g, s)
    <3>1. CASE s = {}
          BY <3>1 DEF Unfolded
    <3>2. CASE s # {}
      <4> DEFINE t == s \ {Picked(s)}
      <4>1. t \in Upto(n) /\ t \in Upto(n + 1)
            BY <1>1, <1>2, <3>2
      <4> HIDE DEF t
      <4>2. h[t] = Unfolded(f, g, t) /\ g[t] = Unfolded(f, g, t)
            BY <2>1, <4>1
      <4> HIDE DEF h
      <4> QED BY <4>2 DEF Unfolded, t
    <3> QED BY <3>1, <3>2
  <2>3. h = [s \in Upto(n + 1) |-> Unfolded(f, h, s)]
    <3> HIDE DEF Upto
    <3> QED BY <2>2
  <2> QED BY <2>3
<1>5. Open = {}
  <2> SUFFICES ASSUME Open # {} PROVE FALSE
      OBVIOUS
  <2>1. Open \subseteq Nat
        OBVIOUS
  <2>2. \E n \in Open : \A m \in Open : n <= m
    <3> HIDE DEF Open
    <3> QED BY <2>1, LeastNatural
  <2>3. PICK n \in Open : \A m \in Open : n <= m
        BY <2>2
  <2> HIDE DEF Solved
  <2>4. n # 0 /\ n \in Nat /\ ~Solved(n)
        BY <1>3
  <2>5. n - 1 \in Nat /\ n - 1 \notin Open
        BY <2>3, <2>4
  <2>6. Solved(n - 1)
        BY <2>5
  <2>7. Solved((n - 1) + 1)
        BY <1>4, <2>5, <2>6
  <2>8. (n - 1) + 1 = n
        BY <2>4
  <2> QED BY <2>4, <2>7, <2>8
<1>6. Solved(Cardinality(S))
  <2>1. Cardinality(S) \in Nat
        BY <1>1
  <2> HIDE DEF Solved
  <2> QED BY <1>5, <2>1
<1>7. Upto(Cardinality(S)) = SUBSET S
      BY <1>1
<1>8. \E g : g = [s \in SUBSET S |-> Unfolded(f, g, s)]
      BY <1>6, <1>7
<1> DEFINE g == Sums(f, S)
<1>9. g = [s \in SUBSET S |-> Unfolded(f, g, s)]
      BY <1>8 DEF Sums
<1>10. ASSUME NEW T \in SUBSET S PROVE g[T] = Unfolded(f, g, T)
  <2> HIDE DEF g
  <2> QED BY <1>9
<1> QED BY <1>10

\* The sums of the subsets of S are the sums of S as long as they are inside it.
LEMMA SumsAgree ==
  ASSUME NEW S, IsFiniteSet(S), NEW R \in SUBSET S, NEW f
  PROVE  \A T \in SUBSET R : Sums(f, R)[T] = Sums(f, S)[T]
<1> DEFINE F == {T \in SUBSET R : Sums(f, R)[T] = Sums(f, S)[T]}
           Bad == (SUBSET R) \ F
           Sizes == {Cardinality(T) : T \in Bad}
<1>1. IsFiniteSet(R) /\ \A T \in SUBSET R : IsFiniteSet(T) /\ Cardinality(T) \in Nat
      BY FS_Subset, FS_CardinalityType
<1>2. \A T \in SUBSET R : Sums(f, R)[T] = Unfolded(f, Sums(f, R), T)
      BY <1>1, SumsUnfold
<1>3. \A T \in SUBSET R : Sums(f, S)[T] = Unfolded(f, Sums(f, S), T)
      BY SumsUnfold
<1>4. SUFFICES ASSUME Bad # {} PROVE FALSE
      OBVIOUS
<1>5. Sizes \subseteq Nat /\ Sizes # {}
      BY <1>1, <1>4
<1>6. \E n \in Sizes : \A m \in Sizes : n <= m
  <2> HIDE DEF Sizes
  <2> QED BY <1>5, LeastNatural
<1>7. PICK T \in Bad : \A U \in Bad : Cardinality(T) <= Cardinality(U)
      BY <1>6
<1>8. T # {}
      BY <1>2, <1>3, <1>7 DEF Unfolded
<1> DEFINE U == T \ {Picked(T)}
<1>9. U \in SUBSET R /\ Cardinality(U) = Cardinality(T) - 1
      BY <1>1, <1>7, <1>8, PickedIn, FS_RemoveElement
<1>10. U \notin Bad
  <2> HIDE DEF Bad, U
  <2>1. Cardinality(T) \in Nat
        BY <1>1, <1>7 DEF Bad
  <2> QED BY <1>7, <1>9, <2>1
<1>11. Sums(f, R)[U] = Sums(f, S)[U]
       BY <1>9, <1>10
<1>12. Sums(f, R)[T] = Sums(f, S)[T]
       BY <1>2, <1>3, <1>7, <1>8, <1>11 DEF Unfolded
<1> QED BY <1>7, <1>12

\* A sum is that of a chosen element and of the rest.
LEMMA SumUnfolds ==
  ASSUME NEW S, IsFiniteSet(S), NEW f
  PROVE  /\ S = {} => SumFunctionOnSet(f, S) = 0
         /\ S # {} => SumFunctionOnSet(f, S) = f[Picked(S)] + SumFunctionOnSet(f, S \ {Picked(S)})
<1>1. SumFunctionOnSet(f, S) = Unfolded(f, Sums(f, S), S)
      BY SumsUnfold, SumIsOneOfSums
<1>2. S \ {Picked(S)} \in SUBSET S
      OBVIOUS
<1>3. Sums(f, S)[S \ {Picked(S)}] = SumFunctionOnSet(f, S \ {Picked(S)})
      BY <1>2, SumsAgree, SumIsOneOfSums
<1> QED BY <1>1, <1>3 DEF Unfolded

-----------------------------------------------------------------------------
(* What the proofs cite *)

\* A sum of naturals is one.
LEMMA SumType ==
  ASSUME NEW S, IsFiniteSet(S), NEW f, \A x \in S : f[x] \in Nat
  PROVE  SumFunctionOnSet(f, S) \in Nat
<1> DEFINE Bad == {T \in SUBSET S : SumFunctionOnSet(f, T) \notin Nat}
           Sizes == {Cardinality(T) : T \in Bad}
<1>1. \A T \in SUBSET S : IsFiniteSet(T) /\ Cardinality(T) \in Nat
      BY FS_Subset, FS_CardinalityType
<1>2. SUFFICES ASSUME Bad # {} PROVE FALSE
      OBVIOUS
<1>3. Sizes \subseteq Nat /\ Sizes # {}
      BY <1>1, <1>2
<1>4. \E n \in Sizes : \A m \in Sizes : n <= m
  <2> HIDE DEF Sizes
  <2> QED BY <1>3, LeastNatural
<1>5. PICK T \in Bad : \A U \in Bad : Cardinality(T) <= Cardinality(U)
      BY <1>4
<1>6. T # {}
  <2>1. IsFiniteSet(T)
        BY <1>1, <1>5
  <2>2. T = {} => SumFunctionOnSet(f, T) = 0
        BY <2>1, SumUnfolds
  <2> QED BY <1>5, <2>2
<1> DEFINE U == T \ {Picked(T)}
<1>7. U \in SUBSET S /\ Cardinality(U) = Cardinality(T) - 1 /\ Picked(T) \in S
      BY <1>1, <1>5, <1>6, PickedIn, FS_RemoveElement
<1>8. SumFunctionOnSet(f, U) \in Nat
  <2>1. Cardinality(T) \in Nat
        BY <1>1, <1>5
  <2> QED BY <1>5, <1>7, <2>1
<1>9. SumFunctionOnSet(f, T) = f[Picked(T)] + SumFunctionOnSet(f, U)
      BY <1>1, <1>5, <1>6, SumUnfolds
<1> QED BY <1>5, <1>7, <1>8, <1>9

\* A sum is that of any of its elements and of the rest, whichever is chosen first.
LEMMA SumRemove ==
  ASSUME NEW S, IsFiniteSet(S), NEW f, \A x \in S : f[x] \in Nat, NEW x \in S
  PROVE  SumFunctionOnSet(f, S) = f[x] + SumFunctionOnSet(f, S \ {x})
<1> DEFINE Splits(T) == \A y \in T : SumFunctionOnSet(f, T) = f[y] + SumFunctionOnSet(f, T \ {y})
           Bad == {T \in SUBSET S : ~Splits(T)}
           Sizes == {Cardinality(T) : T \in Bad}
<1>1. \A T \in SUBSET S : IsFiniteSet(T) /\ Cardinality(T) \in Nat
      BY FS_Subset, FS_CardinalityType
<1>2. SUFFICES ASSUME Bad # {} PROVE FALSE
      OBVIOUS
<1>3. Sizes \subseteq Nat /\ Sizes # {}
      BY <1>1, <1>2
<1>4. \E n \in Sizes : \A m \in Sizes : n <= m
  <2> HIDE DEF Sizes
  <2> QED BY <1>3, LeastNatural
<1>5. PICK T \in Bad : \A U \in Bad : Cardinality(T) <= Cardinality(U)
      BY <1>4
<1>6. PICK y \in T : SumFunctionOnSet(f, T) # f[y] + SumFunctionOnSet(f, T \ {y})
      BY <1>5
<1> DEFINE p == Picked(T)
<1>7. p \in T
      BY <1>6, PickedIn
<1>8. \A U \in SUBSET S : SumFunctionOnSet(f, U) \in Nat
      BY <1>1, SumType
<1>9. SumFunctionOnSet(f, T) = f[p] + SumFunctionOnSet(f, T \ {p})
      BY <1>1, <1>5, <1>6, SumUnfolds
<1> HIDE DEF p
<1>10. y # p
       BY <1>6, <1>9
<1>11. ASSUME NEW z \in T PROVE Splits(T \ {z})
  <2>1. Cardinality(T \ {z}) = Cardinality(T) - 1 /\ Cardinality(T) \in Nat
        BY <1>1, <1>5, FS_RemoveElement
  <2>2. T \ {z} \in SUBSET S
        BY <1>5
  <2>3. T \ {z} \notin Bad
    <3> HIDE DEF Bad
    <3> QED BY <1>5, <2>1
  <2> QED BY <2>2, <2>3
<1>12. SumFunctionOnSet(f, T \ {p}) = f[y] + SumFunctionOnSet(f, (T \ {p}) \ {y})
       BY <1>6, <1>7, <1>10, <1>11
<1>13. SumFunctionOnSet(f, T \ {y}) = f[p] + SumFunctionOnSet(f, (T \ {y}) \ {p})
       BY <1>6, <1>7, <1>10, <1>11
<1>14. (T \ {p}) \ {y} = (T \ {y}) \ {p}
       OBVIOUS
<1>15. f[p] \in Nat /\ f[y] \in Nat /\ SumFunctionOnSet(f, (T \ {p}) \ {y}) \in Nat
       BY <1>5, <1>6, <1>7, <1>8
<1>16. SumFunctionOnSet(f, T) = f[y] + SumFunctionOnSet(f, T \ {y})
  <2> DEFINE a == f[p]
             b == f[y]
             rest == SumFunctionOnSet(f, (T \ {p}) \ {y})
  <2>1. a \in Nat /\ b \in Nat /\ rest \in Nat
        BY <1>15
  <2>2. SumFunctionOnSet(f, T) = a + (b + rest)
        BY <1>9, <1>12
  <2>3. b + SumFunctionOnSet(f, T \ {y}) = b + (a + rest)
        BY <1>13, <1>14
  <2> HIDE DEF a, b, rest
  <2>4. a + (b + rest) = b + (a + rest)
        BY <2>1
  <2>5. SumFunctionOnSet(f, T) = b + SumFunctionOnSet(f, T \ {y})
        BY <2>2, <2>3, <2>4
  <2> QED BY <2>5 DEF b
<1> QED BY <1>6, <1>16

\* The sum of nothing is zero, and a new element adds what it weighs.
LEMMA SumEmpty == ASSUME NEW f PROVE SumFunctionOnSet(f, {}) = 0
BY SumUnfolds, FS_EmptySet

LEMMA SumAdd ==
  ASSUME NEW S, IsFiniteSet(S), NEW x, x \notin S, NEW f, \A y \in S \cup {x} : f[y] \in Nat
  PROVE  SumFunctionOnSet(f, S \cup {x}) = SumFunctionOnSet(f, S) + f[x]
<1>1. IsFiniteSet(S \cup {x}) /\ (S \cup {x}) \ {x} = S
      BY FS_AddElement
<1>2. SumFunctionOnSet(f, S \cup {x}) = f[x] + SumFunctionOnSet(f, S)
      BY <1>1, SumRemove
<1>3. SumFunctionOnSet(f, S) \in Nat /\ f[x] \in Nat
      BY SumType
<1> QED BY <1>2, <1>3

\* A sum depends on the weights of its elements only.
LEMMA SumSame ==
  ASSUME NEW S, IsFiniteSet(S), NEW f, NEW g,
         \A x \in S : f[x] \in Nat /\ g[x] = f[x]
  PROVE  SumFunctionOnSet(g, S) = SumFunctionOnSet(f, S)
<1> DEFINE F == {T \in SUBSET S : SumFunctionOnSet(g, T) = SumFunctionOnSet(f, T)}
<1>1. {} \in F
      BY SumEmpty
<1>2. ASSUME NEW T \in SUBSET S, NEW x \in S, T \in F, x \notin T PROVE T \cup {x} \in F
  <2>1. IsFiniteSet(T)
        BY FS_Subset
  <2>2. SumFunctionOnSet(f, T \cup {x}) = SumFunctionOnSet(f, T) + f[x]
        BY <1>2, <2>1, SumAdd
  <2>3. SumFunctionOnSet(g, T \cup {x}) = SumFunctionOnSet(g, T) + g[x]
        BY <1>2, <2>1, SumAdd
  <2> QED BY <1>2, <2>2, <2>3
<1>3. \A T \in SUBSET S : T \in F
  <2> HIDE DEF F
  <2> QED BY <1>1, <1>2, SetInduction
<1> QED BY <1>3

\* The sum of two sets with nothing in common.
LEMMA SumUnion ==
  ASSUME NEW S, IsFiniteSet(S), NEW T, IsFiniteSet(T), S \cap T = {},
         NEW f, \A x \in S \cup T : f[x] \in Nat
  PROVE  SumFunctionOnSet(f, S \cup T) = SumFunctionOnSet(f, S) + SumFunctionOnSet(f, T)
<1> DEFINE F == {U \in SUBSET T : SumFunctionOnSet(f, S \cup U)
                                    = SumFunctionOnSet(f, S) + SumFunctionOnSet(f, U)}
<1>0. \A U \in SUBSET T : /\ IsFiniteSet(U) /\ IsFiniteSet(S \cup U)
                          /\ SumFunctionOnSet(f, U) \in Nat /\ SumFunctionOnSet(f, S) \in Nat
      BY FS_Subset, FS_Union, SumType
<1>1. {} \in F
  <2>1. S \cup {} = S
        OBVIOUS
  <2> QED BY <1>0, <2>1, SumEmpty
<1>2. ASSUME NEW U \in SUBSET T, NEW x \in T, U \in F, x \notin U PROVE U \cup {x} \in F
  <2>1. SumFunctionOnSet(f, U \cup {x}) = SumFunctionOnSet(f, U) + f[x]
        BY <1>0, <1>2, SumAdd
  <2>2. SumFunctionOnSet(f, (S \cup U) \cup {x}) = SumFunctionOnSet(f, S \cup U) + f[x]
        BY <1>0, <1>2, SumAdd
  <2>3. (S \cup U) \cup {x} = S \cup (U \cup {x})
        OBVIOUS
  <2>4. f[x] \in Nat /\ SumFunctionOnSet(f, S) \in Nat /\ SumFunctionOnSet(f, U) \in Nat
        BY <1>0
  <2>5. SumFunctionOnSet(f, S \cup U) = SumFunctionOnSet(f, S) + SumFunctionOnSet(f, U)
        BY <1>2
  <2> DEFINE a == SumFunctionOnSet(f, S)
             b == SumFunctionOnSet(f, U)
             c == f[x]
  <2>6. (a + b) + c = a + (b + c)
    <3>1. a \in Nat /\ b \in Nat /\ c \in Nat
          BY <2>4
    <3> HIDE DEF a, b, c
    <3> QED BY <3>1
  <2>7. SumFunctionOnSet(f, S \cup (U \cup {x})) = a + SumFunctionOnSet(f, U \cup {x})
        BY <2>1, <2>2, <2>3, <2>5, <2>6
  <2> QED BY <2>7
<1>3. \A U \in SUBSET T : U \in F
  <2> HIDE DEF F
  <2> QED BY <1>1, <1>2, SetInduction
<1> QED BY <1>3

\* Sums of naturals are linear.
LEMMA SumPlus ==
  ASSUME NEW S, IsFiniteSet(S), NEW f, NEW g, NEW h,
         \A x \in S : f[x] \in Nat /\ g[x] \in Nat /\ h[x] = f[x] + g[x]
  PROVE  SumFunctionOnSet(h, S) = SumFunctionOnSet(f, S) + SumFunctionOnSet(g, S)
<1> DEFINE F == {T \in SUBSET S : SumFunctionOnSet(h, T) = SumFunctionOnSet(f, T) + SumFunctionOnSet(g, T)}
<1>1. {} \in F BY SumEmpty
<1>2. ASSUME NEW T \in SUBSET S, NEW x \in S, T \in F, x \notin T PROVE T \cup {x} \in F
  <2>1. IsFiniteSet(T) /\ \A y \in T \cup {x} : f[y] \in Nat /\ g[y] \in Nat /\ h[y] \in Nat BY FS_Subset
  <2>2. /\ SumFunctionOnSet(f, T \cup {x}) = SumFunctionOnSet(f, T) + f[x]
        /\ SumFunctionOnSet(g, T \cup {x}) = SumFunctionOnSet(g, T) + g[x]
        /\ SumFunctionOnSet(h, T \cup {x}) = SumFunctionOnSet(h, T) + h[x]
    BY <1>2, <2>1, SumAdd
  <2>3. SumFunctionOnSet(f, T) \in Nat /\ SumFunctionOnSet(g, T) \in Nat BY <2>1, SumType
  <2>4. SumFunctionOnSet(h, T) = SumFunctionOnSet(f, T) + SumFunctionOnSet(g, T) BY <1>2
  <2>5. SumFunctionOnSet(h, T \cup {x}) = SumFunctionOnSet(f, T \cup {x}) + SumFunctionOnSet(g, T \cup {x})
    BY <2>2, <2>3, <2>4
  <2> QED BY <2>5
<1>3. \A T \in SUBSET S : T \in F
  <2> HIDE DEF F
  <2> QED BY <1>1, <1>2, SetInduction
<1> QED BY <1>3

LEMMA SumTimes ==
  ASSUME NEW S, IsFiniteSet(S), NEW f, NEW g, NEW c \in Nat, \A x \in S : f[x] \in Nat /\ g[x] = c * f[x]
  PROVE  SumFunctionOnSet(g, S) = c * SumFunctionOnSet(f, S)
<1> DEFINE F == {T \in SUBSET S : SumFunctionOnSet(g, T) = c * SumFunctionOnSet(f, T)}
<1>1. {} \in F BY SumEmpty
<1>2. ASSUME NEW T \in SUBSET S, NEW x \in S, T \in F, x \notin T PROVE T \cup {x} \in F
  <2>1. IsFiniteSet(T) /\ \A y \in T \cup {x} : f[y] \in Nat /\ g[y] \in Nat BY FS_Subset
  <2>2. /\ SumFunctionOnSet(f, T \cup {x}) = SumFunctionOnSet(f, T) + f[x]
        /\ SumFunctionOnSet(g, T \cup {x}) = SumFunctionOnSet(g, T) + g[x]
    BY <1>2, <2>1, SumAdd
  <2>3. SumFunctionOnSet(f, T) \in Nat /\ f[x] \in Nat /\ g[x] = c * f[x] BY <2>1, SumType
  <2>4. c * (SumFunctionOnSet(f, T) + f[x]) = c * SumFunctionOnSet(f, T) + c * f[x] BY <2>3
  <2>5. SumFunctionOnSet(g, T \cup {x}) = c * SumFunctionOnSet(f, T \cup {x}) BY <1>2, <2>2, <2>3, <2>4
  <2> QED BY <2>5
<1>3. \A T \in SUBSET S : T \in F
  <2> HIDE DEF F
  <2> QED BY <1>1, <1>2, SetInduction
<1> QED BY <1>3

\* What is not there weighs nothing.
LEMMA SumZero ==
  ASSUME NEW S, IsFiniteSet(S), NEW f, \A x \in S : f[x] = 0
  PROVE  SumFunctionOnSet(f, S) = 0
<1> DEFINE F == {T \in SUBSET S : SumFunctionOnSet(f, T) = 0}
<1>1. {} \in F BY SumEmpty
<1>2. ASSUME NEW T \in SUBSET S, NEW x \in S, T \in F, x \notin T PROVE T \cup {x} \in F
  <2>1. IsFiniteSet(T) /\ \A y \in T \cup {x} : f[y] \in Nat BY FS_Subset
  <2>2. SumFunctionOnSet(f, T \cup {x}) = SumFunctionOnSet(f, T) + f[x] BY <1>2, <2>1, SumAdd
  <2> QED BY <1>2, <2>2
<1>3. \A T \in SUBSET S : T \in F
  <2> HIDE DEF F
  <2> QED BY <1>1, <1>2, SetInduction
<1> QED BY <1>3

\* What is taken out of a set takes its sum out of the sum.
LEMMA SumDifference ==
  ASSUME NEW S, IsFiniteSet(S), NEW T \in SUBSET S, NEW f, \A x \in S : f[x] \in Nat
  PROVE  /\ SumFunctionOnSet(f, T) \in Nat
         /\ SumFunctionOnSet(f, T) <= SumFunctionOnSet(f, S)
         /\ SumFunctionOnSet(f, S \ T) = SumFunctionOnSet(f, S) - SumFunctionOnSet(f, T)
<1>1. IsFiniteSet(T) /\ IsFiniteSet(S \ T) /\ T \cap (S \ T) = {} /\ T \cup (S \ T) = S
      BY FS_Subset, FS_Difference
<1>2. SumFunctionOnSet(f, T) \in Nat /\ SumFunctionOnSet(f, S \ T) \in Nat
      BY <1>1, SumType
<1>3. SumFunctionOnSet(f, S) = SumFunctionOnSet(f, T) + SumFunctionOnSet(f, S \ T)
      BY <1>1, SumUnion
<1> QED BY <1>2, <1>3

\* An image under distinct names has as many elements.
LEMMA ImageSize ==
  ASSUME NEW S, IsFiniteSet(S), NEW m, NEW R, R = {m[x] : x \in S},
         \A x, y \in S : m[x] = m[y] => x = y
  PROVE  IsFiniteSet(R) /\ Cardinality(R) = Cardinality(S)
<1> DEFINE named == [x \in S |-> m[x]]
<1>1. named \in Bijection(S, R)
      BY DEF Bijection, Injection, Surjection, IsInjective
<1>2. ExistsBijection(S, R)
      BY <1>1 DEF ExistsBijection
<1> QED BY <1>2, FS_Bijection

\* ... and the same sum of the same weights.
LEMMA SumImage ==
  ASSUME NEW S, IsFiniteSet(S), NEW f, NEW g, NEW m, NEW R, R = {m[x] : x \in S},
         \A x \in S : f[x] \in Nat /\ g[m[x]] = f[x],
         \A x, y \in S : m[x] = m[y] => x = y
  PROVE  SumFunctionOnSet(g, R) = SumFunctionOnSet(f, S)
<1> DEFINE Image(T) == {m[x] : x \in T}
           F == {T \in SUBSET S : /\ IsFiniteSet(Image(T)) /\ Cardinality(Image(T)) = Cardinality(T)
                                  /\ SumFunctionOnSet(g, Image(T)) = SumFunctionOnSet(f, T)}
<1>1. {} \in F
  <2>1. Image({}) = {}
        OBVIOUS
  <2> HIDE DEF Image
  <2> QED BY <2>1, SumEmpty, FS_EmptySet
<1>2. ASSUME NEW T \in SUBSET S, NEW x \in S, T \in F, x \notin T PROVE T \cup {x} \in F
  <2>1. Image(T \cup {x}) = Image(T) \cup {m[x]} /\ m[x] \notin Image(T)
        BY <1>2
  <2>2. IsFiniteSet(T)
        BY FS_Subset
  <2>3. SumFunctionOnSet(f, T \cup {x}) = SumFunctionOnSet(f, T) + f[x]
    <3>1. x \notin T /\ \A y \in T \cup {x} : f[y] \in Nat
          BY <1>2
    <3> HIDE DEF F
    <3> QED BY <2>2, <3>1, SumAdd
  <2>4. \A y \in Image(T) \cup {m[x]} : g[y] \in Nat
        BY <1>2
  <2>5. IsFiniteSet(Image(T)) /\ Cardinality(Image(T)) = Cardinality(T)
        /\ SumFunctionOnSet(g, Image(T)) = SumFunctionOnSet(f, T)
        BY <1>2
  <2> HIDE DEF Image
  <2>6. SumFunctionOnSet(g, Image(T) \cup {m[x]}) = SumFunctionOnSet(g, Image(T)) + g[m[x]]
    <3> DEFINE I == Image(T)
               y == m[x]
    <3>1. IsFiniteSet(I) /\ y \notin I
          BY <2>1, <2>5
    <3>2. \A z \in I \cup {y} : g[z] \in Nat
          BY <2>4
    <3> HIDE DEF I, y
    <3>3. SumFunctionOnSet(g, I \cup {y}) = SumFunctionOnSet(g, I) + g[y]
          BY <3>1, <3>2, SumAdd
    <3> QED BY <3>3 DEF I, y
  <2>7. IsFiniteSet(Image(T) \cup {m[x]})
        /\ Cardinality(Image(T) \cup {m[x]}) = Cardinality(Image(T)) + 1
        BY <2>1, <2>5, FS_AddElement
  <2>8. Cardinality(T \cup {x}) = Cardinality(T) + 1
        BY <1>2, <2>2, FS_AddElement
  <2>9. SumFunctionOnSet(g, Image(T \cup {x})) = SumFunctionOnSet(f, T \cup {x})
        BY <2>1, <2>3, <2>5, <2>6
  <2>10. IsFiniteSet(Image(T \cup {x})) /\ Cardinality(Image(T \cup {x})) = Cardinality(T \cup {x})
        BY <2>1, <2>5, <2>7, <2>8
  <2>11. T \cup {x} \in SUBSET S
        OBVIOUS
  <2> QED BY <2>9, <2>10, <2>11
<1>3. \A T \in SUBSET S : T \in F
  <2> HIDE DEF F
  <2> QED BY <1>1, <1>2, SetInduction
<1> QED BY <1>3

\* Changing one weight changes a sum by the difference.
LEMMA SumChange ==
  ASSUME NEW S, IsFiniteSet(S), NEW f, NEW g, NEW y \in S,
         \A x \in S : f[x] \in Nat /\ g[x] \in Nat,
         \A x \in S \ {y} : g[x] = f[x]
  PROVE  SumFunctionOnSet(g, S) = (SumFunctionOnSet(f, S) - f[y]) + g[y]
<1>1. IsFiniteSet(S \ {y})
      BY FS_RemoveElement
<1>2. SumFunctionOnSet(g, S \ {y}) = SumFunctionOnSet(f, S \ {y})
      BY <1>1, SumSame
<1>3. SumFunctionOnSet(f, S) = f[y] + SumFunctionOnSet(f, S \ {y})
      BY SumRemove
<1>4. SumFunctionOnSet(g, S) = g[y] + SumFunctionOnSet(g, S \ {y})
      BY SumRemove
<1>5. SumFunctionOnSet(f, S \ {y}) \in Nat
      BY <1>1, SumType
<1>6. f[y] \in Nat /\ g[y] \in Nat
      OBVIOUS
<1> DEFINE a == f[y]
           b == g[y]
           c == SumFunctionOnSet(f, S \ {y})
<1>7. a \in Nat /\ b \in Nat /\ c \in Nat
      BY <1>5, <1>6
<1>8. b + c = ((a + c) - a) + b
  <2> HIDE DEF a, b, c
  <2> QED BY <1>7
<1> QED BY <1>2, <1>3, <1>4, <1>8

\* A sum is the sum over the classes of a partition: k tells the class of an element.
LEMMA SumByClass ==
  ASSUME NEW L, IsFiniteSet(L), NEW S, IsFiniteSet(S), NEW k \in [S -> L],
         NEW f, \A x \in S : f[x] \in Nat
  PROVE  SumFunctionOnSet([l \in L |-> SumFunctionOnSet(f, {x \in S : k[x] = l})], L)
           = SumFunctionOnSet(f, S)
<1> DEFINE Class(T, l) == {x \in T : k[x] = l}
           Sum(T) == [l \in L |-> SumFunctionOnSet(f, Class(T, l))]
           F == {T \in SUBSET S : SumFunctionOnSet(Sum(T), L) = SumFunctionOnSet(f, T)}
<1>1. ASSUME NEW T \in SUBSET S
      PROVE  /\ IsFiniteSet(T) /\ SumFunctionOnSet(f, T) \in Nat
             /\ \A l \in L : IsFiniteSet(Class(T, l)) /\ SumFunctionOnSet(f, Class(T, l)) \in Nat
  <2>1. IsFiniteSet(T)
        BY FS_Subset
  <2>2. ASSUME NEW l \in L PROVE IsFiniteSet(Class(T, l)) /\ Class(T, l) \subseteq S
        BY <2>1, FS_Subset
  <2> HIDE DEF Class
  <2> QED BY <2>1, <2>2, SumType
<1>2. {} \in F
  <2>1. \A l \in L : Sum({})[l] = 0
    <3>1. \A l \in L : Class({}, l) = {}
          OBVIOUS
    <3> HIDE DEF Class
    <3> QED BY <3>1, SumEmpty
  <2> DEFINE G == {M \in SUBSET L : SumFunctionOnSet(Sum({}), M) = 0}
  <2> HIDE DEF Sum
  <2>2. {} \in G
        BY SumEmpty
  <2>3. ASSUME NEW M \in SUBSET L, NEW l \in L, M \in G, l \notin M PROVE M \cup {l} \in G
    <3>1. IsFiniteSet(M)
          BY FS_Subset
    <3>2. SumFunctionOnSet(Sum({}), M \cup {l}) = SumFunctionOnSet(Sum({}), M) + Sum({})[l]
      <4>1. l \notin M /\ \A j \in M \cup {l} : Sum({})[j] \in Nat
            BY <2>1, <2>3
      <4> HIDE DEF G
      <4> QED BY <3>1, <4>1, SumAdd
    <3> QED BY <2>1, <2>3, <3>2
  <2>4. L \in G
    <3> HIDE DEF G
    <3> QED BY <2>2, <2>3, SetInduction
  <2> QED BY <2>4, SumEmpty
<1>3. ASSUME NEW T \in SUBSET S, NEW x \in S, T \in F, x \notin T PROVE T \cup {x} \in F
  <2> DEFINE U == T \cup {x}
  <2>1. U \in SUBSET S /\ k[x] \in L
        OBVIOUS
  <2>2. SumFunctionOnSet(f, U) = SumFunctionOnSet(f, T) + f[x]
    <3>1. IsFiniteSet(T)
          BY <1>1
    <3> QED BY <1>3, <3>1, SumAdd
  <2>3. \A l \in L \ {k[x]} : Class(U, l) = Class(T, l)
        OBVIOUS
  <2>4. Class(U, k[x]) = Class(T, k[x]) \cup {x} /\ x \notin Class(T, k[x])
        BY <1>3
  <2>5. IsFiniteSet(Class(T, k[x])) /\ \A y \in Class(T, k[x]) \cup {x} : f[y] \in Nat
        BY <1>1, <2>1
  <2> HIDE DEF U
  <2>6. /\ \A l \in L : Sum(T)[l] = SumFunctionOnSet(f, Class(T, l)) /\ Sum(T)[l] \in Nat
        /\ \A l \in L : Sum(U)[l] = SumFunctionOnSet(f, Class(U, l)) /\ Sum(U)[l] \in Nat
        BY <1>1, <2>1
  <2> HIDE DEF Class, Sum
  <2>7. SumFunctionOnSet(f, Class(U, k[x])) = SumFunctionOnSet(f, Class(T, k[x])) + f[x]
        BY <2>4, <2>5, SumAdd
  <2>8. \A l \in L \ {k[x]} : Sum(U)[l] = Sum(T)[l]
        BY <2>3, <2>6
  <2>9. Sum(U)[k[x]] = Sum(T)[k[x]] + f[x]
        BY <2>1, <2>6, <2>7
  <2>10. SumFunctionOnSet(Sum(U), L) = (SumFunctionOnSet(Sum(T), L) - Sum(T)[k[x]]) + Sum(U)[k[x]]
        BY <2>1, <2>6, <2>8, SumChange
  <2>11. SumFunctionOnSet(Sum(T), L) = SumFunctionOnSet(f, T) /\ SumFunctionOnSet(f, T) \in Nat
        BY <1>1, <1>3
  <2>12. Sum(T)[k[x]] \in Nat /\ f[x] \in Nat
        BY <2>1, <2>6
  <2> DEFINE a == SumFunctionOnSet(f, T)
             b == Sum(T)[k[x]]
             c == f[x]
  <2>13. (a - b) + (b + c) = a + c
    <3>1. a \in Nat /\ b \in Nat /\ c \in Nat
          BY <2>11, <2>12
    <3> HIDE DEF a, b, c
    <3> QED BY <3>1
  <2>14. SumFunctionOnSet(Sum(U), L) = SumFunctionOnSet(f, U)
        BY <2>2, <2>9, <2>10, <2>11, <2>13
  <2> QED BY <2>1, <2>14 DEF U
<1>4. \A T \in SUBSET S : T \in F
  <2> HIDE DEF F
  <2> QED BY <1>2, <1>3, SetInduction
<1> QED BY <1>4
=============================================================================
