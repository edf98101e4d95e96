---------------------------- MODULE NumberSetProofs ----------------------------
(***************************************************************************)
(* Sets of numbers: least and largest elements, and sums over finite sets. *)
(* The models' sums are SumFunctionOnSet, a fold in an order of its own    *)
(* choosing; what is proved of it here is independent of that order.       *)
(***************************************************************************)
EXTENDS FiniteSetsExt, Functions, TLAPS, WellFoundedInduction, FiniteSetTheorems

-----------------------------------------------------------------------------
(* Least and largest elements.                                             *)

LEMMA LeastNat ==
    ASSUME NEW T, T \subseteq Nat, T # {}
    PROVE  \E x \in T : \A y \in T : x <= y
<1>1. PICK x \in T : \A y \in T : <<y, x>> \notin OpToRel(<, Nat)
  BY NatLessThanWellFounded, WFMin
<1>2. \A y \in T : ~(y < x)
  BY <1>1 DEF OpToRel
<1> QED
  BY <1>2

LEMMA MaxIs ==
    ASSUME NEW S, S # {}, NEW b \in Int, \A x \in S : x \in Int /\ x <= b
    PROVE  Max(S) \in S /\ \A x \in S : x <= Max(S)
<1> DEFINE T == {b - x : x \in S}
<1>1. T \subseteq Nat /\ T # {}
  <2>1. \A x \in S : b - x \in Nat
    OBVIOUS
  <2>2. PICK x \in S : TRUE
    OBVIOUS
  <2>3. b - x \in T
    BY <2>2
  <2> QED
    BY <2>1, <2>3
<1>2. PICK t \in T : \A y \in T : t <= y
  BY <1>1, LeastNat
<1>3. PICK s \in S : t = b - s
  BY <1>2
<1>4. ASSUME NEW x \in S PROVE s >= x
  <2>1. b - x \in T /\ t <= b - x
    BY <1>2
  <2>2. s \in Int /\ x \in Int
    OBVIOUS
  <2> HIDE DEF T
  <2> QED
    BY <1>3, <2>1, <2>2
<1> QED
  BY <1>4 DEF Max

LEMMA MinIs ==
    ASSUME NEW S, S # {}, NEW b \in Int, \A x \in S : x \in Int /\ b <= x
    PROVE  Min(S) \in S /\ \A x \in S : Min(S) <= x
<1> DEFINE T == {x - b : x \in S}
<1>1. T \subseteq Nat /\ T # {}
  <2>1. \A x \in S : x - b \in Nat
    OBVIOUS
  <2>2. PICK x \in S : TRUE
    OBVIOUS
  <2>3. x - b \in T
    BY <2>2
  <2> QED
    BY <2>1, <2>3
<1>2. PICK t \in T : \A y \in T : t <= y
  BY <1>1, LeastNat
<1>3. PICK s \in S : t = s - b
  BY <1>2
<1>4. ASSUME NEW x \in S PROVE s =< x
  <2>1. x - b \in T /\ t <= x - b
    BY <1>2
  <2>2. s \in Int /\ x \in Int
    OBVIOUS
  <2> HIDE DEF T
  <2> QED
    BY <1>3, <2>1, <2>2
<1> QED
  BY <1>4 DEF Min

-----------------------------------------------------------------------------
(* Sums.                                                                   *)

Pick(s) == CHOOSE x \in s : TRUE

(* What the fold computes for every subset of S. *)
Adds(f, S, g) == g = [s \in SUBSET S |-> IF s = {} THEN 0 ELSE f[Pick(s)] + g[s \ {Pick(s)}]]

LEMMA SumIsFold ==
    ASSUME NEW f, NEW S
    PROVE  SumFunctionOnSet(f, S) = (CHOOSE g : Adds(f, S, g))[S]
BY DEF SumFunctionOnSet, FoldFunctionOnSet, MapThenFoldSet, Adds, Pick

LEMMA PickIn ==
    ASSUME NEW s, s # {}
    PROVE  Pick(s) \in s
BY DEF Pick

(* Two folds agree wherever both are defined. *)
LEMMA AddsUnique ==
    ASSUME NEW f, NEW S, NEW T, IsFiniteSet(S), NEW g, NEW k,
           Adds(f, S, g), Adds(f, T, k)
    PROVE  \A s \in SUBSET S : s \in SUBSET T => g[s] = k[s]
<1> DEFINE Bad == {s \in SUBSET S : s \in SUBSET T /\ g[s] # k[s]}
           Sizes == {Cardinality(s) : s \in Bad}
<1>1. ASSUME NEW s \in SUBSET S PROVE IsFiniteSet(s) /\ Cardinality(s) \in Nat
  BY FS_Subset, FS_CardinalityType
<1>2. SUFFICES ASSUME Bad # {} PROVE FALSE
  OBVIOUS
<1>3. Sizes \subseteq Nat /\ Sizes # {}
  BY <1>1, <1>2
<1>4. PICK n \in Sizes : \A m \in Sizes : n <= m
  BY <1>3, LeastNat
<1>5. PICK s \in Bad : n = Cardinality(s)
  BY <1>4
<1>6. s # {}
  BY <1>5 DEF Adds
<1> DEFINE x == Pick(s)
<1>7. x \in s
  BY <1>6, PickIn
<1> HIDE DEF x
<1>8. s \ {x} \in SUBSET S /\ s \ {x} \in SUBSET T
  BY <1>5
<1>9. Cardinality(s \ {x}) = Cardinality(s) - 1
  BY <1>1, <1>5, <1>7, FS_RemoveElement
<1>10. g[s \ {x}] = k[s \ {x}]
  <2>1. SUFFICES ASSUME s \ {x} \in Bad PROVE FALSE
    BY <1>8
  <2>2. Cardinality(s \ {x}) \in Sizes
    BY <2>1
  <2>3. n <= Cardinality(s \ {x}) /\ n \in Nat
    BY <1>3, <1>4, <2>2
  <2> HIDE DEF Bad, Sizes
  <2> QED
    BY <1>5, <1>9, <2>3
<1>11. g[s] = f[x] + g[s \ {x}]
  BY <1>5, <1>6 DEF Adds, x
<1>12. k[s] = f[x] + k[s \ {x}]
  BY <1>5, <1>6 DEF Adds, x
<1> QED
  BY <1>5, <1>10, <1>11, <1>12

(* There is a fold over every finite set: by size, one step at a time.      *)
LEMMA AddsExists ==
    ASSUME NEW f, NEW S, IsFiniteSet(S)
    PROVE  \E g : Adds(f, S, g)
<1> DEFINE Upto(n) == {s \in SUBSET S : Cardinality(s) <= n}
           Good(n, g) == g = [s \in Upto(n) |-> IF s = {} THEN 0
                                                ELSE f[Pick(s)] + g[s \ {Pick(s)}]]
           Bad == {n \in Nat : ~ \E g : Good(n, g)}
<1>1. ASSUME NEW s \in SUBSET S PROVE IsFiniteSet(s) /\ Cardinality(s) \in Nat
  BY FS_Subset, FS_CardinalityType
<1>2. \E g : Good(0, g)
  <2> DEFINE g == [s \in Upto(0) |-> 0]
  <2>1. ASSUME NEW s \in Upto(0) PROVE s = {}
    <3>1. IsFiniteSet(s) /\ Cardinality(s) = 0
      BY <1>1
    <3> QED
      BY <3>1, FS_EmptySet
  <2>2. g = [s \in Upto(0) |-> IF s = {} THEN 0 ELSE f[Pick(s)] + g[s \ {Pick(s)}]]
    <3> HIDE DEF Upto
    <3> QED
      BY <2>1
  <2> HIDE DEF Upto, g
  <2> QED
    BY <2>2
<1>3. ASSUME NEW n \in Nat, NEW g, Good(n, g)
      PROVE  \E k : Good(n + 1, k)
  <2> DEFINE k == [s \in Upto(n + 1) |-> IF s = {} THEN 0 ELSE f[Pick(s)] + g[s \ {Pick(s)}]]
  <2>1. ASSUME NEW s \in Upto(n + 1), s # {}
        PROVE  g[s \ {Pick(s)}] = k[s \ {Pick(s)}]
    <3> DEFINE x == Pick(s)
               t == s \ {x}
    <3>1. x \in s
      BY <2>1, PickIn
    <3>2. IsFiniteSet(s) /\ Cardinality(s) \in Nat /\ Cardinality(s) <= n + 1
      BY <1>1
    <3> HIDE DEF x
    <3>3. Cardinality(t) = Cardinality(s) - 1
      BY <3>1, <3>2, FS_RemoveElement
    <3>4. t \in SUBSET S
      OBVIOUS
    <3> HIDE DEF t
    <3>5. Cardinality(t) <= n
      BY <3>2, <3>3
    <3>6. Cardinality(t) <= n + 1
      BY <3>2, <3>3
    <3>7. t \in Upto(n) /\ t \in Upto(n + 1)
      BY <3>4, <3>5, <3>6
    <3> HIDE DEF Upto
    <3>8. k[t] = IF t = {} THEN 0 ELSE f[Pick(t)] + g[t \ {Pick(t)}]
      BY <3>7
    <3>9. g[t] = IF t = {} THEN 0 ELSE f[Pick(t)] + g[t \ {Pick(t)}]
      BY <1>3, <3>7
    <3> QED
      BY <3>8, <3>9 DEF t, x
  <2>2. k = [s \in Upto(n + 1) |-> IF s = {} THEN 0 ELSE f[Pick(s)] + k[s \ {Pick(s)}]]
    <3> HIDE DEF Upto
    <3>1. \A s \in Upto(n + 1) :
             (IF s = {} THEN 0 ELSE f[Pick(s)] + g[s \ {Pick(s)}])
             = (IF s = {} THEN 0 ELSE f[Pick(s)] + k[s \ {Pick(s)}])
      <4> HIDE DEF k
      <4> QED
        BY <2>1
    <3>2. k = [s \in Upto(n + 1) |-> IF s = {} THEN 0 ELSE f[Pick(s)] + g[s \ {Pick(s)}]]
      OBVIOUS
    <3> HIDE DEF k
    <3> QED
      BY <3>1, <3>2
  <2> HIDE DEF Upto, k
  <2> QED
    BY <2>2
<1>4. Bad = {}
  <2> SUFFICES ASSUME Bad # {} PROVE FALSE
    OBVIOUS
  <2>1. PICK n \in Bad : \A m \in Bad : n <= m
    <3>1. Bad \subseteq Nat
      OBVIOUS
    <3> HIDE DEF Bad
    <3> QED
      BY <3>1, LeastNat
  <2>a. n \in Nat /\ ~ \E g : Good(n, g)
    BY <2>1
  <2>2. n # 0
    <3> HIDE DEF Good
    <3> QED
      BY <1>2, <2>a
  <2>3. n - 1 \in Nat /\ n - 1 \notin Bad
    <3>1. n \in Nat
      OBVIOUS
    <3> HIDE DEF Bad
    <3> QED
      BY <2>1, <2>2, <3>1
  <2>4. PICK g : Good(n - 1, g)
    BY <2>3
  <2>5. \E k : Good((n - 1) + 1, k)
    <3> HIDE DEF Good, Bad
    <3> QED
      BY <1>3, <2>3, <2>4
  <2>6. (n - 1) + 1 = n
    OBVIOUS
  <2> HIDE DEF Good
  <2> QED
    BY <2>a, <2>5, <2>6
<1> DEFINE n == Cardinality(S)
<1>5. n \in Nat /\ Upto(n) = SUBSET S
  BY FS_CardinalityType, FS_Subset
<1>6. PICK g : Good(n, g)
  BY <1>4, <1>5
<1> HIDE DEF Upto, n
<1> QED
  BY <1>5, <1>6 DEF Adds

LEMMA SumOfNone ==
    ASSUME NEW f
    PROVE  SumFunctionOnSet(f, {}) = 0
<1>1. \E g : Adds(f, {}, g)
  BY AddsExists, FS_EmptySet
<1>2. Adds(f, {}, CHOOSE g : Adds(f, {}, g))
  BY <1>1
<1> QED
  BY <1>2, SumIsFold DEF Adds

(* A sum is that of some element and the rest. *)
LEMMA SumPicks ==
    ASSUME NEW f, NEW S, IsFiniteSet(S), S # {}
    PROVE  SumFunctionOnSet(f, S) = f[Pick(S)] + SumFunctionOnSet(f, S \ {Pick(S)})
<1> DEFINE T == S \ {Pick(S)}
           g == CHOOSE k : Adds(f, S, k)
           h == CHOOSE k : Adds(f, T, k)
<1>1. IsFiniteSet(T)
  BY FS_Subset
<1>2. Adds(f, S, g) /\ Adds(f, T, h)
  BY <1>1, AddsExists
<1>3. SumFunctionOnSet(f, S) = g[S] /\ SumFunctionOnSet(f, T) = h[T]
  BY SumIsFold
<1> HIDE DEF g, h
<1>4. g[S] = f[Pick(S)] + g[T]
  BY <1>2 DEF Adds
<1>5. g[T] = h[T]
  <2>1. T \in SUBSET S /\ T \in SUBSET T
    OBVIOUS
  <2> HIDE DEF T
  <2> QED
    BY <1>2, <2>1, AddsUnique
<1> QED
  BY <1>3, <1>4, <1>5

(* Functions that agree on S have one sum over it, and the sum of integers  *)
(* is one.                                                                  *)
LEMMA SumSame ==
    ASSUME NEW f, NEW h, NEW S, IsFiniteSet(S), \A x \in S : f[x] = h[x]
    PROVE  SumFunctionOnSet(f, S) = SumFunctionOnSet(h, S)
<1> DEFINE Bad == {s \in SUBSET S : SumFunctionOnSet(f, s) # SumFunctionOnSet(h, s)}
           Sizes == {Cardinality(s) : s \in Bad}
<1>1. ASSUME NEW s \in SUBSET S PROVE IsFiniteSet(s) /\ Cardinality(s) \in Nat
  BY FS_Subset, FS_CardinalityType
<1>2. SUFFICES ASSUME Bad # {} PROVE FALSE
  OBVIOUS
<1>3. Sizes \subseteq Nat /\ Sizes # {}
  BY <1>1, <1>2
<1>4. PICK n \in Sizes : \A m \in Sizes : n <= m
  BY <1>3, LeastNat
<1>5. PICK s \in Bad : n = Cardinality(s)
  BY <1>4
<1>6. s # {}
  BY <1>5, SumOfNone
<1> DEFINE x == Pick(s)
<1>7. x \in s
  BY <1>6, PickIn
<1>8. Cardinality(s \ {x}) = Cardinality(s) - 1
  BY <1>1, <1>5, <1>7, FS_RemoveElement
<1>9. SumFunctionOnSet(f, s \ {x}) = SumFunctionOnSet(h, s \ {x})
  <2>1. SUFFICES ASSUME s \ {x} \in Bad PROVE FALSE
    BY <1>5
  <2>2. Cardinality(s \ {x}) \in Sizes
    BY <2>1
  <2>3. n <= Cardinality(s \ {x}) /\ n \in Nat
    BY <1>3, <1>4, <2>2
  <2> HIDE DEF Bad, Sizes, x
  <2> QED
    BY <1>5, <1>8, <2>3
<1>10. /\ SumFunctionOnSet(f, s) = f[x] + SumFunctionOnSet(f, s \ {x})
       /\ SumFunctionOnSet(h, s) = h[x] + SumFunctionOnSet(h, s \ {x})
  BY <1>1, <1>5, <1>6, SumPicks
<1> QED
  BY <1>5, <1>7, <1>9, <1>10

LEMMA SumType ==
    ASSUME NEW f, NEW S, IsFiniteSet(S), \A x \in S : f[x] \in Int
    PROVE  SumFunctionOnSet(f, S) \in Int
<1> DEFINE Bad == {s \in SUBSET S : SumFunctionOnSet(f, s) \notin Int}
           Sizes == {Cardinality(s) : s \in Bad}
<1>1. ASSUME NEW s \in SUBSET S PROVE IsFiniteSet(s) /\ Cardinality(s) \in Nat
  BY FS_Subset, FS_CardinalityType
<1>2. SUFFICES ASSUME Bad # {} PROVE FALSE
  OBVIOUS
<1>3. Sizes \subseteq Nat /\ Sizes # {}
  BY <1>1, <1>2
<1>4. PICK n \in Sizes : \A m \in Sizes : n <= m
  BY <1>3, LeastNat
<1>5. PICK s \in Bad : n = Cardinality(s)
  BY <1>4
<1>6. s # {}
  BY <1>5, SumOfNone
<1> DEFINE x == Pick(s)
<1>7. x \in s
  BY <1>6, PickIn
<1>8. Cardinality(s \ {x}) = Cardinality(s) - 1
  BY <1>1, <1>5, <1>7, FS_RemoveElement
<1>9. SumFunctionOnSet(f, s \ {x}) \in Int
  <2>1. SUFFICES ASSUME s \ {x} \in Bad PROVE FALSE
    BY <1>5
  <2>2. Cardinality(s \ {x}) \in Sizes
    BY <2>1
  <2>3. n <= Cardinality(s \ {x}) /\ n \in Nat
    BY <1>3, <1>4, <2>2
  <2> HIDE DEF Bad, Sizes, x
  <2> QED
    BY <1>5, <1>8, <2>3
<1>10. SumFunctionOnSet(f, s) = f[x] + SumFunctionOnSet(f, s \ {x})
  BY <1>1, <1>5, <1>6, SumPicks
<1> QED
  BY <1>5, <1>7, <1>9, <1>10

(* The order does not matter: a sum is that of any element and the rest.    *)
LEMMA SumSplits ==
    ASSUME NEW f, NEW S, IsFiniteSet(S), \A i \in S : f[i] \in Int, NEW y \in S
    PROVE  SumFunctionOnSet(f, S) = f[y] + SumFunctionOnSet(f, S \ {y})
<1> DEFINE Bad == {s \in SUBSET S : \E z \in s :
                      SumFunctionOnSet(f, s) # f[z] + SumFunctionOnSet(f, s \ {z})}
           Sizes == {Cardinality(s) : s \in Bad}
<1>1. ASSUME NEW s \in SUBSET S PROVE IsFiniteSet(s) /\ Cardinality(s) \in Nat
  BY FS_Subset, FS_CardinalityType
<1>2. SUFFICES ASSUME Bad # {} PROVE FALSE
  OBVIOUS
<1>3. Sizes \subseteq Nat /\ Sizes # {}
  BY <1>1, <1>2
<1>4. PICK n \in Sizes : \A m \in Sizes : n <= m
  BY <1>3, LeastNat
<1>5. PICK s \in Bad : n = Cardinality(s)
  BY <1>4
<1>6. PICK z \in s : SumFunctionOnSet(f, s) # f[z] + SumFunctionOnSet(f, s \ {z})
  BY <1>5
<1> DEFINE x == Pick(s)
<1>7. x \in s /\ SumFunctionOnSet(f, s) = f[x] + SumFunctionOnSet(f, s \ {x})
  BY <1>1, <1>5, <1>6, PickIn, SumPicks
<1> HIDE DEF x
<1>8. x # z
  BY <1>6, <1>7
<1>9. ASSUME NEW u \in s, NEW v \in s, u # v
      PROVE  SumFunctionOnSet(f, s \ {u}) = f[v] + SumFunctionOnSet(f, s \ {u, v})
  <2>1. Cardinality(s \ {u}) = Cardinality(s) - 1
    BY <1>1, <1>5, FS_RemoveElement
  <2>2. s \ {u} \notin Bad
    <3>1. SUFFICES ASSUME s \ {u} \in Bad PROVE FALSE
      OBVIOUS
    <3>2. Cardinality(s \ {u}) \in Sizes
      BY <3>1
    <3>3. n <= Cardinality(s \ {u}) /\ n \in Nat
      BY <1>3, <1>4, <3>2
    <3> HIDE DEF Bad, Sizes
    <3> QED
      BY <1>5, <2>1, <3>3
  <2>3. v \in s \ {u} /\ s \ {u} \in SUBSET S /\ (s \ {u}) \ {v} = s \ {u, v}
    BY <1>5, <1>9
  <2>4. SumFunctionOnSet(f, s \ {u}) = f[v] + SumFunctionOnSet(f, (s \ {u}) \ {v})
    BY <2>2, <2>3
  <2> QED
    BY <2>3, <2>4
<1>10. SumFunctionOnSet(f, s \ {x}) = f[z] + SumFunctionOnSet(f, s \ {x, z})
  BY <1>7, <1>8, <1>9
<1>11. SumFunctionOnSet(f, s \ {z}) = f[x] + SumFunctionOnSet(f, s \ {z, x})
  BY <1>7, <1>8, <1>9
<1>12. s \ {x, z} = s \ {z, x}
  OBVIOUS
<1>13. f[x] \in Int /\ f[z] \in Int /\ SumFunctionOnSet(f, s \ {x, z}) \in Int
  <2>1. s \ {x, z} \in SUBSET S
    BY <1>5
  <2>2. IsFiniteSet(s \ {x, z}) /\ \A i \in s \ {x, z} : f[i] \in Int
    BY <1>1, <2>1
  <2>3. SumFunctionOnSet(f, s \ {x, z}) \in Int
    BY <2>2, SumType
  <2>4. x \in S /\ z \in S
    BY <1>5, <1>7
  <2> QED
    BY <2>3, <2>4
<1> DEFINE rest == SumFunctionOnSet(f, s \ {x, z})
<1>14. SumFunctionOnSet(f, s) = f[x] + (f[z] + rest)
  BY <1>7, <1>10
<1>15. SumFunctionOnSet(f, s \ {z}) = f[x] + rest
  BY <1>11, <1>12
<1> HIDE DEF rest
<1>16. f[x] + (f[z] + rest) = f[z] + (f[x] + rest)
  BY <1>13 DEF rest
<1> QED
  BY <1>6, <1>14, <1>15, <1>16

-----------------------------------------------------------------------------
(* Induction, with a set where the library's theorems have a predicate.     *)

(* Numbers, from 0 up.                                                      *)
LEMMA ByNumbers ==
    ASSUME NEW G, 0 \in G, \A n \in Nat : n \in G => n + 1 \in G
    PROVE  \A n \in Nat : n \in G
<1> DEFINE Bad == {n \in Nat : n \notin G}
<1>1. SUFFICES ASSUME Bad # {} PROVE FALSE
  OBVIOUS
<1>2. PICK n \in Bad : \A m \in Bad : n <= m
  BY <1>1, LeastNat
<1>3. n \in Nat /\ n \notin G /\ n # 0
  BY <1>2
<1>4. n - 1 \in Nat /\ n - 1 \notin Bad
  <2> HIDE DEF Bad
  <2> QED
    BY <1>2, <1>3
<1>5. (n - 1) + 1 \in G
  BY <1>4
<1> QED
  BY <1>3, <1>5

(* Finite sets, by one element at a time.                                   *)
LEMMA BySubsets ==
    ASSUME NEW S, IsFiniteSet(S), NEW G, {} \in G,
           \A s \in SUBSET S : \A x \in s : s \ {x} \in G => s \in G
    PROVE  \A s \in SUBSET S : s \in G
<1> DEFINE Bad == {s \in SUBSET S : s \notin G}
           Sizes == {Cardinality(s) : s \in Bad}
<1>1. ASSUME NEW s \in SUBSET S PROVE IsFiniteSet(s) /\ Cardinality(s) \in Nat
  BY FS_Subset, FS_CardinalityType
<1>2. SUFFICES ASSUME Bad # {} PROVE FALSE
  OBVIOUS
<1>3. Sizes \subseteq Nat /\ Sizes # {}
  BY <1>1, <1>2
<1>4. PICK n \in Sizes : \A m \in Sizes : n <= m
  BY <1>3, LeastNat
<1>5. PICK s \in Bad : n = Cardinality(s)
  BY <1>4
<1>6. PICK x \in s : TRUE
  BY <1>5
<1>7. Cardinality(s \ {x}) = Cardinality(s) - 1
  BY <1>1, <1>5, <1>6, FS_RemoveElement
<1>8. s \ {x} \in Bad
  BY <1>5, <1>6
<1>9. n <= Cardinality(s \ {x}) /\ n \in Nat
  <2>1. Cardinality(s \ {x}) \in Sizes
    BY <1>8
  <2> HIDE DEF Sizes
  <2> QED
    BY <1>3, <1>4, <2>1
<1> HIDE DEF Bad, Sizes
<1> QED
  BY <1>5, <1>7, <1>9

-----------------------------------------------------------------------------
(* More on sums.                                                            *)

LEMMA SumAdds ==
    ASSUME NEW f, NEW S, IsFiniteSet(S), NEW x, x \notin S,
           \A i \in S \cup {x} : f[i] \in Int
    PROVE  SumFunctionOnSet(f, S \cup {x}) = SumFunctionOnSet(f, S) + f[x]
<1>1. IsFiniteSet(S \cup {x}) /\ x \in S \cup {x} /\ (S \cup {x}) \ {x} = S
  BY FS_AddElement
<1>2. SumFunctionOnSet(f, S \cup {x}) = f[x] + SumFunctionOnSet(f, S)
  BY <1>1, SumSplits
<1>3. SumFunctionOnSet(f, S) \in Int
  BY SumType
<1> QED
  BY <1>2, <1>3

(* A sum stays where its terms are, if sums of two do.                      *)
LEMMA SumStays ==
    ASSUME NEW f, NEW S, IsFiniteSet(S), NEW V \in SUBSET Int, 0 \in V,
           \A a, b \in V : a + b \in V, \A x \in S : f[x] \in V
    PROVE  SumFunctionOnSet(f, S) \in V
<1> DEFINE G == {s \in SUBSET S : SumFunctionOnSet(f, s) \in V}
<1>1. {} \in G
  BY SumOfNone
<1>2. ASSUME NEW s \in SUBSET S, NEW x \in s, s \ {x} \in G
      PROVE  s \in G
  <2>1. IsFiniteSet(s) /\ \A i \in s : f[i] \in Int
    BY FS_Subset
  <2>2. SumFunctionOnSet(f, s) = f[x] + SumFunctionOnSet(f, s \ {x})
    BY <2>1, SumSplits
  <2>3. SumFunctionOnSet(f, s \ {x}) \in V /\ f[x] \in V
    BY <1>2
  <2> QED
    BY <2>2, <2>3
<1> HIDE DEF G
<1>3. \A s \in SUBSET S : s \in G
  BY <1>1, <1>2, BySubsets, Zenon
<1>4. S \in G
  BY <1>3
<1> QED
  BY <1>4 DEF G

LEMMA SumOfUnion ==
    ASSUME NEW f, NEW S, IsFiniteSet(S), NEW T, IsFiniteSet(T), S \cap T = {},
           \A x \in S \cup T : f[x] \in Int
    PROVE  SumFunctionOnSet(f, S \cup T) = SumFunctionOnSet(f, S) + SumFunctionOnSet(f, T)
<1> DEFINE G == {t \in SUBSET T : SumFunctionOnSet(f, S \cup t)
                                  = SumFunctionOnSet(f, S) + SumFunctionOnSet(f, t)}
<1>0. SumFunctionOnSet(f, S) \in Int
  BY SumType
<1>1. {} \in G
  <2>1. S \cup {} = S
    OBVIOUS
  <2> QED
    BY <1>0, <2>1, SumOfNone
<1>2. ASSUME NEW t \in SUBSET T, NEW x \in t, t \ {x} \in G
      PROVE  t \in G
  <2>1. IsFiniteSet(t) /\ IsFiniteSet(t \ {x}) /\ \A i \in t : f[i] \in Int
    BY FS_Subset
  <2>2. IsFiniteSet(S \cup t) /\ \A i \in S \cup t : f[i] \in Int
    BY <2>1, FS_Union
  <2>3. SumFunctionOnSet(f, t) = f[x] + SumFunctionOnSet(f, t \ {x})
    BY <2>1, SumSplits
  <2>4. SumFunctionOnSet(f, S \cup t) = f[x] + SumFunctionOnSet(f, (S \cup t) \ {x})
    BY <2>2, SumSplits
  <2>5. (S \cup t) \ {x} = S \cup (t \ {x})
    OBVIOUS
  <2>6. SumFunctionOnSet(f, S \cup (t \ {x}))
           = SumFunctionOnSet(f, S) + SumFunctionOnSet(f, t \ {x})
    BY <1>2
  <2>7. SumFunctionOnSet(f, t \ {x}) \in Int /\ f[x] \in Int
    BY <2>1, SumType
  <2>8. SumFunctionOnSet(f, S \cup t)
           = f[x] + (SumFunctionOnSet(f, S) + SumFunctionOnSet(f, t \ {x}))
    BY <2>4, <2>5, <2>6
  <2> HIDE DEF G
  <2>9. SumFunctionOnSet(f, S \cup t) = SumFunctionOnSet(f, S) + SumFunctionOnSet(f, t)
    BY <1>0, <2>3, <2>7, <2>8
  <2> QED
    BY <2>9 DEF G
<1> HIDE DEF G
<1>3. \A s \in SUBSET T : s \in G
  BY <1>1, <1>2, BySubsets, Zenon
<1>4. T \in G
  BY <1>3
<1> QED
  BY <1>4 DEF G

(* Terms that differ by little give sums that do.                           *)
LEMMA SumNear ==
    ASSUME NEW f, NEW g, NEW S, IsFiniteSet(S), NEW z \in Nat,
           \A x \in S : f[x] \in Int /\ g[x] \in Int /\ f[x] - g[x] \in -z .. z
    PROVE  SumFunctionOnSet(f, S) - SumFunctionOnSet(g, S)
              \in -z * Cardinality(S) .. z * Cardinality(S)
<1> DEFINE Off(s) == SumFunctionOnSet(f, s) - SumFunctionOnSet(g, s)
           G == {s \in SUBSET S : Off(s) \in -z * Cardinality(s) .. z * Cardinality(s)}
<1>1. {} \in G
  BY SumOfNone, FS_EmptySet
<1>2. ASSUME NEW s \in SUBSET S, NEW x \in s, s \ {x} \in G
      PROVE  s \in G
  <2> DEFINE F == SumFunctionOnSet(f, s \ {x})
             H == SumFunctionOnSet(g, s \ {x})
             n == Cardinality(s \ {x})
  <2>1. IsFiniteSet(s) /\ IsFiniteSet(s \ {x})
    BY FS_Subset
  <2>2. SumFunctionOnSet(f, s) = f[x] + F /\ SumFunctionOnSet(g, s) = g[x] + H
    <3>1. \A i \in s : f[i] \in Int /\ g[i] \in Int
      OBVIOUS
    <3> QED
      BY <2>1, <3>1, SumSplits
  <2>3. F \in Int /\ H \in Int
    BY <2>1, SumType
  <2>4. n \in Nat /\ Cardinality(s) = n + 1
    <3>1. Cardinality(s) \in Nat /\ n \in Nat
      BY <2>1, FS_CardinalityType
    <3>2. n = Cardinality(s) - 1
      BY <2>1, FS_RemoveElement
    <3> HIDE DEF n
    <3> QED
      BY <3>1, <3>2
  <2>5. F - H \in -z * n .. z * n
    BY <1>2
  <2>6. f[x] \in Int /\ g[x] \in Int /\ f[x] - g[x] \in -z .. z
    OBVIOUS
  <2> HIDE DEF F, H, n
  <2>7. -z * (n + 1) = -z * n - z /\ z * (n + 1) = z * n + z /\ z * n \in Int /\ -z * n \in Int
    BY <2>4
  <2> DEFINE low == -z * n
             high == z * n
  <2>8. low \in Int /\ high \in Int /\ F - H \in low .. high
    BY <2>5, <2>7
  <2> HIDE DEF low, high
  <2>9. (f[x] + F) - (g[x] + H) \in low - z .. high + z
    BY <2>3, <2>6, <2>8
  <2>10. Off(s) \in -z * (n + 1) .. z * (n + 1)
    BY <2>2, <2>7, <2>9 DEF low, high
  <2> QED
    BY <2>4, <2>10
<1> HIDE DEF G
<1>3. \A s \in SUBSET S : s \in G
  BY <1>1, <1>2, BySubsets, Zenon
<1>4. S \in G
  BY <1>3
<1> QED
  BY <1>4 DEF G
=============================================================================
