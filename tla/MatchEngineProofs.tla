--------------------------- MODULE MatchEngineProofs ---------------------------
(***************************************************************************)
(* What TLAPS proves of MatchEngine and of Hungarian, the assignment       *)
(* algorithm in it: for matrices of any size and weights the algorithm     *)
(* ends with an assignment that has the certificate of an optimal one, and *)
(* for every set of participants the engine accepts, the pairs suggested   *)
(* are as many as can be and suit each other best, and whoever is left out *)
(* is told a reason that is true of them.  Sums of scores are sums over    *)
(* finite sets, whose laws come first.                                     *)
(***************************************************************************)
EXTENDS MatchEngine, FiniteSetTheorems, WellFoundedInduction, TLAPS

-----------------------------------------------------------------------------
(* Sums over finite sets *)

(* A set of sets that has every set whose proper subsets it has, has all.  *)
LEMMA SetInduction ==
    ASSUME NEW S, IsFiniteSet(S), NEW Q,
           \A T \in SUBSET S : (\A U \in SUBSET T : U # T => U \in Q) => T \in Q
    PROVE  \A T \in SUBSET S : T \in Q
<1> DEFINE Bad == {T \in SUBSET S : T \notin Q}
<1> SUFFICES ASSUME Bad # {} PROVE FALSE
  OBVIOUS
<1>1. Bad \subseteq FiniteSubsetsOf(S)
  BY FS_Subset DEF FiniteSubsetsOf
<1>2. PICK T \in Bad : \A U \in Bad : ~ (<<U, T>> \in StrictSubsetOrdering(S))
  <2> HIDE DEF Bad
  <2> QED
    BY <1>1, FS_StrictSubsetOrderingWellFounded, WFMin
<1>3. \A U \in SUBSET T : U # T => U \in Q
  <2> SUFFICES ASSUME NEW U \in SUBSET T, U # T, U \notin Q PROVE FALSE
    OBVIOUS
  <2>1. U \in Bad
    OBVIOUS
  <2>2. <<U, T>> \in StrictSubsetOrdering(S)
    BY DEF StrictSubsetOrdering
  <2> QED
    BY <1>2, <2>1, <2>2
<1> QED
  BY <1>3

(* What the sum of f over S is by its definition: the value at S of a      *)
(* function on the subsets of S that takes one element at a time.          *)
Any(T) == CHOOSE x \in T : TRUE
Sums(f, S, g) == g = [T \in SUBSET S |->
    IF T = {} THEN 0 ELSE f[Any(T)] + g[T \ {Any(T)}]]
TheSums(f, S) == CHOOSE g : Sums(f, S, g)

LEMMA SumIs ==
    ASSUME NEW f, NEW S
    PROVE  SumFunctionOnSet(f, S) = TheSums(f, S)[S]
BY DEF SumFunctionOnSet, FoldFunctionOnSet, MapThenFoldSet, TheSums, Sums, Any

LEMMA AnyIn ==
    ASSUME NEW T, T # {}
    PROVE  Any(T) \in T
BY DEF Any

LEMMA SumsUnique ==
    ASSUME NEW f, NEW S, IsFiniteSet(S), NEW g, NEW h, NEW R, S \subseteq R,
           Sums(f, S, g), Sums(f, R, h)
    PROVE  g[S] = h[S]
<1> DEFINE Q == {T \in SUBSET S : g[T] = h[T]}
<1>1. ASSUME NEW T \in SUBSET S, \A U \in SUBSET T : U # T => U \in Q
      PROVE  T \in Q
  <2>1. CASE T = {}
    BY <2>1 DEF Sums
  <2>2. CASE T # {}
    <3>1. Any(T) \in T /\ (T \ {Any(T)}) \in SUBSET T /\ T \ {Any(T)} # T
      BY <2>2, AnyIn
    <3>2. g[T \ {Any(T)}] = h[T \ {Any(T)}]
      BY <1>1, <3>1
    <3>3. g[T] = f[Any(T)] + g[T \ {Any(T)}] /\ h[T] = f[Any(T)] + h[T \ {Any(T)}]
      BY <2>2 DEF Sums
    <3> QED
      BY <3>2, <3>3
  <2> QED
    BY <2>1, <2>2
<1> HIDE DEF Q
<1>2. \A T \in SUBSET S : T \in Q
  BY <1>1, SetInduction
<1> QED
  BY <1>2 DEF Q

LEMMA SumsExist ==
    ASSUME NEW f, NEW S, IsFiniteSet(S)
    PROVE  Sums(f, S, TheSums(f, S))
<1> DEFINE Q == {T \in SUBSET S : Sums(f, T, TheSums(f, T))}
<1>1. ASSUME NEW T \in SUBSET S, \A U \in SUBSET T : U # T => U \in Q
      PROVE  T \in Q
  <2> DEFINE Part(U) == IF U = {} THEN 0
                        ELSE f[Any(U)] + TheSums(f, U \ {Any(U)})[U \ {Any(U)}]
             h == [U \in SUBSET T |-> Part(U)]
  <2>1. \A U \in SUBSET T : U # T => Sums(f, U, TheSums(f, U))
    BY <1>1
  <2>2. \A U \in SUBSET T : U # T => TheSums(f, U)[U] = Part(U)
    <3> SUFFICES ASSUME NEW U \in SUBSET T, U # T
                 PROVE  TheSums(f, U)[U] = Part(U)
      OBVIOUS
    <3>1. Sums(f, U, TheSums(f, U))
      BY <2>1
    <3>2. CASE U = {}
      BY <3>1, <3>2 DEF Sums
    <3>3. CASE U # {}
      <4> DEFINE V == U \ {Any(U)}
      <4>1. V \in SUBSET T /\ V # T /\ V \subseteq U /\ IsFiniteSet(V)
        BY <3>3, AnyIn, FS_Subset
      <4>2. Sums(f, V, TheSums(f, V))
        BY <2>1, <4>1
      <4> HIDE DEF V
      <4>3. TheSums(f, V)[V] = TheSums(f, U)[V]
        BY <3>1, <4>1, <4>2, SumsUnique
      <4>4. TheSums(f, U)[U] = f[Any(U)] + TheSums(f, U)[V]
        BY <3>1, <3>3 DEF Sums, V
      <4> QED
        BY <3>3, <4>3, <4>4 DEF V
    <3> QED
      BY <3>2, <3>3
  <2>3. \A U \in SUBSET T : U # {} => h[U] = f[Any(U)] + h[U \ {Any(U)}]
    <3> SUFFICES ASSUME NEW U \in SUBSET T, U # {}
                 PROVE  h[U] = f[Any(U)] + h[U \ {Any(U)}]
      OBVIOUS
    <3> DEFINE V == U \ {Any(U)}
    <3>1. V \in SUBSET T /\ V # T
      BY AnyIn
    <3>2. TheSums(f, V)[V] = Part(V)
      BY <2>2, <3>1
    <3>3. h[U] = Part(U) /\ h[V] = Part(V)
      BY <3>1
    <3>4. Part(U) = f[Any(U)] + TheSums(f, V)[V]
      OBVIOUS
    <3> QED
      BY <3>2, <3>3, <3>4
  <2>4. h[{}] = 0
    OBVIOUS
  <2>5. Sums(f, T, h)
    <3>1. h = [U \in SUBSET T |-> h[U]]
      OBVIOUS
    <3>2. \A U \in SUBSET T : h[U] = IF U = {} THEN 0 ELSE f[Any(U)] + h[U \ {Any(U)}]
      BY <2>3, <2>4
    <3> HIDE DEF h
    <3> QED
      BY <3>1, <3>2 DEF Sums
  <2> HIDE DEF h
  <2>6. Sums(f, T, TheSums(f, T))
    BY <2>5 DEF TheSums
  <2> QED
    BY <2>6
<1> HIDE DEF Q
<1>2. \A T \in SUBSET S : T \in Q
  BY <1>1, SetInduction
<1> QED
  BY <1>2 DEF Q

LEMMA SumEmpty ==
    ASSUME NEW f
    PROVE  SumFunctionOnSet(f, {}) = 0
<1>1. PICK g : g = TheSums(f, {}) /\ Sums(f, {}, g)
  BY SumsExist, FS_EmptySet
<1>2. g[{}] = 0
  BY <1>1 DEF Sums
<1> QED
  BY <1>1, <1>2, SumIs

LEMMA SumAny ==
    ASSUME NEW f, NEW S, IsFiniteSet(S), S # {}
    PROVE  SumFunctionOnSet(f, S) = f[Any(S)] + SumFunctionOnSet(f, S \ {Any(S)})
<1> DEFINE V == S \ {Any(S)}
<1>1. V \in SUBSET S /\ IsFiniteSet(V)
  BY FS_Subset
<1> HIDE DEF V
<1>2. TheSums(f, V)[V] = TheSums(f, S)[V]
  BY <1>1, SumsExist, SumsUnique
<1>3. TheSums(f, S)[S] = f[Any(S)] + TheSums(f, S)[V]
  <2>1. PICK g : g = TheSums(f, S) /\ Sums(f, S, g)
    BY SumsExist
  <2>2. g[S] = f[Any(S)] + g[V]
    BY <2>1 DEF Sums, V
  <2> QED
    BY <2>1, <2>2
<1> QED
  BY <1>2, <1>3, SumIs DEF V

LEMMA SumType ==
    ASSUME NEW S, IsFiniteSet(S), NEW f, \A x \in S : f[x] \in Int
    PROVE  SumFunctionOnSet(f, S) \in Int
<1> DEFINE Q == {T \in SUBSET S : SumFunctionOnSet(f, T) \in Int}
<1>1. ASSUME NEW T \in SUBSET S, \A U \in SUBSET T : U # T => U \in Q
      PROVE  T \in Q
  <2>1. CASE T = {}
    BY <2>1, SumEmpty
  <2>2. CASE T # {}
    <3>1. Any(T) \in T /\ (T \ {Any(T)}) \in SUBSET T /\ T \ {Any(T)} # T
      BY <2>2, AnyIn
    <3>2. SumFunctionOnSet(f, T \ {Any(T)}) \in Int
      BY <1>1, <3>1
    <3>3. SumFunctionOnSet(f, T) = f[Any(T)] + SumFunctionOnSet(f, T \ {Any(T)})
      BY <2>2, SumAny, FS_Subset
    <3> QED
      BY <3>1, <3>2, <3>3
  <2> QED
    BY <2>1, <2>2
<1> HIDE DEF Q
<1>2. S \in Q
  BY <1>1, SetInduction
<1> QED
  BY <1>2 DEF Q

(* Whichever element is taken first, the sum is the same. *)
LEMMA SumTake ==
    ASSUME NEW S, IsFiniteSet(S), NEW f, \A x \in S : f[x] \in Int, NEW y \in S
    PROVE  SumFunctionOnSet(f, S) = f[y] + SumFunctionOnSet(f, S \ {y})
<1> DEFINE Sum(T) == SumFunctionOnSet(f, T)
           Q == {T \in SUBSET S : \A x \in T : Sum(T) = f[x] + Sum(T \ {x})}
<1>0. \A T \in SUBSET S : Sum(T) \in Int /\ IsFiniteSet(T)
  BY SumType, FS_Subset
<1>1. ASSUME NEW T \in SUBSET S, \A U \in SUBSET T : U # T => U \in Q
      PROVE  T \in Q
  <2> SUFFICES ASSUME NEW x \in T PROVE Sum(T) = f[x] + Sum(T \ {x})
    OBVIOUS
  <2> DEFINE a == Any(T)
  <2>1. a \in T /\ Sum(T) = f[a] + Sum(T \ {a})
    BY <1>0, AnyIn, SumAny
  <2>2. CASE a = x
    BY <2>1, <2>2
  <2>3. CASE a # x
    <3> HIDE DEF a, Sum
    <3>1. T \ {a} \in Q /\ x \in T \ {a}
      BY <1>1, <2>1, <2>3
    <3>2. T \ {x} \in Q /\ a \in T \ {x}
      BY <1>1, <2>1, <2>3
    <3>3. (T \ {a}) \ {x} = (T \ {x}) \ {a}
      OBVIOUS
    <3>4. /\ Sum(T \ {a}) = f[x] + Sum((T \ {a}) \ {x})
          /\ Sum(T \ {x}) = f[a] + Sum((T \ {a}) \ {x})
      BY <3>1, <3>2, <3>3
    <3>5. Sum((T \ {a}) \ {x}) \in Int /\ f[x] \in Int /\ f[a] \in Int
      BY <1>0, <2>1
    <3> QED
      BY <2>1, <3>4, <3>5
  <2> QED
    BY <2>2, <2>3
<1> HIDE DEF Q
<1>2. S \in Q
  BY <1>1, SetInduction
<1> QED
  BY <1>2 DEF Q

(* Induction as the lemmas below use it: element by element. *)
LEMMA SetGrowth ==
    ASSUME NEW S, IsFiniteSet(S), NEW Q, {} \in Q,
           \A T \in SUBSET S : \A x \in T : T \ {x} \in Q => T \in Q
    PROVE  S \in Q
<1>1. ASSUME NEW T \in SUBSET S, \A U \in SUBSET T : U # T => U \in Q
      PROVE  T \in Q
  <2>1. CASE T = {}
    BY <2>1
  <2>2. CASE T # {}
    <3>1. PICK x : x \in T
      BY <2>2
    <3>2. T \ {x} \in SUBSET T /\ T \ {x} # T
      BY <3>1
    <3> QED
      BY <1>1, <3>1, <3>2
  <2> QED
    BY <2>1, <2>2
<1> QED
  BY <1>1, SetInduction

(* Functions that are everywhere at most, or as much as, another's, have   *)
(* sums that are.                                                          *)
LEMMA SumMono ==
    ASSUME NEW S, IsFiniteSet(S), NEW f, NEW g,
           \A x \in S : f[x] \in Int /\ g[x] \in Int /\ f[x] <= g[x]
    PROVE  SumFunctionOnSet(f, S) <= SumFunctionOnSet(g, S)
<1> DEFINE F(T) == SumFunctionOnSet(f, T)
           G(T) == SumFunctionOnSet(g, T)
           Q == {T \in SUBSET S : F(T) <= G(T)}
<1>1. {} \in Q
  BY SumEmpty
<1>2. ASSUME NEW T \in SUBSET S, NEW x \in T, T \ {x} \in Q
      PROVE  T \in Q
  <2>1. IsFiniteSet(T) /\ IsFiniteSet(T \ {x})
    BY FS_Subset
  <2>2. F(T) = f[x] + F(T \ {x}) /\ G(T) = g[x] + G(T \ {x})
    BY <2>1, SumTake
  <2>3. F(T \ {x}) \in Int /\ G(T \ {x}) \in Int
    BY <2>1, SumType
  <2>4. F(T \ {x}) <= G(T \ {x})
    BY <1>2
  <2>5. f[x] \in Int /\ g[x] \in Int /\ f[x] <= g[x]
    OBVIOUS
  <2> HIDE DEF F, G
  <2> QED
    BY <2>2, <2>3, <2>4, <2>5
<1> HIDE DEF Q
<1>3. S \in Q
  BY <1>1, <1>2, SetGrowth
<1> QED
  BY <1>3 DEF Q

LEMMA SumEqual ==
    ASSUME NEW S, IsFiniteSet(S), NEW f, NEW g,
           \A x \in S : f[x] \in Int /\ g[x] = f[x]
    PROVE  SumFunctionOnSet(f, S) = SumFunctionOnSet(g, S)
<1>1. /\ SumFunctionOnSet(f, S) <= SumFunctionOnSet(g, S)
      /\ SumFunctionOnSet(g, S) <= SumFunctionOnSet(f, S)
  BY SumMono
<1>2. SumFunctionOnSet(f, S) \in Int /\ SumFunctionOnSet(g, S) \in Int
  BY SumType
<1> QED
  BY <1>1, <1>2

LEMMA SumPlus ==
    ASSUME NEW S, IsFiniteSet(S), NEW f, NEW g, NEW h,
           \A x \in S : f[x] \in Int /\ g[x] \in Int /\ h[x] = f[x] + g[x]
    PROVE  SumFunctionOnSet(h, S) = SumFunctionOnSet(f, S) + SumFunctionOnSet(g, S)
<1> DEFINE F(T) == SumFunctionOnSet(f, T)
           G(T) == SumFunctionOnSet(g, T)
           H(T) == SumFunctionOnSet(h, T)
           Q == {T \in SUBSET S : H(T) = F(T) + G(T)}
<1>1. {} \in Q
  BY SumEmpty
<1>2. ASSUME NEW T \in SUBSET S, NEW x \in T, T \ {x} \in Q
      PROVE  T \in Q
  <2>1. IsFiniteSet(T) /\ IsFiniteSet(T \ {x})
    BY FS_Subset
  <2>2. F(T) = f[x] + F(T \ {x}) /\ G(T) = g[x] + G(T \ {x})
    BY <2>1, SumTake
  <2>3. \A y \in T : h[y] \in Int
    OBVIOUS
  <2>4. H(T) = h[x] + H(T \ {x})
    BY <2>1, <2>3, SumTake
  <2>5. F(T \ {x}) \in Int /\ G(T \ {x}) \in Int
    BY <2>1, SumType
  <2>6. H(T \ {x}) = F(T \ {x}) + G(T \ {x})
    BY <1>2
  <2>7. f[x] \in Int /\ g[x] \in Int /\ h[x] = f[x] + g[x]
    OBVIOUS
  <2> HIDE DEF F, G, H
  <2> QED
    BY <2>2, <2>4, <2>5, <2>6, <2>7
<1> HIDE DEF Q
<1>3. S \in Q
  BY <1>1, <1>2, SetGrowth
<1> QED
  BY <1>3 DEF Q

LEMMA SumConst ==
    ASSUME NEW S, IsFiniteSet(S), NEW f, NEW k \in Int, \A x \in S : f[x] = k
    PROVE  SumFunctionOnSet(f, S) = k * Cardinality(S)
<1> DEFINE F(T) == SumFunctionOnSet(f, T)
           Q == {T \in SUBSET S : F(T) = k * Cardinality(T)}
<1>1. {} \in Q
  <2>1. Cardinality({}) = 0
    BY FS_EmptySet
  <2> QED
    BY <2>1, SumEmpty
<1>2. ASSUME NEW T \in SUBSET S, NEW x \in T, T \ {x} \in Q
      PROVE  T \in Q
  <2>1. IsFiniteSet(T) /\ IsFiniteSet(T \ {x})
    BY FS_Subset
  <2>2. F(T) = k + F(T \ {x})
    BY <2>1, SumTake
  <2>3. F(T \ {x}) = k * Cardinality(T \ {x})
    BY <1>2
  <2>4. Cardinality(T \ {x}) = Cardinality(T) - 1 /\ Cardinality(T) \in Nat
    BY <2>1, FS_RemoveElement, FS_CardinalityType
  <2> HIDE DEF F
  <2>5. F(T) = k + k * (Cardinality(T) - 1)
    BY <2>2, <2>3, <2>4
  <2>6. \A m \in Nat : k + k * (m - 1) = k * m
    OBVIOUS
  <2>7. F(T) = k * Cardinality(T)
    BY <2>4, <2>5, <2>6
  <2> QED
    BY <2>7
<1> HIDE DEF Q
<1>3. S \in Q
  BY <1>1, <1>2, SetGrowth
<1> QED
  BY <1>3 DEF Q

(* A sum over a set is the sum over a part and the sum over the rest. *)
LEMMA SumSplit ==
    ASSUME NEW S, IsFiniteSet(S), NEW P \in SUBSET S, NEW f, \A x \in S : f[x] \in Int
    PROVE  SumFunctionOnSet(f, S) = SumFunctionOnSet(f, P) + SumFunctionOnSet(f, S \ P)
<1> DEFINE F(T) == SumFunctionOnSet(f, T)
           Q == {T \in SUBSET S : F(T) = F(T \cap P) + F(T \ P)}
<1>0. \A T \in SUBSET S : IsFiniteSet(T) /\ F(T) \in Int
  BY FS_Subset, SumType
<1>1. {} \in Q
  <2>1. {} \cap P = {} /\ {} \ P = {}
    OBVIOUS
  <2> QED
    BY <2>1, SumEmpty
<1>2. ASSUME NEW T \in SUBSET S, NEW x \in T, T \ {x} \in Q
      PROVE  T \in Q
  <2> DEFINE R == T \ {x}
  <2>1. F(T) = f[x] + F(R) /\ f[x] \in Int
    BY <1>0, SumTake
  <2>2. F(R) = F(R \cap P) + F(R \ P)
    BY <1>2
  <2>3. /\ R \cap P \in SUBSET S /\ R \ P \in SUBSET S
        /\ T \cap P \in SUBSET S /\ T \ P \in SUBSET S
    OBVIOUS
  <2>4. CASE x \in P
    <3>1. R \ P = T \ P /\ (T \cap P) \ {x} = R \cap P /\ x \in T \cap P
      BY <2>4
    <3>2. F(T \cap P) = f[x] + F(R \cap P)
      <4>1. F(T \cap P) = f[x] + F((T \cap P) \ {x})
        BY <1>0, <2>3, <3>1, SumTake
      <4> QED
        BY <3>1, <4>1
    <3>3. F(R \ P) = F(T \ P)
      BY <3>1
    <3>4. F(R \cap P) \in Int /\ F(R \ P) \in Int
      BY <1>0, <2>3
    <3> HIDE DEF F, R
    <3> QED
      BY <2>1, <2>2, <3>2, <3>3, <3>4
  <2>5. CASE x \notin P
    <3>1. R \cap P = T \cap P /\ (T \ P) \ {x} = R \ P /\ x \in T \ P
      BY <2>5
    <3>2. F(T \ P) = f[x] + F(R \ P)
      <4>1. F(T \ P) = f[x] + F((T \ P) \ {x})
        BY <1>0, <2>3, <3>1, SumTake
      <4> QED
        BY <3>1, <4>1
    <3>3. F(R \cap P) = F(T \cap P)
      BY <3>1
    <3>4. F(R \cap P) \in Int /\ F(R \ P) \in Int
      BY <1>0, <2>3
    <3> HIDE DEF F, R
    <3> QED
      BY <2>1, <2>2, <3>2, <3>3, <3>4
  <2> QED
    BY <2>4, <2>5
<1>3. S \in Q
  <2> HIDE DEF Q
  <2> QED
    BY <1>1, <1>2, SetGrowth
<1>4. S \cap P = P
  OBVIOUS
<1> QED
  BY <1>3, <1>4

(* The rest adds nothing when it is nothing, and takes nothing away when it *)
(* is not negative.                                                        *)
LEMMA SumOfPart ==
    ASSUME NEW S, IsFiniteSet(S), NEW P \in SUBSET S, NEW f,
           \A x \in S : f[x] \in Int, \A x \in S \ P : f[x] >= 0
    PROVE  /\ SumFunctionOnSet(f, P) <= SumFunctionOnSet(f, S)
           /\ (\A x \in S \ P : f[x] = 0) =>
                 SumFunctionOnSet(f, P) = SumFunctionOnSet(f, S)
<1> DEFINE R == S \ P
           o == [x \in S |-> 0]
<1>1. IsFiniteSet(P) /\ IsFiniteSet(R) /\ Cardinality(R) \in Nat
  BY FS_Subset, FS_CardinalityType
<1>2. SumFunctionOnSet(o, R) = 0
  BY <1>1, SumConst
<1>3. SumFunctionOnSet(o, R) <= SumFunctionOnSet(f, R)
  BY <1>1, SumMono
<1>4. (\A x \in R : f[x] = 0) => SumFunctionOnSet(f, R) = 0
  BY <1>1, SumConst
<1>5. SumFunctionOnSet(f, S) = SumFunctionOnSet(f, P) + SumFunctionOnSet(f, R)
  BY SumSplit
<1>6. SumFunctionOnSet(f, P) \in Int /\ SumFunctionOnSet(f, R) \in Int
  BY <1>1, SumType
<1> HIDE DEF R, o
<1>7. (\A x \in S \ P : f[x] = 0) => SumFunctionOnSet(f, R) = 0
  BY <1>4 DEF R
<1> QED
  BY <1>2, <1>3, <1>5, <1>6, <1>7

(* A sum may be taken over the images of an injective function instead.    *)
LEMMA SumImage ==
    ASSUME NEW S, IsFiniteSet(S), NEW q, NEW g, NEW f,
           \A x, y \in S : q[x] = q[y] => x = y,
           \A x \in S : g[q[x]] \in Int /\ f[x] = g[q[x]]
    PROVE  SumFunctionOnSet(f, S) = SumFunctionOnSet(g, {q[x] : x \in S})
<1> DEFINE Im(T) == {q[x] : x \in T}
           F(T) == SumFunctionOnSet(f, T)
           G(T) == SumFunctionOnSet(g, T)
           Q == {T \in SUBSET S : IsFiniteSet(Im(T)) /\ F(T) = G(Im(T))}
<1>1. {} \in Q
  <2>1. Im({}) = {}
    OBVIOUS
  <2> QED
    BY <2>1, SumEmpty, FS_EmptySet
<1>2. ASSUME NEW T \in SUBSET S, NEW x \in T, T \ {x} \in Q
      PROVE  T \in Q
  <2>1. IsFiniteSet(T)
    BY FS_Subset
  <2>2. F(T) = f[x] + F(T \ {x})
    BY <2>1, SumTake
  <2>3. Im(T) = Im(T \ {x}) \cup {q[x]} /\ Im(T) \ {q[x]} = Im(T \ {x}) /\ q[x] \in Im(T)
    OBVIOUS
  <2>4. IsFiniteSet(Im(T \ {x})) /\ F(T \ {x}) = G(Im(T \ {x}))
    BY <1>2
  <2>5. \A z \in Im(T) : g[z] \in Int
    OBVIOUS
  <2> HIDE DEF Im, F, G
  <2>6. IsFiniteSet(Im(T))
    <3>1. IsFiniteSet(Im(T \ {x}) \cup {q[x]})
      BY <2>4, FS_AddElement
    <3> QED
      BY <2>3, <3>1
  <2>7. G(Im(T)) = g[q[x]] + G(Im(T) \ {q[x]})
    BY <2>3, <2>5, <2>6, SumTake DEF G
  <2> QED
    BY <2>2, <2>3, <2>4, <2>6, <2>7
<1> HIDE DEF Q
<1>3. S \in Q
  BY <1>1, <1>2, SetGrowth
<1> QED
  BY <1>3 DEF Q

LEMMA SumTimes ==
    ASSUME NEW S, IsFiniteSet(S), NEW k \in Int, NEW f, NEW g,
           \A x \in S : f[x] \in Int /\ g[x] = k * f[x]
    PROVE  SumFunctionOnSet(g, S) = k * SumFunctionOnSet(f, S)
<1> DEFINE F(T) == SumFunctionOnSet(f, T)
           G(T) == SumFunctionOnSet(g, T)
           Q == {T \in SUBSET S : G(T) = k * F(T)}
<1>1. {} \in Q
  BY SumEmpty
<1>2. ASSUME NEW T \in SUBSET S, NEW x \in T, T \ {x} \in Q
      PROVE  T \in Q
  <2>1. IsFiniteSet(T) /\ IsFiniteSet(T \ {x})
    BY FS_Subset
  <2>2. \A y \in T : f[y] \in Int /\ g[y] \in Int
    OBVIOUS
  <2>3. F(T) = f[x] + F(T \ {x}) /\ G(T) = g[x] + G(T \ {x})
    BY <2>1, <2>2, SumTake
  <2>4. F(T \ {x}) \in Int
    BY <2>1, <2>2, SumType
  <2>5. G(T \ {x}) = k * F(T \ {x})
    BY <1>2
  <2>6. f[x] \in Int /\ g[x] = k * f[x]
    OBVIOUS
  <2> HIDE DEF F, G
  <2>7. \A a, b \in Int : k * a + k * b = k * (a + b)
    OBVIOUS
  <2>8. G(T) = k * F(T)
    BY <2>3, <2>4, <2>5, <2>6, <2>7
  <2> QED
    BY <2>8
<1> HIDE DEF Q
<1>3. S \in Q
  BY <1>1, <1>2, SetGrowth
<1> QED
  BY <1>3 DEF Q

-----------------------------------------------------------------------------
(* Costs *)

(* There is a largest weight: the sets of places with a larger weight than *)
(* one has are finite, so that one of them has no strictly smaller one.    *)
LEMMA TopIsLargest ==
    ASSUME TypeOK
    PROVE  Top \in Nat /\ \A r, c \in Lines : weight[r][c] <= Top
<1> DEFINE Place == Lines \X Lines
           At(x) == weight[x[1]][x[2]]
           Above(x) == {y \in Place : At(y) > At(x)}
           T == {Above(x) : x \in Place}
<1>1. n \in Nat \ {0} /\ \A x \in Place : At(x) \in Nat
  BY DEF TypeOK, Lines
<1>2. IsFiniteSet(Place)
  <2>1. IsFiniteSet(Lines)
    BY <1>1, FS_Interval DEF Lines
  <2> QED
    BY <2>1, FS_Product
<1>3. T \subseteq FiniteSubsetsOf(Place) /\ T # {}
  <2>1. \A S \in SUBSET Place : IsFiniteSet(S)
    BY <1>2, FS_Subset
  <2>2. <<1, 1>> \in Place
    BY <1>1 DEF Lines
  <2>3. \A x \in Place : Above(x) \in SUBSET Place
    OBVIOUS
  <2> HIDE DEF Place, Above
  <2>4. \A x \in Place : Above(x) \in FiniteSubsetsOf(Place)
    BY <2>1, <2>3 DEF FiniteSubsetsOf
  <2> QED
    BY <2>2, <2>4
<1>4. PICK x \in Place : \A y \in Place :
              ~ (<<Above(y), Above(x)>> \in StrictSubsetOrdering(Place))
  <2> HIDE DEF Place, Above
  <2>1. \E A \in T : \A B \in T : ~ (<<B, A>> \in StrictSubsetOrdering(Place))
    BY <1>2, <1>3, FS_StrictSubsetOrderingWellFounded, WFMin
  <2> QED
    BY <2>1
<1>5. \A y \in Place : At(y) <= At(x)
  <2> SUFFICES ASSUME NEW y \in Place, At(y) > At(x) PROVE FALSE
    BY <1>1
  <2>1. y \in Above(x) /\ y \notin Above(y)
    BY <1>1
  <2>2. Above(y) \subseteq Above(x)
    BY <1>1
  <2> HIDE DEF Above
  <2>3. Above(y) \in FiniteSubsetsOf(Place) /\ Above(x) \in FiniteSubsetsOf(Place)
    BY <1>3
  <2>4. <<Above(y), Above(x)>> \in StrictSubsetOrdering(Place)
    <3> DEFINE A == Above(x)
               B == Above(y)
    <3>1. A \in SUBSET Place /\ B \in SUBSET Place /\ B \subseteq A /\ B # A
      BY <2>1, <2>2, <2>3 DEF FiniteSubsetsOf
    <3> HIDE DEF A, B, Place
    <3>2. <<B, A>> \in (SUBSET Place) \X (SUBSET Place)
      BY <3>1
    <3>3. <<B, A>>[1] = B /\ <<B, A>>[2] = A
      OBVIOUS
    <3>4. <<B, A>> \in StrictSubsetOrdering(Place)
      BY <3>1, <3>2, <3>3 DEF StrictSubsetOrdering
    <3> QED
      BY <3>4 DEF A, B
  <2> QED
    BY <1>4, <2>4
<1>6. \E t \in {0} \cup {weight[r][c] : r, c \in Lines} :
         \A r, c \in Lines : weight[r][c] <= t
  <2>1. \A r, c \in Lines : <<r, c>> \in Place /\ At(<<r, c>>) = weight[r][c]
    OBVIOUS
  <2>2. \A r, c \in Lines : weight[r][c] <= At(x)
    BY <1>5, <2>1
  <2>3. At(x) \in {weight[r][c] : r, c \in Lines}
    OBVIOUS
  <2> DEFINE t == At(x)
  <2>4. t \in {0} \cup {weight[r][c] : r, c \in Lines} /\ \A r, c \in Lines : weight[r][c] <= t
    BY <2>2, <2>3
  <2> HIDE DEF t
  <2> QED
    BY <2>4
<1> DEFINE W == {0} \cup {weight[r][c] : r, c \in Lines}
           Bound(t) == \A r, c \in Lines : weight[r][c] <= t
<1>7. W \subseteq Nat
  BY DEF TypeOK
<1>8. Top = CHOOSE t \in W : Bound(t)
  BY DEF Top
<1>9. \E t \in W : Bound(t)
  BY <1>6
<1> HIDE DEF W, Bound
<1>10. Top \in W /\ Bound(Top)
  BY <1>8, <1>9
<1> QED
  BY <1>7, <1>10 DEF Bound

LEMMA LinesAndColumns ==
    ASSUME TypeOK
    PROVE  /\ Lines \subseteq Columns /\ 0 \in Columns
           /\ \A c \in Columns : c \in Lines <=> c # 0
           /\ Columns \subseteq Nat
<1>1. n \in Nat \ {0}
  BY DEF TypeOK
<1> QED
  BY <1>1 DEF Lines, Columns

LEMMA CostType ==
    ASSUME TypeOK, NEW r \in Lines, NEW c \in Lines
    PROVE  Cost(r, c) \in Nat
<1>1. weight[r][c] \in Nat /\ Top \in Nat /\ weight[r][c] <= Top
  BY TopIsLargest DEF TypeOK
<1> QED
  BY <1>1 DEF Cost

LEMMA SlackType ==
    ASSUME TypeOK, NEW r \in Lines, NEW c \in Lines
    PROVE  /\ Slack(r, c) \in Int
           /\ Slack(r, c) = Cost(r, c) - u[r] - v[c]
           /\ Cost(r, c) \in Int /\ u[r] \in Int /\ v[c] \in Int
<1>1. u[r] \in Int /\ v[c] \in Int
  BY LinesAndColumns DEF TypeOK
<1>2. Cost(r, c) \in Int
  BY CostType
<1> QED
  BY <1>1, <1>2 DEF Slack

(* The input stays, and so do the costs. *)
LEMMA InputStays ==
    ASSUME UNCHANGED input
    PROVE  /\ Lines' = Lines /\ Columns' = Columns
           /\ Top' = Top /\ weight' = weight
BY DEF input, Lines, Columns, Top

-----------------------------------------------------------------------------
(* The inductive invariant *)

(* While a place is searched: each column passed has a row, and a column   *)
(* that is open knows the least slack it has to a row of those passed, and *)
(* which one that is.                                                      *)
Searching ==
    phase = "search" =>
        /\ j0 \notin used /\ 0 \in Passed /\ (j0 = 0 => used = {})
        /\ \A d \in Passed : p[d] # 0
        /\ j0 # 0 => \A c \in Columns \ used :
              /\ way[c] \in used
              /\ minv[c] = Slack(p[way[c]], c)
              /\ \A d \in used : minv[c] <= Slack(p[d], c)

Shifting == phase = "shift" => j0 # 0 /\ 0 \in used

(* The columns were reached one after another, each from an earlier one    *)
(* whose row goes there without slack; those that the shift has not come   *)
(* to yet still have these rows.                                           *)
ChainBy(rank) ==
    /\ \A c \in Passed \ {0} :
          /\ way[c] \in used
          /\ rank[way[c]] < rank[c]
          /\ rank[c] <= rank[j0] => p[way[c]] # 0 /\ Slack(p[way[c]], c) = 0
    /\ phase = "search" => \A c \in Passed : rank[c] <= rank[j0]

Chain == \E rank \in [Columns -> Nat] : ChainBy(rank)

(* Rows after the current one have no place yet, and the current one       *)
(* waits.                                                                  *)
Waiting ==
    /\ \A c \in Columns : p[c] <= i
    /\ phase # "done" => p[0] = i
    /\ phase = "done" => j0 = 0 /\ i = n

HungarianInv ==
    /\ TypeOK
    /\ Searching /\ Shifting /\ Chain
    /\ Feasible /\ Tight /\ Placed /\ Waiting

-----------------------------------------------------------------------------
(* The search *)

(* The slack a column is known to have is the least it has to a row of the *)
(* columns passed, and it is the slack to the one it is reached from.      *)
LEMMA LeastSlack ==
    ASSUME HungarianInv, phase = "search", NEW c \in Open
    PROVE  LET from == IF Better(c) THEN j0 ELSE way[c] IN
           /\ c \in Lines
           /\ from \in Passed /\ from \in Columns
           /\ p[from] \in Lines /\ Least(c) = Slack(p[from], c)
           /\ Least(c) \in Nat
           /\ \A d \in Passed : p[d] \in Lines /\ Least(c) <= Slack(p[d], c)
<1> USE DEF HungarianInv
<1>1. c \in Lines /\ c \in Columns /\ c \notin used
  BY LinesAndColumns DEF Open, Passed, Searching
<1>2. \A d \in Passed : d \in Columns /\ p[d] \in Lines
  BY LinesAndColumns DEF Searching, Passed, TypeOK
<1>3. \A d \in Passed : Slack(p[d], c) \in Nat
  BY <1>1, <1>2, SlackType DEF Feasible
<1>4. j0 \in Passed /\ Passed = used \cup {j0}
  BY DEF Passed
<1>5. CASE Better(c)
  <2>1. Least(c) = Slack(p[j0], c)
    BY <1>5 DEF Least
  <2>2. \A d \in used : Slack(p[j0], c) <= Slack(p[d], c)
    <3>1. CASE j0 = 0
      BY <3>1 DEF Searching
    <3>2. CASE j0 # 0
      <4>1. Slack(p[j0], c) < minv[c]
        BY <1>5, <3>2 DEF Better
      <4>2. \A d \in used : minv[c] <= Slack(p[d], c)
        BY <1>1, <3>2 DEF Searching
      <4>3. minv[c] \in Int
        BY <1>1 DEF TypeOK
      <4> QED
        BY <1>3, <1>4, <4>1, <4>2, <4>3
    <3> QED
      BY <3>1, <3>2
  <2>3. \A d \in Passed : Slack(p[j0], c) <= Slack(p[d], c)
    BY <1>3, <1>4, <2>2
  <2> QED
    BY <1>1, <1>2, <1>3, <1>4, <1>5, <2>1, <2>3
<1>6. CASE ~Better(c)
  <2>1. j0 # 0 /\ ~(Slack(p[j0], c) < minv[c]) /\ Least(c) = minv[c]
    BY <1>6 DEF Better, Least
  <2>2. /\ way[c] \in used
        /\ minv[c] = Slack(p[way[c]], c)
        /\ \A d \in used : minv[c] <= Slack(p[d], c)
    BY <1>1, <2>1 DEF Searching
  <2>3. way[c] \in Passed /\ minv[c] \in Nat
    BY <1>3, <1>4, <2>2
  <2>4. minv[c] <= Slack(p[j0], c)
    BY <1>3, <1>4, <2>1, <2>3
  <2>5. \A d \in Passed : minv[c] <= Slack(p[d], c)
    BY <1>4, <2>2, <2>4
  <2> QED
    BY <1>1, <1>2, <1>6, <2>1, <2>2, <2>3, <2>5
<1> QED
  BY <1>5, <1>6

(* Potentials as a turn of the search leaves them, after an open column    *)
(* with the least slack.                                                   *)
Raised(delta) ==
    /\ u' = [r \in Columns |-> IF \E d \in Passed : p[d] = r THEN u[r] + delta ELSE u[r]]
    /\ v' = [d \in Columns |-> IF d \in Passed THEN v[d] - delta ELSE v[d]]
    /\ UNCHANGED input

(* The slack a row and a column have after a step on the same input.       *)
SlackAfter(r, c) == Top - weight[r][c] - u'[r] - v'[c]

(* What that does to slacks. *)
LEMMA RaisedSlack ==
    ASSUME TypeOK, NEW delta \in Int, Raised(delta), NEW r \in Lines, NEW c \in Lines
    PROVE  LET from == \E d \in Passed : p[d] = r IN
           SlackAfter(r, c) = IF from /\ c \notin Passed THEN Slack(r, c) - delta
                          ELSE IF ~from /\ c \in Passed THEN Slack(r, c) + delta
                          ELSE Slack(r, c)
<1> DEFINE from == \E d \in Passed : p[d] = r
           k == Cost(r, c)
<1>1. r \in Columns /\ c \in Columns
  BY LinesAndColumns
<1>2. /\ u'[r] = IF from THEN u[r] + delta ELSE u[r]
      /\ v'[c] = IF c \in Passed THEN v[c] - delta ELSE v[c]
  BY <1>1 DEF Raised
<1>3. SlackAfter(r, c) = k - u'[r] - v'[c]
  BY DEF SlackAfter, Cost
<1>4. Slack(r, c) = k - u[r] - v[c] /\ k \in Int /\ u[r] \in Int /\ v[c] \in Int
  BY SlackType
<1> HIDE DEF from, k
<1>5. SlackAfter(r, c) = IF from /\ c \notin Passed THEN Slack(r, c) - delta
                     ELSE IF ~from /\ c \in Passed THEN Slack(r, c) + delta
                     ELSE Slack(r, c)
  BY <1>2, <1>3, <1>4
<1> QED
  BY <1>5 DEF from

(* One turn of the search that goes on to column c. *)
SearchTo(c, delta) ==
    /\ c \in Open /\ Nearest(c) /\ delta = Least(c)
    /\ phase = "search"
    /\ Raised(delta)
    /\ minv' = [d \in Columns |-> IF d \in Open THEN Least(d) - delta ELSE minv[d]]
    /\ way' = [d \in Columns |-> IF d \in Open /\ Better(d) THEN j0 ELSE way[d]]
    /\ used' = Passed
    /\ j0' = c
    /\ phase' = IF p[c] = 0 THEN "shift" ELSE "search"
    /\ UNCHANGED <<i, p>>

LEMMA SearchToSome ==
    ASSUME Search
    PROVE  \E c \in Columns : \E delta : SearchTo(c, delta)
BY DEF Search, SearchTo, Raised, Open

(* The least slack of all takes nothing from any that is less. *)
LEMMA SearchFacts ==
    ASSUME HungarianInv, NEW c \in Columns, NEW delta, SearchTo(c, delta)
    PROVE  /\ c \in Lines /\ c \notin Passed /\ c # 0
           /\ delta \in Nat
           /\ Passed \subseteq Columns /\ 0 \in Passed /\ j0 \in Passed
           /\ Columns' = Columns /\ Lines' = Lines
           /\ \A d \in Passed : p[d] \in Lines
           /\ \A d \in Open :
                 /\ d \in Lines
                 /\ way'[d] \in Passed
                 /\ Least(d) = Slack(p[way'[d]], d)
                 /\ Least(d) \in Nat /\ delta <= Least(d)
                 /\ \A e \in Passed : Least(d) <= Slack(p[e], d)
           /\ \A d \in Passed : way'[d] = way[d]
           /\ \A r, d \in Lines :
                 /\ (\E e \in Passed : p[e] = r) /\ d \notin Passed =>
                       SlackAfter(r, d) = Slack(r, d) - delta
                 /\ (~\E e \in Passed : p[e] = r) /\ d \in Passed =>
                       SlackAfter(r, d) = Slack(r, d) + delta
                 /\ ((\E e \in Passed : p[e] = r) <=> d \in Passed) =>
                       SlackAfter(r, d) = Slack(r, d)
                 /\ Slack(r, d) \in Nat
<1> USE DEF HungarianInv
<1>1. phase = "search" /\ c \in Open
  BY DEF SearchTo
<1>2. c \in Lines /\ delta \in Nat
  BY <1>1, LeastSlack DEF SearchTo
<1>3. /\ \A d \in Passed : p[d] \in Lines
      /\ Passed \subseteq Columns /\ 0 \in Passed /\ j0 \in Passed
  BY <1>1, LeastSlack DEF Passed, Searching, TypeOK
<1>4. c \notin Passed /\ c # 0
  BY <1>1, <1>3 DEF Open
<1>5. ASSUME NEW d \in Open
      PROVE  /\ d \in Lines
             /\ way'[d] \in Passed
             /\ Least(d) = Slack(p[way'[d]], d)
             /\ Least(d) \in Nat /\ delta <= Least(d)
             /\ \A e \in Passed : Least(d) <= Slack(p[e], d)
  <2>1. d \in Columns
    BY DEF Open
  <2>2. way'[d] = IF Better(d) THEN j0 ELSE way[d]
    BY <1>5, <2>1 DEF SearchTo
  <2>3. delta <= Least(d)
    <3>1. Least(c) \in Nat /\ Least(d) \in Nat
      BY <1>1, LeastSlack
    <3>2. Least(c) < Least(d) \/ Least(c) = Least(d)
      BY DEF SearchTo, Nearest
    <3>3. delta = Least(c)
      BY DEF SearchTo
    <3> QED
      BY <3>1, <3>2, <3>3
  <2> QED
    BY <1>1, <2>2, <2>3, LeastSlack
<1>6. ASSUME NEW d \in Passed PROVE way'[d] = way[d]
  BY <1>3, <1>6 DEF SearchTo, Open
<1>7. ASSUME NEW r \in Lines, NEW d \in Lines
      PROVE  /\ (\E e \in Passed : p[e] = r) /\ d \notin Passed =>
                   SlackAfter(r, d) = Slack(r, d) - delta
             /\ (~\E e \in Passed : p[e] = r) /\ d \in Passed =>
                   SlackAfter(r, d) = Slack(r, d) + delta
             /\ ((\E e \in Passed : p[e] = r) <=> d \in Passed) =>
                   SlackAfter(r, d) = Slack(r, d)
             /\ Slack(r, d) \in Nat
  <2> DEFINE from == \E e \in Passed : p[e] = r
  <2>1. Slack(r, d) \in Nat
    BY SlackType DEF Feasible
  <2>2. delta \in Int /\ Raised(delta)
    BY <1>2 DEF SearchTo
  <2>3. SlackAfter(r, d) = IF from /\ d \notin Passed THEN Slack(r, d) - delta
                       ELSE IF ~from /\ d \in Passed THEN Slack(r, d) + delta
                       ELSE Slack(r, d)
    BY <2>2, RaisedSlack
  <2> HIDE DEF from
  <2>4. /\ from /\ d \notin Passed => SlackAfter(r, d) = Slack(r, d) - delta
        /\ ~from /\ d \in Passed => SlackAfter(r, d) = Slack(r, d) + delta
        /\ (from <=> d \in Passed) => SlackAfter(r, d) = Slack(r, d)
    BY <2>3
  <2> QED
    BY <2>1, <2>4 DEF from
<1>8. Columns' = Columns /\ Lines' = Lines
  BY InputStays DEF SearchTo, Raised
<1> QED
  BY <1>2, <1>3, <1>4, <1>5, <1>6, <1>7, <1>8

LEMMA SearchTypes ==
    ASSUME HungarianInv, NEW c \in Columns, NEW delta, SearchTo(c, delta)
    PROVE  TypeOK'
<1> USE DEF HungarianInv
<1>1. delta \in Int /\ \A d \in Open : Least(d) \in Int
  BY SearchFacts
<1>2. Columns' = Columns /\ Lines' = Lines /\ UNCHANGED input
  BY SearchFacts DEF SearchTo, Raised
<1>3. u' \in [Columns -> Int] /\ v' \in [Columns -> Int]
  <2>1. \A d \in Columns : /\ u[d] \in Int /\ v[d] \in Int
                           /\ u[d] + delta \in Int /\ v[d] - delta \in Int
    BY <1>1 DEF TypeOK
  <2> QED
    BY <2>1 DEF SearchTo, Raised
<1>4. minv' \in [Columns -> Int]
  <2>1. \A d \in Columns : minv[d] \in Int
    BY DEF TypeOK
  <2>2. \A d \in Open : Least(d) - delta \in Int
    BY <1>1
  <2> QED
    BY <2>1, <2>2 DEF SearchTo
<1>5. way' \in [Columns -> Columns]
  BY DEF SearchTo, TypeOK
<1>6. used' \subseteq Columns /\ j0' \in Columns /\ phase' \in {"search", "shift", "done"}
  BY SearchFacts DEF SearchTo
<1>7. UNCHANGED <<n, weight, i, p>>
  BY DEF SearchTo, Raised, input
<1> QED
  BY <1>2, <1>3, <1>4, <1>5, <1>6, <1>7 DEF TypeOK

LEMMA SearchKeepsFeasible ==
    ASSUME HungarianInv, NEW c \in Columns, NEW delta, SearchTo(c, delta)
    PROVE  Feasible' /\ Tight' /\ Placed' /\ Waiting'
<1> USE DEF HungarianInv
<1>1. \A r, d \in Lines : SlackAfter(r, d) >= 0
  <2> SUFFICES ASSUME NEW r \in Lines, NEW d \in Lines PROVE SlackAfter(r, d) >= 0
    OBVIOUS
  <2>1. Slack(r, d) \in Nat /\ delta \in Nat
    BY SearchFacts
  <2>2. ASSUME \E e \in Passed : p[e] = r, d \notin Passed
        PROVE  SlackAfter(r, d) >= 0
    <3>1. PICK e \in Passed : p[e] = r
      BY <2>2
    <3>2. d \in Open
      BY <2>2, LinesAndColumns DEF Open
    <3>3. Least(d) <= Slack(r, d) /\ delta <= Least(d) /\ Least(d) \in Nat
      BY <3>1, <3>2, SearchFacts
    <3>4. SlackAfter(r, d) = Slack(r, d) - delta
      BY <2>2, SearchFacts
    <3> QED
      BY <2>1, <3>3, <3>4
  <2>3. CASE (~\E e \in Passed : p[e] = r) /\ d \in Passed
    <3>1. SlackAfter(r, d) = Slack(r, d) + delta
      BY <2>3, SearchFacts
    <3> QED
      BY <2>1, <3>1
  <2>4. CASE (\E e \in Passed : p[e] = r) <=> d \in Passed
    <3>1. SlackAfter(r, d) = Slack(r, d)
      BY <2>4, SearchFacts
    <3> QED
      BY <2>1, <3>1
  <2> QED
    BY <2>2, <2>3, <2>4
<1>2. Top' = Top /\ weight' = weight /\ Lines' = Lines /\ Columns' = Columns
  BY InputStays DEF SearchTo, Raised
<1>3. Feasible'
  BY <1>1, <1>2 DEF Feasible, Slack, Cost, SlackAfter
<1>4. UNCHANGED <<p, i>>
  BY DEF SearchTo
<1>5. phase = "search" /\ Hole = {}
  BY DEF SearchTo, Hole
<1>6. Hole' = {} \/ (Hole' = {c} /\ p[c] = 0)
  BY DEF SearchTo, Hole
<1>7. Tight'
  <2>1. ASSUME NEW d \in Lines, p[d] # 0
        PROVE  SlackAfter(p[d], d) = 0
    <3>1. p[d] \in Lines /\ d \in Columns
      BY <2>1, LinesAndColumns DEF TypeOK
    <3>2. Slack(p[d], d) = 0
      BY <1>5, <2>1 DEF Tight
    <3>3. (\E e \in Passed : p[e] = p[d]) <=> d \in Passed
      <4>1. \A e \in Passed : p[e] = p[d] => e = d
        BY <1>5, <2>1, <3>1, SearchFacts DEF Placed
      <4> QED
        BY <4>1
    <3>4. SlackAfter(p[d], d) = Slack(p[d], d)
      BY <2>1, <3>1, <3>3, SearchFacts
    <3> QED
      BY <3>2, <3>4
  <2> QED
    BY <1>2, <1>4, <2>1 DEF Tight, Slack, Cost, SlackAfter
<1>8. Placed'
  <2>1. i \in Nat
    BY DEF TypeOK, Lines
  <2>2. \A r \in 1..i : r # 0 /\ \E d \in Columns : p[d] = r
    BY <1>5, <2>1 DEF Placed
  <2>3. \A r \in 1..i : \E d \in Columns \ Hole' : p[d] = r
    BY <1>6, <2>2
  <2>4. \A d, e \in Columns \ Hole' : p[d] = p[e] /\ p[d] # 0 => d = e
    BY <1>5, <1>6 DEF Placed
  <2> QED
    BY <1>2, <1>4, <2>3, <2>4 DEF Placed, Hole
<1>9. Waiting'
  <2>1. phase' # "done"
    BY DEF SearchTo
  <2> QED
    BY <1>2, <1>4, <1>5, <2>1 DEF Waiting
<1> QED
  BY <1>3, <1>7, <1>8, <1>9

LEMMA SearchKeepsSearching ==
    ASSUME HungarianInv, NEW c \in Columns, NEW delta, SearchTo(c, delta)
    PROVE  Searching' /\ Shifting'
<1> USE DEF HungarianInv
<1>1. /\ Top' = Top /\ weight' = weight /\ Columns' = Columns
      /\ p' = p /\ used' = Passed /\ j0' = c
  BY InputStays DEF SearchTo, Raised
<1>2. c # 0 /\ c \notin Passed /\ 0 \in Passed
  BY SearchFacts
<1>3. ASSUME phase' = "search" PROVE p[c] # 0
  BY <1>3 DEF SearchTo
<1>4. ASSUME NEW d \in Columns \ Passed
      PROVE  /\ way'[d] \in Passed
             /\ minv'[d] = SlackAfter(p[way'[d]], d)
             /\ \A e \in Passed : minv'[d] <= SlackAfter(p[e], d)
  <2>1. d \in Open
    BY DEF Open
  <2>2. minv'[d] = Least(d) - delta
    BY <2>1 DEF SearchTo
  <2>3. /\ d \in Lines /\ d \notin Passed
        /\ way'[d] \in Passed
        /\ Least(d) = Slack(p[way'[d]], d)
        /\ Least(d) \in Nat /\ delta \in Nat
        /\ \A e \in Passed : Least(d) <= Slack(p[e], d)
    BY <2>1, SearchFacts
  <2>4. ASSUME NEW e \in Passed
        PROVE  SlackAfter(p[e], d) = Slack(p[e], d) - delta /\ Slack(p[e], d) \in Nat
    <3>1. p[e] \in Lines
      BY SearchFacts
    <3> QED
      BY <2>3, <3>1, SearchFacts
  <2>5. \A e \in Passed : minv'[d] <= SlackAfter(p[e], d)
    BY <2>2, <2>3, <2>4
  <2>6. minv'[d] = SlackAfter(p[way'[d]], d)
    BY <2>2, <2>3, <2>4
  <2> QED
    BY <2>3, <2>5, <2>6
<1>5. ASSUME phase' = "search"
      PROVE  /\ c \notin Passed /\ 0 \in Passed
             /\ \A d \in Passed \cup {c} : p[d] # 0
  BY <1>2, <1>3, <1>5, SearchFacts, LinesAndColumns
<1>6. Passed' = Passed \cup {c}
  BY <1>1 DEF Passed
<1>7. Searching'
  BY <1>1, <1>2, <1>4, <1>5, <1>6 DEF Searching, Slack, Cost, SlackAfter
<1>8. Shifting'
  BY <1>1, <1>2 DEF Shifting
<1> QED
  BY <1>7, <1>8

LEMMA SearchKeepsChain ==
    ASSUME HungarianInv, NEW c \in Columns, NEW delta, SearchTo(c, delta)
    PROVE  Chain'
<1> USE DEF HungarianInv
<1>1. /\ Top' = Top /\ weight' = weight /\ Columns' = Columns
      /\ p' = p /\ used' = Passed /\ j0' = c
  BY InputStays DEF SearchTo, Raised
<1>2. /\ c # 0 /\ c \notin Passed /\ 0 \in Passed /\ c \in Lines
      /\ Passed \subseteq Columns /\ j0 \in Passed /\ used \subseteq Passed
  BY SearchFacts DEF Passed
<1>3. PICK rank \in [Columns -> Nat] : ChainBy(rank)
  BY DEF Chain
<1>4. phase = "search"
  BY DEF SearchTo
<1>5. \A d \in Passed : rank[d] <= rank[j0]
  BY <1>3, <1>4 DEF ChainBy
<1>6. PICK later \in [Columns -> Nat] :
         /\ later[c] = rank[j0] + 1
         /\ \A d \in Passed : later[d] = rank[d] /\ rank[d] \in Nat
  <2> DEFINE f == [rank EXCEPT ![c] = rank[j0] + 1]
  <2>1. rank[j0] + 1 \in Nat
    BY <1>2
  <2>2. f \in [Columns -> Nat] /\ f[c] = rank[j0] + 1 /\ \A d \in Passed : f[d] = rank[d]
    BY <1>2, <2>1
  <2>3. \A d \in Passed : rank[d] \in Nat
    BY <1>2
  <2> QED
    BY <2>2, <2>3
<1>7. ASSUME NEW d \in Passed \ {0}
      PROVE  /\ way'[d] \in Passed
             /\ rank[way'[d]] < rank[d]
             /\ p[way'[d]] # 0 /\ SlackAfter(p[way'[d]], d) = 0
  <2>1. way'[d] = way[d] /\ rank[d] <= rank[j0]
    BY <1>5, SearchFacts
  <2>2. way[d] \in used /\ rank[way[d]] < rank[d] /\ Slack(p[way[d]], d) = 0
    BY <1>3, <2>1 DEF ChainBy
  <2>3. p[way[d]] \in Lines /\ d \in Lines
    BY <1>2, <2>2, SearchFacts, LinesAndColumns
  <2>4. SlackAfter(p[way[d]], d) = Slack(p[way[d]], d)
    BY <1>2, <2>2, <2>3, SearchFacts
  <2> QED
    BY <1>2, <2>1, <2>2, <2>3, <2>4, LinesAndColumns
<1>8. /\ way'[c] \in Passed
      /\ p[way'[c]] # 0 /\ SlackAfter(p[way'[c]], c) = 0
  <2>1. c \in Open /\ delta = Least(c)
    BY DEF SearchTo
  <2>2. way'[c] \in Passed /\ delta = Slack(p[way'[c]], c) /\ delta \in Nat
    BY <2>1, SearchFacts
  <2>3. p[way'[c]] \in Lines
    BY <2>2, SearchFacts
  <2>4. SlackAfter(p[way'[c]], c) = Slack(p[way'[c]], c) - delta
    BY <1>2, <2>2, <2>3, SearchFacts
  <2>5. p[way'[c]] # 0
    BY <2>3, LinesAndColumns
  <2> QED
    BY <2>2, <2>4, <2>5
<1>9. Passed' = Passed \cup {c}
  BY <1>1 DEF Passed
<1>10. \A d \in Passed' : later[d] \in Nat /\ later[d] <= later[c]
  BY <1>2, <1>5, <1>6, <1>9
<1>11. ASSUME NEW d \in Passed' \ {0}
       PROVE  /\ way'[d] \in used'
              /\ later[way'[d]] < later[d]
              /\ p[way'[d]] # 0 /\ SlackAfter(p[way'[d]], d) = 0
  <2>1. CASE d \in Passed
    BY <1>1, <1>6, <1>7, <2>1
  <2>2. CASE d = c
    <3>1. later[way'[c]] = rank[way'[c]] /\ rank[way'[c]] <= rank[j0]
      BY <1>5, <1>6, <1>8
    <3>2. rank[way'[c]] \in Nat /\ rank[j0] \in Nat
      BY <1>2, <1>6, <1>8
    <3> QED
      BY <1>1, <1>6, <1>8, <2>2, <3>1, <3>2
  <2> QED
    BY <1>9, <2>1, <2>2
<1>12. ChainBy(later)'
  BY <1>1, <1>10, <1>11 DEF ChainBy, Slack, Cost, SlackAfter, Passed
<1> QED
  BY <1>1, <1>12 DEF Chain

-----------------------------------------------------------------------------
(* The shift *)

(* The rows as they are when column j0 has taken over one, which leaves    *)
(* the column it was reached from to be filled.                            *)
Moved == [p EXCEPT ![j0] = p[way[j0]]]

LEMMA ShiftMoves ==
    ASSUME HungarianInv, phase = "shift"
    PROVE  /\ j0 \in Lines /\ way[j0] \in used /\ way[j0] # j0 /\ way[j0] \in Columns
           /\ Moved \in [Columns -> Columns]
           /\ Moved[j0] = p[way[j0]] /\ \A d \in Columns \ {j0} : Moved[d] = p[d]
           /\ \A d \in Lines \ {way[j0]} : Moved[d] # 0 => Slack(Moved[d], d) = 0
           /\ \A r \in 1..i : \E d \in Columns \ {way[j0]} : Moved[d] = r
           /\ \A d, e \in Columns \ {way[j0]} : Moved[d] = Moved[e] /\ Moved[d] # 0 => d = e
           /\ \A d \in Columns : Moved[d] <= i
<1> USE DEF HungarianInv
<1> DEFINE k == way[j0]
<1>1. j0 \in Columns /\ j0 # 0 /\ j0 \in Passed \ {0} /\ j0 \in Lines
  BY LinesAndColumns DEF TypeOK, Shifting, Passed
<1>2. PICK rank \in [Columns -> Nat] : ChainBy(rank)
  BY DEF Chain
<1>3. k \in used /\ k \in Columns /\ rank[k] < rank[j0] /\ p[k] # 0 /\ Slack(p[k], j0) = 0
  BY <1>1, <1>2 DEF ChainBy, TypeOK
<1>4. k # j0
  BY <1>1, <1>3
<1>5. Hole = {j0}
  BY DEF Hole
<1> HIDE DEF k
<1>6. Moved[j0] = p[k] /\ \A d \in Columns \ {j0} : Moved[d] = p[d]
  BY <1>1 DEF Moved, TypeOK, k
<1>7. Moved \in [Columns -> Columns]
  BY <1>1, <1>3 DEF Moved, TypeOK, k
<1>8. ASSUME NEW d \in Lines \ {k}, Moved[d] # 0
      PROVE  Slack(Moved[d], d) = 0
  <2>1. CASE d = j0
    BY <1>3, <1>6, <2>1
  <2>2. CASE d # j0
    <3>1. Moved[d] = p[d]
      BY <1>6, <2>2, LinesAndColumns
    <3> QED
      BY <1>5, <1>8, <2>2, <3>1 DEF Tight
  <2> QED
    BY <2>1, <2>2
<1>9. ASSUME NEW r \in 1..i
      PROVE  \E d \in Columns \ {k} : Moved[d] = r
  <2>1. PICK d \in Columns \ {j0} : p[d] = r
    BY <1>5 DEF Placed
  <2>2. CASE d = k
    BY <1>1, <1>4, <1>6, <2>1, <2>2
  <2>3. CASE d # k
    BY <1>6, <2>1, <2>3
  <2> QED
    BY <2>2, <2>3
<1>10. ASSUME NEW d \in Columns \ {k}, NEW e \in Columns \ {k},
              Moved[d] = Moved[e], Moved[d] # 0
       PROVE  d = e
  <2>1. \A x, y \in Columns \ {j0} : p[x] = p[y] /\ p[x] # 0 => x = y
    BY <1>5 DEF Placed
  <2>2. CASE d = j0 /\ e # j0
    BY <1>3, <1>4, <1>6, <1>10, <2>1, <2>2
  <2>3. CASE d # j0 /\ e = j0
    BY <1>3, <1>4, <1>6, <1>10, <2>1, <2>3
  <2>4. CASE d # j0 /\ e # j0
    BY <1>6, <1>10, <2>1, <2>4
  <2> QED
    BY <2>2, <2>3, <2>4
<1>11. \A d \in Columns : Moved[d] <= i
  BY <1>3, <1>6 DEF Waiting
<1> QED
  BY <1>1, <1>3, <1>4, <1>6, <1>7, <1>8, <1>9, <1>10, <1>11 DEF k

LEMMA ShiftOn ==
    ASSUME HungarianInv, Shift, ~LastShift
    PROVE  HungarianInv'
<1> USE DEF HungarianInv
<1> DEFINE k == way[j0]
<1>1. /\ phase = "shift" /\ phase' = "shift" /\ j0' = k /\ k # 0
      /\ p' = Moved
      /\ UNCHANGED <<n, weight, i, u, v, way, minv, used>>
  BY DEF Shift, LastShift, Moved, input
<1>2. /\ j0 \in Lines /\ k \in used /\ k # j0 /\ k \in Columns
      /\ Moved \in [Columns -> Columns]
      /\ Moved[j0] = p[k] /\ \A d \in Columns \ {j0} : Moved[d] = p[d]
      /\ \A d \in Lines \ {k} : Moved[d] # 0 => Slack(Moved[d], d) = 0
      /\ \A r \in 1..i : \E d \in Columns \ {k} : Moved[d] = r
      /\ \A d, e \in Columns \ {k} : Moved[d] = Moved[e] /\ Moved[d] # 0 => d = e
      /\ \A d \in Columns : Moved[d] <= i
  BY <1>1, ShiftMoves
<1>3. Top' = Top /\ Columns' = Columns /\ Lines' = Lines
  BY <1>1, InputStays DEF input
<1> HIDE DEF k
<1>4. TypeOK'
  BY <1>1, <1>2, <1>3 DEF TypeOK
<1>5. Hole' = {k}
  BY <1>1 DEF Hole
<1>6. Searching' /\ Shifting'
  BY <1>1 DEF Searching, Shifting
<1>7. Feasible'
  BY <1>1, <1>3 DEF Feasible, Slack, Cost
<1>8. Tight'
  BY <1>1, <1>2, <1>3, <1>5 DEF Tight, Slack, Cost
<1>9. Placed'
  BY <1>1, <1>2, <1>3, <1>5 DEF Placed
<1>10. Waiting'
  <2>1. p'[0] = i
    BY <1>1, <1>2, LinesAndColumns DEF Waiting
  <2> QED
    BY <1>1, <1>2, <1>3, <2>1 DEF Waiting
<1>11. Chain'
  <2>1. PICK rank \in [Columns -> Nat] : ChainBy(rank)
    BY DEF Chain
  <2>2. rank[k] < rank[j0] /\ rank[k] \in Nat /\ rank[j0] \in Nat
    <3>1. j0 \in Passed \ {0} /\ j0 \in Columns
      BY <1>2, LinesAndColumns DEF Passed
    <3> QED
      BY <1>2, <2>1, <3>1 DEF ChainBy, k
  <2>3. Passed' \subseteq Passed /\ Passed \subseteq Columns
    BY <1>1, <1>2 DEF Passed, TypeOK
  <2>4. ASSUME NEW c \in Passed' \ {0}
        PROVE  /\ way[c] \in used
               /\ rank[way[c]] < rank[c]
               /\ rank[c] <= rank[k] => Moved[way[c]] # 0 /\ Slack(Moved[way[c]], c) = 0
    <3>1. /\ way[c] \in used
          /\ rank[way[c]] < rank[c]
          /\ rank[c] <= rank[j0] => p[way[c]] # 0 /\ Slack(p[way[c]], c) = 0
      BY <2>1, <2>3 DEF ChainBy
    <3>2. ASSUME rank[c] <= rank[k]
          PROVE  Moved[way[c]] # 0 /\ Slack(Moved[way[c]], c) = 0
      <4>1. way[c] \in Columns /\ rank[way[c]] \in Nat /\ rank[c] \in Nat
        BY <2>3, <3>1 DEF TypeOK
      <4>2. way[c] # j0 /\ rank[c] <= rank[j0]
        BY <2>2, <3>1, <3>2, <4>1
      <4>3. Moved[way[c]] = p[way[c]]
        BY <1>2, <4>1, <4>2
      <4> QED
        BY <3>1, <4>2, <4>3
    <3> QED
      BY <3>1, <3>2
  <2>5. ChainBy(rank)'
    BY <1>1, <1>3, <2>4 DEF ChainBy, Slack, Cost
  <2> QED
    BY <1>3, <2>5 DEF Chain
<1> QED
  BY <1>4, <1>6, <1>7, <1>8, <1>9, <1>10, <1>11

(* The last turn: the row that waited has a place, and the next one waits. *)
LEMMA ShiftEnds ==
    ASSUME HungarianInv, Shift, LastShift
    PROVE  HungarianInv'
<1> USE DEF HungarianInv
<1>1. /\ phase = "shift" /\ j0' = 0 /\ used' = {} /\ way[j0] = 0
      /\ p' = [p EXCEPT ![j0] = p[way[j0]], ![0] = IF i < n THEN i + 1 ELSE p[0]]
      /\ i' = (IF i < n THEN i + 1 ELSE i)
      /\ phase' = (IF i < n THEN "search" ELSE "done")
      /\ minv' = [c \in Columns |-> 0]
      /\ UNCHANGED <<n, weight, u, v, way>>
  BY DEF Shift, LastShift, input
<1>2. /\ j0 \in Lines
      /\ Moved \in [Columns -> Columns]
      /\ Moved[j0] = p[0] /\ \A d \in Columns \ {j0} : Moved[d] = p[d]
      /\ \A d \in Lines \ {0} : Moved[d] # 0 => Slack(Moved[d], d) = 0
      /\ \A r \in 1..i : \E d \in Columns \ {0} : Moved[d] = r
      /\ \A d, e \in Columns \ {0} : Moved[d] = Moved[e] /\ Moved[d] # 0 => d = e
      /\ \A d \in Columns : Moved[d] <= i
  BY <1>1, ShiftMoves
<1>3. Top' = Top /\ Columns' = Columns /\ Lines' = Lines
  BY <1>1, InputStays DEF input
<1>4. /\ n \in Nat \ {0} /\ i \in Nat /\ 1 <= i /\ i <= n /\ Lines = Columns \ {0}
      /\ 0 \in Columns
  <2>1. n \in Nat \ {0} /\ i \in 1..n
    BY DEF TypeOK, Lines
  <2> QED
    BY <2>1, LinesAndColumns
<1>5. /\ p'[0] = (IF i < n THEN i + 1 ELSE p[0])
      /\ \A d \in Lines : p'[d] = Moved[d]
      /\ p[0] \in Columns
  BY <1>1, <1>2, <1>4 DEF Moved, TypeOK
<1>6. i' \in Lines /\ (i < n => i + 1 \in Columns)
  BY <1>1, <1>4 DEF Lines, Columns
<1>7. TypeOK'
  <2>1. p' \in [Columns -> Columns]
    <3>1. DOMAIN p' = Columns /\ p' = [d \in Columns |-> p'[d]]
      BY <1>1 DEF TypeOK
    <3>2. \A d \in Columns : p'[d] \in Columns
      BY <1>2, <1>4, <1>5, <1>6
    <3> QED
      BY <3>1, <3>2
  <2>2. minv' \in [Columns -> Int]
    BY <1>1
  <2> QED
    BY <1>1, <1>3, <1>4, <1>6, <2>1, <2>2 DEF TypeOK
<1>8. Hole' \subseteq {0} /\ (i < n => Hole' = {}) /\ (~(i < n) => Hole' = {0})
  BY <1>1 DEF Hole
<1>9. Passed' = {0}
  BY <1>1 DEF Passed
<1>10. Searching' /\ Shifting'
  <2>1. phase' = "search" => p'[0] # 0
    BY <1>1, <1>4, <1>5
  <2> QED
    BY <1>1, <1>9, <2>1 DEF Searching, Shifting
<1>11. Feasible'
  BY <1>1, <1>3 DEF Feasible, Slack, Cost
<1>12. Tight'
  <2>1. \A d \in Lines : p'[d] # 0 => Slack(p'[d], d) = 0
    BY <1>2, <1>4, <1>5
  <2> QED
    BY <1>1, <1>3, <2>1 DEF Tight, Slack, Cost
<1>13. Placed'
  <2>1. CASE i < n
    <3>1. i' = i + 1 /\ p'[0] = i + 1 /\ Hole' = {}
      BY <1>1, <1>5, <1>8, <2>1
    <3>2. \A r \in 1..(i + 1) : \E d \in Columns : p'[d] = r
      <4>1. \A r \in 1..i : \E d \in Columns : p'[d] = r
        BY <1>2, <1>4, <1>5
      <4>2. \A r \in 1..(i + 1) : r \in 1..i \/ r = i + 1
        BY <1>4
      <4> QED
        BY <1>4, <3>1, <4>1, <4>2
    <3>3. \A d \in Lines : p'[d] # i + 1
      <4>1. \A d \in Lines : Moved[d] <= i /\ Moved[d] \in Nat
        BY <1>2, <1>4, LinesAndColumns
      <4> QED
        BY <1>4, <1>5, <4>1
    <3>4. \A d, e \in Columns : p'[d] = p'[e] /\ p'[d] # 0 => d = e
      BY <1>2, <1>4, <1>5, <3>1, <3>3
    <3> QED
      BY <1>3, <3>1, <3>2, <3>4 DEF Placed
  <2>2. CASE ~(i < n)
    <3>1. i' = i /\ Hole' = {0}
      BY <1>1, <1>8, <2>2
    <3>2. \A r \in 1..i : \E d \in Columns \ {0} : p'[d] = r
      BY <1>2, <1>4, <1>5
    <3>3. \A d, e \in Columns \ {0} : p'[d] = p'[e] /\ p'[d] # 0 => d = e
      BY <1>2, <1>4, <1>5
    <3> QED
      BY <1>3, <3>1, <3>2, <3>3 DEF Placed
  <2> QED
    BY <2>1, <2>2
<1>14. Waiting'
  <2>1. \A d \in Columns : p'[d] <= i'
    <3>1. \A d \in Columns : Moved[d] \in Nat /\ Moved[d] <= i
      BY <1>2, LinesAndColumns
    <3>2. p[0] <= i
      BY <1>4 DEF Waiting
    <3>3. i' \in Nat /\ i <= i' /\ (i < n => i' = i + 1)
      BY <1>1, <1>4
    <3>4. p'[0] <= i'
      BY <1>4, <1>5, <3>2, <3>3, LinesAndColumns
    <3>5. \A d \in Lines : p'[d] <= i'
      BY <1>4, <1>5, <3>1, <3>3
    <3> QED
      BY <1>4, <3>4, <3>5
  <2>2. phase' # "done" => p'[0] = i'
    BY <1>1, <1>5
  <2>3. phase' = "done" => j0' = 0 /\ i' = n'
    BY <1>1, <1>4
  <2> QED
    BY <1>3, <2>1, <2>2, <2>3 DEF Waiting
<1>15. Chain'
  <2>1. PICK rank \in [Columns -> Nat] : TRUE
    BY DEF Chain
  <2>2. ChainBy(rank)'
    <3>1. rank[0] <= rank[0]
      BY <1>4
    <3> QED
      BY <1>1, <1>9, <3>1 DEF ChainBy
  <2> QED
    BY <1>3, <2>2 DEF Chain
<1> QED
  BY <1>7, <1>10, <1>11, <1>12, <1>13, <1>14, <1>15

-----------------------------------------------------------------------------
(* Initially, and always *)

LEMMA InvInit == Init => HungarianInv
<1> SUFFICES ASSUME NEW k \in Nat \ {0}, NEW w \in [1..k -> [1..k -> Nat]], Start(k, w)
             PROVE  HungarianInv
  BY DEF Init
<1>1. /\ n = k /\ weight = w /\ phase = "search" /\ i = 1 /\ j0 = 0 /\ used = {}
      /\ u = [c \in Columns |-> 0] /\ v = [c \in Columns |-> 0]
      /\ p = [c \in Columns |-> IF c = 0 THEN 1 ELSE 0]
      /\ way = [c \in Columns |-> 0] /\ minv = [c \in Columns |-> 0]
  BY DEF Start
<1>2. Lines = 1..k /\ Columns = 0..k /\ 0 \in Columns /\ 1 \in Columns /\ 1 \in Lines
  BY <1>1 DEF Lines, Columns
<1>3. TypeOK
  BY <1>1, <1>2 DEF TypeOK
<1>4. Passed = {0} /\ Hole = {}
  BY <1>1 DEF Passed, Hole
<1>5. p[0] = 1 /\ \A c \in Columns : c # 0 => p[c] = 0
  BY <1>1, <1>2
<1>6. Searching /\ Shifting
  BY <1>1, <1>4, <1>5 DEF Searching, Shifting
<1>7. Chain
  <2> DEFINE rank == [c \in Columns |-> 0]
  <2>1. rank \in [Columns -> Nat] /\ rank[0] <= rank[0]
    BY <1>2
  <2>2. ChainBy(rank)
    BY <1>1, <1>4, <2>1 DEF ChainBy
  <2> QED
    BY <2>1, <2>2 DEF Chain
<1>8. Feasible
  <2> SUFFICES ASSUME NEW r \in Lines, NEW c \in Lines PROVE Slack(r, c) >= 0
    BY DEF Feasible
  <2>1. u[r] = 0 /\ v[c] = 0
    BY <1>1, <1>3, LinesAndColumns
  <2>2. Slack(r, c) = Cost(r, c) - 0 - 0 /\ Cost(r, c) \in Nat
    BY <1>3, <2>1, CostType DEF Slack
  <2> QED
    BY <2>2
<1>9. Tight
  BY <1>3, <1>5, LinesAndColumns DEF Tight
<1>10. Placed
  BY <1>1, <1>2, <1>4, <1>5 DEF Placed
<1>11. Waiting
  BY <1>1, <1>5 DEF Waiting
<1> QED
  BY <1>3, <1>6, <1>7, <1>8, <1>9, <1>10, <1>11 DEF HungarianInv

LEMMA InvStep == HungarianInv /\ [Step]_hvars => HungarianInv'
<1> SUFFICES ASSUME HungarianInv, [Step]_hvars PROVE HungarianInv'
  OBVIOUS
<1>1. CASE Search
  <2>1. PICK c \in Columns : \E delta : SearchTo(c, delta)
    BY <1>1, SearchToSome
  <2>2. PICK delta : SearchTo(c, delta)
    BY <2>1
  <2> QED
    BY <2>2, SearchTypes, SearchKeepsFeasible, SearchKeepsSearching, SearchKeepsChain
       DEF HungarianInv
<1>2. CASE Shift
  BY <1>2, ShiftOn, ShiftEnds
<1>3. CASE UNCHANGED hvars
  <2>1. /\ UNCHANGED <<n, weight, phase, i, j0, u, v, p, way, minv, used>>
        /\ Lines' = Lines /\ Columns' = Columns /\ Top' = Top
        /\ Hole' = Hole /\ Passed' = Passed
    BY <1>3, InputStays DEF hvars, input, Hole, Passed
  <2>2. TypeOK' /\ Shifting'
    BY <2>1 DEF HungarianInv, TypeOK, Shifting
  <2>3. Searching'
    BY <2>1 DEF HungarianInv, Searching, Slack, Cost
  <2>4. Chain'
    <3>1. PICK rank \in [Columns -> Nat] : ChainBy(rank)
      BY DEF HungarianInv, Chain
    <3>2. ChainBy(rank)'
      BY <2>1, <3>1 DEF ChainBy, Slack, Cost
    <3> QED
      BY <2>1, <3>2 DEF Chain
  <2>5. Feasible' /\ Tight'
    BY <2>1 DEF HungarianInv, Feasible, Tight, Slack, Cost
  <2>6. Placed' /\ Waiting'
    BY <2>1 DEF HungarianInv, Placed, Waiting
  <2> QED
    BY <2>2, <2>3, <2>4, <2>5, <2>6 DEF HungarianInv
<1> QED
  BY <1>1, <1>2, <1>3 DEF Step

LEMMA InvAlways == Spec => []HungarianInv
BY InvInit, InvStep, PTL DEF Spec

(* The arrays keep their ranges. *)
THEOREM TypeCorrect == Spec => []TypeOK
BY InvAlways, PTL DEF HungarianInv

(* The columns that have a row are as many as the rows there are, so that  *)
(* each column has one.                                                    *)
LEMMA EachColumnHasARow ==
    ASSUME TypeOK, \A r \in Lines : \E c \in Lines : p[c] = r,
           \A c, d \in Lines : p[c] = p[d] /\ p[c] # 0 => c = d
    PROVE  \A c \in Lines : p[c] \in Lines
<1> DEFINE S == {c \in Lines : p[c] # 0}
           f == [c \in S |-> p[c]]
<1>1. IsFiniteSet(Lines)
  BY FS_Interval DEF TypeOK, Lines
<1>2. S \in SUBSET Lines
  OBVIOUS
<1>3. f \in [S -> Lines] /\ \A c \in S : f[c] = p[c]
  BY LinesAndColumns DEF TypeOK
<1>4. \A r \in Lines : \E c \in S : f[c] = r
  BY LinesAndColumns
<1>5. \A c, d \in S : f[c] = f[d] => c = d
  BY <1>3
<1> HIDE DEF f, S
<1>6. f \in Surjection(S, Lines) /\ f \in Injection(S, Lines)
  BY <1>3, <1>4, <1>5 DEF Surjection, Injection, IsInjective
<1>7. IsFiniteSet(S)
  BY <1>1, <1>2, FS_Subset
<1>8. Cardinality(Lines) = Cardinality(S)
  BY <1>6, <1>7, FS_Surjection
<1>9. Lines = S
  BY <1>1, <1>2, <1>8, FS_Subset
<1> QED
  BY <1>3, <1>9 DEF f

(* When the algorithm is done, each row has a column of its own on a pair  *)
(* without slack, under feasible potentials, so that no assignment weighs  *)
(* more.                                                                   *)
THEOREM AssignmentIsCertified == Spec => []Certified
<1>1. ASSUME HungarianInv, phase = "done"
      PROVE  /\ \A r \in Lines : \E c \in Lines : p[c] = r
             /\ \A c, d \in Lines : p[c] = p[d] => c = d
             /\ \A c \in Lines : p[c] \in Lines /\ Slack(p[c], c) = 0
             /\ Feasible
  <2> USE <1>1 DEF HungarianInv
  <2>1. Hole = {0} /\ i = n /\ Columns \ {0} = Lines /\ Lines \ {0} = Lines
    BY LinesAndColumns DEF Hole, Waiting
  <2>2. \A r \in Lines : \E c \in Lines : p[c] = r
    BY <2>1 DEF Placed, Lines
  <2>3. \A c, d \in Lines : p[c] = p[d] /\ p[c] # 0 => c = d
    BY <2>1 DEF Placed
  <2>4. \A c \in Lines : p[c] \in Lines
    BY <2>2, <2>3, EachColumnHasARow
  <2>5. \A c \in Lines : p[c] # 0
    BY <2>4, LinesAndColumns
  <2>6. \A c \in Lines : Slack(p[c], c) = 0
    BY <2>1, <2>5 DEF Tight
  <2> QED
    BY <2>2, <2>3, <2>4, <2>5, <2>6
<1>2. HungarianInv => Certified
  BY <1>1 DEF Certified
<1> QED
  BY <1>2, InvAlways, PTL

-----------------------------------------------------------------------------
(* The rules: who may be paired is mutual, and a score is a percentage     *)

LEMMA DivBounds ==
    ASSUME NEW x \in Nat, NEW y \in Nat \ {0}, x <= 201 * y
    PROVE  x \div (2 * y) \in 0..100
<1> DEFINE q == x \div (2 * y)
<1>1. q \in Int /\ (2 * y) * q <= x /\ x < (2 * y) * q + 2 * y
  OBVIOUS
<1> HIDE DEF q
<1>2. q >= 0
  <2> SUFFICES ASSUME q <= -1 PROVE FALSE
    BY <1>1
  <2>1. (2 * y) * q + 2 * y = (2 * y) * (q + 1)
    BY <1>1
  <2>2. (2 * y) * (q + 1) <= 0
    BY <1>1
  <2> QED
    BY <1>1, <2>1, <2>2
<1>3. q <= 100
  <2> SUFFICES ASSUME q >= 101 PROVE FALSE
    BY <1>1
  <2>1. (2 * y) * q >= (2 * y) * 101
    BY <1>1
  <2> QED
    BY <1>1, <2>1
<1> QED
  BY <1>1, <1>2, <1>3 DEF q

LEMMA RoundBounds ==
    ASSUME NEW x \in Nat, NEW y \in Nat \ {0}, x <= 100 * y
    PROVE  Round(x, y) \in 0..100
<1>1. 2 * x + y \in Nat /\ 2 * x + y <= 201 * y
  OBVIOUS
<1> QED
  BY <1>1, DivBounds DEF Round

LEMMA RatioBounds ==
    ASSUME NEW x \in Nat, NEW y \in Nat \ {0}, x <= y
    PROVE  (x * 100) \div y \in 0..100
<1> DEFINE q == (x * 100) \div y
<1>1. q \in Int /\ y * q <= x * 100 /\ x * 100 < y * q + y
  OBVIOUS
<1> HIDE DEF q
<1>2. q >= 0
  <2> SUFFICES ASSUME q <= -1 PROVE FALSE
    BY <1>1
  <2>1. y * q + y = y * (q + 1)
    BY <1>1
  <2>2. y * (q + 1) <= 0
    BY <1>1
  <2> QED
    BY <1>1, <2>1, <2>2
<1>3. q <= 100
  <2> SUFFICES ASSUME q >= 101 PROVE FALSE
    BY <1>1
  <2>1. y * q >= y * 101
    BY <1>1
  <2> QED
    BY <1>1, <2>1
<1> QED
  BY <1>1, <1>2, <1>3 DEF q

(* What is known of two people is known of both. *)
Percent == {Unknown} \cup 0..100

LEMMA ClampBounds ==
    ASSUME NEW x \in Int
    PROVE  Clamp(x) \in 0..100
BY DEF Clamp

LEMMA JaccardBounds ==
    ASSUME NEW x, NEW y, IsFiniteSet(x), IsFiniteSet(y)
    PROVE  Jaccard(x, y) \in Percent
<1>1. CASE x = {} \/ y = {}
  BY <1>1 DEF Jaccard, Percent
<1>2. CASE x # {} /\ y # {}
  <2> DEFINE s == Cardinality(x \cap y)
             t == Cardinality(x \cup y)
  <2>1. IsFiniteSet(x \cup y) /\ x \cap y \in SUBSET (x \cup y)
    BY FS_Union
  <2>2. s \in Nat /\ t \in Nat /\ s <= t
    BY <2>1, FS_Subset, FS_CardinalityType
  <2>3. t # 0
    BY <1>2, <2>1, FS_EmptySet
  <2> HIDE DEF s, t
  <2>4. Round(s * 100, t) \in 0..100
    <3>1. s * 100 \in Nat /\ s * 100 <= 100 * t
      BY <2>2
    <3> QED
      BY <2>2, <2>3, <3>1, RoundBounds
  <2> QED
    BY <1>2, <2>4 DEF Jaccard, Percent, s, t
<1> QED
  BY <1>1, <1>2

LEMMA SimilarityBounds ==
    ASSUME NEW x, NEW y, IsFiniteSet(DOMAIN x)
    PROVE  MapSimilarity(x, y) \in Percent
<1> DEFINE Shared == DOMAIN x \cap DOMAIN y
           Same == {k \in Shared : x[k] = y[k]}
<1>1. CASE Shared = {}
  BY <1>1 DEF MapSimilarity, Percent
<1>2. CASE Shared # {}
  <2>1. IsFiniteSet(Shared) /\ Same \in SUBSET Shared
    BY FS_Intersection
  <2> HIDE DEF Same, Shared
  <2>2. /\ Cardinality(Same) \in Nat /\ Cardinality(Shared) \in Nat \ {0}
        /\ Cardinality(Same) <= Cardinality(Shared)
    BY <1>2, <2>1, FS_Subset, FS_CardinalityType, FS_EmptySet
  <2>3. (Cardinality(Same) * 100) \div Cardinality(Shared) \in 0..100
    BY <2>2, RatioBounds
  <2> QED
    BY <1>2, <2>3 DEF MapSimilarity, Percent, Same, Shared
<1> QED
  BY <1>1, <1>2

LEMMA PersonalityBounds ==
    ASSUME NEW x, NEW y, IsFiniteSet(DOMAIN x),
           \A k \in DOMAIN x : x[k] \in Int, \A k \in DOMAIN y : y[k] \in Int
    PROVE  Personality(x, y) \in Percent
<1> DEFINE Shared == DOMAIN x \cap DOMAIN y
           d == [k \in Shared |-> Distance(x[k], y[k])]
<1>1. CASE Shared = {}
  BY <1>1 DEF Personality, Percent
<1>2. CASE Shared # {}
  <2>1. IsFiniteSet(Shared)
    BY FS_Intersection
  <2>2. \A k \in Shared : d[k] \in Int
    BY DEF Distance
  <2>3. SumFunction(d) \in Int
    BY <2>1, <2>2, SumType DEF SumFunction
  <2>4. Cardinality(Shared) \in Nat \ {0}
    BY <1>2, <2>1, FS_CardinalityType, FS_EmptySet
  <2> HIDE DEF Shared, d
  <2>5. 100 - (SumFunction(d) * 25) \div Cardinality(Shared) \in Int
    BY <2>3, <2>4
  <2>6. Clamp(100 - (SumFunction(d) * 25) \div Cardinality(Shared)) \in 0..100
    BY <2>5, ClampBounds
  <2> QED
    BY <1>2, <2>6 DEF Personality, Percent, Shared, d
<1> QED
  BY <1>1, <1>2

LEMMA LanguageBounds ==
    ASSUME NEW a, NEW b, IsFiniteSet(a.languages), IsFiniteSet(b.languages)
    PROVE  LanguageLocation(a, b) \in Percent
<1> DEFINE l == Jaccard(a.languages, b.languages)
<1>1. l \in Percent
  BY JaccardBounds
<1> HIDE DEF l
<1>2. l # Unknown => /\ l \in Int
                     /\ (l * 70) \div 100 + 30 \in Int
                     /\ (l * 70) \div 100 + 10 \in Int
  BY <1>1 DEF Percent
<1>3. l # Unknown => /\ Clamp(l) \in 0..100
                     /\ Clamp((l * 70) \div 100 + 30) \in 0..100
                     /\ Clamp((l * 70) \div 100 + 10) \in 0..100
  BY <1>2, ClampBounds
<1>4. \A x \in {0, 30, 40, 100} : x \in Percent
  BY DEF Percent
<1>5. CASE l = Unknown
  BY <1>4, <1>5 DEF LanguageLocation, Percent, l
<1>6. CASE l # Unknown
  <2>1. LanguageLocation(a, b) \in {Clamp(l), Clamp((l * 70) \div 100 + 30),
                                    Clamp((l * 70) \div 100 + 10)}
    BY <1>6 DEF LanguageLocation, l
  <2> QED
    BY <1>3, <1>6, <2>1 DEF Percent
<1> QED
  BY <1>5, <1>6

LEMMA WeightedBounds ==
    ASSUME NEW scores \in [Component -> Percent]
    PROVE  Weighted(scores) \in 0..100
<1> DEFINE Known == {c \in Component : scores[c] # Unknown}
           f == [c \in Known |-> scores[c] * Weights[c]]
           g == [c \in Known |-> 100 * Weights[c]]
           o == [c \in Known |-> 0]
           Sum == SumFunctionOnSet(f, Known)
           Active == SumFunctionOnSet(Weights, Known)
<1>1. IsFiniteSet(Component)
  <2> DEFINE S1 == {"relationship"} S2 == S1 \cup {"personality"}
             S3 == S2 \cup {"interests"} S4 == S3 \cup {"lifestyle"}
             S5 == S4 \cup {"values"} S6 == S5 \cup {"language_location"}
  <2>1. IsFiniteSet(S1)
    BY FS_Singleton
  <2>2. IsFiniteSet(S2)
    BY <2>1, FS_AddElement
  <2>3. IsFiniteSet(S3)
    BY <2>2, FS_AddElement
  <2>4. IsFiniteSet(S4)
    BY <2>3, FS_AddElement
  <2>5. IsFiniteSet(S5)
    BY <2>4, FS_AddElement
  <2>6. IsFiniteSet(S6)
    BY <2>5, FS_AddElement
  <2>7. S6 = Component
    BY DEF Component
  <2> QED
    BY <2>6, <2>7
<1>2. IsFiniteSet(Known)
  BY <1>1, FS_Subset
<1>3. \A c \in Known : scores[c] \in 0..100 /\ Weights[c] \in Nat
  BY RulesAssumption DEF Percent
<1>4. \A c \in Known : /\ f[c] \in Int /\ g[c] \in Int /\ o[c] \in Int /\ Weights[c] \in Int
                       /\ o[c] <= f[c] /\ f[c] <= g[c] /\ o[c] <= Weights[c]
  <2>1. \A s \in 0..100, w \in Nat : s * w \in Nat /\ s * w <= 100 * w
    OBVIOUS
  <2> QED
    BY <1>3, <2>1
<1>5. SumFunctionOnSet(o, Known) = 0
  <2>1. \A c \in Known : o[c] = 0
    OBVIOUS
  <2>2. Cardinality(Known) \in Nat
    BY <1>2, FS_CardinalityType
  <2> HIDE DEF o, Known
  <2>3. SumFunctionOnSet(o, Known) = 0 * Cardinality(Known)
    BY <1>2, <2>1, SumConst
  <2> QED
    BY <2>2, <2>3
<1> HIDE DEF f, o, Known
<1>6. Active \in Int /\ Sum \in Int
  BY <1>2, <1>4, SumType
<1>7. SumFunctionOnSet(g, Known) = 100 * Active
  <2>1. \A c \in Known : Weights[c] \in Int /\ g[c] = 100 * Weights[c]
    BY <1>4
  <2> HIDE DEF g
  <2> QED
    BY <1>2, <2>1, SumTimes
<1>8. 0 <= Sum /\ Sum <= 100 * Active /\ 0 <= Active
  BY <1>2, <1>4, <1>5, <1>7, SumMono
<1>9. Active # 0 => Round(Sum, Active) \in 0..100
  BY <1>6, <1>8, RoundBounds
<1> QED
  BY <1>9 DEF Weighted, Sum, Active, Known, f

(* What Generate has checked of a participant. *)
Ready(a) ==
    IsParticipant(a) /\ \A k \in DOMAIN a.personality : a.personality[k] \in 1..5

LEMMA ScoreBounds ==
    ASSUME NEW a, NEW b, Ready(a), Ready(b)
    PROVE  Evaluate(a, b).score \in 0..100
<1>1. Relationship(a, b) \in Percent
  BY DEF Relationship, Percent
<1>2. Personality(a.personality, b.personality) \in Percent
  BY PersonalityBounds DEF Ready, IsParticipant
<1>3. /\ Jaccard(a.interests, b.interests) \in Percent
      /\ Jaccard(a.values, b.values) \in Percent
  BY JaccardBounds DEF Ready, IsParticipant
<1>4. MapSimilarity(a.lifestyle, b.lifestyle) \in Percent
  BY SimilarityBounds DEF Ready, IsParticipant
<1>5. LanguageLocation(a, b) \in Percent
  BY LanguageBounds DEF Ready, IsParticipant
<1>6. Components(a, b) \in [Component -> Percent]
  BY <1>1, <1>2, <1>3, <1>4, <1>5 DEF Components, Component
<1>7. Weighted(Components(a, b)) \in 0..100
  BY <1>6, WeightedBounds
<1> QED
  BY <1>7 DEF Evaluate

LEMMA RulesAreMutual ==
    ASSUME NEW a, NEW b
    PROVE  HardRules(a, b) = HardRules(b, a)
BY DEF HardRules, Blocked

LEMMA ComponentsAreMutual ==
    ASSUME NEW a, NEW b, Ready(a), Ready(b)
    PROVE  Components(a, b) = Components(b, a)
<1>1. Relationship(a, b) = Relationship(b, a)
  BY DEF Relationship
<1>2. \A x, y : Jaccard(x, y) = Jaccard(y, x)
  <2> SUFFICES ASSUME NEW x, NEW y PROVE Jaccard(x, y) = Jaccard(y, x)
    OBVIOUS
  <2>1. x \cap y = y \cap x /\ x \cup y = y \cup x
    OBVIOUS
  <2> QED
    BY <2>1 DEF Jaccard
<1>3. MapSimilarity(a.lifestyle, b.lifestyle) = MapSimilarity(b.lifestyle, a.lifestyle)
  <2> DEFINE x == a.lifestyle
             y == b.lifestyle
  <2>1. DOMAIN x \cap DOMAIN y = DOMAIN y \cap DOMAIN x
    OBVIOUS
  <2>2. {k \in DOMAIN x \cap DOMAIN y : x[k] = y[k]} =
           {k \in DOMAIN y \cap DOMAIN x : y[k] = x[k]}
    OBVIOUS
  <2> HIDE DEF x, y
  <2>3. MapSimilarity(x, y) = MapSimilarity(y, x)
    BY <2>1, <2>2 DEF MapSimilarity
  <2> QED
    BY <2>3 DEF x, y
<1>4. Personality(a.personality, b.personality) = Personality(b.personality, a.personality)
  <2> DEFINE x == a.personality
             y == b.personality
             f == [k \in DOMAIN x \cap DOMAIN y |-> Distance(x[k], y[k])]
             g == [k \in DOMAIN y \cap DOMAIN x |-> Distance(y[k], x[k])]
  <2>1. DOMAIN x \cap DOMAIN y = DOMAIN y \cap DOMAIN x
    OBVIOUS
  <2>2. \A m, k \in Int : Distance(m, k) = Distance(k, m)
    BY DEF Distance
  <2>3. \A k \in DOMAIN x \cap DOMAIN y : x[k] \in Int /\ y[k] \in Int
    BY DEF Ready
  <2>4. f = g
    BY <2>2, <2>3
  <2> HIDE DEF x, y
  <2>5. Personality(x, y) = Personality(y, x)
    BY <2>1, <2>4 DEF Personality
  <2> QED
    BY <2>5 DEF x, y
<1>5. LanguageLocation(a, b) = LanguageLocation(b, a)
  <2>1. Jaccard(a.languages, b.languages) = Jaccard(b.languages, a.languages)
    BY <1>2
  <2>2. /\ (a.location # "" /\ b.location # "") <=> (b.location # "" /\ a.location # "")
        /\ (a.location = b.location) <=> (b.location = a.location)
    OBVIOUS
  <2> QED
    BY <2>1, <2>2 DEF LanguageLocation
<1>6. /\ Jaccard(a.interests, b.interests) = Jaccard(b.interests, a.interests)
      /\ Jaccard(a.values, b.values) = Jaccard(b.values, a.values)
  BY <1>2
<1> QED
  BY <1>1, <1>3, <1>4, <1>5, <1>6 DEF Components

(* Whoever may be paired with somebody, may be from the other's side too,  *)
(* and is in another group.                                                *)
LEMMA PairingIsMutual ==
    ASSUME NEW a, NEW b, Ready(a), Ready(b)
    PROVE  /\ Evaluate(a, b).eligible <=> Evaluate(b, a).eligible
           /\ Pairable(a, b) <=> Pairable(b, a)
           /\ Evaluate(a, b).eligible => a.group # b.group
<1>1. HardRules(a, b) = HardRules(b, a) /\ Components(a, b) = Components(b, a)
  BY RulesAreMutual, ComponentsAreMutual
<1>2. Evaluate(a, b) = Evaluate(b, a)
  BY <1>1 DEF Evaluate
<1>3. a.group = b.group => "EVENT_POLICY_MISMATCH" \in HardRules(a, b)
  BY DEF HardRules
<1>4. Evaluate(a, b).eligible => HardRules(a, b) = {}
  BY DEF Evaluate
<1> QED
  BY <1>2, <1>3, <1>4 DEF Pairable

-----------------------------------------------------------------------------
(* The input: groups in the order of their members' ids                    *)

LEMMA MembersListed ==
    ASSUME NEW P, IsFiniteSet(P), \A a \in P : a.id \in Int,
           \A a, b \in P : a.id = b.id => a = b, NEW g
    PROVE  /\ Cardinality(Group(P, g)) \in Nat
           /\ Cardinality(Group(P, g)) <= Cardinality(P)
           /\ Members(P, g) \in Seq(Group(P, g))
           /\ Len(Members(P, g)) = Cardinality(Group(P, g))
           /\ DOMAIN Members(P, g) = 1..Cardinality(Group(P, g))
           /\ \A r \in DOMAIN Members(P, g) : Members(P, g)[r] \in Group(P, g)
           /\ \A a \in Group(P, g) : \E r \in DOMAIN Members(P, g) : Members(P, g)[r] = a
           /\ \A r, s \in DOMAIN Members(P, g) :
                 Members(P, g)[r] = Members(P, g)[s] => r = s
<1> DEFINE G == Group(P, g)
           k == Cardinality(G)
           Pre(a) == Cardinality(Before(P, a))
           rank == [a \in G |-> Pre(a) + 1]
<1>1. IsFiniteSet(G) /\ k \in Nat /\ k <= Cardinality(P) /\ G \subseteq P
  BY FS_Subset, FS_CardinalityType DEF Group
<1>2. \A a \in G : /\ Before(P, a) = {b \in G : b.id < a.id}
                   /\ IsFiniteSet(Before(P, a)) /\ Pre(a) \in Nat
  <2> TAKE a \in G
  <2>1. Before(P, a) = {b \in G : b.id < a.id}
    BY DEF Before, Group
  <2> QED
    BY <1>1, <2>1, FS_Subset, FS_CardinalityType
<1>3. \A a \in G : Pre(a) + 1 \in 1..k
  <2> TAKE a \in G
  <2>1. Before(P, a) \in SUBSET (G \ {a})
    BY <1>1, <1>2
  <2>2. IsFiniteSet(G \ {a}) /\ Cardinality(G \ {a}) = k - 1
    BY <1>1, FS_RemoveElement
  <2>3. Pre(a) <= k - 1
    BY <2>1, <2>2, FS_Subset
  <2> QED
    BY <1>1, <1>2, <2>3
<1>4. ASSUME NEW a \in G, NEW b \in G, a.id < b.id
      PROVE  Pre(a) < Pre(b)
  <2>1. Before(P, a) \in SUBSET Before(P, b)
    BY <1>1, <1>2, <1>4
  <2>2. a \in Before(P, b) /\ a \notin Before(P, a)
    BY <1>1, <1>2, <1>4
  <2> QED
    BY <1>2, <2>1, <2>2, FS_Subset
<1>5. \A a, b \in G : Pre(a) = Pre(b) => a = b
  <2> SUFFICES ASSUME NEW a \in G, NEW b \in G, Pre(a) = Pre(b), a # b PROVE FALSE
    OBVIOUS
  <2>1. a.id < b.id \/ b.id < a.id
    BY <1>1
  <2> QED
    BY <1>2, <1>4, <2>1
<1>6. \A r \in 1..k : \E a \in G : Pre(a) = r - 1
  <2>1. rank \in Injection(G, 1..k)
    BY <1>2, <1>3, <1>5 DEF Injection, IsInjective
  <2>2. IsFiniteSet(1..k) /\ Cardinality(1..k) = k
    BY <1>1, FS_Interval
  <2>3. rank \in Surjection(G, 1..k)
    BY <2>1, <2>2, FS_Injection
  <2> HIDE DEF rank, G, k
  <2>4. \A r \in 1..k : \E a \in G : rank[a] = r
    BY <2>3 DEF Surjection
  <2>5. \A a \in G : rank[a] = Pre(a) + 1
    BY DEF rank
  <2>6. \A a \in G : Pre(a) \in Nat
    BY <1>2 DEF G
  <2> HIDE DEF Pre
  <2>7. ASSUME NEW r \in 1..k
        PROVE  \E a \in G : Pre(a) = r - 1
    <3>1. PICK a \in G : rank[a] = r
      BY <2>4
    <3>2. rank[a] = Pre(a) + 1 /\ Pre(a) \in Nat
      BY <2>5, <2>6
    <3>3. Pre(a) = r - 1
      BY <3>1, <3>2
    <3> QED
      BY <3>3
  <2> QED
    BY <2>7
<1> DEFINE m == Members(P, g)
<1>7. m = [r \in 1..k |-> CHOOSE a \in G : Pre(a) = r - 1]
  BY DEF Members
<1>8. \A r \in 1..k : m[r] \in G /\ Pre(m[r]) = r - 1
  BY <1>6, <1>7
<1>9. \A a \in G : m[Pre(a) + 1] = a
  <2> TAKE a \in G
  <2>1. Pre(a) + 1 \in 1..k
    BY <1>3
  <2>2. m[Pre(a) + 1] \in G /\ Pre(m[Pre(a) + 1]) = (Pre(a) + 1) - 1
    BY <1>8, <2>1
  <2> QED
    BY <1>2, <1>5, <2>2
<1> HIDE DEF m, G
<1>10. DOMAIN m = 1..k /\ m \in Seq(G) /\ Len(m) = k
  BY <1>1, <1>7, <1>8
<1>11. \A a \in G : \E r \in DOMAIN m : m[r] = a
  BY <1>3, <1>9, <1>10
<1>12. \A r, s \in DOMAIN m : m[r] = m[s] => r = s
  BY <1>8, <1>10
<1> QED
  BY <1>1, <1>8, <1>10, <1>11, <1>12 DEF m, G

LEMMA GroupsSplit ==
    ASSUME NEW P, IsFiniteSet(P), \A a \in P : a.group \in Int, TwoGroups(P)
    PROVE  /\ GroupsOf(P) = {Min(GroupsOf(P)), Max(GroupsOf(P))}
           /\ Min(GroupsOf(P)) # Max(GroupsOf(P))
           /\ \A a \in P : a \in Group(P, Min(GroupsOf(P))) \/ a \in Group(P, Max(GroupsOf(P)))
<1> DEFINE S == GroupsOf(P)
<1>1. PICK g, h : g \in Int /\ h \in Int /\ g < h /\ S = {g, h}
  <2>1. Cardinality(S) = 2 /\ S \subseteq Int
    BY DEF TwoGroups, GroupsOf
  <2>2. S # {}
    BY <2>1, FS_EmptySet
  <2>3. IsFiniteSet(S)
    <3>1. [a \in P |-> a.group] \in Surjection(P, S)
      BY DEF GroupsOf, Surjection
    <3> QED
      BY <3>1, FS_Surjection
  <2>4. PICK g : g \in S
    BY <2>2
  <2>5. Cardinality(S \ {g}) = 1 /\ IsFiniteSet(S \ {g})
    BY <2>1, <2>3, <2>4, FS_RemoveElement
  <2>6. PICK h : S \ {g} = {h}
    BY <2>5, FS_Singleton
  <2>7. S = {g, h} /\ g # h
    BY <2>4, <2>6
  <2> QED
    BY <2>1, <2>7
<1>2. Min(S) = g /\ Max(S) = h
  <2>1. \A x \in S : (\A y \in S : x <= y) <=> x = g
    BY <1>1
  <2>2. \A x \in S : (\A y \in S : x >= y) <=> x = h
    BY <1>1
  <2> HIDE DEF S
  <2> QED
    BY <1>1, <2>1, <2>2 DEF Min, Max
<1>3. \A a \in P : a.group \in S
  BY DEF GroupsOf
<1> QED
  BY <1>1, <1>2, <1>3 DEF Group

-----------------------------------------------------------------------------
LEMMA InputReady ==
    ASSUME NEW P \in Inputs
    PROVE  /\ IsFiniteSet(P) /\ Cardinality(P) \in Nat
           /\ Cardinality(P) <= MaxPrototypePeople
           /\ \A a \in P : Ready(a) /\ a.id \in Int /\ a.group \in Int
           /\ \A a, b \in P : a.id = b.id => a = b
BY EngineAssumption, FS_CardinalityType DEF Ready, IsParticipant, ValidParticipants

(* The two sides list everybody, each person once, and in different groups. *)
LEMMA SidesList ==
    ASSUME NEW P \in Inputs, TwoGroups(P)
    PROVE  /\ DOMAIN LeftOf(P) = 1..Len(LeftOf(P)) /\ Len(LeftOf(P)) \in Nat \ {0}
           /\ DOMAIN RightOf(P) = 1..Len(RightOf(P)) /\ Len(RightOf(P)) \in Nat \ {0}
           /\ Len(LeftOf(P)) <= Cardinality(P) /\ Len(RightOf(P)) <= Cardinality(P)
           /\ \A r \in DOMAIN LeftOf(P) : LeftOf(P)[r] \in P
           /\ \A c \in DOMAIN RightOf(P) : RightOf(P)[c] \in P
           /\ \A r \in DOMAIN LeftOf(P), c \in DOMAIN RightOf(P) :
                 LeftOf(P)[r].group # RightOf(P)[c].group
           /\ \A r, s \in DOMAIN LeftOf(P) : /\ LeftOf(P)[r] = LeftOf(P)[s] => r = s
                                             /\ LeftOf(P)[r].group = LeftOf(P)[s].group
           /\ \A r, s \in DOMAIN RightOf(P) : /\ RightOf(P)[r] = RightOf(P)[s] => r = s
                                              /\ RightOf(P)[r].group = RightOf(P)[s].group
           /\ \A a \in P : \/ \E r \in DOMAIN LeftOf(P) : LeftOf(P)[r] = a
                           \/ \E c \in DOMAIN RightOf(P) : RightOf(P)[c] = a
<1> DEFINE g == Min(GroupsOf(P))
           h == Max(GroupsOf(P))
           L == Members(P, g)
           R == Members(P, h)
<1>1. /\ IsFiniteSet(P) /\ \A a \in P : a.id \in Int /\ a.group \in Int
      /\ \A a, b \in P : a.id = b.id => a = b
  BY InputReady
<1>2. /\ GroupsOf(P) = {g, h} /\ g # h
      /\ \A a \in P : a \in Group(P, g) \/ a \in Group(P, h)
  BY <1>1, GroupsSplit
<1>3. Group(P, g) # {} /\ Group(P, h) # {}
  <2>1. g \in GroupsOf(P) /\ h \in GroupsOf(P)
    BY <1>2
  <2> HIDE DEF g, h
  <2> QED
    BY <2>1 DEF GroupsOf, Group
<1> HIDE DEF g, h
<1>4. ASSUME NEW x
      PROVE  /\ Cardinality(Group(P, x)) \in Nat
             /\ Cardinality(Group(P, x)) <= Cardinality(P)
             /\ Group(P, x) # {} => Cardinality(Group(P, x)) # 0
             /\ Len(Members(P, x)) = Cardinality(Group(P, x))
             /\ DOMAIN Members(P, x) = 1..Cardinality(Group(P, x))
             /\ \A r \in DOMAIN Members(P, x) :
                   Members(P, x)[r] \in P /\ Members(P, x)[r].group = x
             /\ \A a \in Group(P, x) : \E r \in DOMAIN Members(P, x) : Members(P, x)[r] = a
             /\ \A r, s \in DOMAIN Members(P, x) :
                   Members(P, x)[r] = Members(P, x)[s] => r = s
  <2>1. Group(P, x) \subseteq P /\ IsFiniteSet(Group(P, x))
    BY <1>1, FS_Subset DEF Group
  <2>2. Group(P, x) # {} => Cardinality(Group(P, x)) # 0
    BY <2>1, FS_EmptySet
  <2>3. \A a \in Group(P, x) : a \in P /\ a.group = x
    BY DEF Group
  <2>4. /\ Cardinality(Group(P, x)) \in Nat
        /\ Cardinality(Group(P, x)) <= Cardinality(P)
        /\ Len(Members(P, x)) = Cardinality(Group(P, x))
        /\ DOMAIN Members(P, x) = 1..Cardinality(Group(P, x))
        /\ \A r \in DOMAIN Members(P, x) : Members(P, x)[r] \in Group(P, x)
        /\ \A a \in Group(P, x) : \E r \in DOMAIN Members(P, x) : Members(P, x)[r] = a
        /\ \A r, s \in DOMAIN Members(P, x) :
              Members(P, x)[r] = Members(P, x)[s] => r = s
    BY <1>1, MembersListed
  <2> QED
    BY <2>2, <2>3, <2>4
<1>5. LeftOf(P) = L /\ RightOf(P) = R
  BY DEF LeftOf, RightOf, g, h
<1>6. /\ Len(L) \in Nat \ {0} /\ Len(R) \in Nat \ {0}
      /\ Len(L) <= Cardinality(P) /\ Len(R) <= Cardinality(P)
      /\ DOMAIN L = 1..Len(L) /\ DOMAIN R = 1..Len(R)
  BY <1>3, <1>4
<1>7. /\ \A r \in DOMAIN L : L[r] \in P /\ L[r].group = g
      /\ \A c \in DOMAIN R : R[c] \in P /\ R[c].group = h
      /\ \A r, s \in DOMAIN L : L[r] = L[s] => r = s
      /\ \A r, s \in DOMAIN R : R[r] = R[s] => r = s
  BY <1>4
<1>8. \A a \in P : (\E r \in DOMAIN L : L[r] = a) \/ (\E c \in DOMAIN R : R[c] = a)
  BY <1>2, <1>4
<1> HIDE DEF L, R
<1> QED
  BY <1>2, <1>5, <1>6, <1>7, <1>8

LEMMA InputShape ==
    ASSUME NEW P \in Inputs, TwoGroups(P)
    PROVE  /\ SizeOf(P) \in Nat \ {0} /\ SizeOf(P) <= MaxPrototypePeople
           /\ Len(LeftOf(P)) <= SizeOf(P) /\ Len(RightOf(P)) <= SizeOf(P)
           /\ WeightsOf(P) \in [1..SizeOf(P) -> [1..SizeOf(P) -> Nat]]
<1> DEFINE k == SizeOf(P)
           L == LeftOf(P)
           R == RightOf(P)
<1>1. /\ Len(L) \in Nat \ {0} /\ Len(R) \in Nat \ {0}
      /\ DOMAIN L = 1..Len(L) /\ DOMAIN R = 1..Len(R)
      /\ Len(L) <= Cardinality(P) /\ Len(R) <= Cardinality(P)
      /\ \A r \in DOMAIN L : L[r] \in P
      /\ \A c \in DOMAIN R : R[c] \in P
  BY SidesList
<1>2. Cardinality(P) \in Nat /\ Cardinality(P) <= MaxPrototypePeople /\ \A a \in P : Ready(a)
  BY InputReady
<1>3. ASSUME NEW x \in Nat, NEW y \in Nat
      PROVE  Max({x, y}) = IF x >= y THEN x ELSE y
  <2> DEFINE m == IF x >= y THEN x ELSE y
  <2>1. \A z \in {x, y} : (\A w \in {x, y} : z >= w) <=> z = m
    OBVIOUS
  <2>2. m \in {x, y}
    OBVIOUS
  <2> HIDE DEF m
  <2> QED
    BY <2>1, <2>2 DEF Max, m
<1>4. k = IF Len(L) >= Len(R) THEN Len(L) ELSE Len(R)
  BY <1>1, <1>3 DEF SizeOf
<1>5. k \in Nat \ {0} /\ k <= MaxPrototypePeople /\ Len(L) <= k /\ Len(R) <= k
  BY <1>1, <1>2, <1>4 DEF MaxPrototypePeople
<1> HIDE DEF k, L, R
<1>6. \A r \in 1..k, c \in 1..k :
         (IF r <= Len(L) /\ c <= Len(R) THEN EdgeWeight(L[r], R[c]) ELSE 0) \in Nat
  <2> SUFFICES ASSUME NEW r \in 1..k, NEW c \in 1..k, r <= Len(L), c <= Len(R)
               PROVE  EdgeWeight(L[r], R[c]) \in Nat
    OBVIOUS
  <2>1. Evaluate(L[r], R[c]).score \in 0..100
    <3>1. r \in DOMAIN L /\ c \in DOMAIN R
      BY <1>1, <1>5
    <3> QED
      BY <1>1, <1>2, <3>1, ScoreBounds
  <2>2. \A s \in 0..100 : EdgeBonus + s \in Nat
    BY DEF EdgeBonus, MaxPrototypePeople
  <2>3. EdgeBonus + Evaluate(L[r], R[c]).score \in Nat
    BY <2>1, <2>2
  <2> QED
    BY <2>3 DEF EdgeWeight
<1>7. WeightsOf(P) \in [1..k -> [1..k -> Nat]]
  BY <1>6 DEF WeightsOf, k, L, R
<1> QED
  BY <1>5, <1>7 DEF k, L, R

(* What a state of the engine keeps of what it was called with. *)
EngineInv ==
    /\ people \in Inputs /\ TwoGroups(people)
    /\ n = SizeOf(people) /\ weight = WeightsOf(people)

LEMMA WeightsAre ==
    ASSUME EngineInv
    PROVE  /\ n \in Nat \ {0} /\ n <= MaxPrototypePeople
           /\ DOMAIN Left \subseteq Lines /\ DOMAIN Right \subseteq Lines
           /\ \A r, c \in Lines :
                 weight[r][c] = IF Edge(r, c)
                                  THEN EdgeBonus + Evaluate(Left[r], Right[c]).score ELSE 0
           /\ \A r, c \in Lines :
                 Edge(r, c) => Evaluate(Left[r], Right[c]).score \in 0..100
<1>1. /\ n \in Nat \ {0} /\ n <= MaxPrototypePeople
      /\ Len(Left) <= n /\ Len(Right) <= n
      /\ DOMAIN Left = 1..Len(Left) /\ DOMAIN Right = 1..Len(Right)
      /\ Len(Left) \in Nat /\ Len(Right) \in Nat
      /\ \A r \in DOMAIN Left : Left[r] \in people
      /\ \A c \in DOMAIN Right : Right[c] \in people
  BY InputShape, SidesList DEF EngineInv, Left, Right
<1>2. weight = [r \in 1..n |-> [c \in 1..n |->
                  IF r <= Len(Left) /\ c <= Len(Right)
                    THEN EdgeWeight(Left[r], Right[c]) ELSE 0]]
  BY DEF EngineInv, WeightsOf, Left, Right
<1>3. DOMAIN Left \subseteq Lines /\ DOMAIN Right \subseteq Lines
  BY <1>1 DEF Lines
<1>4. ASSUME NEW r \in Lines, NEW c \in Lines
      PROVE  /\ weight[r][c] = IF Edge(r, c)
                                 THEN EdgeBonus + Evaluate(Left[r], Right[c]).score ELSE 0
             /\ Edge(r, c) => Evaluate(Left[r], Right[c]).score \in 0..100
  <2>1. /\ r <= Len(Left) <=> r \in DOMAIN Left
        /\ c <= Len(Right) <=> c \in DOMAIN Right
    BY <1>1 DEF Lines
  <2>2. weight[r][c] = IF r <= Len(Left) /\ c <= Len(Right)
                         THEN EdgeWeight(Left[r], Right[c]) ELSE 0
    BY <1>2 DEF Lines
  <2>3. r \in DOMAIN Left /\ c \in DOMAIN Right =>
           Evaluate(Left[r], Right[c]).score \in 0..100
    BY <1>1, InputReady, ScoreBounds DEF EngineInv
  <2> QED
    BY <2>1, <2>2, <2>3 DEF Edge, EdgeWeight
<1> QED
  BY <1>1, <1>3, <1>4

-----------------------------------------------------------------------------
(* Duality: an assignment with a certificate weighs as much as any matching *)

LEMMA SomeIsLargest ==
    ASSUME NEW S, IsFiniteSet(S), S # {}, NEW f, \A x \in S : f[x] \in Int
    PROVE  \E x \in S : \A y \in S : f[y] <= f[x]
<1> DEFINE Has(T) == \E x \in T : \A y \in T : f[y] <= f[x]
           Q == {T \in SUBSET S : T = {} \/ Has(T)}
<1>1. {} \in Q
  OBVIOUS
<1>2. ASSUME NEW T \in SUBSET S, NEW z \in T, T \ {z} \in Q
      PROVE  T \in Q
  <2> SUFFICES Has(T)
    OBVIOUS
  <2>1. CASE T \ {z} = {}
    BY <2>1
  <2>2. CASE T \ {z} # {}
    <3>1. PICK x \in T \ {z} : \A y \in T \ {z} : f[y] <= f[x]
      BY <1>2, <2>2
    <3>2. CASE f[z] <= f[x]
      BY <3>1, <3>2
    <3>3. CASE f[x] < f[z]
      <4>1. \A y \in T : f[y] <= f[z]
        BY <3>1, <3>3
      <4> QED
        BY <4>1
    <3> QED
      BY <3>1, <3>2, <3>3
  <2> QED
    BY <2>1, <2>2
<1> HIDE DEF Q
<1>3. S \in Q
  BY <1>1, <1>2, SetGrowth
<1> QED
  BY <1>3 DEF Q

(* One side of the bound below: what the lines of the pairs add up to. *)
LEMMA SideBound ==
    ASSUME NEW I, IsFiniteSet(I), NEW A, \A r \in I : A[r] \in Nat,
           NEW M, IsFiniteSet(M), NEW q \in Injection(M, I), NEW f,
           \A x \in M : f[x] = A[q[x]]
    PROVE  /\ SumFunctionOnSet(f, M) <= SumFunctionOnSet(A, I)
           /\ (\A r \in I : \E x \in M : q[x] = r) =>
                 SumFunctionOnSet(f, M) = SumFunctionOnSet(A, I)
<1> DEFINE R == {q[x] : x \in M}
<1>1. q \in [M -> I] /\ R \in SUBSET I
  BY DEF Injection
<1>2. /\ \A x \in M : A[q[x]] \in Int /\ f[x] = A[q[x]]
      /\ \A x, y \in M : q[x] = q[y] => x = y
  BY <1>1 DEF Injection, IsInjective
<1>3. SumFunctionOnSet(f, M) = SumFunctionOnSet(A, R)
  BY <1>2, SumImage
<1>4. (\A r \in I : \E x \in M : q[x] = r) => R = I
  BY <1>1
<1>5. \A r \in I : A[r] \in Int /\ A[r] >= 0
  OBVIOUS
<1> HIDE DEF R
<1>6. SumFunctionOnSet(A, R) <= SumFunctionOnSet(A, I)
  BY <1>1, <1>5, SumOfPart
<1> QED
  BY <1>3, <1>4, <1>6

Covers(M, I) ==
    /\ \A r \in I : \E e \in M : e[1] = r
    /\ \A c \in I : \E e \in M : e[2] = c
Exact(w, A, B, M) == \A e \in M : w[e] = A[e[1]] + B[e[2]]

(* Potentials that are not negative bound every matching, and one that     *)
(* takes every row and column without slack reaches the bound.             *)
LEMMA DualBound ==
    ASSUME NEW I, IsFiniteSet(I), NEW w, NEW A, NEW B,
           \A r \in I : A[r] \in Nat /\ B[r] \in Nat,
           NEW M \in SUBSET (I \X I), IsMatching(M),
           \A e \in M : w[e] \in Int /\ w[e] <= A[e[1]] + B[e[2]]
    PROVE  /\ SumFunctionOnSet(w, M) <= SumFunctionOnSet(A, I) + SumFunctionOnSet(B, I)
           /\ Covers(M, I) /\ Exact(w, A, B, M) =>
                 SumFunctionOnSet(w, M) = SumFunctionOnSet(A, I) + SumFunctionOnSet(B, I)
<1> DEFINE q == [e \in M |-> e[1]]
           s == [e \in M |-> e[2]]
           fa == [e \in M |-> A[e[1]]]
           fb == [e \in M |-> B[e[2]]]
           h == [e \in M |-> A[e[1]] + B[e[2]]]
<1>1. IsFiniteSet(M)
  BY FS_Product, FS_Subset
<1>2. /\ \A e \in M : e[1] \in I /\ e[2] \in I
      /\ \A e \in M : A[e[1]] \in Nat /\ B[e[2]] \in Nat
      /\ \A r \in I : A[r] \in Int /\ B[r] \in Int
  OBVIOUS
<1>3. /\ q \in Injection(M, I) /\ \A e \in M : fa[e] = A[q[e]]
      /\ Covers(M, I) => \A r \in I : \E e \in M : q[e] = r
  BY <1>2 DEF IsMatching, Covers, Injection, IsInjective
<1>4. /\ s \in Injection(M, I) /\ \A e \in M : fb[e] = B[s[e]]
      /\ Covers(M, I) => \A r \in I : \E e \in M : s[e] = r
  BY <1>2 DEF IsMatching, Covers, Injection, IsInjective
<1>5. \A e \in M : fa[e] \in Int /\ fb[e] \in Int /\ h[e] = fa[e] + fb[e]
  BY <1>2
<1>6. /\ \A e \in M : h[e] \in Int /\ w[e] \in Int /\ w[e] <= h[e]
      /\ Exact(w, A, B, M) => \A e \in M : h[e] = w[e]
  BY <1>2 DEF Exact
<1> HIDE DEF q, s, fa, fb, h
<1>7. /\ SumFunctionOnSet(fa, M) <= SumFunctionOnSet(A, I)
      /\ Covers(M, I) =>
            SumFunctionOnSet(fa, M) = SumFunctionOnSet(A, I)
  BY <1>1, <1>3, SideBound
<1>8. /\ SumFunctionOnSet(fb, M) <= SumFunctionOnSet(B, I)
      /\ Covers(M, I) =>
            SumFunctionOnSet(fb, M) = SumFunctionOnSet(B, I)
  BY <1>1, <1>4, SideBound
<1>9. SumFunctionOnSet(h, M) = SumFunctionOnSet(fa, M) + SumFunctionOnSet(fb, M)
  BY <1>1, <1>5, SumPlus
<1>10. SumFunctionOnSet(w, M) <= SumFunctionOnSet(h, M)
  BY <1>1, <1>6, SumMono
<1>11. (\A e \in M : h[e] = w[e]) => SumFunctionOnSet(w, M) = SumFunctionOnSet(h, M)
  BY <1>1, <1>6, SumEqual
<1>12. /\ SumFunctionOnSet(A, I) \in Int /\ SumFunctionOnSet(B, I) \in Int
       /\ SumFunctionOnSet(fa, M) \in Int /\ SumFunctionOnSet(fb, M) \in Int
       /\ SumFunctionOnSet(w, M) \in Int
  BY <1>1, <1>2, <1>5, <1>6, SumType
<1>13. SumFunctionOnSet(w, M) <= SumFunctionOnSet(A, I) + SumFunctionOnSet(B, I)
  BY <1>7, <1>8, <1>9, <1>10, <1>12
<1> QED
  BY <1>6, <1>7, <1>8, <1>9, <1>11, <1>13

(* The potentials of a certified assignment, moved so that none is negative. *)
LEMMA Duals ==
    ASSUME TypeOK, Certified, phase = "done"
    PROVE  \E A, B \in [Lines -> Nat] :
             /\ \A r, c \in Lines : weight[r][c] <= A[r] + B[c]
             /\ \A c \in Lines : weight[p[c]][c] = A[p[c]] + B[c]
<1>1. n \in Nat \ {0} /\ IsFiniteSet(Lines) /\ Lines # {}
  <2>1. n \in Nat \ {0} /\ n \in Int /\ 1 \in 1..n
    BY DEF TypeOK
  <2>2. IsFiniteSet(1..n)
    BY <2>1, FS_Interval
  <2> QED
    BY <2>1, <2>2 DEF Lines
<1>2. /\ \A r, c \in Lines : Slack(r, c) >= 0
      /\ \A c \in Lines : p[c] \in Lines /\ Slack(p[c], c) = 0
  BY DEF Certified, Feasible
<1>3. \A c \in Lines : v[c] \in Int /\ u[c] \in Int
  BY LinesAndColumns DEF TypeOK
<1>4. PICK d \in Lines : \A c \in Lines : v[c] <= v[d]
  BY <1>1, <1>3, SomeIsLargest
<1>5. \A r, c \in Lines : weight[r][c] \in Nat /\ Top \in Nat
  BY TopIsLargest DEF TypeOK
<1>6. \A r, c \in Lines : Slack(r, c) = Top - weight[r][c] - u[r] - v[c]
  BY DEF Slack, Cost
<1> DEFINE A == [r \in Lines |-> Top - u[r] - v[d]]
           B == [c \in Lines |-> v[d] - v[c]]
<1>7. A \in [Lines -> Nat]
  <2> SUFFICES ASSUME NEW r \in Lines PROVE Top - u[r] - v[d] \in Nat
    OBVIOUS
  <2>1. Top - weight[r][d] - u[r] - v[d] >= 0 /\ weight[r][d] \in Nat
    BY <1>2, <1>5, <1>6
  <2> HIDE DEF A, B
  <2> QED
    BY <1>3, <1>5, <2>1
<1>8. B \in [Lines -> Nat]
  BY <1>3, <1>4
<1>9. \A r, c \in Lines : A[r] + B[c] = Top - u[r] - v[c]
  BY <1>3, <1>5
<1> HIDE DEF A, B
<1>10. \A r, c \in Lines : /\ A[r] + B[c] = Top - u[r] - v[c]
                           /\ Top \in Int /\ u[r] \in Int /\ v[c] \in Int
                           /\ weight[r][c] \in Int
                           /\ Top - weight[r][c] - u[r] - v[c] >= 0
  BY <1>2, <1>3, <1>5, <1>6, <1>9
<1>11. \A r, c \in Lines : weight[r][c] <= A[r] + B[c]
  BY <1>10
<1>12. ASSUME NEW c \in Lines PROVE weight[p[c]][c] = A[p[c]] + B[c]
  <2>1. p[c] \in Lines /\ Top - weight[p[c]][c] - u[p[c]] - v[c] = 0
    BY <1>2, <1>6
  <2> QED
    BY <1>10, <2>1
<1> QED
  BY <1>7, <1>8, <1>11, <1>12

-----------------------------------------------------------------------------
(* The engine's answer                                                     *)

(* What the matrix gives a set of pairs of lines. *)
Weight == [e \in Lines \X Lines |-> weight[e[1]][e[2]]]
Assigned == {<<p[c], c>> : c \in Lines}

(* No matching of rows with columns weighs more than the assignment. *)
LEMMA AssignmentIsHeaviest ==
    ASSUME TypeOK, Certified, phase = "done",
           NEW M \in SUBSET (Lines \X Lines), IsMatching(M)
    PROVE  SumFunctionOnSet(Weight, M) <= SumFunctionOnSet(Weight, Assigned)
<1>1. PICK A, B \in [Lines -> Nat] :
             /\ \A r, c \in Lines : weight[r][c] <= A[r] + B[c]
             /\ \A c \in Lines : weight[p[c]][c] = A[p[c]] + B[c]
  BY Duals
<1>2. IsFiniteSet(Lines) /\ \A r \in Lines : A[r] \in Nat /\ B[r] \in Nat
  <2>1. n \in Int
    BY DEF TypeOK
  <2>2. IsFiniteSet(Lines)
    BY <2>1, FS_Interval DEF Lines
  <2> QED
    BY <1>1, <2>2
<1>3. /\ \A r \in Lines : \E c \in Lines : p[c] = r
      /\ \A c, d \in Lines : p[c] = p[d] => c = d
      /\ \A c \in Lines : p[c] \in Lines
  BY DEF Certified
<1>4. \A e \in Lines \X Lines : /\ Weight[e] = weight[e[1]][e[2]] /\ Weight[e] \in Int
                                /\ Weight[e] <= A[e[1]] + B[e[2]]
  BY <1>1 DEF Weight, TypeOK
<1>5. Assigned \in SUBSET (Lines \X Lines) /\ IsMatching(Assigned)
  BY <1>3 DEF Assigned, IsMatching
<1>6. Covers(Assigned, Lines) /\ Exact(Weight, A, B, Assigned)
  <2>1. \A e \in Assigned : e[1] = p[e[2]] /\ e[2] \in Lines
    BY DEF Assigned
  <2>2. \A c \in Lines : <<p[c], c>> \in Assigned
    BY DEF Assigned
  <2>3. \A e \in Assigned : Weight[e] = A[e[1]] + B[e[2]]
    BY <1>1, <1>4, <1>5, <2>1
  <2> QED
    BY <1>3, <2>2, <2>3 DEF Covers, Exact
<1> HIDE DEF Weight, Assigned
<1>7. SumFunctionOnSet(Weight, M) <= SumFunctionOnSet(A, Lines) + SumFunctionOnSet(B, Lines)
  BY <1>2, <1>4, DualBound
<1>8. SumFunctionOnSet(Weight, Assigned) = SumFunctionOnSet(A, Lines) + SumFunctionOnSet(B, Lines)
  <2>1. \A e \in Assigned : Weight[e] \in Int /\ Weight[e] <= A[e[1]] + B[e[2]]
    BY <1>4, <1>5
  <2> QED
    BY <1>2, <1>5, <1>6, <2>1, DualBound
<1> QED
  BY <1>7, <1>8

LEMMA SuggestedPairs ==
    ASSUME TypeOK, Certified, EngineInv, phase = "done"
    PROVE  /\ Edges \in SUBSET (Lines \X Lines)
           /\ Suggested \in SUBSET Edges /\ IsMatching(Suggested)
           /\ SumFunctionOnSet(Weight, Assigned) = SumFunctionOnSet(Weight, Suggested)
<1>1. /\ \A c, d \in Lines : p[c] = p[d] => c = d
      /\ \A c \in Lines : p[c] \in Lines
  BY DEF Certified
<1>2. DOMAIN Left \subseteq Lines /\ DOMAIN Right \subseteq Lines
  BY WeightsAre
<1>3. Edges \in SUBSET (Lines \X Lines)
  BY <1>2 DEF Edges
<1>4. \A r, c : Edge(r, c) => r \in DOMAIN Left /\ c \in DOMAIN Right
  BY DEF Edge
<1>5. Suggested \in SUBSET Edges
  <2> SUFFICES ASSUME NEW c \in Lines, Edge(p[c], c) PROVE <<p[c], c>> \in Edges
    BY DEF Suggested
  <2> QED
    BY <1>4 DEF Edges
<1>6. IsMatching(Suggested)
  BY <1>1 DEF Suggested, IsMatching
<1>7. Suggested \in SUBSET Assigned /\ Assigned \in SUBSET (Lines \X Lines)
  BY <1>1 DEF Suggested, Assigned
<1>8. \A e \in Assigned \ Suggested : Weight[e] = 0
  <2> SUFFICES ASSUME NEW c \in Lines, <<p[c], c>> \notin Suggested
               PROVE  Weight[<<p[c], c>>] = 0
    BY DEF Assigned
  <2>1. ~Edge(p[c], c)
    BY DEF Suggested
  <2>2. weight[p[c]][c] = 0
    BY <1>1, <2>1, WeightsAre
  <2> QED
    BY <1>1, <2>2 DEF Weight
<1>9. \A e \in Assigned : Weight[e] \in Int
  BY <1>7 DEF Weight, TypeOK
<1>10. IsFiniteSet(Assigned)
  <2>1. n \in Int
    BY DEF TypeOK
  <2>2. IsFiniteSet(Lines)
    BY <2>1, FS_Interval DEF Lines
  <2> QED
    BY <1>7, <2>2, FS_Product, FS_Subset
<1>11. SumFunctionOnSet(Weight, Suggested) = SumFunctionOnSet(Weight, Assigned)
  <2>1. \A e \in Assigned \ Suggested : Weight[e] >= 0
    BY <1>8
  <2> HIDE DEF Weight, Assigned, Suggested
  <2> QED
    BY <1>7, <1>8, <1>9, <1>10, <2>1, SumOfPart
<1> QED
  BY <1>3, <1>5, <1>6, <1>11

(* A matching weighs the bonus for each pair and the scores of all of them, *)
(* which do not reach the bonus even together.                             *)
LEMMA MatchingWeighs ==
    ASSUME TypeOK, EngineInv, NEW M \in SUBSET Edges, IsMatching(M)
    PROVE  /\ Cardinality(M) \in Nat /\ Cardinality(M) <= n
           /\ Total(M) \in Int /\ 0 <= Total(M) /\ Total(M) <= 100 * Cardinality(M)
           /\ SumFunctionOnSet(Weight, M) = EdgeBonus * Cardinality(M) + Total(M)
<1> DEFINE cost == [e \in M |-> EdgeBonus]
           zero == [e \in M |-> 0]
           most == [e \in M |-> 100]
           q == [e \in M |-> e[2]]
<1>1. DOMAIN Left \subseteq Lines /\ DOMAIN Right \subseteq Lines
  BY WeightsAre
<1>2. M \in SUBSET (Lines \X Lines)
  BY <1>1 DEF Edges
<1>3. n \in Nat /\ IsFiniteSet(Lines) /\ Cardinality(Lines) = n
  <2>1. n \in Nat /\ n \in Int /\ 1 \in Int
    BY DEF TypeOK
  <2>2. IsFiniteSet(1..n) /\ Cardinality(1..n) = IF 1 > n THEN 0 ELSE n - 1 + 1
    BY <2>1, FS_Interval
  <2> QED
    BY <2>1, <2>2 DEF Lines
<1>4. IsFiniteSet(M)
  BY <1>2, <1>3, FS_Product, FS_Subset
<1>5. Cardinality(M) \in Nat /\ Cardinality(M) <= n
  <2>1. q \in Injection(M, Lines)
    BY <1>2 DEF IsMatching, Injection, IsInjective
  <2> HIDE DEF q
  <2> QED
    BY <1>3, <1>4, <2>1, FS_Injection, FS_CardinalityType
<1>6. \A e \in M : /\ Score[e] \in 0..100
                   /\ Weight[e] = EdgeBonus + Score[e]
  <2> SUFFICES ASSUME NEW e \in M
               PROVE  Score[e] \in 0..100 /\ Weight[e] = EdgeBonus + Score[e]
    OBVIOUS
  <2>1. e \in Edges /\ e[1] \in Lines /\ e[2] \in Lines /\ Edge(e[1], e[2])
    BY <1>2 DEF Edges
  <2>2. Weight[e] = weight[e[1]][e[2]]
    BY <1>2 DEF Weight
  <2>3. Score[e] = Evaluate(Left[e[1]], Right[e[2]]).score
    BY <2>1 DEF Score
  <2> QED
    BY <2>1, <2>2, <2>3, WeightsAre
<1>7. EdgeBonus \in Int
  BY DEF EdgeBonus, MaxPrototypePeople
<1>8. /\ SumFunctionOnSet(cost, M) = EdgeBonus * Cardinality(M)
      /\ SumFunctionOnSet(zero, M) = 0 * Cardinality(M)
      /\ SumFunctionOnSet(most, M) = 100 * Cardinality(M)
  <2>1. /\ \A e \in M : cost[e] = EdgeBonus
        /\ \A e \in M : zero[e] = 0
        /\ \A e \in M : most[e] = 100
    OBVIOUS
  <2> HIDE DEF cost, zero, most
  <2> QED
    BY <1>4, <1>7, <2>1, SumConst
<1>9. \A e \in M : /\ cost[e] \in Int /\ Score[e] \in Int /\ Weight[e] = cost[e] + Score[e]
                   /\ zero[e] \in Int /\ most[e] \in Int
                   /\ zero[e] <= Score[e] /\ Score[e] <= most[e]
  BY <1>6, <1>7
<1> HIDE DEF cost, zero, most
<1>10. SumFunctionOnSet(Weight, M) = SumFunctionOnSet(cost, M) + SumFunctionOnSet(Score, M)
  BY <1>4, <1>9, SumPlus
<1>11. /\ SumFunctionOnSet(zero, M) <= SumFunctionOnSet(Score, M)
       /\ SumFunctionOnSet(Score, M) <= SumFunctionOnSet(most, M)
       /\ SumFunctionOnSet(Score, M) \in Int
  BY <1>4, <1>9, SumMono, SumType
<1> QED
  BY <1>5, <1>8, <1>10, <1>11 DEF Total

LEMMA Optimal ==
    ASSUME TypeOK, Certified, EngineInv
    PROVE  PairingsAreOptimal
<1> SUFFICES ASSUME phase = "done"
             PROVE  /\ Suggested \subseteq Edges
                    /\ IsMatching(Suggested)
                    /\ \A M \in SUBSET Edges : IsMatching(M) =>
                          \/ Cardinality(M) < Cardinality(Suggested)
                          \/ /\ Cardinality(M) = Cardinality(Suggested)
                             /\ Total(M) <= Total(Suggested)
  BY DEF PairingsAreOptimal
<1>1. /\ Edges \in SUBSET (Lines \X Lines)
      /\ Suggested \in SUBSET Edges /\ IsMatching(Suggested)
      /\ SumFunctionOnSet(Weight, Assigned) = SumFunctionOnSet(Weight, Suggested)
  BY SuggestedPairs
<1>2. ASSUME NEW M \in SUBSET Edges, IsMatching(M)
      PROVE  \/ Cardinality(M) < Cardinality(Suggested)
             \/ /\ Cardinality(M) = Cardinality(Suggested)
                /\ Total(M) <= Total(Suggested)
  <2> DEFINE k == Cardinality(M)
             l == Cardinality(Suggested)
             x == Total(M)
             y == Total(Suggested)
  <2>1. /\ k \in Nat /\ x \in Int /\ 0 <= x
        /\ SumFunctionOnSet(Weight, M) = EdgeBonus * k + x
    BY <1>2, MatchingWeighs
  <2>2. /\ l \in Nat /\ l <= n /\ y \in Int /\ y <= 100 * l
        /\ SumFunctionOnSet(Weight, Suggested) = EdgeBonus * l + y
    BY <1>1, MatchingWeighs
  <2>3. SumFunctionOnSet(Weight, M) <= SumFunctionOnSet(Weight, Suggested)
    <3>1. M \in SUBSET (Lines \X Lines)
      BY <1>1
    <3> QED
      BY <1>1, <1>2, <3>1, AssignmentIsHeaviest
  <2>4. n \in Nat /\ n <= 10000 /\ EdgeBonus = 1000001
    BY WeightsAre DEF EdgeBonus, MaxPrototypePeople
  <2> HIDE DEF k, l, x, y
  <2>5. EdgeBonus * k + x <= EdgeBonus * l + y
    BY <2>1, <2>2, <2>3
  <2>6. k < l \/ (k = l /\ x <= y)
    BY <2>1, <2>2, <2>4, <2>5
  <2> QED
    BY <2>6 DEF k, l, x, y
<1> QED
  BY <1>1, <1>2

-----------------------------------------------------------------------------
(* Nobody without a partner could have had somebody else without one: the  *)
(* two of them would have made a larger matching.                          *)
LEMMA NoPairIsLeft ==
    ASSUME TypeOK, Certified, EngineInv, phase = "done",
           NEW r \in DOMAIN Left, NEW c \in DOMAIN Right, Pairable(Left[r], Right[c])
    PROVE  Left[r] \in Paired \/ Right[c] \in Paired
<1> SUFFICES ASSUME Left[r] \notin Paired, Right[c] \notin Paired PROVE FALSE
  OBVIOUS
<1> DEFINE e == <<r, c>>
           M == Suggested \cup {e}
<1>1. \A f \in Suggested : f[1] # r /\ f[2] # c
  BY DEF Paired
<1>2. /\ Edges \in SUBSET (Lines \X Lines)
      /\ Suggested \in SUBSET Edges /\ IsMatching(Suggested)
  BY SuggestedPairs
<1>3. e \in Edges /\ e[1] = r /\ e[2] = c
  BY DEF Edges, Edge
<1> HIDE DEF e
<1>4. M \in SUBSET Edges /\ e \notin Suggested
  BY <1>1, <1>2, <1>3
<1>5. IsMatching(M)
  BY <1>1, <1>2, <1>3 DEF IsMatching
<1>6. /\ Cardinality(M) < Cardinality(Suggested)
         \/ Cardinality(M) = Cardinality(Suggested)
  <2> HIDE DEF M
  <2> QED
    BY <1>4, <1>5, Optimal DEF PairingsAreOptimal
<1>7. IsFiniteSet(Suggested)
  <2>1. n \in Int
    BY DEF TypeOK
  <2>2. IsFiniteSet(Lines)
    BY <2>1, FS_Interval DEF Lines
  <2> QED
    BY <1>2, <2>2, FS_Product, FS_Subset
<1>8. Cardinality(M) = Cardinality(Suggested) + 1 /\ Cardinality(Suggested) \in Nat
  BY <1>4, <1>7, FS_AddElement, FS_CardinalityType
<1> HIDE DEF M
<1> QED
  BY <1>6, <1>8

LEMMA Reasons ==
    ASSUME TypeOK, Certified, EngineInv
    PROVE  ReasonsAreTrue
<1> DEFINE Possible(a) == {b \in people : Pairable(a, b) \/ Pairable(b, a)}
<1> SUFFICES ASSUME phase = "done", NEW a \in people, a \notin Paired
             PROVE  /\ Possible(a) \subseteq Paired
                    /\ Possible(a) = {} <=> UnmatchedReason(a) # "GROUP_CAPACITY_IMBALANCE"
  BY DEF ReasonsAreTrue, Unmatched
<1>1. people \in Inputs /\ TwoGroups(people)
  BY DEF EngineInv
<1>2. \A b \in people : Ready(b)
  BY <1>1, InputReady
<1>3. \A b \in people : /\ Evaluate(a, b).eligible => a.group # b.group
                        /\ Pairable(a, b) <=> Pairable(b, a)
  BY <1>2, PairingIsMutual
<1>4. \A b : Pairable(a, b) => Evaluate(a, b).eligible
  BY DEF Pairable
<1>5. Possible(a) \subseteq Paired
  <2> SUFFICES ASSUME NEW b \in people, Pairable(a, b), Pairable(b, a), b \notin Paired
               PROVE  FALSE
    BY <1>3
  <2>1. a.group # b.group
    BY <1>3, <1>4
  <2>2. /\ \A s, t \in DOMAIN Left : Left[s].group = Left[t].group
        /\ \A s, t \in DOMAIN Right : Right[s].group = Right[t].group
        /\ (\E r \in DOMAIN Left : Left[r] = a) \/ (\E c \in DOMAIN Right : Right[c] = a)
        /\ (\E r \in DOMAIN Left : Left[r] = b) \/ (\E c \in DOMAIN Right : Right[c] = b)
    BY <1>1, SidesList DEF Left, Right
  <2>3. \/ \E r \in DOMAIN Left, c \in DOMAIN Right : Left[r] = a /\ Right[c] = b
        \/ \E r \in DOMAIN Left, c \in DOMAIN Right : Left[r] = b /\ Right[c] = a
    BY <2>1, <2>2
  <2> QED
    BY <2>3, NoPairIsLeft
<1>6. /\ UnmatchedReason(a) # "GROUP_CAPACITY_IMBALANCE" <=>
            ~\E b \in {d \in people : d.group # a.group} : Pairable(a, b)
  BY <1>4 DEF UnmatchedReason
<1>7. Possible(a) = {} <=> ~\E b \in {d \in people : d.group # a.group} : Pairable(a, b)
  BY <1>3, <1>4
<1> QED
  BY <1>5, <1>6, <1>7

-----------------------------------------------------------------------------
(* The engine is the algorithm on the matrix of its input                  *)

LEMMA EngineStarts == EngineInit => Init /\ EngineInv
<1> SUFFICES ASSUME EngineInit PROVE Init /\ EngineInv
  OBVIOUS
<1>1. /\ people \in Inputs /\ TwoGroups(people)
      /\ Start(SizeOf(people), WeightsOf(people))
  BY DEF EngineInit
<1>2. /\ SizeOf(people) \in Nat \ {0}
      /\ WeightsOf(people) \in [1..SizeOf(people) -> [1..SizeOf(people) -> Nat]]
  BY <1>1, InputShape
<1>3. Init
  BY <1>1, <1>2 DEF Init
<1>4. n = SizeOf(people) /\ weight = WeightsOf(people)
  BY <1>1 DEF Start
<1> QED
  BY <1>1, <1>3, <1>4 DEF EngineInv

LEMMA EngineSteps ==
    ASSUME [EngineStep]_vars
    PROVE  [Step]_hvars /\ (EngineInv => EngineInv')
<1>1. people' = people
  BY DEF EngineStep, vars
<1>2. [Step]_hvars
  BY DEF EngineStep, vars
<1>3. n' = n /\ weight' = weight
  BY <1>2 DEF Step, Search, Shift, hvars, input
<1> QED
  BY <1>1, <1>2, <1>3 DEF EngineInv

LEMMA EngineRuns == EngineSpec => Spec /\ []EngineInv
BY EngineStarts, EngineSteps, PTL DEF EngineSpec, Spec

(* The pairs suggested are pairable, nobody is in two of them, and no other *)
(* set of such pairs is larger, or as large with a better total score.     *)
THEOREM EngineIsOptimal == EngineSpec => []PairingsAreOptimal
<1>1. TypeOK /\ Certified /\ EngineInv => PairingsAreOptimal
  BY Optimal
<1> QED
  BY <1>1, EngineRuns, TypeCorrect, AssignmentIsCertified, PTL

(* Somebody left out for the imbalance of the groups has possible partners  *)
(* and all of these are taken, and for another reason has none.            *)
THEOREM EngineReasons == EngineSpec => []ReasonsAreTrue
<1>1. TypeOK /\ Certified /\ EngineInv => ReasonsAreTrue
  BY Reasons
<1> QED
  BY <1>1, EngineRuns, TypeCorrect, AssignmentIsCertified, PTL
=============================================================================
