----------------------------- MODULE SumTheorems -----------------------------
(***************************************************************************)
(* Facts about SumFunctionOnSet(f, S), the sum of f[x] for the x in a      *)
(* finite set S: the quantities, amounts and stakes that the modules of    *)
(* this project add up.  It is a fold, so it is defined by a recursive     *)
(* function on the subsets of S that takes elements away one at a time.    *)
(*                                                                         *)
(* The first part shows that this function exists and that S alone         *)
(* determines it.  The second part is what proofs use: which element is    *)
(* taken first does not matter.                                            *)
(***************************************************************************)
EXTENDS Functions, FiniteSetTheorems, TLAPS

(* What holds of a set whenever it holds of all its proper subsets holds   *)
(* of every finite set.  Good is the set of those of which it holds, so    *)
(* that the lemma can be used without a predicate as its parameter.        *)
LEMMA InductionOnSubsets ==
  ASSUME NEW S, IsFiniteSet(S), NEW Good,
         \A T \in SUBSET S :
            (\A U \in SUBSET T : U # T => U \in Good) => T \in Good
  PROVE  S \in Good
<1> DEFINE Bad == {T \in SUBSET S : T \notin Good}
<1> SUFFICES ASSUME Bad # {}
             PROVE  FALSE
  BY S \in SUBSET S
<1>1. /\ IsWellFoundedOn(StrictSubsetOrdering(S), FiniteSubsetsOf(S))
      /\ FiniteSubsetsOf(S) = SUBSET S
  BY FS_StrictSubsetOrderingWellFounded, FS_FiniteSubsetsOfFinite
<1>2. Bad \subseteq FiniteSubsetsOf(S)
  BY <1>1
<1> HIDE DEF Bad
<1>3. PICK T \in Bad :
        \A U \in Bad : ~(<<U, T>> \in StrictSubsetOrdering(S))
  BY <1>1, <1>2, WFMin
<1>4. T \in SUBSET S /\ T \notin Good
  BY <1>3 DEF Bad
<1>5. ASSUME NEW U \in SUBSET T, U # T
      PROVE  U \in Good
  <2>1. <<U, T>> \in StrictSubsetOrdering(S)
    BY <1>4, <1>5 DEF StrictSubsetOrdering
  <2> QED
    BY <1>3, <1>4, <2>1 DEF Bad
<1> QED
  BY <1>4, <1>5
-----------------------------------------------------------------------------
First(s) == CHOOSE x \in s : TRUE

Step(f, g, s) == IF s = {} THEN 0 ELSE f[First(s)] + g[s \ {First(s)}]

(* g is the function the fold over S is defined by.                        *)
Folds(f, g, S) == g = [s \in SUBSET S |-> Step(f, g, s)]

Folding(f, S) == CHOOSE g : Folds(f, g, S)

LEMMA FirstIsIn ==
  ASSUME NEW s, s # {}
  PROVE  First(s) \in s
  BY DEF First

LEMMA SumIsFolding ==
  ASSUME NEW f, NEW S
  PROVE  SumFunctionOnSet(f, S) = Folding(f, S)[S]
  BY Zenon DEF SumFunctionOnSet, FoldFunctionOnSet, MapThenFoldSet,
     Folding, Folds, Step, First

(* On a set that both are defined on, two such functions agree.            *)
LEMMA FoldsAgree ==
  ASSUME NEW f, NEW g, NEW h, NEW S, NEW T, Folds(f, g, S), Folds(f, h, T),
         NEW U \in SUBSET (S \cap T), IsFiniteSet(U)
  PROVE  g[U] = h[U]
<1> DEFINE Good == {V \in SUBSET U : g[V] = h[V]}
<1>1. ASSUME NEW V \in SUBSET U,
             \A W \in SUBSET V : W # V => W \in Good
      PROVE  V \in Good
  <2>1. g[V] = Step(f, g, V) /\ h[V] = Step(f, h, V)
    BY Zenon DEF Folds
  <2>2. CASE V = {}
    BY <2>1, <2>2 DEF Step
  <2>3. CASE V # {}
    <3>1. V \ {First(V)} \in Good
      BY <1>1, <2>3, FirstIsIn
    <3> QED
      BY <2>1, <2>3, <3>1 DEF Step
  <2> QED
    BY <2>2, <2>3
<1> HIDE DEF Good
<1>2. U \in Good
  BY <1>1, InductionOnSubsets
<1> QED
  BY <1>2 DEF Good

LEMMA FoldingExists ==
  ASSUME NEW f, NEW S, IsFiniteSet(S)
  PROVE  Folds(f, Folding(f, S), S)
<1> DEFINE Good == {T \in SUBSET S : \E g : Folds(f, g, T)}
<1>1. ASSUME NEW T \in SUBSET S,
             \A U \in SUBSET T : U # T => U \in Good
      PROVE  T \in Good
  <2>1. \A U \in SUBSET T : U # T => Folds(f, Folding(f, U), U)
    BY <1>1 DEF Folding
  <2> DEFINE h == [U \in SUBSET T |-> Folding(f, U)[U]]
             g == [s \in SUBSET T |-> Step(f, h, s)]
  <2>2. ASSUME NEW s \in SUBSET T, s # T
        PROVE  g[s] = h[s]
    <3>1. Folds(f, Folding(f, s), s)
      BY <2>1, <2>2
    <3>2. h[s] = Step(f, Folding(f, s), s)
      BY <3>1, Zenon DEF Folds
    <3>3. CASE s = {}
      BY <3>2, <3>3 DEF Step
    <3>4. CASE s # {}
      <4> DEFINE u == s \ {First(s)}
      <4>1. u \in SUBSET s /\ u # s /\ u \in SUBSET T /\ u # T
        BY <3>4, FirstIsIn
      <4>2. IsFiniteSet(u)
        BY <4>1, FS_Subset
      <4>3. Folds(f, Folding(f, u), u)
        BY <2>1, <4>1
      <4> HIDE DEF u
      <4>4. Folding(f, u)[u] = Folding(f, s)[u]
        BY <3>1, <4>1, <4>2, <4>3, FoldsAgree
      <4>5. h[u] = Folding(f, s)[u]
        BY <4>1, <4>4
      <4>6. Step(f, h, s) = Step(f, Folding(f, s), s)
        BY <3>4, <4>5 DEF Step, u
      <4> QED
        BY <3>2, <4>6
    <3> QED
      BY <3>3, <3>4
  <2>3. ASSUME NEW s \in SUBSET T
        PROVE  Step(f, g, s) = Step(f, h, s)
    <3>1. CASE s = {}
      BY <3>1 DEF Step
    <3>2. CASE s # {}
      <4> DEFINE u == s \ {First(s)}
      <4>1. u \in SUBSET T /\ u # T
        BY <3>2, FirstIsIn
      <4>2. g[u] = h[u]
        BY <2>2, <4>1
      <4> HIDE DEF g, h
      <4> QED
        BY <3>2, <4>2 DEF Step
    <3> QED
      BY <3>1, <3>2
  <2>4. Folds(f, g, T)
    BY <2>3, Zenon DEF Folds
  <2> QED
    BY <2>4
<1>2. S \in Good
  <2> HIDE DEF Good
  <2> QED
    BY <1>1, InductionOnSubsets
<1> QED
  BY <1>2 DEF Folding
-----------------------------------------------------------------------------
(* The sum of nothing is nothing.                                          *)
THEOREM SumEmpty ==
  ASSUME NEW f
  PROVE  SumFunctionOnSet(f, {}) = 0
<1>1. Folds(f, Folding(f, {}), {})
  BY FoldingExists, FS_EmptySet
<1>2. Folding(f, {})[{}] = Step(f, Folding(f, {}), {})
  BY <1>1, Zenon DEF Folds
<1> QED
  BY <1>2, SumIsFolding DEF Step

(* The fold takes its first element away.                                  *)
LEMMA SumOfFirst ==
  ASSUME NEW f, NEW S, IsFiniteSet(S), S # {}
  PROVE  SumFunctionOnSet(f, S) =
            f[First(S)] + SumFunctionOnSet(f, S \ {First(S)})
<1> DEFINE U == S \ {First(S)}
<1>1. U \in SUBSET S /\ U \in SUBSET (S \cap U) /\ IsFiniteSet(U)
  BY FS_Subset
<1>2. Folds(f, Folding(f, S), S) /\ Folds(f, Folding(f, U), U)
  BY <1>1, FoldingExists
<1>3. Folding(f, S)[U] = Folding(f, U)[U]
  BY <1>1, <1>2, FoldsAgree
<1>4. Folding(f, S)[S] = Step(f, Folding(f, S), S)
  BY <1>2, Zenon DEF Folds
<1> HIDE DEF U
<1>5. SumFunctionOnSet(f, S) = Folding(f, S)[S]
      /\ SumFunctionOnSet(f, U) = Folding(f, U)[U]
  BY SumIsFolding
<1> QED
  BY <1>3, <1>4, <1>5 DEF Step, U

(* A sum of integers is an integer, of natural numbers a natural number.   *)
THEOREM SumType ==
  ASSUME NEW f, NEW S, IsFiniteSet(S), \A x \in S : f[x] \in Int
  PROVE  /\ SumFunctionOnSet(f, S) \in Int
         /\ (\A x \in S : f[x] \in Nat) => SumFunctionOnSet(f, S) \in Nat
<1> DEFINE
      Typed(T) ==
        /\ SumFunctionOnSet(f, T) \in Int
        /\ (\A x \in T : f[x] \in Nat) => SumFunctionOnSet(f, T) \in Nat
      Good == {T \in SUBSET S : Typed(T)}
<1>1. ASSUME NEW T \in SUBSET S,
             \A U \in SUBSET T : U # T => U \in Good
      PROVE  T \in Good
  <2>1. CASE T = {}
    BY <2>1, SumEmpty
  <2>2. CASE T # {}
    <3> DEFINE U == T \ {First(T)}
    <3>1. First(T) \in T /\ U \in SUBSET T /\ U # T
      BY <2>2, FirstIsIn
    <3>2. SumFunctionOnSet(f, T) = f[First(T)] + SumFunctionOnSet(f, U)
      BY <2>2, FS_Subset, SumOfFirst
    <3>3. Typed(U) /\ f[First(T)] \in Int
      BY <1>1, <3>1
    <3> HIDE DEF U
    <3> QED
      BY <3>1, <3>2, <3>3
  <2> QED
    BY <2>1, <2>2
<1>2. S \in Good
  <2> HIDE DEF Good
  <2> QED
    BY <1>1, InductionOnSubsets
<1> QED
  BY <1>2

(* Any element may be taken away first.                                    *)
THEOREM SumRemove ==
  ASSUME NEW f, NEW S, IsFiniteSet(S), \A x \in S : f[x] \in Int,
         NEW x \in S
  PROVE  SumFunctionOnSet(f, S) = f[x] + SumFunctionOnSet(f, S \ {x})
<1> DEFINE
      Sum(T) == SumFunctionOnSet(f, T)
      Good == {T \in SUBSET S :
                    \A y \in T : Sum(T) = f[y] + Sum(T \ {y})}
<1>1. \A T \in SUBSET S : IsFiniteSet(T) /\ Sum(T) \in Int
  BY FS_Subset, SumType
<1>2. ASSUME NEW T \in SUBSET S,
             \A U \in SUBSET T : U # T => U \in Good
      PROVE  T \in Good
  <2>1. SUFFICES ASSUME NEW y \in T
                 PROVE  Sum(T) = f[y] + Sum(T \ {y})
    OBVIOUS
  <2> DEFINE c == First(T)
             W == (T \ {c}) \ {y}
  <2>2. c \in T /\ Sum(T) = f[c] + Sum(T \ {c})
    BY <1>1, FirstIsIn, SumOfFirst
  <2>3. CASE y = c
    BY <2>2, <2>3
  <2>4. CASE y # c
    <3>1. T \ {c} \in Good /\ T \ {y} \in Good
      BY <1>2, <2>2
    <3>2. Sum(T \ {c}) = f[y] + Sum(W)
      BY <2>4, <3>1
    <3>3. (T \ {y}) \ {c} = W
      OBVIOUS
    <3>4. Sum(T \ {y}) = f[c] + Sum(W)
      BY <2>2, <2>4, <3>1, <3>3
    <3>5. f[c] \in Int /\ f[y] \in Int /\ Sum(W) \in Int
      BY <1>1, <2>2
    <3> HIDE DEF Sum, c, W
    <3> QED
      BY <2>2, <3>2, <3>4, <3>5
  <2> QED
    BY <2>3, <2>4
<1>3. S \in Good
  <2> HIDE DEF Good
  <2> QED
    BY <1>2, InductionOnSubsets
<1> QED
  BY <1>3

(* The same, for an element that is added.                                 *)
THEOREM SumAdd ==
  ASSUME NEW f, NEW S, IsFiniteSet(S), NEW x, x \notin S,
         \A y \in S \union {x} : f[y] \in Int
  PROVE  /\ SumFunctionOnSet(f, S \union {x})
                = SumFunctionOnSet(f, S) + f[x]
         /\ SumFunctionOnSet(f, S) \in Int
<1>1. IsFiniteSet(S \union {x}) /\ (S \union {x}) \ {x} = S
  BY FS_AddElement
<1>2. SumFunctionOnSet(f, S \union {x}) = f[x] + SumFunctionOnSet(f, S)
  BY <1>1, SumRemove
<1>3. SumFunctionOnSet(f, S) \in Int /\ f[x] \in Int
  BY SumType
<1> QED
  BY <1>2, <1>3

(* Only the values on S matter to the sum over S.                          *)
THEOREM SumAgree ==
  ASSUME NEW f, NEW g, NEW S, IsFiniteSet(S), \A x \in S : f[x] = g[x]
  PROVE  SumFunctionOnSet(f, S) = SumFunctionOnSet(g, S)
<1> DEFINE Good == {T \in SUBSET S :
                        SumFunctionOnSet(f, T) = SumFunctionOnSet(g, T)}
<1>1. ASSUME NEW T \in SUBSET S,
             \A U \in SUBSET T : U # T => U \in Good
      PROVE  T \in Good
  <2>1. CASE T = {}
    BY <2>1, SumEmpty
  <2>2. CASE T # {}
    <3> DEFINE U == T \ {First(T)}
    <3>1. First(T) \in T /\ U \in SUBSET T /\ U # T
      BY <2>2, FirstIsIn
    <3>2. /\ SumFunctionOnSet(f, T) = f[First(T)] + SumFunctionOnSet(f, U)
          /\ SumFunctionOnSet(g, T) = g[First(T)] + SumFunctionOnSet(g, U)
      BY <2>2, FS_Subset, SumOfFirst
    <3>3. SumFunctionOnSet(f, U) = SumFunctionOnSet(g, U)
      BY <1>1, <3>1
    <3> HIDE DEF U
    <3> QED
      BY <3>1, <3>2, <3>3
  <2> QED
    BY <2>1, <2>2
<1>2. S \in Good
  <2> HIDE DEF Good
  <2> QED
    BY <1>1, InductionOnSubsets
<1> QED
  BY <1>2

(* Nothing adds up to nothing.                                             *)
THEOREM SumOfZeros ==
  ASSUME NEW f, NEW S, IsFiniteSet(S), \A x \in S : f[x] = 0
  PROVE  SumFunctionOnSet(f, S) = 0
<1> DEFINE Good == {T \in SUBSET S : SumFunctionOnSet(f, T) = 0}
<1>1. ASSUME NEW T \in SUBSET S,
             \A U \in SUBSET T : U # T => U \in Good
      PROVE  T \in Good
  <2>1. CASE T = {}
    BY <2>1, SumEmpty
  <2>2. CASE T # {}
    <3> DEFINE U == T \ {First(T)}
    <3>1. First(T) \in T /\ U \in SUBSET T /\ U # T
      BY <2>2, FirstIsIn
    <3>2. SumFunctionOnSet(f, T) = f[First(T)] + SumFunctionOnSet(f, U)
      BY <2>2, FS_Subset, SumOfFirst
    <3>3. SumFunctionOnSet(f, U) = 0
      BY <1>1, <3>1
    <3> HIDE DEF U
    <3> QED
      BY <3>1, <3>2, <3>3
  <2> QED
    BY <2>1, <2>2
<1>2. S \in Good
  <2> HIDE DEF Good
  <2> QED
    BY <1>1, InductionOnSubsets
<1> QED
  BY <1>2

(* If one value changes, the sum changes by as much.                       *)
THEOREM SumUpdate ==
  ASSUME NEW f, NEW g, NEW S, IsFiniteSet(S), NEW x \in S,
         \A y \in S : f[y] \in Int, g[x] \in Int,
         \A y \in S \ {x} : g[y] = f[y]
  PROVE  /\ SumFunctionOnSet(g, S) = SumFunctionOnSet(f, S) - f[x] + g[x]
         /\ SumFunctionOnSet(f, S) \in Int
<1> DEFINE R == S \ {x}
<1>1. IsFiniteSet(R)
  BY FS_Subset
<1>2. /\ SumFunctionOnSet(f, S) = f[x] + SumFunctionOnSet(f, R)
      /\ SumFunctionOnSet(g, S) = g[x] + SumFunctionOnSet(g, R)
  BY SumRemove
<1>3. SumFunctionOnSet(f, R) = SumFunctionOnSet(g, R)
  BY <1>1, SumAgree
<1>4. SumFunctionOnSet(f, R) \in Int /\ SumFunctionOnSet(f, S) \in Int
  BY <1>1, SumType
<1> HIDE DEF R
<1> QED
  BY <1>2, <1>3, <1>4

(* A sum of natural numbers is no less than any of them.                   *)
THEOREM SumOfElement ==
  ASSUME NEW f, NEW S, IsFiniteSet(S), \A x \in S : f[x] \in Nat, NEW x \in S
  PROVE  f[x] <= SumFunctionOnSet(f, S)
<1> DEFINE R == S \ {x}
<1>1. SumFunctionOnSet(f, S) = f[x] + SumFunctionOnSet(f, R)
  BY SumRemove
<1>2. SumFunctionOnSet(f, R) \in Nat
  BY FS_Subset, SumType
<1> HIDE DEF R
<1> QED
  BY <1>1, <1>2

(* Nor do parts of it exceed it, ...                                       *)
THEOREM SumOfPart ==
  ASSUME NEW f, NEW S, IsFiniteSet(S), \A x \in S : f[x] \in Nat,
         NEW U \in SUBSET S
  PROVE  SumFunctionOnSet(f, U) <= SumFunctionOnSet(f, S)
<1> DEFINE Good == {T \in SUBSET S :
        \A V \in SUBSET T :
            SumFunctionOnSet(f, V) <= SumFunctionOnSet(f, T)}
<1>1. \A T \in SUBSET S : /\ IsFiniteSet(T)
                          /\ SumFunctionOnSet(f, T) \in Nat
  BY FS_Subset, SumType
<1>2. ASSUME NEW T \in SUBSET S,
             \A V \in SUBSET T : V # T => V \in Good
      PROVE  T \in Good
  <2> SUFFICES ASSUME NEW V \in SUBSET T
               PROVE  SumFunctionOnSet(f, V) <= SumFunctionOnSet(f, T)
    OBVIOUS
  <2>1. CASE V = T
    BY <1>1, <2>1
  <2>2. CASE V # T
    <3>1. PICK x \in T : x \notin V
      BY <2>2
    <3> DEFINE W == T \ {x}
    <3>2. W \in Good /\ V \in SUBSET W /\ W \in SUBSET S
      BY <1>2, <3>1
    <3>3. SumFunctionOnSet(f, T) = f[x] + SumFunctionOnSet(f, W)
      BY <1>1, SumRemove
    <3>4. SumFunctionOnSet(f, V) <= SumFunctionOnSet(f, W)
      BY <3>2
    <3>5. f[x] \in Nat /\ SumFunctionOnSet(f, V) \in Nat
          /\ SumFunctionOnSet(f, W) \in Nat
      BY <1>1, <3>2
    <3> HIDE DEF W
    <3> QED
      BY <3>3, <3>4, <3>5
  <2> QED
    BY <2>1, <2>2
<1>3. S \in Good
  <2> HIDE DEF Good
  <2> QED
    BY <1>2, InductionOnSubsets
<1> QED
  BY <1>3

(* ... and the sum is what its two parts are together.                     *)
THEOREM SumOfParts ==
  ASSUME NEW f, NEW S, IsFiniteSet(S), \A x \in S : f[x] \in Int,
         NEW U \in SUBSET S
  PROVE  SumFunctionOnSet(f, S) =
            SumFunctionOnSet(f, U) + SumFunctionOnSet(f, S \ U)
<1> DEFINE Good == {T \in SUBSET U :
        SumFunctionOnSet(f, (S \ U) \union T) =
            SumFunctionOnSet(f, T) + SumFunctionOnSet(f, S \ U)}
<1>1. \A T \in SUBSET S : IsFiniteSet(T) /\ SumFunctionOnSet(f, T) \in Int
  BY FS_Subset, SumType
<1>2. ASSUME NEW T \in SUBSET U,
             \A V \in SUBSET T : V # T => V \in Good
      PROVE  T \in Good
  <2>1. CASE T = {}
    BY <1>1, <2>1, SumEmpty
  <2>2. CASE T # {}
    <3>1. PICK x \in T : TRUE
      BY <2>2
    <3> DEFINE V == T \ {x}
               R == (S \ U) \union T
               Q == (S \ U) \union V
    <3>2. V \in Good /\ R \ {x} = Q /\ x \in R
      BY <1>2, <3>1
    <3>3. SumFunctionOnSet(f, R) = f[x] + SumFunctionOnSet(f, Q)
      BY <1>1, <3>2, SumRemove
    <3>4. SumFunctionOnSet(f, T) = f[x] + SumFunctionOnSet(f, V)
      BY <1>1, <3>1, SumRemove
    <3>5. SumFunctionOnSet(f, Q) =
            SumFunctionOnSet(f, V) + SumFunctionOnSet(f, S \ U)
      BY <3>2
    <3>6. /\ f[x] \in Int /\ SumFunctionOnSet(f, V) \in Int
          /\ SumFunctionOnSet(f, S \ U) \in Int
      BY <1>1, <3>1
    <3> HIDE DEF V, Q
    <3>7. SumFunctionOnSet(f, R) =
            SumFunctionOnSet(f, T) + SumFunctionOnSet(f, S \ U)
      <4> HIDE DEF R
      <4> QED
        BY <3>3, <3>4, <3>5, <3>6
    <3> QED
      BY <3>7
  <2> QED
    BY <2>1, <2>2
<1>3. U \in Good
  <2>1. IsFiniteSet(U)
    BY <1>1
  <2> HIDE DEF Good
  <2> QED
    BY <1>2, <2>1, InductionOnSubsets
<1>4. (S \ U) \union U = S
  OBVIOUS
<1> QED
  BY <1>3, <1>4

(* A multiple of one sum and another sum are added value by value.         *)
THEOREM SumLinear ==
  ASSUME NEW f, NEW g, NEW h, NEW c \in Int, NEW S, IsFiniteSet(S),
         \A x \in S : /\ f[x] \in Int /\ g[x] \in Int
                      /\ h[x] = c * f[x] + g[x]
  PROVE  /\ SumFunctionOnSet(h, S) =
                c * SumFunctionOnSet(f, S) + SumFunctionOnSet(g, S)
         /\ SumFunctionOnSet(f, S) \in Int
         /\ SumFunctionOnSet(g, S) \in Int
<1> DEFINE Linear(T) == SumFunctionOnSet(h, T) =
                c * SumFunctionOnSet(f, T) + SumFunctionOnSet(g, T)
           Good == {T \in SUBSET S : Linear(T)}
<1>1. \A T \in SUBSET S : /\ IsFiniteSet(T)
                          /\ SumFunctionOnSet(f, T) \in Int
                          /\ SumFunctionOnSet(g, T) \in Int
  BY FS_Subset, SumType
<1>2. ASSUME NEW T \in SUBSET S,
             \A U \in SUBSET T : U # T => U \in Good
      PROVE  T \in Good
  <2>1. CASE T = {}
    BY <2>1, SumEmpty
  <2>2. CASE T # {}
    <3> DEFINE x == First(T)
               U == T \ {x}
    <3>1. x \in T /\ U \in SUBSET T /\ U # T /\ U \in SUBSET S
      BY <2>2, FirstIsIn
    <3>2. /\ SumFunctionOnSet(f, T) = f[x] + SumFunctionOnSet(f, U)
          /\ SumFunctionOnSet(g, T) = g[x] + SumFunctionOnSet(g, U)
          /\ SumFunctionOnSet(h, T) = h[x] + SumFunctionOnSet(h, U)
      BY <1>1, <2>2, SumOfFirst
    <3>3. Linear(U)
      BY <1>2, <3>1
    <3>4. /\ f[x] \in Int /\ g[x] \in Int /\ h[x] = c * f[x] + g[x]
          /\ SumFunctionOnSet(f, U) \in Int /\ SumFunctionOnSet(g, U) \in Int
      BY <1>1, <3>1
    <3> HIDE DEF U, x
    <3>5. c * (f[x] + SumFunctionOnSet(f, U))
            = c * f[x] + c * SumFunctionOnSet(f, U)
      BY <3>4
    <3>6. Linear(T)
      BY <3>2, <3>3, <3>4, <3>5
    <3> QED
      BY <3>6
  <2> QED
    BY <2>1, <2>2
<1>3. S \in Good
  <2> HIDE DEF Good
  <2> QED
    BY <1>2, InductionOnSubsets
<1> QED
  BY <1>1, <1>3

(* A sum of larger values is no smaller.                                   *)
THEOREM SumMonotone ==
  ASSUME NEW f, NEW g, NEW S, IsFiniteSet(S),
         \A x \in S : f[x] \in Int /\ g[x] \in Int /\ f[x] <= g[x]
  PROVE  SumFunctionOnSet(f, S) <= SumFunctionOnSet(g, S)
<1> DEFINE d == [x \in S |-> g[x] - f[x]]
<1>1. \A x \in S : d[x] \in Nat /\ g[x] = 1 * f[x] + d[x]
  OBVIOUS
<1> HIDE DEF d
<1>2. /\ SumFunctionOnSet(g, S) =
            1 * SumFunctionOnSet(f, S) + SumFunctionOnSet(d, S)
      /\ SumFunctionOnSet(f, S) \in Int
  BY <1>1, SumLinear
<1>3. SumFunctionOnSet(d, S) \in Nat
  BY <1>1, SumType
<1> QED
  BY <1>2, <1>3

(* Ones add up to their number.                                            *)
THEOREM SumOfOnes ==
  ASSUME NEW f, NEW S, IsFiniteSet(S), \A x \in S : f[x] = 1
  PROVE  SumFunctionOnSet(f, S) = Cardinality(S)
<1> DEFINE Good == {T \in SUBSET S :
                        SumFunctionOnSet(f, T) = Cardinality(T)}
<1>1. ASSUME NEW T \in SUBSET S,
             \A U \in SUBSET T : U # T => U \in Good
      PROVE  T \in Good
  <2>1. CASE T = {}
    BY <2>1, SumEmpty, FS_EmptySet
  <2>2. CASE T # {}
    <3> DEFINE U == T \ {First(T)}
    <3>1. First(T) \in T /\ U \in SUBSET T /\ U # T
      BY <2>2, FirstIsIn
    <3>2. SumFunctionOnSet(f, T) = f[First(T)] + SumFunctionOnSet(f, U)
      BY <2>2, FS_Subset, SumOfFirst
    <3>3. SumFunctionOnSet(f, U) = Cardinality(U)
      BY <1>1, <3>1
    <3>4. Cardinality(U) = Cardinality(T) - 1 /\ Cardinality(T) \in Nat
      BY <3>1, FS_Subset, FS_RemoveElement, FS_CardinalityType
    <3> HIDE DEF U
    <3> QED
      BY <3>1, <3>2, <3>3, <3>4
  <2> QED
    BY <2>1, <2>2
<1>2. S \in Good
  <2> HIDE DEF Good
  <2> QED
    BY <1>1, InductionOnSubsets
<1> QED
  BY <1>2
-----------------------------------------------------------------------------
(* Arithmetic of products and quotients, for what is shared out.           *)
LEMMA ProductGrows ==
  ASSUME NEW a \in Nat, NEW b \in Nat, NEW c \in Nat, a <= b
  PROVE  a * c <= b * c /\ c * a <= c * b /\ a * c \in Nat
  OBVIOUS

LEMMA ProductCancels ==
  ASSUME NEW a \in Nat, NEW b \in Nat, NEW c \in Nat, c > 0, a * c <= b * c
  PROVE  a <= b
<1>1. CASE a > b
  <2>1. (b + 1) * c <= a * c
    BY <1>1, ProductGrows
  <2>2. (b + 1) * c = b * c + c /\ a * c \in Nat /\ b * c \in Nat
    OBVIOUS
  <2> QED
    BY <2>1, <2>2
<1> QED
  BY <1>1

LEMMA Quotient ==
  ASSUME NEW x \in Nat, NEW p \in Nat, p > 0
  PROVE  /\ x \div p \in Nat
         /\ (x \div p) * p <= x
         /\ x < (x \div p) * p + p
  OBVIOUS
=============================================================================
