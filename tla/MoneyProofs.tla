----------------------------- MODULE MoneyProofs -----------------------------
(***************************************************************************)
(* Proofs about the money of a group: the balances of its members, the     *)
(* payments that settle them, and the splits of an expense.                *)
(*                                                                         *)
(* All three are sums over finite sets.  The first part is about those:    *)
(* SumFunctionOnSet is defined by a recursive function on the subsets of   *)
(* a set, and proper inclusion of these is well founded, which gives the   *)
(* induction that the rest of the part needs.                              *)
(***************************************************************************)
EXTENDS GroupBalances, DebtSimplifier, ExpenseSplitter,
        FiniteSetTheorems, SequenceTheorems, TLAPS

LEMMA SubsetInduction ==
  ASSUME NEW S, IsFiniteSet(S), NEW Good,
         \A T \in SUBSET S : (\A U \in SUBSET T : U # T => U \in Good) => T \in Good
  PROVE  SUBSET S \subseteq Good
  <1> DEFINE Bad == {T \in SUBSET S : T \notin Good}
  <1>1. SUFFICES ASSUME Bad # {} PROVE FALSE
    OBVIOUS
  <1>2. IsWellFoundedOn(StrictSubsetOrdering(S), SUBSET S)
    BY FS_FiniteSubsetsOfFinite, FS_StrictSubsetOrderingWellFounded
  <1>3. PICK T \in Bad : \A U \in Bad : <<U, T>> \notin StrictSubsetOrdering(S)
    <2> Bad \subseteq SUBSET S
      OBVIOUS
    <2> HIDE DEF Bad
    <2> QED
      BY <1>1, <1>2, WFMin
  <1>4. PICK U \in SUBSET T : U # T /\ U \notin Good
    OBVIOUS
  <1>5. U \in Bad /\ <<U, T>> \in StrictSubsetOrdering(S)
    BY <1>4 DEF StrictSubsetOrdering
  <1> QED
    BY <1>3, <1>5

AnyOf(s) == CHOOSE x \in s : TRUE

LEMMA AnyOfIn == \A s : s # {} => AnyOf(s) \in s
  BY DEF AnyOf

IsSum(g, f, S) ==
    g = [s \in SUBSET S |-> IF s = {} THEN 0 ELSE f[AnyOf(s)] + g[s \ {AnyOf(s)}]]

LEMMA IsSumUnfold ==
  ASSUME NEW f, NEW S, NEW g, IsSum(g, f, S), NEW s \in SUBSET S
  PROVE  g[s] = IF s = {} THEN 0 ELSE f[AnyOf(s)] + g[s \ {AnyOf(s)}]
  BY DEF IsSum

LEMMA SumsAgree ==
  ASSUME NEW f, NEW S, IsFiniteSet(S), NEW T, NEW g, NEW h, IsSum(g, f, S), IsSum(h, f, T)
  PROVE  \A s \in SUBSET (S \cap T) : g[s] = h[s]
  <1> DEFINE D == S \cap T
             Good == {s \in SUBSET D : g[s] = h[s]}
  <1>1. ASSUME NEW s \in SUBSET D, \A u \in SUBSET s : u # s => u \in Good
        PROVE  s \in Good
    <2>1. CASE s = {}
      <3>1. s \in SUBSET S /\ s \in SUBSET T
        OBVIOUS
      <3>2. g[s] = 0 /\ h[s] = 0
        BY <2>1, <3>1, IsSumUnfold
      <3> QED
        BY <3>2
    <2>2. CASE s # {}
      <3> DEFINE u == s \ {AnyOf(s)}
      <3>1. u \in SUBSET s /\ u # s
        BY <2>2, AnyOfIn
      <3>2. g[u] = h[u]
        BY <1>1, <3>1
      <3>3. s \in SUBSET S /\ s \in SUBSET T
        OBVIOUS
      <3>4. g[s] = f[AnyOf(s)] + g[u] /\ h[s] = f[AnyOf(s)] + h[u]
        BY <2>2, <3>3, IsSumUnfold
      <3> QED
        BY <3>2, <3>4
    <2> QED
      BY <2>1, <2>2
  <1>2. IsFiniteSet(D)
    BY FS_Intersection
  <1>3. SUBSET D \subseteq Good
    <2> HIDE DEF Good, D
    <2> QED
      BY <1>1, <1>2, SubsetInduction
  <1> QED
    BY <1>3

LEMMA SumExists ==
  ASSUME NEW f, NEW S, IsFiniteSet(S)
  PROVE  \E g : IsSum(g, f, S)
  <1> DEFINE Good == {T \in SUBSET S : \E g : IsSum(g, f, T)}
  <1>1. ASSUME NEW T \in SUBSET S, \A U \in SUBSET T : U # T => U \in Good
        PROVE  T \in Good
    <2> DEFINE h(U) == CHOOSE g : IsSum(g, f, U)
               v(U) == h(U)[U]
               g0 == [s \in SUBSET T |-> IF s = {} THEN 0 ELSE f[AnyOf(s)] + v(s \ {AnyOf(s)})]
    <2>1. \A U \in SUBSET T : U # T => IsSum(h(U), f, U)
      BY <1>1
    <2>2. ASSUME NEW s \in SUBSET T, s # {} PROVE g0[s \ {AnyOf(s)}] = v(s \ {AnyOf(s)})
      <3> DEFINE u == s \ {AnyOf(s)}
      <3>1. u \in SUBSET T /\ u # T /\ IsFiniteSet(u)
        BY <2>2, AnyOfIn, FS_Subset
      <3>2. IsSum(h(u), f, u)
        BY <2>1, <3>1
      <3>0. SUFFICES g0[u] = v(u)
        OBVIOUS
      <3> HIDE DEF u, h
      <3>3. CASE u = {}
        BY <3>1, <3>2, <3>3, IsSumUnfold
      <3>4. CASE u # {}
        <4> DEFINE w == u \ {AnyOf(u)}
        <4>1. w \in SUBSET u /\ w \in SUBSET T /\ w # T /\ w \in SUBSET (u \cap w)
          BY <3>1, <3>4, AnyOfIn
        <4>2. IsSum(h(w), f, w)
          BY <2>1, <4>1
        <4>3. h(u)[w] = h(w)[w]
          BY <3>1, <3>2, <4>1, <4>2, SumsAgree
        <4>4. h(u)[u] = f[AnyOf(u)] + h(u)[w]
          BY <3>2, <3>4, IsSumUnfold
        <4>5. g0[u] = f[AnyOf(u)] + h(w)[w]
          BY <3>1, <3>4
        <4> QED
          BY <4>3, <4>4, <4>5
      <3> QED
        BY <3>3, <3>4
    <2>3. g0 = [s \in SUBSET T |-> IF s = {} THEN 0 ELSE f[AnyOf(s)] + g0[s \ {AnyOf(s)}]]
      <3> HIDE DEF v
      <3> QED
        BY <2>2
    <2> HIDE DEF g0
    <2> QED
      BY <2>3 DEF IsSum
  <1>2. SUBSET S \subseteq Good
    <2> HIDE DEF Good
    <2> QED
      BY <1>1, SubsetInduction
  <1> QED
    BY <1>2

LEMMA SumIsSum ==
  ASSUME NEW f, NEW S, \E g : IsSum(g, f, S)
  PROVE  \E g : IsSum(g, f, S) /\ SumFunctionOnSet(f, S) = g[S]
  BY DEF IsSum, SumFunctionOnSet, FoldFunctionOnSet, MapThenFoldSet, AnyOf

LEMMA SumEmpty == \A f : SumFunctionOnSet(f, {}) = 0
  <1> SUFFICES ASSUME NEW f PROVE SumFunctionOnSet(f, {}) = 0
    OBVIOUS
  <1>1. PICK g : IsSum(g, f, {}) /\ SumFunctionOnSet(f, {}) = g[{}]
    BY SumExists, SumIsSum, FS_EmptySet
  <1>2. g[{}] = 0
    BY <1>1, IsSumUnfold
  <1> QED
    BY <1>1, <1>2

LEMMA SumUnfold ==
  ASSUME NEW f, NEW S, IsFiniteSet(S), S # {}
  PROVE  SumFunctionOnSet(f, S) = f[AnyOf(S)] + SumFunctionOnSet(f, S \ {AnyOf(S)})
  <1> DEFINE T == S \ {AnyOf(S)}
  <1>1. IsFiniteSet(T) /\ T \in SUBSET (S \cap T)
    BY FS_Subset
  <1>2. PICK g : IsSum(g, f, S) /\ SumFunctionOnSet(f, S) = g[S]
    BY SumExists, SumIsSum
  <1>3. PICK h : IsSum(h, f, T) /\ SumFunctionOnSet(f, T) = h[T]
    BY <1>1, SumExists, SumIsSum
  <1>4. g[T] = h[T]
    BY <1>1, <1>2, <1>3, SumsAgree
  <1>5. g[S] = f[AnyOf(S)] + g[T]
    BY <1>2, IsSumUnfold
  <1> QED
    BY <1>2, <1>3, <1>4, <1>5

\* f has integers for values on S.
IntValued(f, S) == \A x \in S : f[x] \in Int

LEMMA SumInt ==
  ASSUME NEW S, IsFiniteSet(S), NEW f, IntValued(f, S)
  PROVE  SumFunctionOnSet(f, S) \in Int
  <1> DEFINE Good == {T \in SUBSET S : SumFunctionOnSet(f, T) \in Int}
  <1>1. ASSUME NEW T \in SUBSET S, \A U \in SUBSET T : U # T => U \in Good
        PROVE  T \in Good
    <2>1. CASE T = {}
      BY <2>1, SumEmpty
    <2>2. CASE T # {}
      <3> DEFINE U == T \ {AnyOf(T)}
      <3>1. U \in SUBSET T /\ U # T /\ AnyOf(T) \in S /\ IsFiniteSet(T)
        BY <2>2, AnyOfIn, FS_Subset
      <3>2. SumFunctionOnSet(f, U) \in Int
        BY <1>1, <3>1
      <3>3. SumFunctionOnSet(f, T) = f[AnyOf(T)] + SumFunctionOnSet(f, U)
        BY <2>2, <3>1, SumUnfold
      <3> QED
        BY <3>1, <3>2, <3>3 DEF IntValued
    <2> QED
      BY <2>1, <2>2
  <1>2. SUBSET S \subseteq Good
    <2> HIDE DEF Good
    <2> QED
      BY <1>1, SubsetInduction
  <1> QED
    BY <1>2

\* The sum over a set is the value at any of its elements and the sum over the rest.
LEMMA SumRemove ==
  ASSUME NEW S, IsFiniteSet(S), NEW f, IntValued(f, S), NEW x \in S
  PROVE  SumFunctionOnSet(f, S) = f[x] + SumFunctionOnSet(f, S \ {x})
  <1> DEFINE Good == {T \in SUBSET S : \A y \in T :
                        SumFunctionOnSet(f, T) = f[y] + SumFunctionOnSet(f, T \ {y})}
  <1>1. ASSUME NEW T \in SUBSET S, \A U \in SUBSET T : U # T => U \in Good
        PROVE  T \in Good
    <2>1. ASSUME NEW y \in T
          PROVE  SumFunctionOnSet(f, T) = f[y] + SumFunctionOnSet(f, T \ {y})
      <3> DEFINE z == AnyOf(T)
      <3>0. z \in T /\ IsFiniteSet(T)
        BY AnyOfIn, FS_Subset
      <3>1. SumFunctionOnSet(f, T) = f[z] + SumFunctionOnSet(f, T \ {z})
        BY <3>0, SumUnfold
      <3>2. CASE y = z
        BY <3>1, <3>2
      <3>3. CASE y # z
        <4> HIDE DEF z
        <4>1. /\ T \ {z} \in Good /\ y \in T \ {z}
              /\ T \ {y} \in Good /\ z \in T \ {y}
          BY <1>1, <3>0, <3>3
        <4>2. SumFunctionOnSet(f, T \ {z}) = f[y] + SumFunctionOnSet(f, (T \ {z}) \ {y})
          BY <4>1
        <4>3. SumFunctionOnSet(f, T \ {y}) = f[z] + SumFunctionOnSet(f, (T \ {y}) \ {z})
          BY <4>1
        <4>4. (T \ {z}) \ {y} = (T \ {y}) \ {z}
          OBVIOUS
        <4>5. IsFiniteSet((T \ {z}) \ {y}) /\ IntValued(f, (T \ {z}) \ {y})
          BY <3>0, FS_Subset DEF IntValued
        <4>6. SumFunctionOnSet(f, (T \ {z}) \ {y}) \in Int
          BY <4>5, SumInt
        <4>7. f[y] \in Int /\ f[z] \in Int
          BY <3>0 DEF IntValued
        <4>8. ASSUME NEW r, r \in Int,
                     SumFunctionOnSet(f, T \ {z}) = f[y] + r, SumFunctionOnSet(f, T \ {y}) = f[z] + r
              PROVE  SumFunctionOnSet(f, T) = f[y] + SumFunctionOnSet(f, T \ {y})
          BY <3>1, <4>7, <4>8
        <4> QED
          BY <4>2, <4>3, <4>4, <4>6, <4>8
      <3> QED
        BY <3>2, <3>3
    <2> QED
      BY <2>1
  <1>2. SUBSET S \subseteq Good
    <2> HIDE DEF Good
    <2> QED
      BY <1>1, SubsetInduction
  <1> QED
    BY <1>2

\* Induction that adds one element after the other.
LEMMA SetInduction ==
  ASSUME NEW S, IsFiniteSet(S), NEW Good, {} \in Good,
         \A T \in SUBSET S, x \in S : x \notin T /\ T \in Good => T \cup {x} \in Good
  PROVE  S \in Good
  <1>1. ASSUME NEW T \in SUBSET S, \A U \in SUBSET T : U # T => U \in Good
        PROVE  T \in Good
    <2>1. CASE T # {}
      <3>1. PICK x : x \in T
        BY <2>1
      <3>2. T \ {x} \in Good
        BY <1>1, <3>1
      <3>3. T = (T \ {x}) \cup {x}
        BY <3>1
      <3> QED
        BY <3>1, <3>2, <3>3
    <2> QED
      BY <2>1
  <1> QED
    BY <1>1, SubsetInduction

LEMMA SumAdd ==
  ASSUME NEW S, IsFiniteSet(S), NEW T \in SUBSET S, NEW x \in S, x \notin T,
         NEW f, IntValued(f, S)
  PROVE  /\ SumFunctionOnSet(f, T \cup {x}) = f[x] + SumFunctionOnSet(f, T)
         /\ SumFunctionOnSet(f, T) \in Int
  <1>1. IsFiniteSet(T \cup {x}) /\ (T \cup {x}) \ {x} = T /\ IsFiniteSet(T)
    BY FS_Subset
  <1>2. IntValued(f, T \cup {x}) /\ IntValued(f, T)
    BY DEF IntValued
  <1>3. x \in T \cup {x}
    OBVIOUS
  <1> QED
    BY <1>1, <1>2, <1>3, SumRemove, SumInt

\* f is c on S; f is g on S, and but for x; f is at most g on S; e is a times f
\* plus b times g on S.
Constant(f, c, S) == \A x \in S : f[x] = c

SameOn(f, g, S) == \A x \in S : f[x] = g[x]

SameBut(f, g, x, S) == \A y \in S \ {x} : f[y] = g[y]

Below(f, g, S) == \A x \in S : f[x] <= g[x]

Combines(e, a, f, b, g, S) == \A x \in S : e[x] = a * f[x] + b * g[x]

\* The sum of a linear combination.
LEMMA SumLinear ==
  ASSUME NEW S, IsFiniteSet(S), NEW a \in Int, NEW b \in Int,
         NEW e, NEW f, NEW g, IntValued(f, S), IntValued(g, S),
         Combines(e, a, f, b, g, S)
  PROVE  SumFunctionOnSet(e, S) = a * SumFunctionOnSet(f, S) + b * SumFunctionOnSet(g, S)
  <1> DEFINE Good == {T \in SUBSET S :
                SumFunctionOnSet(e, T) = a * SumFunctionOnSet(f, T) + b * SumFunctionOnSet(g, T)}
  <1>0. IntValued(e, S)
    BY DEF IntValued, Combines
  <1>1. {} \in Good
    BY SumEmpty
  <1>2. ASSUME NEW T \in SUBSET S, NEW x \in S, x \notin T, T \in Good
        PROVE  T \cup {x} \in Good
    <2>0. x \notin T
      BY <1>2
    <2>1. /\ SumFunctionOnSet(e, T \cup {x}) = e[x] + SumFunctionOnSet(e, T)
          /\ SumFunctionOnSet(e, T) \in Int
      BY <1>0, <2>0, SumAdd
    <2>2. /\ SumFunctionOnSet(f, T \cup {x}) = f[x] + SumFunctionOnSet(f, T)
          /\ SumFunctionOnSet(f, T) \in Int
      BY <2>0, SumAdd
    <2>3. /\ SumFunctionOnSet(g, T \cup {x}) = g[x] + SumFunctionOnSet(g, T)
          /\ SumFunctionOnSet(g, T) \in Int
      BY <2>0, SumAdd
    <2>4. ASSUME NEW u \in Int, NEW v \in Int, NEW p \in Int, NEW q \in Int
          PROVE  (a * u + b * v) + (a * p + b * q) = a * (u + p) + b * (v + q)
      OBVIOUS
    <2>5. f[x] \in Int /\ g[x] \in Int /\ e[x] = a * f[x] + b * g[x]
      BY DEF IntValued, Combines
    <2>6. (a * f[x] + b * g[x]) + (a * SumFunctionOnSet(f, T) + b * SumFunctionOnSet(g, T))
          = a * (f[x] + SumFunctionOnSet(f, T)) + b * (g[x] + SumFunctionOnSet(g, T))
      BY <2>2, <2>3, <2>4, <2>5
    <2> QED
      BY <1>2, <2>1, <2>2, <2>3, <2>5, <2>6
  <1>3. S \in Good
    <2> HIDE DEF Good
    <2> QED
      BY <1>1, <1>2, SetInduction
  <1> QED
    BY <1>3

LEMMA SumMonotone ==
  ASSUME NEW S, IsFiniteSet(S), NEW f, NEW g, IntValued(f, S), IntValued(g, S), Below(f, g, S)
  PROVE  SumFunctionOnSet(f, S) <= SumFunctionOnSet(g, S)
  <1> DEFINE Good == {T \in SUBSET S : SumFunctionOnSet(f, T) <= SumFunctionOnSet(g, T)}
  <1>1. {} \in Good
    BY SumEmpty
  <1>2. ASSUME NEW T \in SUBSET S, NEW x \in S, x \notin T, T \in Good
        PROVE  T \cup {x} \in Good
    <2>1. /\ SumFunctionOnSet(f, T \cup {x}) = f[x] + SumFunctionOnSet(f, T)
          /\ SumFunctionOnSet(f, T) \in Int
      BY <1>2, SumAdd
    <2>2. /\ SumFunctionOnSet(g, T \cup {x}) = g[x] + SumFunctionOnSet(g, T)
          /\ SumFunctionOnSet(g, T) \in Int
      BY <1>2, SumAdd
    <2>3. f[x] \in Int /\ g[x] \in Int /\ f[x] <= g[x]
      BY DEF IntValued, Below
    <2> QED
      BY <1>2, <2>1, <2>2, <2>3
  <1>3. S \in Good
    <2> HIDE DEF Good
    <2> QED
      BY <1>1, <1>2, SetInduction
  <1> QED
    BY <1>3

LEMMA SumConstant ==
  ASSUME NEW S, IsFiniteSet(S), NEW f, NEW c \in Int, Constant(f, c, S)
  PROVE  SumFunctionOnSet(f, S) = c * Cardinality(S)
  <1> DEFINE Good == {T \in SUBSET S : SumFunctionOnSet(f, T) = c * Cardinality(T)}
  <1>0. IntValued(f, S)
    BY DEF IntValued, Constant
  <1>1. {} \in Good
    BY SumEmpty, FS_EmptySet
  <1>2. ASSUME NEW T \in SUBSET S, NEW x \in S, x \notin T, T \in Good
        PROVE  T \cup {x} \in Good
    <2>1. SumFunctionOnSet(f, T \cup {x}) = f[x] + SumFunctionOnSet(f, T)
      BY <1>0, <1>2, SumAdd
    <2>2. Cardinality(T) \in Nat /\ Cardinality(T \cup {x}) = Cardinality(T) + 1
      BY <1>2, FS_Subset, FS_AddElement, FS_CardinalityType
    <2>3. ASSUME NEW k \in Nat PROVE c + c * k = c * (k + 1)
      OBVIOUS
    <2> QED
      BY <1>2, <2>1, <2>2, <2>3 DEF Constant
  <1>3. S \in Good
    <2> HIDE DEF Good
    <2> QED
      BY <1>1, <1>2, SetInduction
  <1> QED
    BY <1>3

\* Functions that agree on a set have the same sum over it.
LEMMA SumSame ==
  ASSUME NEW S, IsFiniteSet(S), NEW f, NEW g, IntValued(f, S), SameOn(f, g, S)
  PROVE  SumFunctionOnSet(f, S) = SumFunctionOnSet(g, S)
  <1>1. IntValued(g, S) /\ Below(f, g, S) /\ Below(g, f, S)
    BY DEF IntValued, Below, SameOn
  <1>2. SumFunctionOnSet(f, S) <= SumFunctionOnSet(g, S)
    BY <1>1, SumMonotone
  <1>3. SumFunctionOnSet(g, S) <= SumFunctionOnSet(f, S)
    BY <1>1, SumMonotone
  <1> QED
    BY <1>1, <1>2, <1>3, SumInt

\* Functions that differ in one place.
LEMMA SumChange ==
  ASSUME NEW S, IsFiniteSet(S), NEW f, NEW g, NEW x \in S, IntValued(f, S), IntValued(g, S),
         SameBut(f, g, x, S)
  PROVE  SumFunctionOnSet(g, S) = SumFunctionOnSet(f, S) + g[x] - f[x]
  <1>1. IsFiniteSet(S \ {x}) /\ IntValued(f, S \ {x}) /\ SameOn(f, g, S \ {x})
    BY FS_Subset DEF IntValued, SameOn, SameBut
  <1>2. SumFunctionOnSet(f, S \ {x}) = SumFunctionOnSet(g, S \ {x})
    BY <1>1, SumSame
  <1>3. SumFunctionOnSet(f, S \ {x}) \in Int
    BY <1>1, SumInt
  <1>4. SumFunctionOnSet(f, S) = f[x] + SumFunctionOnSet(f, S \ {x})
    BY SumRemove
  <1>5. SumFunctionOnSet(g, S) = g[x] + SumFunctionOnSet(g, S \ {x})
    BY SumRemove
  <1>6. f[x] \in Int /\ g[x] \in Int
    BY DEF IntValued
  <1> QED
    BY <1>2, <1>3, <1>4, <1>5, <1>6
LEMMA SumIsOnDomain == \A f : SumFunction(f) = SumFunctionOnSet(f, DOMAIN f)
BY DEF SumFunction

\* The sum over the union of two sets with nothing in common.
LEMMA SumUnion ==
  ASSUME NEW S, IsFiniteSet(S), NEW R, IsFiniteSet(R), S \cap R = {},
         NEW f, IntValued(f, S \cup R)
  PROVE  SumFunctionOnSet(f, S \cup R) = SumFunctionOnSet(f, S) + SumFunctionOnSet(f, R)
<1> DEFINE All == S \cup R
           Good == {T \in SUBSET R :
              SumFunctionOnSet(f, S \cup T) = SumFunctionOnSet(f, S) + SumFunctionOnSet(f, T)}
<1>0. IsFiniteSet(All) /\ S \in SUBSET All /\ SumFunctionOnSet(f, S) \in Int
  BY FS_Union, SumInt DEF IntValued
<1>1. {} \in Good
  <2>1. S \cup {} = S
    OBVIOUS
  <2> QED
    BY <1>0, <2>1, SumEmpty
<1>2. ASSUME NEW T \in SUBSET R, NEW x \in R, x \notin T, T \in Good
      PROVE  T \cup {x} \in Good
  <2> DEFINE V == S \cup T
  <2>0. V \in SUBSET All /\ T \in SUBSET All /\ x \in All /\ x \notin V /\ x \notin T
        /\ S \cup (T \cup {x}) = V \cup {x} /\ IntValued(f, All)
    BY <1>2
  <2>1. /\ SumFunctionOnSet(f, V \cup {x}) = f[x] + SumFunctionOnSet(f, V)
        /\ SumFunctionOnSet(f, V) \in Int
    <3> HIDE DEF V, All, Good
    <3> QED
      BY <1>0, <2>0, SumAdd
  <2>2. /\ SumFunctionOnSet(f, T \cup {x}) = f[x] + SumFunctionOnSet(f, T)
        /\ SumFunctionOnSet(f, T) \in Int
    <3> HIDE DEF V, All, Good
    <3> QED
      BY <1>0, <2>0, SumAdd
  <2>3. f[x] \in Int
    BY DEF IntValued
  <2>4. SumFunctionOnSet(f, V) = SumFunctionOnSet(f, S) + SumFunctionOnSet(f, T)
    BY <1>2
  <2>5. SumFunctionOnSet(f, V \cup {x}) = SumFunctionOnSet(f, S) + SumFunctionOnSet(f, T \cup {x})
    <3> HIDE DEF V
    <3> QED
      BY <1>0, <2>1, <2>2, <2>3, <2>4
  <2> QED
    BY <2>0, <2>5
<1>3. R \in Good
  <2> HIDE DEF Good
  <2> QED
    BY <1>1, <1>2, SetInduction
<1> QED
  BY <1>3

\* The sum of a function that is zero except at x.
LEMMA SumSingle ==
  ASSUME NEW S, IsFiniteSet(S), NEW f, NEW x \in S, f[x] \in Int, Constant(f, 0, S \ {x})
  PROVE  SumFunctionOnSet(f, S) = f[x]
<1> DEFINE R == S \ {x}
<1>1. IsFiniteSet(R) /\ Cardinality(R) \in Nat
  BY FS_Subset, FS_CardinalityType
<1>2. SumFunctionOnSet(f, R) = 0
  <2>1. SumFunctionOnSet(f, R) = 0 * Cardinality(R)
    <3> HIDE DEF R
    <3>1. Constant(f, 0, R)
      BY DEF R
    <3> QED
      BY <1>1, <3>1, SumConstant
  <2> QED
    BY <1>1, <2>1
<1>3. IntValued(f, S)
  BY DEF IntValued, Constant
<1> QED
  BY <1>2, <1>3, SumRemove

LEMMA SumZero ==
  ASSUME NEW S, IsFiniteSet(S), NEW f, Constant(f, 0, S)
  PROVE  SumFunctionOnSet(f, S) = 0
BY SumConstant, FS_CardinalityType

\* The sum of sums, and of differences.
LEMMA SumPlus ==
  ASSUME NEW S, IsFiniteSet(S), NEW e, NEW f, NEW g, IntValued(f, S), IntValued(g, S),
       \A x \in S : e[x] = f[x] + g[x]
  PROVE  SumFunctionOnSet(e, S) = SumFunctionOnSet(f, S) + SumFunctionOnSet(g, S)
<1>1. Combines(e, 1, f, 1, g, S)
  BY DEF Combines, IntValued
<1>2. SumFunctionOnSet(e, S) = 1 * SumFunctionOnSet(f, S) + 1 * SumFunctionOnSet(g, S)
  BY <1>1, SumLinear
<1> QED
  BY <1>2, SumInt

LEMMA SumMinus ==
  ASSUME NEW S, IsFiniteSet(S), NEW e, NEW f, NEW g, IntValued(f, S), IntValued(g, S),
       \A x \in S : e[x] = f[x] - g[x]
  PROVE  SumFunctionOnSet(e, S) = SumFunctionOnSet(f, S) - SumFunctionOnSet(g, S)
<1>1. Combines(e, 1, f, -1, g, S)
  BY DEF Combines, IntValued
<1>2. SumFunctionOnSet(e, S) = 1 * SumFunctionOnSet(f, S) + (-1) * SumFunctionOnSet(g, S)
  BY <1>1, SumLinear
<1> QED
  BY <1>2, SumInt

\* A list that grows by one: what is added to a sum over its indices.
LEMMA SumUpTo ==
  ASSUME NEW N \in Nat, NEW f, NEW g, IntValued(f, 1..N), IntValued(g, 1..(N + 1)), SameOn(f, g, 1..N)
  PROVE  /\ SumFunctionOnSet(g, 1..(N + 1)) = g[N + 1] + SumFunctionOnSet(f, 1..N)
         /\ SumFunctionOnSet(f, 1..N) \in Int /\ g[N + 1] \in Int
  <1> DEFINE S == 1..N
             R == 1..(N + 1)
             last == N + 1
  <1>1. IsFiniteSet(S) /\ IsFiniteSet(R) /\ last \in R /\ R \ {last} = S
    <2>1. N \in Int /\ N + 1 \in Int
      OBVIOUS
    <2>2. IsFiniteSet(S) /\ IsFiniteSet(R)
      BY <2>1, FS_Interval
    <2>3. last \in R /\ R \ {last} = S
      OBVIOUS
    <2> QED
      BY <2>2, <2>3
  <1>2. g[last] \in Int
    BY <1>1 DEF IntValued
  <1> HIDE DEF S, R, last
  <1>3. SumFunctionOnSet(g, R) = g[last] + SumFunctionOnSet(g, S)
    <2>1. IntValued(g, R)
      BY DEF R
    <2> QED
      BY <1>1, <2>1, SumRemove
  <1>4. IntValued(f, S) /\ SameOn(f, g, S)
    BY DEF S
  <1>5. SumFunctionOnSet(f, S) = SumFunctionOnSet(g, S)
    BY <1>1, <1>4, SumSame
  <1>6. SumFunctionOnSet(f, S) \in Int
    BY <1>1, <1>4, SumInt
  <1> QED
    BY <1>2, <1>3, <1>5, <1>6 DEF S, R, last
-----------------------------------------------------------------------------
(***************************************************************************)
(* GroupBalances, for every group, expenses, settlements and requests.     *)
(***************************************************************************)

\* What m sent, and u was sent, by each row of the table st.
SentBy(st, m) == [s \in Settlements |->
                    AmountIf(st[s], st[s].status = "COMPLETED" /\ st[s].from = m)]

SentTo(st, u) == [s \in Settlements |->
                    AmountIf(st[s], st[s].status = "COMPLETED" /\ st[s].to = u)]

LEMMA PaidIsSum ==
  ASSUME NEW st, NEW u
  PROVE  /\ PaidBy(st, u) = SumFunctionOnSet(SentBy(st, u), Settlements)
         /\ PaidTo(st, u) = SumFunctionOnSet(SentTo(st, u), Settlements)
  BY DEF PaidBy, PaidTo, SentBy, SentTo, SumFunction

LEMMA AmountsAreCents == Amounts \subseteq Int /\ IsFiniteSet(Users) /\ IsFiniteSet(Settlements)
  <1>1. Amounts \subseteq Nat \ {0} /\ IsFiniteSet(Users) /\ IsFiniteSet(Settlements)
    BY BalancesAssumption, Zenon
  <1> QED
    BY <1>1

LEMMA PaidInt ==
  ASSUME NEW st \in [Settlements -> Row], NEW u
  PROVE  /\ IntValued(SentBy(st, u), Settlements) /\ IntValued(SentTo(st, u), Settlements)
         /\ PaidBy(st, u) \in Int /\ PaidTo(st, u) \in Int
  <1>0. Amounts \subseteq Int /\ IsFiniteSet(Settlements)
    BY AmountsAreCents
  <1>1. ASSUME NEW s \in Settlements PROVE st[s].amount \in Int
    <2>1. st[s] \in Row
      OBVIOUS
    <2>2. st[s].amount \in Amounts \cup {0}
      BY <2>1 DEF Row
    <2>3. st[s].amount \in Amounts \/ st[s].amount = 0
      BY <2>2
    <2>4. 0 \in Int
      OBVIOUS
    <2> QED
      BY <1>0, <2>3, <2>4, Zenon
  <1>2. IntValued(SentBy(st, u), Settlements) /\ IntValued(SentTo(st, u), Settlements)
    BY <1>1 DEF IntValued, SentBy, SentTo, AmountIf
  <1>3. SumFunctionOnSet(SentBy(st, u), Settlements) \in Int
    BY <1>0, <1>2, SumInt
  <1>4. SumFunctionOnSet(SentTo(st, u), Settlements) \in Int
    BY <1>0, <1>2, SumInt
  <1> QED
    BY <1>2, <1>3, <1>4, PaidIsSum

LEMMA BalancesTyped ==
  ASSUME NEW who \in SUBSET Users, NEW st \in [Settlements -> Row], NEW sp \in [Users -> Int]
  PROVE  getGroupBalance(who, sp, st) \in [who -> Int]
  <1>1. \A u \in who : PaidBy(st, u) \in Int /\ PaidTo(st, u) \in Int
    BY PaidInt
  <1>2. \A u \in who : sp[u] + PaidBy(st, u) - PaidTo(st, u) \in Int
    BY <1>1
  <1> QED
    BY <1>2 DEF getGroupBalance

LEMMA BalancesCopy == TypeOK => Balances \in [joined -> Int] /\ IsCopy(Balances)
  BY BalancesTyped DEF TypeOK, Balances, IsCopy

\* A request as the steps leave it.
ReqOK(q) == q \in Request({q.value}) /\ IF q.op = "fill" THEN IsCopy(q.value) ELSE q.value = Empty

LEMMA ReqsOK ==
  ASSUME TypeOK, NEW e \in Expenses
  PROVE  /\ ReqOK(Idle) /\ Idle.op = "idle"
         /\ \A op \in {"invalidate", "query"} :
              ReqOK(InFlight(op, Empty)) /\ InFlight(op, Empty).op = op
         /\ LET q == [InFlight("edit", Empty) EXCEPT !.expense = e]
            IN  ReqOK(q) /\ q.op = "edit"
         /\ ReqOK(InFlight("fill", Balances)) /\ InFlight("fill", Balances).op = "fill"
  BY BalancesCopy DEF Idle, InFlight, ReqOK, Request

\* What a step does to the requests.
LEMMA StepReqs ==
  ASSUME TypeOK, Steps
  PROVE  req' = [r \in Requests |-> req'[r]] /\ \A r \in Requests : ReqOK(req'[r])
  <1>0. req = [r \in Requests |-> req[r]] /\ \A r \in Requests : ReqOK(req[r])
    BY DEF TypeOK, ReqOK
  <1>1. /\ ReqOK(Idle) /\ ReqOK(InFlight("invalidate", Empty)) /\ ReqOK(InFlight("query", Empty))
        /\ ReqOK(InFlight("fill", Balances))
    BY BalancesCopy DEF Idle, InFlight, ReqOK, Request
  <1>2. ASSUME NEW r \in Requests, NEW q, ReqOK(q), req' = [req EXCEPT ![r] = q]
        PROVE  req' = [p \in Requests |-> req'[p]] /\ \A p \in Requests : ReqOK(req'[p])
    BY <1>0, <1>2
  <1>3. ASSUME NEW r \in Requests, NEW e \in Expenses, Wrote(r, e)
        PROVE  req' = [p \in Requests |-> req'[p]] /\ \A p \in Requests : ReqOK(req'[p])
    <2>1. req' = [p \in Requests |-> req'[p]]
      BY <1>3 DEF Wrote
    <2>2. ASSUME NEW p \in Requests PROVE ReqOK([req[p] EXCEPT !.crossed = TRUE])
      BY <1>0 DEF ReqOK, Request
    <2>3. ASSUME NEW p \in Requests PROVE ReqOK(req'[p])
      BY <1>0, <1>1, <1>3, <2>2 DEF Wrote
    <2> QED
      BY <2>1, <2>3
  <1> DEFINE Good == req' = [p \in Requests |-> req'[p]] /\ \A p \in Requests : ReqOK(req'[p])
  <1>4. ASSUME NEW r \in Requests, ExpenseWrite(r) PROVE Good
    <2>1. CASE Start(r, "invalidate")
      BY <1>1, <1>2, <2>1 DEF Start
    <2>2. ASSUME NEW e \in Expenses, Wrote(r, e) PROVE Good
      BY <1>3, <2>2
    <2>3. req[r].op = "edit" => req[r].expense \in Expenses \cup {Empty}
      BY <1>0 DEF ReqOK, Request
    <2>4. CASE Wrote(r, req[r].expense) /\ req[r].expense = Empty
      <3>1. ASSUME NEW p \in Requests
            PROVE  req'[p] \in {req[p], InFlight("invalidate", Empty), [req[p] EXCEPT !.crossed = TRUE]}
        BY <2>4, <3>1 DEF Wrote
      <3>2. ASSUME NEW p \in Requests PROVE ReqOK([req[p] EXCEPT !.crossed = TRUE])
        BY <1>0 DEF ReqOK, Request
      <3> QED
        BY <1>0, <1>1, <2>4, <3>1, <3>2 DEF Wrote
    <2> QED
      BY <1>4, <2>1, <2>2, <2>3, <2>4 DEF ExpenseWrite, CreateExpense, EditCommit, DeleteExpense
  <1>5. ASSUME NEW r \in Requests, SettlementWrite(r) PROVE Good
    BY <1>1, <1>2, <1>5 DEF SettlementWrite, RequestSettlement, CompleteSettlement,
                            CancelSettlement, Start
  <1>6. ASSUME NEW r \in Requests, Edit(r) PROVE Good
    <2>1. ASSUME NEW e \in Expenses, EditRead(r, e) PROVE Good
      <3>1. ReqOK([InFlight("edit", Empty) EXCEPT !.expense = e])
        BY DEF InFlight, ReqOK, Request
      <3> QED
        BY <1>2, <2>1, <3>1 DEF EditRead
    <2> QED
      BY <1>1, <1>2, <1>6, <2>1 DEF Edit, EditFails, Finish
  <1>7. ASSUME NEW r \in Requests, End(r) \/ Read(r) PROVE Good
    BY <1>1, <1>2, <1>7 DEF End, Read, Invalidate, InvalidateSkipped, ReadMiss, Query, Fill,
                            ReadFails, Start, Finish
  <1>8. CASE Expire \/ ServerCrash \/ \E u \in Users : Join(u)
    BY <1>0, <1>1, <1>8 DEF Expire, ServerCrash, Join
  <1> QED
    BY <1>4, <1>5, <1>6, <1>7, <1>8 DEF Steps

\* What a step does to the tables: nobody's row in group_members goes.
LEMMA StepTables ==
  ASSUME TypeOK, Steps
  PROVE  /\ joined \subseteq joined' /\ joined' \subseteq Users
         /\ expense' \in [Expenses -> {"none", "live", "deleted"}]
         /\ spent' \in [Users -> Int]
         /\ settlement' \in [Settlements -> Row]
  <1>0. /\ joined \subseteq Users /\ expense \in [Expenses -> {"none", "live", "deleted"}]
        /\ spent \in [Users -> Int] /\ settlement \in [Settlements -> Row]
        /\ Amounts \subseteq Int /\ \A a \in Changes : a \in Int
    BY BalancesAssumption DEF TypeOK, Changes
  <1>1. ASSUME NEW p \in joined, NEW q \in joined, NEW a \in Int, NEW b \in Int, Moved(p, q, a, b)
        PROVE  spent' \in [Users -> Int] /\ joined' = joined /\ settlement' = settlement
    BY <1>0, <1>1 DEF Moved
  <1>2. ASSUME NEW r \in Requests, ExpenseWrite(r)
        PROVE  /\ spent' \in [Users -> Int] /\ joined' = joined /\ settlement' = settlement
               /\ expense' \in [Expenses -> {"none", "live", "deleted"}]
    BY <1>0, <1>1, <1>2 DEF ExpenseWrite, CreateExpense, EditCommit, DeleteExpense
  <1>3. ASSUME NEW r \in Requests, NEW s \in Settlements, NEW p \in Users, NEW u \in Users,
               NEW a \in Amounts, RequestSettlement(r, s, p, u, a)
        PROVE  settlement' \in [Settlements -> Row]
    <2>1. [status |-> "PENDING", from |-> p, to |-> u, amount |-> a] \in Row
      BY DEF Row
    <2> QED
      BY <1>0, <1>3, <2>1 DEF RequestSettlement
  <1>4. ASSUME NEW r \in Requests, NEW s \in Settlements, NEW u \in Users,
               CompleteSettlement(r, s, u) \/ CancelSettlement(r, s, u)
        PROVE  settlement' \in [Settlements -> Row]
    <2>1. \A c \in {"COMPLETED", "CANCELLED"} : [settlement[s] EXCEPT !.status = c] \in Row
      BY <1>0 DEF Row
    <2> QED
      BY <1>0, <1>4, <2>1 DEF CompleteSettlement, CancelSettlement
  <1>5. ASSUME NEW r \in Requests, SettlementWrite(r)
        PROVE  /\ settlement' \in [Settlements -> Row] /\ UNCHANGED <<joined, expense, spent>>
    BY <1>3, <1>4, <1>5 DEF SettlementWrite, RequestSettlement, CompleteSettlement, CancelSettlement
  <1>6. ASSUME NEW u \in Users, Join(u)
        PROVE  joined' = joined \cup {u} /\ UNCHANGED <<expense, spent, settlement>>
    BY <1>6 DEF Join
  <1>7. CASE UNCHANGED tables
    BY <1>0, <1>7 DEF tables
  <1> QED
    BY <1>0, <1>2, <1>5, <1>6, <1>7
       DEF Steps, Edit, EditRead, EditFails, End, Invalidate, InvalidateSkipped, Read, ReadMiss,
           Query, Fill, ReadFails, Expire, ServerCrash

LEMMA NextTypes == TypeOK /\ [Next]_vars => TypeOK'
  <1> SUFFICES ASSUME TypeOK, [Next]_vars PROVE TypeOK'
    OBVIOUS
  <1>1. CASE UNCHANGED vars
    BY <1>1 DEF vars, tables, TypeOK
  <1>2. CASE Next
    <2>0. Steps /\ Recorded
      BY <1>2 DEF Next
    <2>1. cache' \in {cache, Empty} \/ \E r \in Requests : req[r].op = "fill" /\ cache' = req[r].value
      BY <2>0 DEF Steps, ExpenseWrite, CreateExpense, EditCommit, DeleteExpense, Moved,
                  SettlementWrite, RequestSettlement, CompleteSettlement, CancelSettlement,
                  Edit, EditRead, EditFails, End, Invalidate, InvalidateSkipped, Read, ReadMiss,
                  Query, Fill, ReadFails, Expire, ServerCrash, Join
    <2>2. cache' = Empty \/ IsCopy(cache')
      BY <2>1 DEF TypeOK
    <2>3. uneven' \in BOOLEAN /\ doubtful' \in BOOLEAN
      BY <2>0 DEF Recorded
    <2>4. (\A r \in Requests : ReqOK(req'[r])) /\ req' = [r \in Requests |-> req'[r]]
      BY <2>0, StepReqs
    <2> QED
      BY <2>0, <2>2, <2>3, <2>4, StepTables DEF TypeOK, ReqOK, IsCopy
  <1> QED
    BY <1>1, <1>2

LEMMA InitTypes == Init => TypeOK
  <1> SUFFICES ASSUME Init PROVE TypeOK
    OBVIOUS
  <1>1. settlement \in [Settlements -> Row]
    BY DEF Init, NoRow, Row
  <1>2. req = [r \in Requests |-> req[r]] /\ \A r \in Requests : ReqOK(req[r])
    BY DEF Init, Idle, ReqOK, Request
  <1>3. joined \subseteq Users /\ spent \in [Users -> Int] /\ cache = Empty
    BY DEF Init
  <1>4. expense \in [Expenses -> {"none", "live", "deleted"}] /\ uneven \in BOOLEAN /\ doubtful \in BOOLEAN
    BY DEF Init
  <1> QED
    BY <1>1, <1>2, <1>3, <1>4 DEF TypeOK, ReqOK

\* Types, in every interleaving: what is cached or about to be cached has a balance
\* for each of a set of users.
THEOREM BalancesTypeCorrect == Spec => []TypeOK
  BY InitTypes, NextTypes, PTL DEF Spec

\* A copy that says of users of who what bal says.
Fits(copy, who, bal) == DOMAIN copy \subseteq who /\ \A m \in DOMAIN copy : copy[m] = bal[m]

\* A step that leaves the money as it is keeps every copy current, whoever joins.
LEMMA KeepsCurrent ==
  ASSUME TypeOK, Steps, UNCHANGED <<spent, settlement>>,
         NEW copy, Fits(copy, joined, Balances)
  PROVE  Fits(copy, joined', Balances')
  <1>1. joined \subseteq joined'
    BY StepTables
  <1>2. \A m \in joined : Balances'[m] = Balances[m]
    BY <1>1 DEF Balances, getGroupBalance
  <1> QED
    BY <1>1, <1>2 DEF Fits

\* A step that raises no doubt keeps what is behind the cache current.
LEMMA StepsBalances ==
  ASSUME TypeOK, FillsAreCurrent, CachedOrDoomed, Steps, Recorded, ~doubtful'
  PROVE  FillsAreCurrent' /\ CachedOrDoomed'
  <1> DEFINE OK(c) == Fits(c, joined, Balances)
             OKN(c) == Fits(c, joined', Balances')
  <1>0. /\ req = [q \in Requests |-> req[q]]
        /\ \A q \in Requests : req[q].op = "fill" => OK(req[q].value)
        /\ cache = Empty \/ OK(cache) \/ ~AllInvalidated
    BY DEF TypeOK, FillsAreCurrent, CachedOrDoomed, Current, Fits
  <1>1. /\ FillsAreCurrent' <=> \A q \in Requests : req'[q].op = "fill" => OKN(req'[q].value)
        /\ CachedOrDoomed' <=> (cache' = Empty \/ OKN(cache') \/ ~AllInvalidated')
    BY DEF FillsAreCurrent, CachedOrDoomed, Current, Fits
  <1>2. ASSUME UNCHANGED <<spent, settlement>>, NEW c, OK(c) PROVE OKN(c)
    BY <1>2, KeepsCurrent
  <1>3. ReadInFlight => UNCHANGED <<spent, settlement>>
    BY DEF Recorded
  <1> HIDE DEF OK, OKN
  <1>4. ASSUME NEW r \in Requests, req'[r].op = "invalidate",
               \A q \in Requests : req'[q].op = "fill" => req'[q] = req[q]
        PROVE  FillsAreCurrent' /\ CachedOrDoomed'
    <2>1. ~AllInvalidated'
      BY <1>4 DEF AllInvalidated
    <2>2. ASSUME NEW q \in Requests, req'[q].op = "fill" PROVE OKN(req'[q].value)
      <3>1. req'[q] = req[q] /\ req[q].op = "fill" /\ ReadInFlight
        BY <1>4, <2>2 DEF ReadInFlight
      <3> QED
        BY <1>0, <1>2, <1>3, <3>1
    <2> QED
      BY <1>1, <2>1, <2>2
  <1>5. ASSUME NEW r \in Requests, ExpenseWrite(r) PROVE FillsAreCurrent' /\ CachedOrDoomed'
    <2>1. Start(r, "invalidate") \/ \E e : Wrote(r, e)
      BY <1>5 DEF ExpenseWrite, CreateExpense, EditCommit, DeleteExpense
    <2>2. req'[r].op = "invalidate"
      BY <1>0, <2>1 DEF Start, Wrote, InFlight
    <2>3. ASSUME NEW q \in Requests, req'[q].op = "fill" PROVE req'[q] = req[q]
      <3>1. q # r
        BY <2>2, <2>3
      <3>2. req[q] \in Request({req[q].value})
        BY DEF TypeOK
      <3>3. ASSUME req[q].op = "edit" PROVE [req[q] EXCEPT !.crossed = TRUE].op = "edit"
        BY <3>2, <3>3 DEF Request
      <3> QED
        BY <1>0, <2>1, <2>3, <3>1, <3>3 DEF Start, Wrote
    <2> QED
      BY <1>4, <2>2, <2>3
  <1>6. ASSUME NEW r \in Requests, SettlementWrite(r) PROVE FillsAreCurrent' /\ CachedOrDoomed'
    <2>1. Start(r, "invalidate")
      BY <1>6 DEF SettlementWrite, RequestSettlement, CompleteSettlement, CancelSettlement
    <2>2. req'[r].op = "invalidate" /\ \A q \in Requests \ {r} : req'[q] = req[q]
      BY <1>0, <2>1 DEF Start, InFlight
    <2> QED
      BY <1>4, <2>2
  \* The steps of one request that leave the money as it is and start no read of it.
  <1>7. ASSUME UNCHANGED <<spent, settlement>>, NEW r \in Requests,
               \A q \in Requests \ {r} : req'[q] = req[q], req'[r].op # "fill",
               cache' = Empty \/ (cache' = cache /\ req[r].op # "invalidate")
        PROVE  FillsAreCurrent' /\ CachedOrDoomed'
    <2>1. ASSUME NEW q \in Requests, req'[q].op = "fill" PROVE OKN(req'[q].value)
      BY <1>0, <1>2, <1>7, <2>1
    <2>2. ~AllInvalidated => cache' = Empty \/ ~AllInvalidated'
      BY <1>7 DEF AllInvalidated
    <2>3. cache' = Empty \/ OKN(cache') \/ ~AllInvalidated'
      BY <1>0, <1>2, <1>7, <2>2
    <2> QED
      BY <1>1, <2>1, <2>3
  <1>8. ASSUME NEW r \in Requests, Edit(r) PROVE FillsAreCurrent' /\ CachedOrDoomed'
    <2>1. /\ req'[r].op \in {"idle", "edit"} /\ req[r].op \in {"idle", "edit"}
          /\ \A q \in Requests \ {r} : req'[q] = req[q]
          /\ UNCHANGED <<spent, settlement, cache>>
      BY <1>0, <1>8 DEF Edit, EditRead, EditFails, Finish, Idle, InFlight, tables
    <2> QED
      BY <1>7, <2>1
  <1>9. ASSUME NEW r \in Requests, End(r) PROVE FillsAreCurrent' /\ CachedOrDoomed'
    <2>1. /\ req'[r].op = "idle" /\ \A q \in Requests \ {r} : req'[q] = req[q]
          /\ UNCHANGED <<spent, settlement>>
      BY <1>0, <1>9 DEF End, Invalidate, InvalidateSkipped, Finish, Idle, tables
    <2>2. CASE Invalidate(r)
      BY <1>7, <2>1, <2>2 DEF Invalidate
    <2>3. CASE InvalidateSkipped(r)
      <3>1. cache = Empty
        BY <2>3 DEF Recorded
      <3> QED
        BY <1>7, <2>1, <2>3, <3>1 DEF InvalidateSkipped
    <2> QED
      BY <1>9, <2>2, <2>3 DEF End
  <1>10. ASSUME NEW r \in Requests, Read(r) PROVE FillsAreCurrent' /\ CachedOrDoomed'
    <2>1. CASE ReadMiss(r) \/ ReadFails(r)
      <3>1. /\ req'[r].op \in {"query", "idle"} /\ req[r].op \in {"query", "idle"}
            /\ \A q \in Requests \ {r} : req'[q] = req[q]
            /\ UNCHANGED <<spent, settlement, cache>>
        BY <1>0, <2>1 DEF ReadMiss, ReadFails, Start, Finish, Idle, InFlight, tables
      <3> QED
        BY <1>7, <3>1
    <2>2. CASE Query(r)
      <3>1. /\ req'[r].op = "fill" /\ req'[r].value = Balances /\ req[r].op = "query"
            /\ \A q \in Requests \ {r} : req'[q] = req[q]
            /\ UNCHANGED <<spent, settlement, cache>>
        BY <1>0, <2>2 DEF Query, InFlight, tables
      <3>2. OK(Balances)
        BY BalancesCopy DEF OK, Fits
      <3>3. OKN(req'[r].value)
        BY <1>2, <3>1, <3>2
      <3>4. \A q \in Requests : req'[q].op = "fill" => OKN(req'[q].value)
        BY <1>0, <1>2, <3>1, <3>3
      <3>5. ~AllInvalidated => ~AllInvalidated'
        BY <3>1 DEF AllInvalidated
      <3> QED
        BY <1>0, <1>1, <1>2, <3>1, <3>4, <3>5
    <2>3. CASE Fill(r)
      <3>1. /\ req'[r].op = "idle" /\ req[r].op = "fill" /\ cache' = req[r].value
            /\ \A q \in Requests \ {r} : req'[q] = req[q]
            /\ UNCHANGED <<spent, settlement>>
        BY <1>0, <2>3 DEF Fill, Finish, Idle, tables
      <3>2. OKN(cache')
        BY <1>0, <1>2, <3>1
      <3>3. \A q \in Requests : req'[q].op = "fill" => OKN(req'[q].value)
        BY <1>0, <1>2, <3>1
      <3> QED
        BY <1>1, <3>2, <3>3
    <2> QED
      BY <1>10, <2>1, <2>2, <2>3 DEF Read
  <1>11. CASE Expire \/ \E u \in Users : Join(u)
    <2>1. UNCHANGED <<spent, settlement, req>> /\ cache' \in {cache, Empty}
      BY <1>11 DEF Expire, Join, tables
    <2>2. ~AllInvalidated => ~AllInvalidated'
      BY <2>1 DEF AllInvalidated
    <2> QED
      BY <1>0, <1>1, <1>2, <2>1, <2>2
  <1>12. CASE ServerCrash
    <2>1. cache' = Empty /\ \A r \in Requests : req'[r].op = "idle"
      BY <1>12 DEF ServerCrash, Idle
    <2> QED
      BY <1>1, <2>1
  <1> QED
    BY <1>5, <1>6, <1>8, <1>9, <1>10, <1>11, <1>12 DEF Steps

LEMMA NextBalances == BalancesInv /\ [Next]_vars => BalancesInv'
  <1> SUFFICES ASSUME BalancesInv, [Next]_vars, ~doubtful' PROVE FillsAreCurrent' /\ CachedOrDoomed'
    BY NextTypes DEF BalancesInv
  <1>1. CASE Next
    <2>0. Steps /\ Recorded /\ TypeOK
      BY <1>1 DEF Next, BalancesInv
    <2>1. CASE ~doubtful
      BY <2>0, <2>1, StepsBalances DEF BalancesInv
    <2>2. CASE doubtful
      BY <2>0, <2>2 DEF Recorded, ReadInFlight, FillsAreCurrent, CachedOrDoomed
    <2> QED
      BY <2>1, <2>2
  <1>2. CASE UNCHANGED vars
    BY <1>2 DEF vars, tables, BalancesInv, FillsAreCurrent, CachedOrDoomed, AllInvalidated,
                Current, Balances
  <1> QED
    BY <1>1, <1>2

\* The cached balances are those of the tables for everybody in them, in every
\* interleaving and whoever joins, unless the money changed between a read's query and
\* its store or a write failed between its commit and its invalidation.
THEOREM CachedBalancesAreCurrent == Spec => []CacheIsCurrent
  <1>1. BalancesInv => CacheIsCurrent
    BY DEF BalancesInv, CacheIsCurrent, CachedOrDoomed
  <1>2. Init => BalancesInv
    BY InitTypes DEF Init, Idle, BalancesInv, FillsAreCurrent, CachedOrDoomed
  <1> QED
    BY <1>1, <1>2, NextBalances, PTL DEF Spec

\* Rows that were asked for name somebody of who as payer and a user as payee.
Named(st, who) == \A s \in Settlements :
                    st[s].status # "none" => st[s].from \in who /\ st[s].to \in Users

\* A payment is paid by one member and to one user: counted by who pays and by
\* who is paid, the rows come to the same.
LEMMA PaymentsBalance ==
  ASSUME NEW st \in [Settlements -> Row], NEW who \in SUBSET Users, Named(st, who)
  PROVE  SumFunctionOnSet([u \in who |-> PaidBy(st, u)], who)
         = SumFunctionOnSet([u \in Users |-> PaidTo(st, u)], Users)
  <1> DEFINE by(T) == [u \in who |-> SumFunctionOnSet(SentBy(st, u), T)]
             to(T) == [u \in Users |-> SumFunctionOnSet(SentTo(st, u), T)]
             Good == {T \in SUBSET Settlements :
                        SumFunctionOnSet(by(T), who) = SumFunctionOnSet(to(T), Users)}
  <1>0. IsFiniteSet(who) /\ IsFiniteSet(Users) /\ IsFiniteSet(Settlements)
    BY BalancesAssumption, FS_Subset
  <1>1. {} \in Good
    <2>1. Constant(by({}), 0, who) /\ Constant(to({}), 0, Users)
      BY SumEmpty DEF Constant
    <2>2. SumFunctionOnSet(by({}), who) = 0 /\ SumFunctionOnSet(to({}), Users) = 0
      <3> HIDE DEF by, to
      <3> QED
        BY <1>0, <2>1, SumZero
    <2> QED
      BY <2>2
  <1>2. ASSUME NEW T \in SUBSET Settlements, NEW x \in Settlements, x \notin T, T \in Good
        PROVE  T \cup {x} \in Good
    <2> DEFINE TX == T \cup {x}
               byX == [u \in who |-> SentBy(st, u)[x]]
               toX == [u \in Users |-> SentTo(st, u)[x]]
               value == AmountIf(st[x], st[x].status = "COMPLETED")
    <2>1. ASSUME NEW u
          PROVE  /\ SumFunctionOnSet(SentBy(st, u), TX) = SentBy(st, u)[x] + SumFunctionOnSet(SentBy(st, u), T)
                 /\ SumFunctionOnSet(SentBy(st, u), T) \in Int
      BY <1>0, <1>2, PaidInt, SumAdd
    <2>2. ASSUME NEW u
          PROVE  /\ SumFunctionOnSet(SentTo(st, u), TX) = SentTo(st, u)[x] + SumFunctionOnSet(SentTo(st, u), T)
                 /\ SumFunctionOnSet(SentTo(st, u), T) \in Int
      BY <1>0, <1>2, PaidInt, SumAdd
    <2>3. \A u : SentBy(st, u)[x] \in Int /\ SentTo(st, u)[x] \in Int
      BY PaidInt DEF IntValued
    <2>4. SumFunctionOnSet(by(TX), who) = SumFunctionOnSet(byX, who) + SumFunctionOnSet(by(T), who)
      <3>1. \A u \in who : by(TX)[u] = byX[u] + by(T)[u]
        BY <2>1
      <3>2. IntValued(byX, who) /\ IntValued(by(T), who)
        BY <2>1, <2>3 DEF IntValued
      <3> HIDE DEF by, byX, TX
      <3> QED
        BY <1>0, <3>1, <3>2, SumPlus
    <2>5. SumFunctionOnSet(to(TX), Users) = SumFunctionOnSet(toX, Users) + SumFunctionOnSet(to(T), Users)
      <3>1. \A u \in Users : to(TX)[u] = toX[u] + to(T)[u]
        BY <2>2
      <3>2. IntValued(toX, Users) /\ IntValued(to(T), Users)
        BY <2>2, <2>3 DEF IntValued
      <3> HIDE DEF to, toX, TX
      <3> QED
        BY <1>0, <3>1, <3>2, SumPlus
    <2>6. SumFunctionOnSet(byX, who) = value /\ SumFunctionOnSet(toX, Users) = value
      <3>1. CASE st[x].status = "COMPLETED"
        <4>1. /\ st[x].from \in who /\ byX[st[x].from] = value
              /\ Constant(byX, 0, who \ {st[x].from})
          BY <3>1 DEF Named, SentBy, AmountIf, Constant
        <4>2. /\ st[x].to \in Users /\ toX[st[x].to] = value
              /\ Constant(toX, 0, Users \ {st[x].to})
          BY <3>1 DEF Named, SentTo, AmountIf, Constant
        <4>3. value \in Int
          BY <2>3, <4>1
        <4> HIDE DEF byX, toX, value
        <4>4. SumFunctionOnSet(byX, who) = value
          BY <1>0, <4>1, <4>3, SumSingle
        <4>5. SumFunctionOnSet(toX, Users) = value
          BY <1>0, <4>2, <4>3, SumSingle
        <4> QED
          BY <4>4, <4>5
      <3>2. CASE st[x].status # "COMPLETED"
        <4>1. Constant(byX, 0, who) /\ Constant(toX, 0, Users) /\ value = 0
          BY <3>2 DEF SentBy, SentTo, AmountIf, Constant
        <4> HIDE DEF byX, toX
        <4> QED
          BY <1>0, <4>1, SumZero
      <3> QED
        BY <3>1, <3>2
    <2>7. SumFunctionOnSet(by(T), who) = SumFunctionOnSet(to(T), Users)
      BY <1>2
    <2> HIDE DEF by, to, byX, toX, value
    <2> QED
      BY <2>4, <2>5, <2>6, <2>7
  <1>3. Settlements \in Good
    <2> HIDE DEF Good
    <2> QED
      BY <1>0, <1>1, <1>2, SetInduction
  <1>4. /\ by(Settlements) = [u \in who |-> PaidBy(st, u)]
        /\ to(Settlements) = [u \in Users |-> PaidTo(st, u)]
    BY PaidIsSum
  <1> QED
    BY <1>3, <1>4
\* The inductive invariant behind BalancesSum: expenses concern members only, and
\* what payers are given is what is split.
BooksInv ==
    /\ TypeOK
    /\ Named(settlement, joined)
    /\ \A u \in Users \ joined : spent[u] = 0
    /\ ~uneven => SumFunctionOnSet(spent, Users) = 0

LEMMA ChangedTwice ==
  ASSUME NEW f \in [Users -> Int], NEW g \in [Users -> Int], NEW h \in [Users -> Int],
         NEW p \in Users, NEW q \in Users, NEW a \in Int,
         SameBut(f, g, p, Users), SameBut(g, h, q, Users), g[p] = f[p] + a, h[q] = g[q] - a
  PROVE  SumFunctionOnSet(h, Users) = SumFunctionOnSet(f, Users)
  <1>1. IsFiniteSet(Users)
    BY AmountsAreCents
  <1>2. IntValued(f, Users) /\ IntValued(g, Users) /\ IntValued(h, Users)
    BY DEF IntValued
  <1>3. SumFunctionOnSet(g, Users) = SumFunctionOnSet(f, Users) + g[p] - f[p]
    BY <1>1, <1>2, SumChange
  <1>4. SumFunctionOnSet(h, Users) = SumFunctionOnSet(g, Users) + h[q] - g[q]
    BY <1>1, <1>2, SumChange
  <1>5. SumFunctionOnSet(f, Users) \in Int /\ SumFunctionOnSet(g, Users) \in Int
    BY <1>1, <1>2, SumInt
  <1>6. f[p] \in Int /\ g[q] \in Int
    OBVIOUS
  <1> QED
    BY <1>3, <1>4, <1>5, <1>6

\* f became g: a was given to p and taken from q.
Shifted(f, g, p, q, a) ==
    \A u \in Users : g[u] = f[u] + (IF u = p THEN a ELSE 0) - (IF u = q THEN a ELSE 0)

\* A payer's rows and a sharer's change by the same amount: the sum stays.
LEMMA MovedSum ==
  ASSUME NEW sp \in [Users -> Int], NEW p \in Users, NEW q \in Users, NEW a \in Int,
         NEW new \in [Users -> Int], Shifted(sp, new, p, q, a)
  PROVE  SumFunctionOnSet(new, Users) = SumFunctionOnSet(sp, Users)
  <1> DEFINE paid == [u \in Users |-> sp[u] + (IF u = p THEN a ELSE 0)]
  <1>1. /\ paid \in [Users -> Int] /\ paid[p] = sp[p] + a
        /\ \A u \in Users \ {p} : paid[u] = sp[u]
    OBVIOUS
  <1>2. /\ new \in [Users -> Int] /\ new[q] = paid[q] - a
        /\ \A u \in Users \ {q} : new[u] = paid[u]
    BY DEF Shifted
  <1> HIDE DEF paid
  <1>3. SameBut(sp, paid, p, Users) /\ SameBut(paid, new, q, Users)
    BY <1>1, <1>2 DEF SameBut
  <1> QED
    BY <1>1, <1>2, <1>3, ChangedTwice

LEMMA NextBooks == BooksInv /\ [Next]_vars => BooksInv'
  <1> SUFFICES ASSUME BooksInv, [Next]_vars PROVE BooksInv'
    OBVIOUS
  <1>0. TypeOK /\ TypeOK' /\ joined \subseteq Users /\ spent \in [Users -> Int]
        /\ Named(settlement, joined) /\ \A u \in Users \ joined : spent[u] = 0
    BY NextTypes DEF BooksInv, TypeOK
  <1> DEFINE Good == /\ Named(settlement', joined')
                     /\ \A u \in Users \ joined' : spent'[u] = 0
                     /\ ~uneven' => SumFunctionOnSet(spent', Users) = 0
  <1>1. CASE UNCHANGED vars
    BY <1>0, <1>1 DEF vars, tables, BooksInv
  <1>2. CASE Next
    <2>0. Steps /\ (~uneven' => ~uneven /\ ~MissedWrite)
      BY <1>2 DEF Next, Recorded
    <2>1. ~uneven' => SumFunctionOnSet(spent, Users) = 0
      BY <2>0 DEF BooksInv
    <2>2. ASSUME spent' = spent, joined \subseteq joined', Named(settlement', joined')
          PROVE  Good
      BY <1>0, <2>1, <2>2
    <2>3. ASSUME NEW p \in joined, NEW q \in joined, NEW a \in Int, NEW b \in Int,
                 Moved(p, q, a, b), ~uneven' => a = b
          PROVE  Good
      <3>1. /\ spent' = [u \in Users |-> spent[u] + (IF u = p THEN a ELSE 0)
                                              - (IF u = q THEN b ELSE 0)]
            /\ UNCHANGED <<joined, settlement>>
        BY <2>3 DEF Moved
      <3>2. \A u \in Users \ joined : spent'[u] = 0
        BY <1>0, <3>1
      <3>3. ASSUME ~uneven' PROVE SumFunctionOnSet(spent', Users) = 0
        <4>1. p \in Users /\ q \in Users /\ a = b
          BY <1>0, <2>3, <3>3
        <4>2. Shifted(spent, spent', p, q, a)
          BY <3>1, <4>1 DEF Shifted
        <4>3. spent \in [Users -> Int] /\ spent' \in [Users -> Int] /\ a \in Int
          BY <1>0, <2>3 DEF TypeOK
        <4>4. SumFunctionOnSet(spent', Users) = SumFunctionOnSet(spent, Users)
          BY <4>1, <4>2, <4>3, MovedSum
        <4> QED
          BY <2>1, <3>3, <4>4
      <3> QED
        BY <1>0, <3>1, <3>2, <3>3
    <2>4. ASSUME NEW r \in Requests, ExpenseWrite(r) PROVE Good
      <3>0. Amounts \subseteq Int /\ Changes \subseteq Int
        BY BalancesAssumption DEF Changes
      <3>1. ASSUME NEW p \in joined, NEW q \in joined, NEW a \in Int, NEW b \in Int,
                   EditCommit(r, p, q, a, b)
            PROVE  Good
        <4>1. Moved(p, q, a, b) /\ req[r].op = "edit" /\ (a # b => req[r].crossed \/ uneven)
          BY <3>1 DEF EditCommit
        <4>2. req'[r].op = "invalidate"
          BY <3>1 DEF EditCommit, Wrote, InFlight
        <4>3. ~uneven' => a = b
          BY <2>0, <4>1, <4>2 DEF MissedWrite
        <4> QED
          BY <2>3, <4>1, <4>3
      <3>2. ASSUME NEW p \in joined, NEW q \in joined, NEW a \in Int, NEW b \in Int,
                   NEW e \in Expenses, DeleteExpense(r, e, p, q, a, b)
            PROVE  Good
        BY <2>0, <2>3, <3>2 DEF DeleteExpense
      <3>3. ASSUME NEW p \in joined, NEW q \in joined, NEW a \in Int, NEW e \in Expenses,
                   CreateExpense(r, e, p, q, a)
            PROVE  Good
        BY <2>3, <3>3 DEF CreateExpense
      <3> HIDE DEF Good
      <3> QED
        BY <2>4, <3>0, <3>1, <3>2, <3>3 DEF ExpenseWrite
    <2>5. ASSUME NEW r \in Requests, SettlementWrite(r) PROVE Good
      <3>1. UNCHANGED <<spent, joined>> /\ settlement \in [Settlements -> Row]
        BY <1>0, <2>5 DEF SettlementWrite, RequestSettlement, CompleteSettlement,
                          CancelSettlement, TypeOK
      <3>2. ASSUME NEW s \in Settlements, NEW p \in Users, NEW u \in Users, NEW a \in Amounts,
                   RequestSettlement(r, s, p, u, a)
            PROVE  Named(settlement', joined)
        BY <1>0, <3>1, <3>2 DEF RequestSettlement, Named
      <3>3. ASSUME NEW s \in Settlements, NEW u \in Users,
                   CompleteSettlement(r, s, u) \/ CancelSettlement(r, s, u)
            PROVE  Named(settlement', joined)
        <4>1. PICK c \in {"COMPLETED", "CANCELLED"} : settlement' = [settlement EXCEPT ![s].status = c]
          BY <3>3 DEF CompleteSettlement, CancelSettlement
        <4>2. settlement[s].status # "none"
          BY <3>3 DEF CompleteSettlement, CancelSettlement
        <4>3. /\ \A t \in Settlements \ {s} : settlement'[t] = settlement[t]
              /\ settlement'[s].from = settlement[s].from /\ settlement'[s].to = settlement[s].to
          BY <3>1, <4>1 DEF Row
        <4> QED
          BY <1>0, <4>2, <4>3 DEF Named
      <3>4. Named(settlement', joined)
        BY <2>5, <3>2, <3>3 DEF SettlementWrite
      <3> QED
        BY <2>2, <3>1, <3>4
    <2>6. ASSUME NEW u \in Users, Join(u) PROVE Good
      <3>1. spent' = spent /\ joined \subseteq joined' /\ settlement' = settlement
        BY <2>6 DEF Join
      <3>2. Named(settlement', joined')
        BY <1>0, <3>1 DEF Named
      <3> QED
        BY <2>2, <3>1, <3>2
    <2>7. ASSUME UNCHANGED tables PROVE Good
      <3>1. spent' = spent /\ joined' = joined /\ settlement' = settlement
        BY <2>7 DEF tables
      <3>2. Named(settlement', joined')
        BY <1>0, <3>1 DEF Named
      <3> QED
        BY <2>2, <3>1, <3>2
    <2>8. Good
      <3> HIDE DEF Good
      <3>1. ASSUME NEW r \in Requests, Edit(r) \/ End(r) \/ Read(r) PROVE UNCHANGED tables
        BY <3>1 DEF Edit, EditRead, EditFails, End, Invalidate, InvalidateSkipped, Read,
                    ReadMiss, Query, Fill, ReadFails
      <3>2. Expire \/ ServerCrash => UNCHANGED tables
        BY DEF Expire, ServerCrash
      <3> QED
        BY <2>0, <2>4, <2>5, <2>6, <2>7, <3>1, <3>2 DEF Steps
    <2> HIDE DEF Good
    <2>9. Good => /\ Named(settlement, joined)'
                  /\ (\A u \in Users \ joined : spent[u] = 0)'
                  /\ (~uneven => SumFunctionOnSet(spent, Users) = 0)'
      BY DEF Good, Named
    <2> QED
      BY <1>0, <2>8, <2>9 DEF BooksInv
  <1> QED
    BY <1>1, <1>2

LEMMA InitBooks == Init => BooksInv
  <1> SUFFICES ASSUME Init PROVE BooksInv
    OBVIOUS
  <1>1. Named(settlement, joined) /\ \A u \in Users \ joined : spent[u] = 0
    BY DEF Init, NoRow, Named
  <1>2. Constant(spent, 0, Users)
    BY DEF Init, Constant
  <1>3. SumFunctionOnSet(spent, Users) = 0
    BY <1>2, BalancesAssumption, SumZero
  <1> QED
    BY <1>1, <1>3, InitTypes DEF BooksInv

LEMMA BooksSum == BooksInv => BalancesSum
  <1> SUFFICES ASSUME BooksInv, ~uneven
               PROVE  SumFunction(Balances)
                      = SumFunction([u \in Users \ joined |-> PaidTo(settlement, u)])
    BY DEF BalancesSum
  <1> DEFINE st == settlement
             own == joined
             rest == Users \ joined
             by == [u \in own |-> PaidBy(st, u)]
             toAll == [u \in Users |-> PaidTo(st, u)]
             toIn == [u \in own |-> PaidTo(st, u)]
             toRest == [u \in rest |-> PaidTo(st, u)]
             sent == [u \in own |-> by[u] - toIn[u]]
  <1>1. /\ spent \in [Users -> Int] /\ settlement \in [Settlements -> Row] /\ Named(st, own)
        /\ SumFunctionOnSet(spent, Users) = 0 /\ Constant(spent, 0, rest)
        /\ own \in SUBSET Users /\ IsFiniteSet(own) /\ IsFiniteSet(rest) /\ own \cap rest = {}
        /\ Users = own \cup rest
    BY BalancesAssumption, FS_Subset DEF BooksInv, TypeOK, Constant
  <1>2. /\ IntValued(by, own) /\ IntValued(toIn, own)
        /\ IntValued(toAll, Users) /\ IntValued(toAll, own) /\ IntValued(toAll, rest)
        /\ IntValued(spent, Users) /\ IntValued(spent, own) /\ IntValued(sent, own)
    BY <1>1, PaidInt DEF IntValued
  <1>3. SumFunctionOnSet(by, own) = SumFunctionOnSet(toAll, Users)
    BY <1>1, PaymentsBalance
  <1>4. SameOn(toAll, toIn, own)
    BY <1>1 DEF SameOn
  <1>5. SameOn(toAll, toRest, rest)
    BY <1>1 DEF SameOn
  <1>6. \A u \in own : Balances[u] = spent[u] + sent[u]
    <2>1. \A u \in own : spent[u] \in Int /\ PaidBy(st, u) \in Int /\ PaidTo(st, u) \in Int
      BY <1>1, PaidInt
    <2> QED
      BY <2>1 DEF Balances, getGroupBalance
  <1>7. \A u \in own : sent[u] = by[u] - toIn[u]
    OBVIOUS
  <1>8. DOMAIN Balances = own /\ DOMAIN toRest = rest
    BY DEF Balances, getGroupBalance
  <1>9. /\ SumFunction(Balances) = SumFunctionOnSet(Balances, own)
        /\ SumFunction([u \in Users \ joined |-> PaidTo(settlement, u)]) = SumFunctionOnSet(toRest, rest)
    BY <1>8 DEF SumFunction
  <1> HIDE DEF by, toAll, toIn, toRest, sent, st, own, rest
  <1>10. SumFunctionOnSet(Balances, own) = SumFunctionOnSet(spent, own) + SumFunctionOnSet(sent, own)
    BY <1>1, <1>2, <1>6, SumPlus
  <1>11. SumFunctionOnSet(sent, own) = SumFunctionOnSet(by, own) - SumFunctionOnSet(toIn, own)
    BY <1>1, <1>2, <1>7, SumMinus
  <1>12. SumFunctionOnSet(toAll, Users) = SumFunctionOnSet(toAll, own) + SumFunctionOnSet(toAll, rest)
    BY <1>1, <1>2, SumUnion
  <1>13. SumFunctionOnSet(toAll, own) = SumFunctionOnSet(toIn, own)
    BY <1>1, <1>2, <1>4, SumSame
  <1>14. SumFunctionOnSet(toAll, rest) = SumFunctionOnSet(toRest, rest)
    BY <1>1, <1>2, <1>5, SumSame
  <1>15. SumFunctionOnSet(toAll, own) \in Int /\ SumFunctionOnSet(toAll, rest) \in Int
    BY <1>1, <1>2, SumInt
  <1>16. SumFunctionOnSet(spent, Users) = SumFunctionOnSet(spent, own) + SumFunctionOnSet(spent, rest)
    BY <1>1, <1>2, SumUnion
  <1>17. SumFunctionOnSet(spent, rest) = 0 /\ SumFunctionOnSet(spent, own) \in Int
    BY <1>1, <1>2, SumZero, SumInt
  <1> QED
    BY <1>1, <1>3, <1>9, <1>10, <1>11, <1>12, <1>13, <1>14, <1>15, <1>16, <1>17

\* In every group, whatever is spent, edited and settled and whoever joins, the balances
\* of the members sum to what was paid to users who are not members, unless an edit was
\* committed that had missed another write of its expense.
THEOREM BalancesAddUp == Spec => []BalancesSum
  BY InitBooks, NextBooks, BooksSum, PTL DEF Spec
-----------------------------------------------------------------------------
(***************************************************************************)
(* DebtSimplifier, for every group and all balances.                       *)
(***************************************************************************)

\* debtors and creditors as Sort makes them.
Sides ==
    /\ debtors \in Seq(People) /\ creditors \in Seq(People)
    /\ \A k, l \in DOMAIN debtors : debtors[k] = debtors[l] => k = l
    /\ \A k, l \in DOMAIN creditors : creditors[k] = creditors[l] => k = l
    /\ \A k \in DOMAIN debtors : initial[debtors[k]] < 0
    /\ \A k \in DOMAIN creditors : initial[creditors[k]] > 0

\* Who was passed is settled but for a cent, who was not still has a balance.
Passed ==
    /\ i \in 1..(Len(debtors) + 1) /\ j \in 1..(Len(creditors) + 1)
    /\ \A k \in DOMAIN debtors :
         IF k < i THEN balance[debtors[k]] \in {-1, 0} ELSE balance[debtors[k]] <= -1
    /\ \A k \in DOMAIN creditors :
         IF k < j THEN balance[creditors[k]] \in {0, 1} ELSE balance[creditors[k]] >= 1

Numbers ==
    /\ initial \in [People -> Int] /\ balance \in [People -> Int]
    /\ pc \in {"sort", "match", "hide", "done"}

MatchInv ==
    /\ Numbers
    /\ NobodyOverpays
    /\ pc = "sort" => balance = initial /\ i = 1 /\ j = 1 /\ settlements = <<>>
    /\ pc # "sort" => Sides /\ Passed
    /\ pc = "match" => settlements \in Seq(Payment) /\ FewPayments
    /\ OneSideSettled

LEMMA OrderingIsList ==
  ASSUME NEW S \in SUBSET People, NEW s \in Orderings(S)
  PROVE  /\ s \in Seq(People)
         /\ \A k, l \in DOMAIN s : s[k] = s[l] => k = l
         /\ \A k \in DOMAIN s : s[k] \in S
  <1>1. Cardinality(S) \in Nat
    BY SimplifierAssumption, FS_Subset, FS_CardinalityType
  <1>2. s \in [1..Cardinality(S) -> S]
    BY DEF Orderings
  <1>3. s \in Seq(S)
    BY <1>1, <1>2
  <1> QED
    BY <1>2, <1>3 DEF Orderings

LEMMA InitMatch == SimplifyInit => MatchInv
  <1> SUFFICES ASSUME SimplifyInit PROVE MatchInv
    OBVIOUS
  <1>1. Numbers
    BY SimplifierAssumption DEF SimplifyInit, Numbers
  <1>2. NobodyOverpays
    BY <1>1 DEF SimplifyInit, NobodyOverpays, Numbers
  <1> QED
    BY <1>1, <1>2 DEF SimplifyInit, MatchInv, OneSideSettled

LEMMA SortMatch == MatchInv /\ Sort => MatchInv'
  <1> SUFFICES ASSUME MatchInv, Sort PROVE MatchInv'
    OBVIOUS
  <1>1. /\ balance = initial /\ i = 1 /\ j = 1 /\ settlements = <<>> /\ Numbers
        /\ pc' = "match" /\ UNCHANGED <<initial, balance, i, j, settlements>>
    BY DEF MatchInv, Sort, input
  <1>2. /\ debtors' \in Orderings(Debtors) /\ Debtors \in SUBSET People
        /\ creditors' \in Orderings(Creditors) /\ Creditors \in SUBSET People
    BY DEF Sort, Debtors, Creditors
  <1>3. /\ debtors' \in Seq(People) /\ creditors' \in Seq(People)
        /\ \A k \in DOMAIN debtors' : debtors'[k] \in People /\ balance[debtors'[k]] < -1
        /\ \A k \in DOMAIN creditors' : creditors'[k] \in People /\ balance[creditors'[k]] > 1
        /\ \A k, l \in DOMAIN debtors' : debtors'[k] = debtors'[l] => k = l
        /\ \A k, l \in DOMAIN creditors' : creditors'[k] = creditors'[l] => k = l
    <2>1. \A p \in Debtors : p \in People /\ balance[p] < -1
      BY DEF Debtors
    <2>2. \A p \in Creditors : p \in People /\ balance[p] > 1
      BY DEF Creditors
    <2> QED
      BY <1>2, <2>1, <2>2, OrderingIsList
  <1>4. Sides'
    BY <1>1, <1>3 DEF Sides, Numbers
  <1>5. Passed'
    <2>1. /\ Len(debtors') \in Nat /\ DOMAIN debtors' = 1..Len(debtors')
          /\ Len(creditors') \in Nat /\ DOMAIN creditors' = 1..Len(creditors')
      BY <1>3
    <2> QED
      BY <1>1, <1>3, <2>1 DEF Passed, Numbers
  <1>6. FewPayments'
    BY <1>1 DEF FewPayments
  <1>7. NobodyOverpays' /\ Numbers' /\ OneSideSettled' /\ settlements' \in Seq(Payment)
    BY <1>1 DEF MatchInv, NobodyOverpays, Numbers, OneSideSettled
  <1> QED
    BY <1>1, <1>4, <1>5, <1>6, <1>7 DEF MatchInv

\* What one turn of the loop settles, for the debtor d and the creditor c of it.
LEMMA SettledPays ==
  ASSUME MatchInv, pc = "match", i <= Len(debtors), j <= Len(creditors)
  PROVE  /\ debtors[i] \in People /\ creditors[j] \in People /\ debtors[i] # creditors[j]
         /\ i \in DOMAIN debtors /\ j \in DOMAIN creditors
         /\ Settled \in Int /\ Settled > 0
         /\ abs(balance[debtors[i]]) = -balance[debtors[i]]
         /\ balance[debtors[i]] + Settled <= 0 /\ balance[creditors[j]] - Settled >= 0
         /\ balance[debtors[i]] + Settled = 0 \/ balance[creditors[j]] - Settled = 0
  <1>1. Sides /\ Passed /\ Numbers
    BY DEF MatchInv
  <1>2. i \in DOMAIN debtors /\ j \in DOMAIN creditors
    BY <1>1 DEF Sides, Passed
  <1>3. debtors[i] \in People /\ creditors[j] \in People
    BY <1>1, <1>2 DEF Sides
  <1>4. /\ balance[debtors[i]] \in Int /\ balance[debtors[i]] <= -1
        /\ balance[creditors[j]] \in Int /\ balance[creditors[j]] >= 1
    BY <1>1, <1>2, <1>3 DEF Passed, Numbers
  <1>5. debtors[i] # creditors[j]
    BY <1>1, <1>2, <1>3, <1>4
  <1>6. abs(balance[debtors[i]]) = -balance[debtors[i]]
    BY <1>4 DEF abs
  <1>7. Settled = IF -balance[debtors[i]] < balance[creditors[j]]
                  THEN -balance[debtors[i]] ELSE balance[creditors[j]]
    BY <1>6 DEF Settled
  <1>8. \A x, y \in Int : x <= -1 /\ y >= 1 =>
          LET s == IF -x < y THEN -x ELSE y
          IN  s \in Int /\ s > 0 /\ x + s <= 0 /\ y - s >= 0 /\ (x + s = 0 \/ y - s = 0)
    OBVIOUS
  <1>9. /\ Settled \in Int /\ Settled > 0
        /\ balance[debtors[i]] + Settled <= 0 /\ balance[creditors[j]] - Settled >= 0
        /\ balance[debtors[i]] + Settled = 0 \/ balance[creditors[j]] - Settled = 0
    BY <1>4, <1>7, <1>8
  <1> QED
    BY <1>2, <1>3, <1>5, <1>6, <1>9

LEMMA Advances ==
  ASSUME NEW k \in Nat, NEW x \in Nat, NEW l \in After(k, x)
  PROVE  \/ l = k + 1 /\ x \in {0, 1}
         \/ l = k /\ x >= 1
  BY DEF After

LEMMA MatchMatch == MatchInv /\ Match => MatchInv'
  <1> SUFFICES ASSUME MatchInv, Match PROVE MatchInv'
    OBVIOUS
  <1> DEFINE d == debtors[i]
             c == creditors[j]
             x == Settled
  <1>0. /\ pc = "match" /\ pc' = "match" /\ i <= Len(debtors) /\ j <= Len(creditors)
        /\ UNCHANGED <<initial, debtors, creditors>>
        /\ Sides /\ Passed /\ Numbers /\ NobodyOverpays /\ FewPayments /\ settlements \in Seq(Payment)
    BY DEF Match, MatchInv, input, sorted
  <1>1. /\ d \in People /\ c \in People /\ d # c /\ i \in DOMAIN debtors /\ j \in DOMAIN creditors
        /\ x \in Int /\ x > 0 /\ abs(balance[d]) = -balance[d]
        /\ balance[d] + x <= 0 /\ balance[c] - x >= 0
        /\ balance[d] + x = 0 \/ balance[c] - x = 0
    BY <1>0, SettledPays
  <1>2. balance' = [balance EXCEPT ![d] = @ + x, ![c] = @ - x]
    BY DEF Match, Pay
  <1>3. /\ settlements' = Append(settlements, [from |-> d, to |-> c, amount |-> x, cut |-> FALSE])
        /\ i' \in After(i, abs(balance[d]) - x) /\ j' \in After(j, balance[c] - x)
    <2>1. x > 0
      BY <1>1
    <2>2. /\ settlements' = Propose
          /\ i' \in After(i, abs(balance[d]) - x) /\ j' \in After(j, balance[c] - x)
      BY DEF Match
    <2>3. Propose = Append(settlements, [from |-> d, to |-> c, amount |-> x, cut |-> FALSE])
      BY <2>1 DEF Propose
    <2> QED
      BY <2>2, <2>3
  <1> HIDE DEF d, c, x
  <1>4. balance[d] \in Int /\ balance[c] \in Int /\ i \in Nat /\ j \in Nat
    <2>1. i \in Nat /\ j \in Nat
      BY <1>0 DEF Passed
    <2>2. d \in People /\ c \in People /\ balance \in [People -> Int]
      BY <1>0, <1>1 DEF Numbers
    <2> QED
      BY <2>1, <2>2
  <1>5. /\ balance'[d] = balance[d] + x /\ balance'[c] = balance[c] - x
        /\ \A p \in People \ {d, c} : balance'[p] = balance[p]
        /\ balance' \in [People -> Int]
    <2>1. balance \in [People -> Int]
      BY <1>0 DEF Numbers
    <2>2. d \in People /\ c \in People /\ d # c /\ x \in Int
      BY <1>1
    <2>3. \A y, z \in Int : y + z \in Int /\ y - z \in Int
      OBVIOUS
    <2> QED
      BY <2>1, <2>2, <2>3, <1>2, <1>4
  <1>6. \/ i' = i + 1 /\ balance'[d] \in {-1, 0}
        \/ i' = i /\ balance'[d] <= -1
    <2>1. abs(balance[d]) - x \in Nat /\ balance'[d] = -(abs(balance[d]) - x)
      BY <1>1, <1>4, <1>5
    <2>2. \/ i' = i + 1 /\ abs(balance[d]) - x \in {0, 1}
          \/ i' = i /\ abs(balance[d]) - x >= 1
      BY <1>3, <1>4, <2>1, Advances
    <2> QED
      BY <2>1, <2>2
  <1>7. \/ j' = j + 1 /\ balance'[c] \in {0, 1}
        \/ j' = j /\ balance'[c] >= 1
    <2>1. balance[c] - x \in Nat /\ balance'[c] = balance[c] - x
      BY <1>1, <1>4, <1>5
    <2> QED
      BY <1>3, <1>4, <2>1, Advances
  <1>8. (i' = i + 1 /\ j' \in {j, j + 1}) \/ (j' = j + 1 /\ i' \in {i, i + 1})
    BY <1>1, <1>4, <1>5, <1>6, <1>7
  <1>9. Numbers' /\ Sides'
    BY <1>0, <1>5 DEF Numbers, Sides
  <1>10. \A k \in DOMAIN debtors :
           /\ debtors[k] \in People /\ debtors[k] # c /\ k \in Nat
           /\ k # i => balance'[debtors[k]] = balance[debtors[k]]
    <2>1. \A k \in DOMAIN debtors : debtors[k] \in People /\ initial[debtors[k]] < 0 /\ k \in Nat
      BY <1>0 DEF Sides
    <2>2. initial[c] > 0
      BY <1>0, <1>1 DEF Sides, c
    <2>3. \A k \in DOMAIN debtors : debtors[k] # c
      BY <2>1, <2>2, <1>0, <1>1 DEF Numbers
    <2>4. \A k \in DOMAIN debtors : k # i => debtors[k] # d
      BY <1>0, <1>1 DEF Sides, d
    <2> QED
      BY <2>1, <2>3, <2>4, <1>5
  <1>11. \A k \in DOMAIN creditors :
           /\ creditors[k] \in People /\ creditors[k] # d /\ k \in Nat
           /\ k # j => balance'[creditors[k]] = balance[creditors[k]]
    <2>1. \A k \in DOMAIN creditors : creditors[k] \in People /\ initial[creditors[k]] > 0 /\ k \in Nat
      BY <1>0 DEF Sides
    <2>2. initial[d] < 0
      BY <1>0, <1>1 DEF Sides, d
    <2>3. \A k \in DOMAIN creditors : creditors[k] # d
      BY <2>1, <2>2, <1>0, <1>1 DEF Numbers
    <2>4. \A k \in DOMAIN creditors : k # j => creditors[k] # c
      BY <1>0, <1>1 DEF Sides, c
    <2> QED
      BY <2>1, <2>3, <2>4, <1>5
  <1>12. i' \in 1..(Len(debtors) + 1) /\ j' \in 1..(Len(creditors) + 1)
    BY <1>0, <1>6, <1>7, LenProperties DEF Passed, Sides
  <1>13. \A k \in DOMAIN debtors :
           IF k < i' THEN balance'[debtors[k]] \in {-1, 0} ELSE balance'[debtors[k]] <= -1
    <2> TAKE k \in DOMAIN debtors
    <2>1. CASE k = i
      BY <2>1, <1>4, <1>6 DEF d
    <2>2. CASE k # i
      <3>1. k \in Nat /\ (k < i' <=> k < i)
        BY <2>2, <1>4, <1>6, <1>10
      <3> QED
        BY <2>2, <3>1, <1>0, <1>10 DEF Passed
    <2> QED
      BY <2>1, <2>2
  <1>14. \A k \in DOMAIN creditors :
           IF k < j' THEN balance'[creditors[k]] \in {0, 1} ELSE balance'[creditors[k]] >= 1
    <2> TAKE k \in DOMAIN creditors
    <2>1. CASE k = j
      BY <2>1, <1>4, <1>7 DEF c
    <2>2. CASE k # j
      <3>1. k \in Nat /\ (k < j' <=> k < j)
        BY <2>2, <1>4, <1>7, <1>11
      <3> QED
        BY <2>2, <3>1, <1>0, <1>11 DEF Passed
    <2> QED
      BY <2>1, <2>2
  <1>15. Passed'
    BY <1>0, <1>12, <1>13, <1>14 DEF Passed
  <1>16. NobodyOverpays'
    <2> SUFFICES ASSUME NEW p \in People
                 PROVE  \/ initial[p] <= balance'[p] /\ balance'[p] <= 0
                        \/ 0 <= balance'[p] /\ balance'[p] <= initial[p]
      BY <1>0 DEF NobodyOverpays
    <2>1. initial[p] \in Int /\ balance[p] \in Int
      BY <1>0 DEF Numbers
    <2>2. \/ initial[p] <= balance[p] /\ balance[p] <= 0
          \/ 0 <= balance[p] /\ balance[p] <= initial[p]
      BY <1>0 DEF NobodyOverpays
    <2>3. CASE p = d
      BY <2>1, <2>2, <2>3, <1>1, <1>4, <1>5
    <2>4. CASE p = c
      BY <2>1, <2>2, <2>4, <1>1, <1>4, <1>5
    <2>5. CASE p \notin {d, c}
      BY <2>2, <2>5, <1>5
    <2> QED
      BY <2>3, <2>4, <2>5
  <1>17. settlements' \in Seq(Payment) /\ Len(settlements') = Len(settlements) + 1
    <2>1. [from |-> d, to |-> c, amount |-> x, cut |-> FALSE] \in Payment
      BY <1>1 DEF Payment
    <2> QED
      BY <1>0, <1>3, <2>1
  <1>18. FewPayments'
    <2>1. Len(settlements) \in Nat /\ Len(debtors) \in Nat /\ Len(creditors) \in Nat
      BY <1>0, LenProperties DEF Sides
    <2>2. Len(settlements) <= (i - 1) + (j - 1)
      BY <1>0 DEF FewPayments
    <2>3. Len(settlements') = Len(settlements) + 1 /\ i <= Len(debtors) /\ j <= Len(creditors)
      BY <1>0, <1>17
    <2>4. Len(settlements') <= (i' - 1) + (j' - 1)
      BY <2>1, <2>2, <2>3, <1>4, <1>8
    <2>5. Len(settlements') < Len(debtors) + Len(creditors)
      BY <2>1, <2>2, <2>3, <1>4
    <2> QED
      BY <1>0, <2>4, <2>5 DEF FewPayments
  <1> QED
    BY <1>0, <1>9, <1>15, <1>16, <1>17, <1>18 DEF MatchInv, OneSideSettled

LEMMA NextMatch == MatchInv /\ [SimplifyNext]_simplifyVars => MatchInv'
  <1> SUFFICES ASSUME MatchInv, [SimplifyNext]_simplifyVars PROVE MatchInv'
    OBVIOUS
  <1>1. CASE Sort
    BY <1>1, SortMatch
  <1>2. CASE Match
    BY <1>2, MatchMatch
  <1>3. CASE Matched
    <2>1. /\ pc = "match" /\ pc' = "hide" /\ Sides /\ Passed /\ Numbers /\ NobodyOverpays
          /\ UNCHANGED <<initial, balance, debtors, creditors, i, j>>
          /\ i > Len(debtors) \/ j > Len(creditors)
      BY <1>3 DEF Matched, MatchInv, input, sorted
    <2>2. Numbers' /\ Sides' /\ Passed' /\ NobodyOverpays'
      BY <2>1 DEF Numbers, Sides, Passed, NobodyOverpays
    <2>3. \/ \A k \in DOMAIN debtors : balance[debtors[k]] \in {-1, 0}
          \/ \A k \in DOMAIN creditors : balance[creditors[k]] \in {0, 1}
      <3>1. /\ Len(debtors) \in Nat /\ DOMAIN debtors = 1..Len(debtors)
            /\ Len(creditors) \in Nat /\ DOMAIN creditors = 1..Len(creditors)
        BY <2>1, LenProperties DEF Sides
      <3>2. /\ i > Len(debtors) => \A k \in DOMAIN debtors : k < i
            /\ j > Len(creditors) => \A k \in DOMAIN creditors : k < j
        BY <2>1, <3>1 DEF Passed
      <3> QED
        BY <2>1, <3>2 DEF Passed
    <2>4. OneSideSettled'
      BY <2>1, <2>3 DEF OneSideSettled
    <2> QED
      BY <2>1, <2>2, <2>4 DEF MatchInv
  <1>4. CASE HidePending \/ Return
    <2>1. /\ pc = "hide" /\ pc' \in {"hide", "done"} /\ Sides /\ Passed /\ Numbers /\ NobodyOverpays
          /\ OneSideSettled /\ UNCHANGED <<initial, balance, debtors, creditors, i, j>>
      BY <1>4 DEF HidePending, Return, MatchInv, input, sorted
    <2>2. Numbers' /\ Sides' /\ Passed' /\ NobodyOverpays' /\ OneSideSettled'
      BY <2>1 DEF Numbers, Sides, Passed, NobodyOverpays, OneSideSettled
    <2> QED
      BY <2>1, <2>2 DEF MatchInv
  <1>5. CASE UNCHANGED simplifyVars
    BY <1>5 DEF simplifyVars, input, sorted, MatchInv, Numbers, Sides, Passed, NobodyOverpays,
                FewPayments, OneSideSettled
  <1> QED
    BY <1>1, <1>2, <1>3, <1>4, <1>5 DEF SimplifyNext

\* In every group, with any balances, the payments proposed leave each member
\* between the balance they had and zero.
THEOREM SettlingNeverOverpays == SimplifySpec => []NobodyOverpays
  <1>1. MatchInv => NobodyOverpays
    BY DEF MatchInv
  <1> QED
    BY <1>1, InitMatch, NextMatch, PTL DEF SimplifySpec

\* The proposals are fewer than the debtors and the creditors together.
THEOREM SettlingIsShort == SimplifySpec => []FewPayments
  <1>1. MatchInv => FewPayments
    BY DEF MatchInv, FewPayments
  <1> QED
    BY <1>1, InitMatch, NextMatch, PTL DEF SimplifySpec

\* When the matching ends all debtors or all creditors of it are settled, but
\* for a cent each.
THEOREM SettlingIsComplete == SimplifySpec => []OneSideSettled
  <1>1. MatchInv => OneSideSettled
    BY DEF MatchInv
  <1> QED
    BY <1>1, InitMatch, NextMatch, PTL DEF SimplifySpec

\* One turn of the loop.
LEMMA MatchTurn ==
  ASSUME MatchInv, Match
  PROVE  /\ debtors[i] \in People /\ creditors[j] \in People /\ debtors[i] # creditors[j]
         /\ Settled \in Int /\ Settled > 0
         /\ settlements' = Append(settlements, [from |-> debtors[i], to |-> creditors[j],
                                                amount |-> Settled, cut |-> FALSE])
         /\ balance' = [balance EXCEPT ![debtors[i]] = @ + Settled, ![creditors[j]] = @ - Settled]
         /\ i' \in {i, i + 1} /\ j' \in {j, j + 1} /\ (i' = i + 1 \/ j' = j + 1)
  <1>0. pc = "match" /\ i <= Len(debtors) /\ j <= Len(creditors) /\ Passed /\ Numbers
    BY DEF Match, MatchInv
  <1>1. /\ debtors[i] \in People /\ creditors[j] \in People /\ debtors[i] # creditors[j]
        /\ Settled \in Int /\ Settled > 0 /\ abs(balance[debtors[i]]) = -balance[debtors[i]]
        /\ balance[debtors[i]] + Settled <= 0 /\ balance[creditors[j]] - Settled >= 0
        /\ balance[debtors[i]] + Settled = 0 \/ balance[creditors[j]] - Settled = 0
    BY <1>0, SettledPays
  <1>2. settlements' = Append(settlements, [from |-> debtors[i], to |-> creditors[j],
                                            amount |-> Settled, cut |-> FALSE])
    BY <1>1 DEF Match, Propose
  <1>3. balance' = [balance EXCEPT ![debtors[i]] = @ + Settled, ![creditors[j]] = @ - Settled]
    BY DEF Match, Pay
  <1> DEFINE x == -balance[debtors[i]] - Settled
             y == balance[creditors[j]] - Settled
  <1>4. i' \in After(i, x) /\ j' \in After(j, y)
    BY <1>1 DEF Match
  <1>5. balance[debtors[i]] \in Int /\ balance[creditors[j]] \in Int /\ i \in Nat /\ j \in Nat
    BY <1>0, <1>1 DEF Numbers, Passed
  <1>6. x \in Nat /\ y \in Nat /\ (x = 0 \/ y = 0)
    BY <1>1, <1>5
  <1> HIDE DEF x, y
  <1>7. /\ (i' = i + 1 /\ x \in {0, 1}) \/ (i' = i /\ x >= 1)
        /\ (j' = j + 1 /\ y \in {0, 1}) \/ (j' = j /\ y >= 1)
    BY <1>4, <1>5, <1>6, Advances
  <1> QED
    BY <1>1, <1>2, <1>3, <1>6, <1>7

\* The inductive invariant behind ProposalsExplainBalances.
ExplainInv ==
    /\ MatchInv
    /\ ProposalsExplainBalances

PaysAt(s, p) == [k \in DOMAIN s |-> IF s[k].from = p THEN s[k].amount ELSE 0]
GetsAt(s, p) == [k \in DOMAIN s |-> IF s[k].to = p THEN s[k].amount ELSE 0]

\* A payment more pays its amount for who makes it, and gets it for who receives it.
LEMMA PaymentAdded ==
  ASSUME NEW s \in Seq(Payment), NEW e \in Payment, NEW p
  PROVE  /\ SumFunction(PaysAt(Append(s, e), p)) =
              (IF e.from = p THEN e.amount ELSE 0) + SumFunction(PaysAt(s, p))
         /\ SumFunction(GetsAt(Append(s, e), p)) =
              (IF e.to = p THEN e.amount ELSE 0) + SumFunction(GetsAt(s, p))
         /\ SumFunction(PaysAt(s, p)) \in Int /\ SumFunction(GetsAt(s, p)) \in Int
  <1> DEFINE N == Len(s)
             t == Append(s, e)
  <1>1. /\ N \in Nat /\ DOMAIN s = 1..N /\ DOMAIN t = 1..(N + 1) /\ t[N + 1] = e
        /\ \A k \in 1..N : s[k] \in Payment /\ t[k] = s[k]
    OBVIOUS
  <1>2. \A k \in 1..(N + 1) : t[k] \in Payment
    BY <1>1
  <1>3. \A z \in Payment : z.amount \in Int
    BY DEF Payment
  <1>4. /\ IntValued(PaysAt(s, p), 1..N) /\ IntValued(PaysAt(t, p), 1..(N + 1))
        /\ SameOn(PaysAt(s, p), PaysAt(t, p), 1..N)
        /\ PaysAt(t, p)[N + 1] = IF e.from = p THEN e.amount ELSE 0
    <2> HIDE DEF t, N
    <2> QED
      BY <1>1, <1>2, <1>3 DEF PaysAt, IntValued, SameOn
  <1>5. /\ IntValued(GetsAt(s, p), 1..N) /\ IntValued(GetsAt(t, p), 1..(N + 1))
        /\ SameOn(GetsAt(s, p), GetsAt(t, p), 1..N)
        /\ GetsAt(t, p)[N + 1] = IF e.to = p THEN e.amount ELSE 0
    <2> HIDE DEF t, N
    <2> QED
      BY <1>1, <1>2, <1>3 DEF GetsAt, IntValued, SameOn
  <1>6. /\ SumFunction(PaysAt(t, p)) = SumFunctionOnSet(PaysAt(t, p), 1..(N + 1))
        /\ SumFunction(GetsAt(t, p)) = SumFunctionOnSet(GetsAt(t, p), 1..(N + 1))
        /\ SumFunction(PaysAt(s, p)) = SumFunctionOnSet(PaysAt(s, p), 1..N)
        /\ SumFunction(GetsAt(s, p)) = SumFunctionOnSet(GetsAt(s, p), 1..N)
    <2> HIDE DEF t, N
    <2> QED
      BY <1>1 DEF SumFunction, PaysAt, GetsAt
  <1>7. N \in Nat
    BY <1>1
  <1> HIDE DEF t, N
  <1>8. /\ SumFunctionOnSet(PaysAt(t, p), 1..(N + 1)) = PaysAt(t, p)[N + 1] + SumFunctionOnSet(PaysAt(s, p), 1..N)
        /\ SumFunctionOnSet(PaysAt(s, p), 1..N) \in Int /\ PaysAt(t, p)[N + 1] \in Int
    BY <1>4, <1>7, SumUpTo
  <1>9. /\ SumFunctionOnSet(GetsAt(t, p), 1..(N + 1)) = GetsAt(t, p)[N + 1] + SumFunctionOnSet(GetsAt(s, p), 1..N)
        /\ SumFunctionOnSet(GetsAt(s, p), 1..N) \in Int /\ GetsAt(t, p)[N + 1] \in Int
    BY <1>5, <1>7, SumUpTo
  <1> QED
    BY <1>4, <1>5, <1>6, <1>8, <1>9 DEF t

LEMMA ExplainMatch ==
  ASSUME MatchInv, Match, ProposalsExplainBalances
  PROVE  ProposalsExplainBalances'
  <1> DEFINE d == debtors[i]
             c == creditors[j]
             x == Settled
             e == [from |-> d, to |-> c, amount |-> x, cut |-> FALSE]
             s == settlements
  <1>1. /\ d \in People /\ c \in People /\ d # c /\ x \in Int
        /\ settlements' = Append(s, e)
        /\ balance' = [balance EXCEPT ![d] = @ + x, ![c] = @ - x]
    BY MatchTurn
  <1>2. /\ pc = "match" /\ initial' = initial /\ s \in Seq(Payment)
        /\ initial \in [People -> Int] /\ balance \in [People -> Int]
        /\ \A p \in People : balance[p] = initial[p] + Pays(p) - Gets(p)
    BY DEF Match, input, MatchInv, Numbers, ProposalsExplainBalances
  <1>3. e \in Payment /\ e.from = d /\ e.to = c /\ e.amount = x
    BY <1>1 DEF Payment
  <1> HIDE DEF d, c, x, e, s
  <1>4. SUFFICES ASSUME NEW p \in People
                 PROVE  balance'[p] = initial[p] + Pays(p)' - Gets(p)'
    BY <1>2 DEF ProposalsExplainBalances
  <1>5. /\ Pays(p) = SumFunction(PaysAt(s, p)) /\ Gets(p) = SumFunction(GetsAt(s, p))
        /\ Pays(p)' = SumFunction(PaysAt(settlements', p)) /\ Gets(p)' = SumFunction(GetsAt(settlements', p))
    BY DEF Pays, Gets, PaysAt, GetsAt, s
  <1>6. /\ Pays(p)' = (IF d = p THEN x ELSE 0) + Pays(p) /\ Pays(p) \in Int
        /\ Gets(p)' = (IF c = p THEN x ELSE 0) + Gets(p) /\ Gets(p) \in Int
    <2>1. s \in Seq(Payment) /\ e \in Payment
      BY <1>2, <1>3
    <2>2. /\ SumFunction(PaysAt(Append(s, e), p)) =
                (IF e.from = p THEN e.amount ELSE 0) + SumFunction(PaysAt(s, p))
          /\ SumFunction(GetsAt(Append(s, e), p)) =
                (IF e.to = p THEN e.amount ELSE 0) + SumFunction(GetsAt(s, p))
          /\ SumFunction(PaysAt(s, p)) \in Int /\ SumFunction(GetsAt(s, p)) \in Int
      BY <2>1, PaymentAdded
    <2>3. e.from = d /\ e.to = c /\ e.amount = x /\ settlements' = Append(s, e)
      BY <1>1, <1>3
    <2> QED
      BY <1>5, <2>2, <2>3
  <1>7. balance'[p] = balance[p] + (IF d = p THEN x ELSE 0) - (IF c = p THEN x ELSE 0)
    <2>1. balance[p] \in Int /\ balance[d] \in Int /\ balance[c] \in Int
      BY <1>1, <1>2
    <2>2. \A y, z \in Int : y + z \in Int /\ y - z \in Int
      OBVIOUS
    <2>3. /\ balance'[d] = balance[d] + x /\ balance'[c] = balance[c] - x
          /\ p \notin {d, c} => balance'[p] = balance[p]
      BY <1>1, <1>2, <2>1, <2>2
    <2>4. CASE p = d
      BY <1>1, <2>1, <2>3, <2>4
    <2>5. CASE p = c
      BY <1>1, <2>1, <2>3, <2>5
    <2>6. CASE p \notin {d, c}
      BY <1>1, <2>1, <2>3, <2>6
    <2> QED
      BY <2>4, <2>5, <2>6
  <1>8. balance[p] = initial[p] + Pays(p) - Gets(p) /\ balance[p] \in Int /\ initial[p] \in Int
    BY <1>2
  <1> QED
    BY <1>1, <1>6, <1>7, <1>8

LEMMA NextExplain == ExplainInv /\ [SimplifyNext]_simplifyVars => ExplainInv'
  <1> SUFFICES ASSUME ExplainInv, [SimplifyNext]_simplifyVars PROVE ExplainInv'
    OBVIOUS
  <1>0. MatchInv /\ MatchInv' /\ ProposalsExplainBalances
    BY NextMatch DEF ExplainInv
  <1>1. CASE Sort
    BY <1>0, <1>1 DEF Sort, input, ExplainInv, ProposalsExplainBalances, Pays, Gets
  <1>2. CASE Match
    BY <1>0, <1>2, ExplainMatch DEF ExplainInv
  <1>3. CASE Matched \/ HidePending \/ Return
    BY <1>0, <1>3 DEF Matched, HidePending, Return, ExplainInv, ProposalsExplainBalances
  <1>4. CASE UNCHANGED simplifyVars
    BY <1>0, <1>4 DEF simplifyVars, input, ExplainInv, ProposalsExplainBalances, Pays, Gets
  <1> QED
    BY <1>1, <1>2, <1>3, <1>4 DEF SimplifyNext

LEMMA InitExplain == SimplifyInit => ExplainInv
  <1> SUFFICES ASSUME SimplifyInit PROVE ExplainInv
    OBVIOUS
  <1>1. MatchInv
    BY InitMatch
  <1>2. settlements = <<>> /\ balance = initial /\ initial \in [People -> Int]
    BY SimplifierAssumption DEF SimplifyInit
  <1>3. ASSUME NEW p \in People PROVE Pays(p) = 0 /\ Gets(p) = 0
    <2>1. /\ DOMAIN PaysAt(settlements, p) = {} /\ DOMAIN GetsAt(settlements, p) = {}
          /\ Pays(p) = SumFunction(PaysAt(settlements, p)) /\ Gets(p) = SumFunction(GetsAt(settlements, p))
      BY <1>2 DEF PaysAt, GetsAt, Pays, Gets
    <2> QED
      BY <2>1, SumIsOnDomain, SumEmpty
  <1>4. ProposalsExplainBalances
    BY <1>2, <1>3 DEF ProposalsExplainBalances
  <1> QED
    BY <1>1, <1>4 DEF ExplainInv

\* In every group and with any balances, paying the proposals leaves each member
\* with what the matching left.
THEOREM ProposalsAreExact == SimplifySpec => []ProposalsExplainBalances
  <1>1. ExplainInv => ProposalsExplainBalances
    BY DEF ExplainInv
  <1> QED
    BY <1>1, InitExplain, NextExplain, PTL DEF SimplifySpec

\* The inductive invariant behind LeftoverBounded: the matching moves money and
\* makes none, and whoever owes or is owed more than a cent takes part in it.
LeftoverInv ==
    /\ MatchInv
    /\ SumFunctionOnSet(balance, People) = SumFunctionOnSet(initial, People)
    /\ pc # "sort" =>
         \A p \in People : /\ initial[p] < -1 => \E k \in DOMAIN debtors : debtors[k] = p
                           /\ initial[p] > 1 => \E k \in DOMAIN creditors : creditors[k] = p

LEMMA MatchKeepsSum ==
  ASSUME MatchInv, Match
  PROVE  SumFunctionOnSet(balance', People) = SumFunctionOnSet(balance, People)
  <1> DEFINE d == debtors[i]
             c == creditors[j]
             x == Settled
             paid == [balance EXCEPT ![d] = @ + x]
             new == balance'
  <1>1. /\ d \in People /\ c \in People /\ d # c /\ x \in Int
        /\ balance' = [balance EXCEPT ![d] = @ + x, ![c] = @ - x]
    BY MatchTurn
  <1>2. balance \in [People -> Int] /\ IsFiniteSet(People)
    BY SimplifierAssumption DEF MatchInv, Numbers
  <1> HIDE DEF d, c, x
  <1>3. /\ balance[d] \in Int /\ balance[c] \in Int
        /\ balance[d] + x \in Int /\ balance[c] - x \in Int
    BY <1>1, <1>2
  <1>4. /\ paid \in [People -> Int] /\ paid[c] = balance[c] /\ paid[d] = balance[d] + x
        /\ SameBut(balance, paid, d, People)
    BY <1>1, <1>2, <1>3 DEF SameBut
  <1>5. /\ new \in [People -> Int] /\ new[c] = paid[c] - x
        /\ SameBut(paid, new, c, People)
    BY <1>1, <1>2, <1>3 DEF SameBut
  <1>6. IntValued(balance, People) /\ IntValued(paid, People) /\ IntValued(new, People)
    <2> HIDE DEF paid, new
    <2> QED
      BY <1>2, <1>4, <1>5 DEF IntValued
  <1> HIDE DEF paid, new
  <1>7. SumFunctionOnSet(paid, People) = SumFunctionOnSet(balance, People) + paid[d] - balance[d]
    BY <1>1, <1>2, <1>4, <1>6, SumChange
  <1>8. SumFunctionOnSet(new, People) = SumFunctionOnSet(paid, People) + new[c] - paid[c]
    BY <1>1, <1>2, <1>5, <1>6, SumChange
  <1>9. SumFunctionOnSet(balance, People) \in Int
    BY <1>2, <1>6, SumInt
  <1>10. SumFunctionOnSet(new, People) = SumFunctionOnSet(balance, People)
    BY <1>1, <1>3, <1>4, <1>5, <1>7, <1>8, <1>9
  <1> QED
    BY <1>10 DEF new

LEMMA SortTakesAll ==
  ASSUME MatchInv, Sort
  PROVE  \A p \in People : /\ initial[p] < -1 => \E k \in DOMAIN debtors' : debtors'[k] = p
                           /\ initial[p] > 1 => \E k \in DOMAIN creditors' : creditors'[k] = p
  <1>1. balance = initial
    BY DEF MatchInv, Sort
  <1>2. debtors' \in Orderings(Debtors) /\ creditors' \in Orderings(Creditors)
    BY DEF Sort
  <1>3. /\ \A p \in Debtors : \E k \in DOMAIN debtors' : debtors'[k] = p
        /\ \A p \in Creditors : \E k \in DOMAIN creditors' : creditors'[k] = p
    BY <1>2 DEF Orderings
  <1> QED
    BY <1>1, <1>3 DEF Debtors, Creditors

LEMMA NextLeftover == LeftoverInv /\ [SimplifyNext]_simplifyVars => LeftoverInv'
  <1> SUFFICES ASSUME LeftoverInv, [SimplifyNext]_simplifyVars PROVE LeftoverInv'
    OBVIOUS
  <1>0. MatchInv /\ MatchInv'
    BY NextMatch DEF LeftoverInv
  <1>1. CASE Sort
    <2>1. UNCHANGED <<initial, balance>>
      BY <1>1 DEF Sort, input
    <2> QED
      BY <1>0, <1>1, <2>1, SortTakesAll DEF LeftoverInv
  <1>2. CASE Match
    <2>1. UNCHANGED <<initial, debtors, creditors>> /\ pc # "sort"
      BY <1>2 DEF Match, input, sorted
    <2> QED
      BY <1>0, <1>2, <2>1, MatchKeepsSum DEF LeftoverInv
  <1>3. CASE Matched \/ HidePending \/ Return
    <2>1. UNCHANGED <<initial, balance, debtors, creditors>> /\ pc # "sort"
      BY <1>3 DEF Matched, HidePending, Return, input, sorted
    <2> QED
      BY <1>0, <2>1 DEF LeftoverInv
  <1>4. CASE UNCHANGED simplifyVars
    BY <1>0, <1>4 DEF simplifyVars, input, sorted, LeftoverInv
  <1> QED
    BY <1>1, <1>2, <1>3, <1>4 DEF SimplifyNext

\* When balances b sum to zero and nobody owes more than a cent, or nobody is owed
\* more, then not all owe one, as they would not sum to zero: what is due is less
\* than a cent for each, and what is owed is as much.
LEMMA DebtsSmall ==
  ASSUME NEW owed, NEW due, NEW b, IntValued(owed, People), IntValued(due, People),
         IntValued(b, People), SumFunctionOnSet(b, People) = 0,
         \A p \in People : /\ b[p] \in Int
                           /\ owed[p] = (IF b[p] > 0 THEN b[p] ELSE 0)
                           /\ due[p] = (IF b[p] < 0 THEN -b[p] ELSE 0),
         (\A p \in People : b[p] >= -1) \/ (\A p \in People : b[p] <= 1)
  PROVE  /\ SumFunctionOnSet(due, People) < Cardinality(People)
         /\ SumFunctionOnSet(owed, People) < Cardinality(People)
  <1>0. IsFiniteSet(People) /\ People # {} /\ Cardinality(People) \in Nat \ {0}
    BY SimplifierAssumption, FS_CardinalityType, FS_EmptySet
  <1>1. SumFunctionOnSet(b, People) = SumFunctionOnSet(owed, People) - SumFunctionOnSet(due, People)
    <2>1. \A p \in People : b[p] = owed[p] - due[p]
      OBVIOUS
    <2> QED
      BY <1>0, <2>1, SumMinus
  <1>2. SumFunctionOnSet(owed, People) \in Int /\ SumFunctionOnSet(due, People) \in Int
    BY <1>0, SumInt
  <1>3. SumFunctionOnSet(owed, People) = SumFunctionOnSet(due, People)
    BY <1>1, <1>2
  <1>4. ASSUME NEW f, IntValued(f, People), \A p \in People : f[p] <= 1,
               NEW q \in People, f[q] <= 0
        PROVE  SumFunctionOnSet(f, People) < Cardinality(People)
    <2> DEFINE R == People \ {q}
               one == [p \in R |-> 1]
    <2>1. /\ IsFiniteSet(R) /\ Cardinality(R) = Cardinality(People) - 1
          /\ IntValued(f, R) /\ IntValued(one, R) /\ Below(f, one, R) /\ Constant(one, 1, R)
          /\ f[q] \in Int
      BY <1>0, <1>4, FS_RemoveElement DEF IntValued, Below, Constant
    <2>2. SumFunctionOnSet(f, People) = f[q] + SumFunctionOnSet(f, R)
      BY <1>0, <1>4, SumRemove
    <2> HIDE DEF R, one
    <2>3. SumFunctionOnSet(f, R) <= SumFunctionOnSet(one, R)
      BY <2>1, SumMonotone
    <2>4. SumFunctionOnSet(one, R) = 1 * Cardinality(R)
      BY <2>1, SumConstant
    <2>5. SumFunctionOnSet(f, R) \in Int
      BY <2>1, SumInt
    <2> QED
      BY <1>0, <1>4, <2>1, <2>2, <2>3, <2>4, <2>5
  <1>5. ASSUME NEW v \in Int, v # 0 PROVE ~Constant(b, v, People)
    <2>1. SUFFICES ASSUME Constant(b, v, People) PROVE FALSE
      OBVIOUS
    <2>2. SumFunctionOnSet(b, People) = v * Cardinality(People)
      BY <1>0, <2>1, SumConstant
    <2> QED
      BY <1>0, <1>5, <2>2
  <1>6. CASE \A p \in People : b[p] >= -1
    <2>1. PICK q \in People : b[q] # -1
      BY <1>5 DEF Constant
    <2>2. (\A p \in People : due[p] <= 1) /\ due[q] <= 0
      BY <1>6, <2>1
    <2> QED
      BY <1>3, <1>4, <2>2
  <1>7. CASE \A p \in People : b[p] <= 1
    <2>1. PICK q \in People : b[q] # 1
      BY <1>5 DEF Constant
    <2>2. (\A p \in People : owed[p] <= 1) /\ owed[q] <= 0
      BY <1>7, <2>1
    <2> QED
      BY <1>3, <1>4, <2>2
  <1> QED
    BY <1>6, <1>7

LEMMA LeftoverSmall == LeftoverInv => LeftoverBounded
  <1> SUFFICES ASSUME LeftoverInv, pc \in {"hide", "done"}, SumFunction(initial) = 0
               PROVE  /\ SumFunction(DebtLeft) < Cardinality(People)
                      /\ SumFunction(CreditLeft) < Cardinality(People)
    BY DEF LeftoverBounded
  <1>1. /\ initial \in [People -> Int] /\ balance \in [People -> Int]
        /\ NobodyOverpays /\ OneSideSettled
        /\ SumFunctionOnSet(balance, People) = SumFunctionOnSet(initial, People)
        /\ \A p \in People : /\ initial[p] < -1 => \E k \in DOMAIN debtors : debtors[k] = p
                             /\ initial[p] > 1 => \E k \in DOMAIN creditors : creditors[k] = p
    BY DEF LeftoverInv, MatchInv, Numbers
  <1>2. SumFunctionOnSet(balance, People) = 0
    BY <1>1 DEF SumFunction
  <1>3. (\A p \in People : balance[p] >= -1) \/ (\A p \in People : balance[p] <= 1)
    <2>1. \A p \in People : /\ initial[p] \in Int /\ balance[p] \in Int
                            /\ \/ initial[p] <= balance[p] /\ balance[p] <= 0
                               \/ 0 <= balance[p] /\ balance[p] <= initial[p]
      BY <1>1 DEF NobodyOverpays
    <2>2. CASE \A k \in DOMAIN debtors : balance[debtors[k]] \in {-1, 0}
      <3>1. \A p \in People : initial[p] < -1 => balance[p] >= -1
        BY <1>1, <2>2
      <3> QED
        BY <2>1, <3>1
    <2>3. CASE \A k \in DOMAIN creditors : balance[creditors[k]] \in {0, 1}
      <3>1. \A p \in People : initial[p] > 1 => balance[p] <= 1
        BY <1>1, <2>3
      <3> QED
        BY <2>1, <3>1
    <2> QED
      BY <1>1, <2>2, <2>3 DEF OneSideSettled
  <1>4. /\ IntValued(balance, People) /\ IntValued(DebtLeft, People) /\ IntValued(CreditLeft, People)
        /\ \A p \in People : /\ balance[p] \in Int
                             /\ CreditLeft[p] = (IF balance[p] > 0 THEN balance[p] ELSE 0)
                             /\ DebtLeft[p] = (IF balance[p] < 0 THEN -balance[p] ELSE 0)
    BY <1>1 DEF IntValued, DebtLeft, CreditLeft
  <1>5. /\ SumFunction(DebtLeft) = SumFunctionOnSet(DebtLeft, People)
        /\ SumFunction(CreditLeft) = SumFunctionOnSet(CreditLeft, People)
    BY DEF SumFunction, DebtLeft, CreditLeft
  <1> QED
    BY <1>2, <1>3, <1>4, <1>5, DebtsSmall

LEMMA InitLeftover == SimplifyInit => LeftoverInv
  BY InitMatch DEF SimplifyInit, LeftoverInv

\* When the balances of a group sum to zero, less than a cent per member is left to
\* pay once the proposals are paid, in every group and with any balances.
THEOREM SettlingLeavesCents == SimplifySpec => []LeftoverBounded
  BY InitLeftover, NextLeftover, LeftoverSmall, PTL DEF SimplifySpec

\* No two payments of a list are between the same two members in one direction.
OncePerPair(s) ==
    \A k, l \in DOMAIN s : s[k].from = s[l].from /\ s[k].to = s[l].to => k = l

\* A list of payments whose amounts are not negative.
Payments == {s \in Seq(Payment) : \A k \in DOMAIN s : s[k].amount >= 0}

\* What is proposed is between a debtor and a creditor of whom one is passed.
PairsPassed ==
    \A k \in DOMAIN settlements : \E a \in DOMAIN debtors, b \in DOMAIN creditors :
       /\ settlements[k].from = debtors[a] /\ settlements[k].to = creditors[b]
       /\ a <= i /\ b <= j /\ (a < i \/ b < j)

Less(x, y) == IF y < x THEN x - y ELSE 0

\* What is shown between two members is what was proposed less what was subtracted.
Subtracted(f, t) ==
    AmountIn(settlements, f, t) =
      Less(AmountIn(proposed, f, t), SumFunctionOnSet(Between(pending, f, t), 1..(n - 1)))

\* The inductive invariant behind PendingSubtracted.
PendingInv ==
    /\ MatchInv
    /\ settlements \in Payments /\ OncePerPair(settlements)
    /\ pending \in Seq([from : People, to : People, amount : Nat \ {0}])
    /\ pc \in {"sort", "match"} => n = 1 /\ PairsPassed
    /\ pc \in {"hide", "done"} =>
         /\ n \in 1..(Len(pending) + 1) /\ proposed \in Payments
         /\ \A f, t \in People : Subtracted(f, t)
    /\ pc = "done" => n = Len(pending) + 1

LEMMA BetweenIs ==
  ASSUME NEW s \in Payments, NEW f, NEW t
  PROVE  /\ IntValued(Between(s, f, t), DOMAIN s) /\ IsFiniteSet(DOMAIN s)
         /\ AmountIn(s, f, t) = SumFunctionOnSet(Between(s, f, t), DOMAIN s)
         /\ AmountIn(s, f, t) \in Nat
  <1> DEFINE D == DOMAIN s
             g == Between(s, f, t)
             zero == [k \in D |-> 0]
  <1>1. IsFiniteSet(D)
    <2>1. D = 1..Len(s) /\ Len(s) \in Nat
      BY DEF Payments
    <2> QED
      BY <2>1, FS_Interval
  <1>2. \A k \in D : s[k].amount \in Int /\ s[k].amount >= 0
    <2>1. \A k \in D : s[k] \in Payment /\ s[k].amount >= 0
      BY DEF Payments
    <2>2. \A z \in Payment : z.amount \in Int
      BY DEF Payment
    <2> QED
      BY <2>1, <2>2
  <1>3. IntValued(g, D) /\ IntValued(zero, D) /\ Below(zero, g, D) /\ Constant(zero, 0, D)
    BY <1>2 DEF IntValued, Below, Constant, Between
  <1>4. AmountIn(s, f, t) = SumFunctionOnSet(g, D)
    BY DEF AmountIn, SumFunction, Between
  <1> HIDE DEF D, g, zero
  <1>5. SumFunctionOnSet(g, D) \in Int /\ SumFunctionOnSet(zero, D) = 0
    BY <1>1, <1>3, SumInt, SumZero
  <1>6. SumFunctionOnSet(zero, D) <= SumFunctionOnSet(g, D)
    BY <1>1, <1>3, SumMonotone
  <1> QED
    BY <1>1, <1>3, <1>4, <1>5, <1>6 DEF D, g

\* One payment between two members is all there is between them.
LEMMA AmountOfPair ==
  ASSUME NEW s \in Payments, OncePerPair(s), NEW k \in DOMAIN s
  PROVE  AmountIn(s, s[k].from, s[k].to) = s[k].amount /\ s[k].amount \in Nat
  <1> DEFINE D == DOMAIN s
             g == Between(s, s[k].from, s[k].to)
  <1>1. IsFiniteSet(D) /\ AmountIn(s, s[k].from, s[k].to) = SumFunctionOnSet(g, D)
    BY BetweenIs
  <1>2. g[k] = s[k].amount /\ Constant(g, 0, D \ {k})
    BY DEF Between, Constant, OncePerPair
  <1>3. s[k].amount \in Nat /\ s[k].amount \in Int
    <2>1. s[k] \in Payment /\ s[k].amount >= 0
      BY DEF Payments
    <2>2. \A z \in Payment : z.amount \in Int
      BY DEF Payment
    <2> QED
      BY <2>1, <2>2
  <1> HIDE DEF D, g
  <1>4. SumFunctionOnSet(g, D) = g[k]
    <2>1. k \in D
      BY DEF D
    <2> QED
      BY <1>1, <1>2, <1>3, <2>1, SumSingle
  <1> QED
    BY <1>1, <1>2, <1>3, <1>4

LEMMA AmountOfNone ==
  ASSUME NEW s \in Payments, NEW f, NEW t, \A k \in DOMAIN s : ~(s[k].from = f /\ s[k].to = t)
  PROVE  AmountIn(s, f, t) = 0
  <1> DEFINE D == DOMAIN s
             g == Between(s, f, t)
  <1>1. IsFiniteSet(D) /\ AmountIn(s, f, t) = SumFunctionOnSet(g, D)
    BY BetweenIs
  <1>2. Constant(g, 0, D)
    BY DEF Between, Constant
  <1> HIDE DEF D, g
  <1> QED
    BY <1>1, <1>2, SumZero

\* Drop(k) is the list without its k-th payment.
LEMMA DropIs ==
  ASSUME settlements \in Payments, OncePerPair(settlements), NEW k \in DOMAIN settlements
  PROVE  /\ Drop(k) \in Payments /\ OncePerPair(Drop(k))
         /\ \A l \in DOMAIN Drop(k) : \E m \in DOMAIN settlements \ {k} : Drop(k)[l] = settlements[m]
         /\ \A m \in DOMAIN settlements \ {k} : \E l \in DOMAIN Drop(k) : Drop(k)[l] = settlements[m]
  <1> DEFINE s == settlements
             N == Len(s)
             front == SubSeq(s, 1, k - 1)
             back == SubSeq(s, k + 1, N)
             rest == front \o back
             at(l) == IF l < k THEN l ELSE l + 1
  <1>1. /\ s \in Seq(Payment) /\ N \in Nat /\ DOMAIN s = 1..N /\ k \in 1..N /\ k \in Int
        /\ \A l \in 1..N : s[l] \in Payment /\ s[l].amount >= 0
    BY DEF Payments
  <1>2. /\ front \in Seq(Payment) /\ Len(front) = k - 1
        /\ \A l \in 1..(k - 1) : front[l] = s[l]
    <2>1. \A l \in 1..(k - 1) : s[l] \in Payment
      BY <1>1
    <2> HIDE DEF s, N
    <2> QED
      BY <1>1, <2>1, SubSeqProperties
  <1>3. /\ back \in Seq(Payment) /\ Len(back) = N - k
        /\ \A l \in 1..(N - k) : back[l] = s[k + l]
    <2>1. \A l \in (k + 1)..N : s[l] \in Payment
      BY <1>1
    <2> HIDE DEF s, N
    <2> QED
      BY <1>1, <2>1, SubSeqProperties
  <1> HIDE DEF front, back, N, s
  <1>4. /\ rest \in Seq(Payment) /\ Len(rest) = N - 1 /\ DOMAIN rest = 1..(N - 1)
        /\ \A l \in 1..(N - 1) : rest[l] = IF l <= k - 1 THEN front[l] ELSE back[l - (k - 1)]
    <2>1. Len(front) + Len(back) = N - 1
      BY <1>1, <1>2, <1>3
    <2>2. /\ rest \in Seq(Payment) /\ Len(rest) = Len(front) + Len(back)
          /\ \A l \in 1..(Len(front) + Len(back)) :
               rest[l] = IF l <= Len(front) THEN front[l] ELSE back[l - Len(front)]
      BY <1>2, <1>3, ConcatProperties
    <2>3. DOMAIN rest = 1..Len(rest)
      BY <2>2
    <2> HIDE DEF rest
    <2> QED
      BY <1>2, <2>1, <2>2, <2>3
  <1> HIDE DEF rest
  <1>5. \A l \in 1..(N - 1) : l < k => rest[l] = s[l] /\ l \in 1..N
    <2> TAKE l \in 1..(N - 1)
    <2> HAVE l < k
    <2>1. l <= k - 1 /\ l \in 1..(k - 1) /\ l \in 1..N
      BY <1>1
    <2> QED
      BY <1>2, <1>4, <2>1
  <1>6. \A l \in 1..(N - 1) : l >= k => rest[l] = s[l + 1] /\ l + 1 \in 1..N
    <2> TAKE l \in 1..(N - 1)
    <2> HAVE l >= k
    <2>1. ~(l <= k - 1) /\ l - (k - 1) \in 1..(N - k) /\ k + (l - (k - 1)) = l + 1 /\ l + 1 \in 1..N
      BY <1>1
    <2>2. rest[l] = back[l - (k - 1)]
      BY <1>4, <2>1
    <2> QED
      BY <1>3, <2>1, <2>2
  <1>7. \A l \in 1..(N - 1) :
          rest[l] = s[at(l)] /\ at(l) \in (1..N) \ {k} /\ (l < k => at(l) = l) /\ (l >= k => at(l) = l + 1)
    <2> TAKE l \in 1..(N - 1)
    <2>1. CASE l < k
      BY <1>1, <1>5, <2>1
    <2>2. CASE l >= k
      BY <1>1, <1>6, <2>2
    <2> QED
      BY <1>1, <2>1, <2>2
  <1> HIDE DEF at
  <1>8. \A l, m \in 1..(N - 1) : at(l) = at(m) => l = m
    BY <1>1, <1>7
  <1>9. \A m \in (1..N) \ {k} : \E l \in 1..(N - 1) : at(l) = m
    <2> TAKE m \in (1..N) \ {k}
    <2>1. CASE m < k
      <3>1. m \in 1..(N - 1) /\ at(m) = m
        BY <1>1, <1>7, <2>1
      <3> QED
        BY <3>1
    <2>2. CASE m > k
      <3>1. m - 1 \in 1..(N - 1) /\ at(m - 1) = m
        BY <1>1, <1>7, <2>2
      <3> QED
        BY <3>1
    <2> QED
      BY <1>1, <2>1, <2>2
  <1>10. rest \in Payments
    BY <1>1, <1>4, <1>7 DEF Payments
  <1>11. OncePerPair(rest)
    <2>1. ASSUME NEW l \in 1..(N - 1), NEW m \in 1..(N - 1), rest[l].from = rest[m].from, rest[l].to = rest[m].to
          PROVE  l = m
      <3>1. /\ at(l) \in DOMAIN s /\ at(m) \in DOMAIN s
            /\ s[at(l)].from = s[at(m)].from /\ s[at(l)].to = s[at(m)].to
        BY <1>1, <1>7, <2>1
      <3>2. at(l) = at(m)
        BY <3>1 DEF OncePerPair, s
      <3> QED
        BY <1>8, <3>2
    <2> QED
      BY <1>4, <2>1 DEF OncePerPair
  <1>12. Drop(k) = rest
    BY DEF Drop, rest, front, back, N, s
  <1>13. \A l \in DOMAIN rest : \E m \in DOMAIN s \ {k} : rest[l] = s[m]
    BY <1>1, <1>4, <1>7
  <1>14. \A m \in DOMAIN s \ {k} : \E l \in DOMAIN rest : rest[l] = s[m]
    <2> TAKE m \in DOMAIN s \ {k}
    <2>1. PICK l \in 1..(N - 1) : at(l) = m
      BY <1>1, <1>9
    <2> QED
      BY <1>4, <1>7, <2>1
  <1> QED
    BY <1>10, <1>11, <1>12, <1>13, <1>14 DEF s

\* Two lists that have the same payment from f to t, or none.
LEMMA SamePayment ==
  ASSUME NEW s \in Payments, NEW r \in Payments, OncePerPair(s), OncePerPair(r), NEW f, NEW t,
         \A m \in DOMAIN s : s[m].from = f /\ s[m].to = t =>
            \E l \in DOMAIN r : r[l].from = f /\ r[l].to = t /\ r[l].amount = s[m].amount,
         \A l \in DOMAIN r : r[l].from = f /\ r[l].to = t =>
            \E m \in DOMAIN s : s[m].from = f /\ s[m].to = t
  PROVE  AmountIn(r, f, t) = AmountIn(s, f, t)
  <1>1. CASE \E m \in DOMAIN s : s[m].from = f /\ s[m].to = t
    <2>1. PICK m \in DOMAIN s : s[m].from = f /\ s[m].to = t
      BY <1>1
    <2>2. PICK l \in DOMAIN r : r[l].from = f /\ r[l].to = t /\ r[l].amount = s[m].amount
      BY <2>1
    <2>3. AmountIn(s, f, t) = s[m].amount
      BY <2>1, AmountOfPair
    <2>4. AmountIn(r, f, t) = r[l].amount
      BY <2>2, AmountOfPair
    <2> QED
      BY <2>2, <2>3, <2>4
  <1>2. CASE \A m \in DOMAIN s : ~(s[m].from = f /\ s[m].to = t)
    <2>1. \A l \in DOMAIN r : ~(r[l].from = f /\ r[l].to = t)
      BY <1>2
    <2> QED
      BY <1>2, <2>1, AmountOfNone
  <1> QED
    BY <1>1, <1>2

LEMMA DropAmounts ==
  ASSUME settlements \in Payments, OncePerPair(settlements), NEW k \in DOMAIN settlements,
         NEW f, NEW t
  PROVE  AmountIn(Drop(k), f, t) =
           IF settlements[k].from = f /\ settlements[k].to = t
           THEN 0 ELSE AmountIn(settlements, f, t)
  <1> DEFINE r == Drop(k)
  <1>1. /\ r \in Payments /\ OncePerPair(r)
        /\ \A l \in DOMAIN r : \E m \in DOMAIN settlements \ {k} : r[l] = settlements[m]
        /\ \A m \in DOMAIN settlements \ {k} : \E l \in DOMAIN r : r[l] = settlements[m]
    BY DropIs
  <1> HIDE DEF r
  <1>2. CASE settlements[k].from = f /\ settlements[k].to = t
    <2>1. \A m \in DOMAIN settlements \ {k} : ~(settlements[m].from = f /\ settlements[m].to = t)
      BY <1>2 DEF OncePerPair
    <2>2. \A l \in DOMAIN r : ~(r[l].from = f /\ r[l].to = t)
      BY <1>1, <2>1
    <2>3. AmountIn(r, f, t) = 0
      BY <1>1, <2>2, AmountOfNone
    <2> QED
      BY <1>2, <2>3 DEF r
  <1>3. CASE ~(settlements[k].from = f /\ settlements[k].to = t)
    <2>1. \A m \in DOMAIN settlements : settlements[m].from = f /\ settlements[m].to = t =>
            \E l \in DOMAIN r : r[l].from = f /\ r[l].to = t /\ r[l].amount = settlements[m].amount
      <3> SUFFICES ASSUME NEW m \in DOMAIN settlements, settlements[m].from = f, settlements[m].to = t
                   PROVE  \E l \in DOMAIN r : r[l].from = f /\ r[l].to = t /\ r[l].amount = settlements[m].amount
        OBVIOUS
      <3>1. m \in DOMAIN settlements \ {k}
        BY <1>3
      <3>2. PICK l \in DOMAIN r : r[l] = settlements[m]
        BY <1>1, <3>1
      <3> QED
        BY <3>2
    <2>2. \A l \in DOMAIN r : r[l].from = f /\ r[l].to = t =>
            \E m \in DOMAIN settlements : settlements[m].from = f /\ settlements[m].to = t
      <3> SUFFICES ASSUME NEW l \in DOMAIN r, r[l].from = f, r[l].to = t
                   PROVE  \E m \in DOMAIN settlements : settlements[m].from = f /\ settlements[m].to = t
        OBVIOUS
      <3>1. PICK m \in DOMAIN settlements \ {k} : r[l] = settlements[m]
        BY <1>1
      <3> QED
        BY <3>1
    <2>3. AmountIn(r, f, t) = AmountIn(settlements, f, t)
      BY <1>1, <2>1, <2>2, SamePayment
    <2> QED
      BY <1>3, <2>3 DEF r
  <1> QED
    BY <1>2, <1>3

\* Reduce(k) is the list with less in its k-th payment.
LEMMA ReduceAmounts ==
  ASSUME settlements \in Payments, OncePerPair(settlements), NEW k \in DOMAIN settlements,
         Left(k) \in Int, Left(k) >= 0
  PROVE  /\ Reduce(k) \in Payments /\ OncePerPair(Reduce(k))
         /\ \A f, t : AmountIn(Reduce(k), f, t) =
              IF settlements[k].from = f /\ settlements[k].to = t
              THEN Left(k) ELSE AmountIn(settlements, f, t)
  <1> DEFINE s == settlements
             r == Reduce(k)
  <1>1. s \in Seq(Payment) /\ \A m \in DOMAIN s : s[m] \in Payment /\ s[m].amount >= 0
    BY DEF Payments
  <1>2. /\ DOMAIN r = DOMAIN s /\ r[k].amount = Left(k)
        /\ \A m \in DOMAIN s : r[m].from = s[m].from /\ r[m].to = s[m].to
        /\ \A m \in DOMAIN s \ {k} : r[m] = s[m]
    BY DEF Reduce
  <1>3. r \in Payments
    <2>1. r[k] \in Payment
      <3>1. s[k].from \in People /\ s[k].to \in People
        BY <1>1 DEF Payment
      <3>2. r[k] = [from |-> s[k].from, to |-> s[k].to, amount |-> Left(k), cut |-> TRUE]
        BY DEF Reduce
      <3> HIDE DEF r, s
      <3> QED
        BY <3>1, <3>2 DEF Payment
    <2>2. \A m \in DOMAIN s : r[m] \in Payment
      BY <1>1, <1>2, <2>1
    <2>3. DOMAIN s = 1..Len(s) /\ Len(s) \in Nat
      BY <1>1
    <2>6. r = [m \in DOMAIN s |-> r[m]]
      BY DEF Reduce
    <2>4. \A m \in DOMAIN r : r[m].amount >= 0
      BY <1>1, <1>2
    <2> HIDE DEF r, s
    <2>5. r \in Seq(Payment)
      BY <2>2, <2>3, <2>6
    <2> QED
      BY <2>4, <2>5 DEF Payments
  <1> HIDE DEF r
  <1>4. OncePerPair(r)
    BY <1>2 DEF OncePerPair
  <1>5. ASSUME NEW f, NEW t
        PROVE  AmountIn(r, f, t) = IF s[k].from = f /\ s[k].to = t THEN Left(k) ELSE AmountIn(s, f, t)
    <2>1. CASE s[k].from = f /\ s[k].to = t
      <3>1. k \in DOMAIN r /\ r[k].from = f /\ r[k].to = t
        BY <1>2, <2>1
      <3>2. AmountIn(r, f, t) = r[k].amount
        BY <1>3, <1>4, <3>1, AmountOfPair
      <3> QED
        BY <1>2, <2>1, <3>2
    <2>2. CASE ~(s[k].from = f /\ s[k].to = t)
      <3>1. \A m \in DOMAIN s : s[m].from = f /\ s[m].to = t =>
              m \in DOMAIN r /\ r[m].from = f /\ r[m].to = t /\ r[m].amount = s[m].amount
        BY <1>2, <2>2
      <3>2. \A l \in DOMAIN r : r[l].from = f /\ r[l].to = t =>
              l \in DOMAIN s /\ s[l].from = f /\ s[l].to = t
        BY <1>2
      <3>3. AmountIn(r, f, t) = AmountIn(s, f, t)
        BY <1>3, <1>4, <3>1, <3>2, SamePayment
      <3> QED
        BY <2>2, <3>3
    <2> QED
      BY <2>1, <2>2
  <1> QED
    BY <1>3, <1>4, <1>5 DEF r

\* What one pending payment takes off what is shown.
LEMMA HideTakes ==
  ASSUME settlements \in Payments, OncePerPair(settlements), HidePending,
         pending[n].from \in People, pending[n].amount \in Int, pending[n].amount > 0
  PROVE  /\ settlements' \in Payments /\ OncePerPair(settlements')
         /\ \A f, t : AmountIn(settlements', f, t) =
              IF pending[n].from = f /\ pending[n].to = t
              THEN Less(AmountIn(settlements, f, t), pending[n].amount)
              ELSE AmountIn(settlements, f, t)
  <1> DEFINE x == pending[n].amount
             Hit(f, t) == pending[n].from = f /\ pending[n].to = t
  <1>0. x \in Int /\ x > 0
    OBVIOUS
  <1>1. CASE \E k \in DOMAIN settlements :
               /\ Matches(k)
               /\ \E drop \in NothingLeft(k) : settlements' = IF drop THEN Drop(k) ELSE Reduce(k)
    <2>0. PICK k \in DOMAIN settlements :
            /\ Matches(k)
            /\ \E drop \in NothingLeft(k) : settlements' = IF drop THEN Drop(k) ELSE Reduce(k)
      BY <1>1
    <2>1. PICK drop \in NothingLeft(k) :
             Matches(k) /\ settlements' = IF drop THEN Drop(k) ELSE Reduce(k)
      BY <2>0
    <2> DEFINE y == settlements[k].amount
    <2>2. /\ AmountIn(settlements, settlements[k].from, settlements[k].to) = y
          /\ y \in Nat
      BY AmountOfPair
    <2>3. /\ settlements[k].from = pending[n].from /\ settlements[k].to = pending[n].to
          /\ Left(k) = y - x
      BY <2>1 DEF Matches, Left
    <2> HIDE DEF x, y
    <2>4. \A f, t : Hit(f, t) => AmountIn(settlements, f, t) = y
      BY <2>2, <2>3
    <2>5. CASE drop
      <3>1. Left(k) <= 0 /\ settlements' = Drop(k)
        <4>1. drop = TRUE /\ drop \in NothingLeft(k)
          BY <2>5
        <4>2. CASE Left(k) = 0
          BY <2>1, <2>5, <4>2
        <4>3. CASE Left(k) # 0
          BY <2>1, <2>5, <4>1, <4>3 DEF NothingLeft
        <4> QED
          BY <4>2, <4>3
      <3>2. Less(y, x) = 0
        BY <1>0, <2>2, <2>3, <3>1 DEF Less
      <3>3. Drop(k) \in Payments /\ OncePerPair(Drop(k))
        BY DropIs
      <3>4. ASSUME NEW f, NEW t
            PROVE  AmountIn(Drop(k), f, t) = IF Hit(f, t) THEN Less(AmountIn(settlements, f, t), x)
                                             ELSE AmountIn(settlements, f, t)
        <4>1. AmountIn(Drop(k), f, t) = IF settlements[k].from = f /\ settlements[k].to = t
                                        THEN 0 ELSE AmountIn(settlements, f, t)
          BY DropAmounts
        <4> QED
          BY <2>3, <2>4, <3>2, <4>1
      <3> QED
        BY <3>1, <3>3, <3>4 DEF x
    <2>6. CASE ~drop
      <3>1. Left(k) >= 0 /\ Left(k) \in Int /\ settlements' = Reduce(k)
        <4>1. drop \in NothingLeft(k) /\ drop # TRUE
          BY <2>6
        <4>2. Left(k) \in Int
          BY <1>0, <2>2, <2>3
        <4>3. CASE Left(k) = 0
          BY <2>1, <2>6, <4>2, <4>3
        <4>4. CASE Left(k) # 0
          <5>1. NothingLeft(k) = {Left(k) <= 0}
            BY <4>4 DEF NothingLeft
          <5>2. ~(Left(k) <= 0)
            BY <2>6, <4>1, <5>1
          <5> QED
            BY <2>1, <2>6, <4>2, <5>2
        <4> QED
          BY <4>3, <4>4
      <3>2. Less(y, x) = Left(k)
        BY <1>0, <2>2, <2>3, <3>1 DEF Less
      <3>3. /\ Reduce(k) \in Payments /\ OncePerPair(Reduce(k))
            /\ \A f, t : AmountIn(Reduce(k), f, t) =
                 IF settlements[k].from = f /\ settlements[k].to = t
                 THEN Left(k) ELSE AmountIn(settlements, f, t)
        BY <3>1, ReduceAmounts
      <3>4. ASSUME NEW f, NEW t
            PROVE  AmountIn(Reduce(k), f, t) = IF Hit(f, t) THEN Less(AmountIn(settlements, f, t), x)
                                               ELSE AmountIn(settlements, f, t)
        BY <2>3, <2>4, <3>2, <3>3
      <3> QED
        BY <3>1, <3>3, <3>4 DEF x
    <2> QED
      BY <2>5, <2>6
  <1>2. CASE (\A k \in DOMAIN settlements : ~Matches(k)) /\ UNCHANGED settlements
    <2>1. ASSUME NEW f, NEW t, Hit(f, t)
          PROVE  AmountIn(settlements, f, t) = Less(AmountIn(settlements, f, t), x)
      <3>1. \A k \in DOMAIN settlements : ~(settlements[k].from = f /\ settlements[k].to = t)
        BY <1>2, <2>1 DEF Matches
      <3>2. AmountIn(settlements, f, t) = 0
        BY <3>1, AmountOfNone
      <3> QED
        BY <1>0, <3>2 DEF Less
    <2> QED
      BY <1>2, <2>1
  <1> QED
    BY <1>1, <1>2 DEF HidePending

\* The sum of what was subtracted, with one more of the pending payments.
LEMMA SubtractedMore ==
  ASSUME pending \in Seq([from : People, to : People, amount : Nat \ {0}]),
         n \in 1..Len(pending), NEW f, NEW t
  PROVE  /\ SumFunctionOnSet(Between(pending, f, t), 1..n) =
              (IF pending[n].from = f /\ pending[n].to = t THEN pending[n].amount ELSE 0)
                + SumFunctionOnSet(Between(pending, f, t), 1..(n - 1))
         /\ SumFunctionOnSet(Between(pending, f, t), 1..(n - 1)) \in Int
  <1> DEFINE g == Between(pending, f, t)
             N == n - 1
  <1>1. /\ N \in Nat /\ N + 1 = n /\ DOMAIN pending = 1..Len(pending)
        /\ 1..N \subseteq DOMAIN pending /\ 1..n \subseteq DOMAIN pending /\ n \in DOMAIN pending
    OBVIOUS
  <1>2. \A k \in DOMAIN pending : pending[k].amount \in Int
    <2> DEFINE R == [from : People, to : People, amount : Nat \ {0}]
    <2>1. \A z \in R : z.amount \in Int
      OBVIOUS
    <2>2. pending \in Seq(R)
      OBVIOUS
    <2> HIDE DEF R
    <2>3. \A k \in DOMAIN pending : pending[k] \in R
      BY <2>2
    <2> QED
      BY <2>1, <2>3
  <1>3. IntValued(g, DOMAIN pending)
    BY <1>2 DEF IntValued, Between
  <1>6. IntValued(g, 1..N) /\ IntValued(g, 1..n) /\ SameOn(g, g, 1..N)
    BY <1>1, <1>3 DEF IntValued, SameOn
  <1>4. g[n] = IF pending[n].from = f /\ pending[n].to = t THEN pending[n].amount ELSE 0
    BY <1>1 DEF Between
  <1> HIDE DEF g, N
  <1>5. /\ SumFunctionOnSet(g, 1..(N + 1)) = g[N + 1] + SumFunctionOnSet(g, 1..N)
        /\ SumFunctionOnSet(g, 1..N) \in Int
    BY <1>1, <1>6, SumUpTo
  <1> QED
    BY <1>1, <1>4, <1>5 DEF g, N

LEMMA InitPending == SimplifyInit => PendingInv
  <1> SUFFICES ASSUME SimplifyInit PROVE PendingInv
    OBVIOUS
  <1>1. MatchInv
    BY InitMatch
  <1>2. settlements = <<>> /\ pc = "sort" /\ n = 1
    BY DEF SimplifyInit
  <1>3. pending \in Seq([from : People, to : People, amount : Nat \ {0}])
    BY SimplifierAssumption DEF SimplifyInit
  <1>4. settlements \in Payments /\ OncePerPair(settlements) /\ PairsPassed
    BY <1>2 DEF Payments, OncePerPair, PairsPassed
  <1> QED
    BY <1>1, <1>2, <1>3, <1>4 DEF PendingInv

\* A turn of the loop is about two members no earlier turn was about.
LEMMA PairIsNew ==
  ASSUME MatchInv, Match, settlements \in Payments, OncePerPair(settlements), PairsPassed
  PROVE  settlements' \in Payments /\ OncePerPair(settlements') /\ PairsPassed'
  <1> DEFINE s == settlements
             d == debtors[i]
             c == creditors[j]
             e == [from |-> d, to |-> c, amount |-> Settled, cut |-> FALSE]
             N == Len(s)
  <1>1. /\ d \in People /\ c \in People /\ Settled \in Int /\ Settled > 0
        /\ settlements' = Append(s, e)
        /\ i' \in {i, i + 1} /\ j' \in {j, j + 1} /\ (i' = i + 1 \/ j' = j + 1)
    BY MatchTurn
  <1>2. /\ i \in DOMAIN debtors /\ j \in DOMAIN creditors /\ i \in Int /\ j \in Int
        /\ DOMAIN debtors \subseteq Int /\ DOMAIN creditors \subseteq Int
        /\ debtors' = debtors /\ creditors' = creditors
    BY DEF Match, MatchInv, Sides, Passed, sorted
  <1>3. /\ \A a, b \in DOMAIN debtors : debtors[a] = debtors[b] => a = b
        /\ \A a, b \in DOMAIN creditors : creditors[a] = creditors[b] => a = b
    BY DEF Match, MatchInv, Sides
  <1>4. e \in Payment /\ e.from = d /\ e.to = c /\ e.amount >= 0
    BY <1>1 DEF Payment
  <1>5. s \in Seq(Payment) /\ N \in Nat /\ DOMAIN s = 1..N /\ \A k \in 1..N : s[k].amount >= 0
    BY DEF Payments
  <1>6. \A k \in DOMAIN s : ~(s[k].from = d /\ s[k].to = c)
    <2> SUFFICES ASSUME NEW k \in DOMAIN s, s[k].from = d, s[k].to = c PROVE FALSE
      OBVIOUS
    <2>1. PICK a \in DOMAIN debtors, b \in DOMAIN creditors :
            /\ s[k].from = debtors[a] /\ s[k].to = creditors[b]
            /\ a <= i /\ b <= j /\ (a < i \/ b < j)
      BY DEF PairsPassed
    <2>2. a = i /\ b = j
      BY <1>2, <1>3, <2>1
    <2> QED
      BY <1>2, <2>1, <2>2
  <1> HIDE DEF s, e, N
  <1>7. /\ Append(s, e) \in Seq(Payment) /\ DOMAIN Append(s, e) = 1..(N + 1)
        /\ \A k \in 1..N : Append(s, e)[k] = s[k]
        /\ Append(s, e)[N + 1] = e
    <2>1. N = Len(s)
      BY DEF N
    <2> QED
      BY <1>4, <1>5, <2>1, AppendProperties
  <1>8. \A k \in 1..(N + 1) : k \in 1..N \/ k = N + 1
    BY <1>5
  <1>9. Append(s, e) \in Payments
    BY <1>4, <1>5, <1>7, <1>8 DEF Payments
  <1>10. OncePerPair(Append(s, e))
    <2>1. ASSUME NEW k \in 1..(N + 1), NEW l \in 1..(N + 1),
                 Append(s, e)[k].from = Append(s, e)[l].from, Append(s, e)[k].to = Append(s, e)[l].to
          PROVE  k = l
      <3>1. CASE k \in 1..N /\ l \in 1..N
        <4>1. s[k].from = s[l].from /\ s[k].to = s[l].to /\ k \in DOMAIN s /\ l \in DOMAIN s
          BY <1>5, <1>7, <2>1, <3>1
        <4> QED
          BY <4>1 DEF OncePerPair, s
      <3>2. CASE k \in 1..N /\ l = N + 1
        BY <1>4, <1>5, <1>6, <1>7, <2>1, <3>2
      <3>3. CASE l \in 1..N /\ k = N + 1
        BY <1>4, <1>5, <1>6, <1>7, <2>1, <3>3
      <3> QED
        BY <1>8, <3>1, <3>2, <3>3
    <2> QED
      BY <1>7, <2>1 DEF OncePerPair
  <1>11. PairsPassed'
    <2>1. ASSUME NEW k \in 1..(N + 1)
          PROVE  \E a \in DOMAIN debtors, b \in DOMAIN creditors :
                   /\ Append(s, e)[k].from = debtors[a] /\ Append(s, e)[k].to = creditors[b]
                   /\ a <= i' /\ b <= j' /\ (a < i' \/ b < j')
      <3>1. CASE k \in 1..N
        <4>1. PICK a \in DOMAIN debtors, b \in DOMAIN creditors :
                /\ s[k].from = debtors[a] /\ s[k].to = creditors[b]
                /\ a <= i /\ b <= j /\ (a < i \/ b < j)
          BY <1>5, <3>1 DEF PairsPassed, s
        <4>2. a <= i' /\ b <= j' /\ (a < i' \/ b < j')
          BY <1>1, <1>2, <4>1
        <4> QED
          BY <1>7, <3>1, <4>1, <4>2
      <3>2. CASE k = N + 1
        <4>1. i <= i' /\ j <= j' /\ (i < i' \/ j < j')
          BY <1>1, <1>2
        <4> QED
          BY <1>2, <1>4, <1>7, <3>2, <4>1
      <3> QED
        BY <1>8, <3>1, <3>2
    <2> QED
      BY <1>1, <1>2, <1>7, <2>1 DEF PairsPassed
  <1> QED
    BY <1>1, <1>9, <1>10, <1>11

LEMMA HideSubtracts ==
  ASSUME PendingInv, HidePending
  PROVE  PendingInv'
  <1> DEFINE R == [from : People, to : People, amount : Nat \ {0}]
  <1>1. /\ pc = "hide" /\ pc' = "hide" /\ n \in 1..Len(pending) /\ n' = n + 1
        /\ proposed' = proposed /\ pending' = pending
        /\ settlements \in Payments /\ OncePerPair(settlements) /\ proposed \in Payments
        /\ pending \in Seq(R) /\ \A f, t \in People : Subtracted(f, t)
    BY DEF PendingInv, HidePending, input
  <1>2. pending[n].from \in People /\ pending[n].amount \in Int /\ pending[n].amount > 0
    <2>1. \A z \in R : z.from \in People /\ z.amount \in Int /\ z.amount > 0
      OBVIOUS
    <2> HIDE DEF R
    <2>2. pending[n] \in R
      BY <1>1
    <2> QED
      BY <2>1, <2>2
  <1>3. /\ settlements' \in Payments /\ OncePerPair(settlements')
        /\ \A f, t : AmountIn(settlements', f, t) =
              IF pending[n].from = f /\ pending[n].to = t
              THEN Less(AmountIn(settlements, f, t), pending[n].amount)
              ELSE AmountIn(settlements, f, t)
    BY <1>1, <1>2, HideTakes
  <1>4. ASSUME NEW f \in People, NEW t \in People
        PROVE  Subtracted(f, t)'
    <2> DEFINE A == AmountIn(proposed, f, t)
               B == AmountIn(settlements, f, t)
               M == SumFunctionOnSet(Between(pending, f, t), 1..(n - 1))
               y == pending[n].amount
    <2>1. A \in Int
      BY <1>1, BetweenIs
    <2>2. /\ SumFunctionOnSet(Between(pending, f, t), 1..n) =
              (IF pending[n].from = f /\ pending[n].to = t THEN y ELSE 0) + M
          /\ M \in Int
      BY <1>1, SubtractedMore
    <2>3. B = Less(A, M)
      BY <1>1 DEF Subtracted
    <2>4. AmountIn(settlements', f, t) =
             IF pending[n].from = f /\ pending[n].to = t THEN Less(B, y) ELSE B
      BY <1>3
    <2>5. n' - 1 = n /\ y \in Int /\ y > 0
      BY <1>1, <1>2
    <2>6. /\ AmountIn(proposed', f, t) = A
          /\ SumFunctionOnSet(Between(pending', f, t), 1..(n' - 1)) =
               SumFunctionOnSet(Between(pending, f, t), 1..n)
      BY <1>1, <2>5
    <2> HIDE DEF A, B, M, y
    <2>7. Less(Less(A, M), y) = Less(A, y + M)
      BY <2>1, <2>2, <2>5 DEF Less
    <2>8. M \in Int /\ 0 + M = M
      BY <2>2
    <2>9. AmountIn(settlements', f, t) =
            Less(A, SumFunctionOnSet(Between(pending, f, t), 1..n))
      <3>1. CASE pending[n].from = f /\ pending[n].to = t
        BY <2>2, <2>3, <2>4, <2>7, <3>1
      <3>2. CASE ~(pending[n].from = f /\ pending[n].to = t)
        BY <2>2, <2>3, <2>4, <2>8, <3>2
      <3> QED
        BY <3>1, <3>2
    <2> QED
      BY <2>6, <2>9 DEF Subtracted
  <1>5. n' \in 1..(Len(pending') + 1)
    BY <1>1
  <1>6. MatchInv'
    BY NextMatch DEF PendingInv, SimplifyNext
  <1> QED
    BY <1>1, <1>3, <1>4, <1>5, <1>6 DEF PendingInv

LEMMA NextPending == PendingInv /\ [SimplifyNext]_simplifyVars => PendingInv'
  <1> SUFFICES ASSUME PendingInv, [SimplifyNext]_simplifyVars PROVE PendingInv'
    OBVIOUS
  <1>1. MatchInv /\ MatchInv'
    BY NextMatch DEF PendingInv
  <1>2. CASE Sort
    <2>1. /\ pc = "sort" /\ pc' = "match" /\ n' = n /\ n = 1 /\ pending' = pending
          /\ settlements' = settlements /\ settlements = <<>>
      BY <1>1, <1>2 DEF Sort, PendingInv, MatchInv, input
    <2>2. PairsPassed'
      BY <2>1 DEF PairsPassed
    <2> QED
      BY <1>1, <2>1, <2>2 DEF PendingInv
  <1>3. CASE Match
    <2>1. pc = "match" /\ pc' = "match" /\ n' = n /\ pending' = pending
      BY <1>3 DEF Match, input
    <2>2. settlements' \in Payments /\ OncePerPair(settlements') /\ PairsPassed'
      BY <1>1, <1>3, <2>1, PairIsNew DEF PendingInv
    <2> QED
      BY <1>1, <2>1, <2>2 DEF PendingInv
  <1>4. CASE Matched
    <2>1. /\ pc = "match" /\ pc' = "hide" /\ n' = n /\ n = 1 /\ pending' = pending
          /\ settlements' = settlements /\ proposed' = settlements /\ settlements \in Payments
          /\ n' \in 1..(Len(pending') + 1)
      BY <1>4 DEF Matched, PendingInv, input
    <2>2. ASSUME NEW f \in People, NEW t \in People
          PROVE  Subtracted(f, t)'
      <3>1. AmountIn(settlements, f, t) \in Nat
        BY <2>1, BetweenIs
      <3>2. SumFunctionOnSet(Between(pending, f, t), 1..(n - 1)) = 0
        <4>1. 1..(n - 1) = {}
          BY <2>1
        <4> QED
          BY <4>1, SumEmpty
      <3>3. Less(AmountIn(settlements, f, t), 0) = AmountIn(settlements, f, t)
        BY <3>1 DEF Less
      <3> QED
        BY <2>1, <3>2, <3>3 DEF Subtracted
    <2> QED
      BY <1>1, <2>1, <2>2 DEF PendingInv
  <1>5. CASE HidePending
    BY <1>5, HideSubtracts
  <1>6. CASE Return
    <2>1. /\ pc = "hide" /\ pc' = "done" /\ n' = n /\ pending' = pending /\ n = Len(pending) + 1
          /\ settlements' = settlements /\ proposed' = proposed
      BY <1>6 DEF Return, PendingInv, input
    <2>2. \A f, t \in People : Subtracted(f, t)'
      BY <2>1 DEF PendingInv, Subtracted
    <2> QED
      BY <1>1, <2>1, <2>2 DEF PendingInv
  <1>7. CASE UNCHANGED simplifyVars
    BY <1>1, <1>7 DEF PendingInv, simplifyVars, input, sorted, PairsPassed, Subtracted
  <1> QED
    BY <1>2, <1>3, <1>4, <1>5, <1>6, <1>7 DEF SimplifyNext

LEMMA AllSubtracted == PendingInv => PendingSubtracted
  <1> SUFFICES ASSUME PendingInv, pc = "done", NEW f \in People, NEW t \in People
               PROVE  AmountIn(settlements, f, t) =
                        IF AmountIn(pending, f, t) < AmountIn(proposed, f, t)
                        THEN AmountIn(proposed, f, t) - AmountIn(pending, f, t) ELSE 0
    BY DEF PendingSubtracted
  <1>1. 1..(n - 1) = DOMAIN pending
    BY DEF PendingInv
  <1>2. DOMAIN Between(pending, f, t) = DOMAIN pending
    BY DEF Between
  <1>3. AmountIn(pending, f, t) = SumFunctionOnSet(Between(pending, f, t), 1..(n - 1))
    BY <1>1, <1>2, SumIsOnDomain DEF AmountIn
  <1>4. Subtracted(f, t)
    BY DEF PendingInv
  <1> QED
    BY <1>3, <1>4 DEF Subtracted, Less

\* In every group, with any balances and any pending settlements, a member is
\* shown what was proposed less what is already on its way, and never a negative
\* payment.
THEOREM PendingIsSubtracted == SimplifySpec => []PendingSubtracted
  <1> QED
    BY AllSubtracted, InitPending, NextPending, PTL DEF SimplifySpec
-----------------------------------------------------------------------------
(***************************************************************************)
(* ExpenseSplitter, for all amounts, participants and fractions of a cent. *)
(***************************************************************************)

LEMMA DivMod ==
  ASSUME NEW a \in Nat, NEW b \in Nat \ {0}
  PROVE  a \div b \in Nat /\ a % b \in 0..(b - 1) /\ a = b * (a \div b) + (a % b)
  OBVIOUS

\* Rounded, a / b is off by a half at the most.
LEMMA RoundNear ==
  ASSUME NEW a \in Nat, NEW b \in Nat \ {0}, NEW x \in Round(a, b)
  PROVE  /\ x \in Nat
         /\ 2 * (b * x - a) <= b /\ 2 * (a - b * x) <= b
  <1> DEFINE q == a \div b
             r == a % b
  <1>1. q \in Nat /\ r \in 0..(b - 1) /\ a = b * q + r
    BY DivMod
  <1>2. \/ 2 * r <= b /\ x = q
        \/ 2 * r >= b /\ x = q + 1
    BY <1>1 DEF Round
  <1> HIDE DEF q, r
  <1>3. b * (q + 1) = b * q + b /\ b * q \in Nat
    BY <1>1
  <1>4. CASE 2 * r <= b /\ x = q
    BY <1>1, <1>3, <1>4
  <1>5. CASE 2 * r >= b /\ x = q + 1
    BY <1>1, <1>3, <1>5
  <1> QED
    BY <1>2, <1>4, <1>5

LEMMA RoundExact ==
  ASSUME NEW a \in Nat, NEW b \in Nat \ {0}, a % b = 0
  PROVE  Round(a, b) = {a \div b}
  <1>1. 2 * (a % b) < b
    OBVIOUS
  <1> QED
    BY <1>1 DEF Round

\* A quotient is known by what it leaves.
LEMMA DivIs ==
  ASSUME NEW a \in Nat, NEW b \in Nat \ {0}, NEW q \in Nat, NEW r \in 0..(b - 1), a = b * q + r
  PROVE  a \div b = q
  <1> DEFINE d == a \div b
             m == a % b
  <1>1. d \in Nat /\ m \in 0..(b - 1) /\ a = b * d + m
    BY DivMod
  <1> HIDE DEF d, m
  <1>2. b * (d - q) = r - m
    BY <1>1
  <1>3. ASSUME d >= q + 1 PROVE FALSE
    <2>1. b * (d - q) >= b
      BY <1>1, <1>3
    <2> QED
      BY <1>1, <1>2, <2>1
  <1>4. ASSUME d <= q - 1 PROVE FALSE
    <2>1. b * (d - q) <= -b
      BY <1>1, <1>4
    <2> QED
      BY <1>1, <1>2, <2>1
  <1> QED
    BY <1>1, <1>3, <1>4 DEF d

LEMMA StoredExact ==
  ASSUME NEW a \in Nat, a % Cent = 0
  PROVE  Stored(a) = a \div Cent
  <1> DEFINE q == a \div Cent
  <1>1. q \in Nat /\ a = Cent * q /\ Cent \in Nat \ {0}
    BY SplitterAssumption, DivMod
  <1> HIDE DEF q
  <1>2. 2 * a + Cent = (2 * Cent) * q + Cent
    BY <1>1
  <1>3. 2 * a + Cent \in Nat /\ 2 * Cent \in Nat \ {0} /\ Cent \in 0..(2 * Cent - 1)
    BY <1>1
  <1>4. (2 * a + Cent) \div (2 * Cent) = q
    BY <1>1, <1>2, <1>3, DivIs
  <1> QED
    BY <1>4 DEF Stored, q

\* The last row takes what is missing, so that the rows add up.
LEMMA Reconciling ==
  ASSUME NEW N \in Nat \ {0}, NEW c \in [1..N -> Int], NEW total \in Int
  PROVE  /\ Reconciled(c, total) \in [1..N -> Int]
         /\ SumFunction(Reconciled(c, total)) = total
         /\ SumFunctionOnSet(c, 1..N) \in Int /\ SumFunction(c) = SumFunctionOnSet(c, 1..N)
         /\ Reconciled(c, total)[N] = c[N] + (total - SumFunctionOnSet(c, 1..N))
         /\ \A k \in 1..N : k # N => Reconciled(c, total)[k] = c[k]
  <1> DEFINE S == 1..N
             sum == SumFunctionOnSet(c, S)
             rows == [c EXCEPT ![N] = @ + (total - sum)]
  <1>1. IsFiniteSet(S) /\ N \in S /\ IntValued(c, S) /\ Len(c) = N /\ DOMAIN c = S
    BY FS_Interval DEF IntValued
  <1>2. SumFunction(c) = sum
    BY <1>1 DEF SumFunction
  <1>3. Reconciled(c, total) = rows
    BY <1>1, <1>2 DEF Reconciled
  <1>4. sum \in Int
    <2> HIDE DEF S
    <2> QED
      BY <1>1, SumInt
  <1>5. c[N] + (total - sum) \in Int
    BY <1>1, <1>4 DEF IntValued
  <1>6. /\ rows \in [S -> Int] /\ rows[N] = c[N] + (total - sum)
        /\ \A k \in S : k # N => rows[k] = c[k]
    <2> HIDE DEF sum
    <2> QED
      BY <1>1, <1>5
  <1>7. SameBut(c, rows, N, S)
    BY <1>6 DEF SameBut
  <1>8. IntValued(rows, S)
    BY <1>6 DEF IntValued
  <1>9. SumFunction(rows) = SumFunctionOnSet(rows, S)
    BY <1>6 DEF SumFunction
  <1> HIDE DEF S, rows, sum
  <1>10. SumFunctionOnSet(rows, S) = SumFunctionOnSet(c, S) + rows[N] - c[N]
    BY <1>1, <1>7, <1>8, SumChange
  <1>11. SumFunctionOnSet(rows, S) = total
    <2>1. c[N] \in Int /\ SumFunctionOnSet(c, S) = sum
      BY <1>1 DEF IntValued, sum
    <2> QED
      BY <1>4, <1>6, <1>10, <2>1
  <1> QED
    BY <1>2, <1>3, <1>4, <1>6, <1>9, <1>11 DEF S, sum

LEMMA InputTyped ==
  ASSUME in \in Inputs
  PROVE  /\ Cent \in Nat \ {0} /\ in.amount \in Nat /\ TotalCents \subseteq Nat
         /\ Count \in Nat
         /\ \A k \in 1..Count : in.participants[k].amount \in Nat /\ SharesOf(k) \in Nat \ {0}
  <1>1. /\ Cent \in Nat \ {0} /\ in.amount \in Nat /\ in.participants \in Seq(Participant)
    BY SplitterAssumption
  <1>2. TotalCents \subseteq Nat
    BY <1>1, RoundNear DEF TotalCents
  <1>3. Count \in Nat /\ \A k \in 1..Count : in.participants[k] \in Participant
    BY <1>1 DEF Count
  <1> QED
    BY <1>1, <1>2, <1>3 DEF Participant, SharesOf

\* EXACT: the rows keep the claims.
LEMMA ClaimsReconciled ==
  ASSUME in \in Inputs, Count > 0, NEW total \in TotalCents, NEW c \in Claims, Close(c, total)
  PROVE  /\ SumFunction(Reconciled(c, total)) = total
         /\ \A k \in 1..Count :
              2 * Distance(Cent * Reconciled(c, total)[k], in.participants[k].amount)
                <= IF k < Count THEN Cent ELSE (2 * Count + 1) * Cent
  <1> DEFINE rows == Reconciled(c, total)
             sum == SumFunctionOnSet(c, 1..Count)
             claim(k) == in.participants[k].amount
  <1>1. /\ Cent \in Nat \ {0} /\ Count \in Nat \ {0} /\ total \in Nat
        /\ \A k \in 1..Count : claim(k) \in Nat
    BY InputTyped
  <1>2. \A k \in 1..Count : c[k] \in Round(claim(k), Cent)
    BY DEF Claims
  <1>3. \A k \in 1..Count : /\ c[k] \in Nat
                            /\ 2 * (Cent * c[k] - claim(k)) <= Cent
                            /\ 2 * (claim(k) - Cent * c[k]) <= Cent
    BY <1>1, <1>2, RoundNear
  <1>4. c \in [1..Count -> Int]
    BY <1>3 DEF Claims
  <1>5. /\ SumFunction(rows) = total
        /\ sum \in Int /\ SumFunction(c) = sum
        /\ rows[Count] = c[Count] + (total - sum)
        /\ \A k \in 1..Count : k # Count => rows[k] = c[k]
    <2>1. Count \in Nat \ {0} /\ total \in Int
      BY <1>1
    <2> QED
      BY <1>4, <2>1, Reconciling
  <1>6. sum - total \in (-Count)..Count
    BY <1>5 DEF Close
  <1> HIDE DEF rows, sum
  <1>7. ASSUME NEW k \in 1..Count
        PROVE  2 * Distance(Cent * rows[k], claim(k)) <= IF k < Count THEN Cent ELSE (2 * Count + 1) * Cent
    <2> DEFINE x == Cent * c[k]
               y == claim(k)
    <2>1. c[k] \in Nat /\ x \in Nat /\ y \in Nat /\ 2 * (x - y) <= Cent /\ 2 * (y - x) <= Cent
      BY <1>1, <1>3
    <2>2. CASE k < Count
      <3>1. Cent * rows[k] = x
        BY <1>1, <1>5, <2>2
      <3> HIDE DEF x, y
      <3>2. 2 * Distance(x, y) <= Cent
        BY <1>1, <2>1 DEF Distance
      <3> QED
        BY <2>2, <3>1, <3>2 DEF y
    <2>3. CASE k = Count
      <3> DEFINE z == total - sum
                 w == Cent * z
      <3>1. z \in (-Count)..Count /\ z \in Int
        BY <1>1, <1>5, <1>6
      <3> HIDE DEF z
      <3>2. Cent * rows[k] = x + w
        <4>1. rows[k] = c[k] + z
          BY <1>5, <2>3 DEF z
        <4> QED
          BY <1>1, <2>1, <3>1, <4>1
      <3>3. w \in Int /\ w <= Count * Cent /\ -w <= Count * Cent
        <4>1. Cent * (Count - z) >= 0 /\ Cent * (Count + z) >= 0
          BY <1>1, <3>1
        <4> QED
          BY <1>1, <3>1, <4>1
      <3>4. Count * Cent \in Int /\ (2 * Count + 1) * Cent = 2 * (Count * Cent) + Cent
        BY <1>1
      <3> HIDE DEF x, y, w
      <3>5. 2 * Distance(x + w, y) <= 2 * (Count * Cent) + Cent
        BY <1>1, <2>1, <3>3, <3>4 DEF Distance
      <3>6. ~(k < Count)
        BY <1>1, <2>3
      <3> QED
        BY <3>2, <3>4, <3>5, <3>6 DEF y
    <2> QED
      BY <1>1, <2>2, <2>3
  <1> QED
    BY <1>5, <1>7 DEF rows

\* The shares together, which are what a part is a part of.
LEMMA SharesTotal ==
  ASSUME in \in Inputs, Count > 0
  PROVE  /\ TotalShares \in Nat \ {0}
         /\ TotalShares = SumFunctionOnSet([k \in 1..Count |-> SharesOf(k)], 1..Count)
  <1> DEFINE f == [k \in 1..Count |-> SharesOf(k)]
             one == [k \in 1..Count |-> 1]
             S == 1..Count
  <1>1. Count \in Nat \ {0} /\ \A k \in S : f[k] \in Nat \ {0}
    BY InputTyped
  <1>2. IsFiniteSet(S) /\ Cardinality(S) = Count
    BY <1>1, FS_Interval
  <1>3. IntValued(f, S) /\ IntValued(one, S) /\ Below(one, f, S) /\ Constant(one, 1, S)
    BY <1>1 DEF IntValued, Below, Constant
  <1>4. TotalShares = SumFunctionOnSet(f, S)
    BY DEF TotalShares, SumFunction
  <1> HIDE DEF f, one, S
  <1>5. SumFunctionOnSet(one, S) = 1 * Cardinality(S)
    BY <1>2, <1>3, SumConstant
  <1>6. SumFunctionOnSet(one, S) <= SumFunctionOnSet(f, S)
    BY <1>2, <1>3, SumMonotone
  <1>7. SumFunctionOnSet(f, S) \in Int
    BY <1>2, <1>3, SumInt
  <1>8. TotalShares \in Nat \ {0}
    BY <1>1, <1>2, <1>4, <1>5, <1>6, <1>7
  <1> QED
    BY <1>4, <1>8 DEF f, S

\* Each c[k] is t times the k-th of the weights w over b, up to a half.
Near(c, w, b, t, R) ==
    \A k \in R : /\ c[k] \in Int /\ w[k] \in Int
                 /\ 2 * (b * c[k] - t * w[k]) <= b /\ 2 * (t * w[k] - b * c[k]) <= b

\* Then the sum of the c[k] is off by half of one for each of them at the most.
LEMMA PortionsNear ==
  ASSUME NEW R, IsFiniteSet(R), NEW b \in Nat, NEW t \in Nat, NEW c, NEW w,
         Near(c, w, b, t, R)
  PROVE  /\ 2 * (b * SumFunctionOnSet(c, R) - t * SumFunctionOnSet(w, R)) <= b * Cardinality(R)
         /\ 2 * (t * SumFunctionOnSet(w, R) - b * SumFunctionOnSet(c, R)) <= b * Cardinality(R)
         /\ SumFunctionOnSet(c, R) \in Int /\ SumFunctionOnSet(w, R) \in Int
  <1> DEFINE over == [k \in R |-> 2 * b * c[k] + (-(2 * t)) * w[k]]
             under == [k \in R |-> (-(2 * b)) * c[k] + 2 * t * w[k]]
             bs == [k \in R |-> b]
             C == SumFunctionOnSet(c, R)
             W == SumFunctionOnSet(w, R)
  <1>1. IntValued(c, R) /\ IntValued(w, R)
    BY DEF IntValued, Near
  <1>2. C \in Int /\ W \in Int
    BY <1>1, SumInt
  <1>3. ASSUME NEW k \in R
        PROVE  over[k] \in Int /\ under[k] \in Int /\ over[k] <= b /\ under[k] <= b
    <2> DEFINE x == b * c[k]
               y == t * w[k]
    <2>1. x \in Int /\ y \in Int /\ 2 * (x - y) <= b /\ 2 * (y - x) <= b
      BY DEF Near
    <2>2. over[k] = 2 * x - 2 * y /\ under[k] = 2 * y - 2 * x
      BY DEF Near
    <2> HIDE DEF x, y, over, under
    <2> QED
      BY <2>1, <2>2
  <1>4. /\ IntValued(over, R) /\ IntValued(under, R) /\ IntValued(bs, R)
        /\ Below(over, bs, R) /\ Below(under, bs, R) /\ Constant(bs, b, R)
    <2> HIDE DEF over, under
    <2> QED
      BY <1>3 DEF IntValued, Below, Constant
  <1>5. /\ Combines(over, 2 * b, c, -(2 * t), w, R)
        /\ Combines(under, -(2 * b), c, 2 * t, w, R)
    BY DEF Combines
  <1>6. 2 * b \in Int /\ -(2 * b) \in Int /\ 2 * t \in Int /\ -(2 * t) \in Int
    OBVIOUS
  <1> HIDE DEF over, under, bs
  <1>7. SumFunctionOnSet(over, R) = (2 * b) * C + (-(2 * t)) * W
    BY <1>1, <1>5, <1>6, SumLinear
  <1>8. SumFunctionOnSet(under, R) = (-(2 * b)) * C + (2 * t) * W
    BY <1>1, <1>5, <1>6, SumLinear
  <1>9. SumFunctionOnSet(bs, R) = b * Cardinality(R)
    BY <1>4, SumConstant
  <1>10. SumFunctionOnSet(over, R) <= SumFunctionOnSet(bs, R)
    BY <1>4, SumMonotone
  <1>11. SumFunctionOnSet(under, R) <= SumFunctionOnSet(bs, R)
    BY <1>4, SumMonotone
  <1> HIDE DEF C, W
  <1>12. /\ (2 * b) * C + (-(2 * t)) * W = 2 * (b * C - t * W)
         /\ (-(2 * b)) * C + (2 * t) * W = 2 * (t * W - b * C)
    BY <1>2
  <1> QED
    BY <1>2, <1>7, <1>8, <1>9, <1>10, <1>11, <1>12 DEF C, W

\* SHARES: the rows are fair.
LEMMA PortionsReconciled ==
  ASSUME in \in Inputs, Count > 0, NEW total \in TotalCents, NEW c \in Portions(total)
  PROVE  /\ SumFunction(Reconciled(c, total)) = total
         /\ \A k \in 1..Count :
              2 * Distance(Reconciled(c, total)[k] * TotalShares, total * SharesOf(k))
                <= IF k < Count THEN TotalShares ELSE (Count - 1) * TotalShares
  <1> DEFINE rows == Reconciled(c, total)
             b == TotalShares
             S == 1..Count
             R == 1..(Count - 1)
             w == [k \in S |-> SharesOf(k)]
             C == SumFunctionOnSet(c, R)
             W == SumFunctionOnSet(w, R)
  <1>1. /\ Count \in Nat \ {0} /\ total \in Nat /\ total \in Int
        /\ \A k \in S : SharesOf(k) \in Nat \ {0}
    BY InputTyped
  <1>2. b \in Nat \ {0} /\ b = SumFunctionOnSet(w, S)
    BY SharesTotal
  <1>3. /\ c \in [S -> Int] /\ c[Count] = 0
        /\ \A k \in R : c[k] \in Round(total * SharesOf(k), b)
    BY <1>1 DEF Portions
  <1>4. /\ IsFiniteSet(R) /\ Cardinality(R) = Count - 1 /\ IsFiniteSet(S)
        /\ R = S \ {Count} /\ Count \in S
    <2>1. R = S \ {Count} /\ Count \in S /\ Count - 1 \in Nat
      BY <1>1
    <2>2. IsFiniteSet(S)
      BY <1>1, FS_Interval
    <2>3. \A k \in Nat : IsFiniteSet(1..k) /\ Cardinality(1..k) = k
      BY FS_Interval
    <2> QED
      BY <2>1, <2>2, <2>3
  <1>5. /\ SumFunction(rows) = total
        /\ SumFunctionOnSet(c, S) \in Int
        /\ rows[Count] = c[Count] + (total - SumFunctionOnSet(c, S))
        /\ \A k \in S : k # Count => rows[k] = c[k]
    <2>1. Count \in Nat \ {0} /\ total \in Int /\ c \in [1..Count -> Int]
      BY <1>1, <1>3
    <2> QED
      BY <2>1, Reconciling
  <1>6. \A k \in R : /\ k \in S /\ c[k] \in Int /\ w[k] \in Int /\ w[k] = SharesOf(k)
                     /\ 2 * (b * c[k] - total * w[k]) <= b /\ 2 * (total * w[k] - b * c[k]) <= b
    <2> TAKE k \in R
    <2>1. k \in S /\ w[k] = SharesOf(k) /\ SharesOf(k) \in Nat /\ total * SharesOf(k) \in Nat
      BY <1>1, <1>4
    <2>2. c[k] \in Round(total * SharesOf(k), b)
      BY <1>3
    <2> HIDE DEF b, S, R, w
    <2> QED
      BY <1>2, <2>1, <2>2, RoundNear
  <1>7. IntValued(c, S) /\ IntValued(w, S)
    BY <1>1, <1>3 DEF IntValued
  <1> HIDE DEF rows, b, S, R, w
  <1>8. /\ 2 * (b * C - total * W) <= b * (Count - 1)
        /\ 2 * (total * W - b * C) <= b * (Count - 1)
        /\ C \in Int /\ W \in Int
    <2>1. b \in Nat /\ total \in Nat /\ Near(c, w, b, total, R)
      BY <1>1, <1>2, <1>6 DEF Near
    <2>2. IsFiniteSet(R) /\ Cardinality(R) = Count - 1
      BY <1>4
    <2> QED
      BY <2>1, <2>2, PortionsNear
  <1>9. SumFunctionOnSet(c, S) = c[Count] + C
    BY <1>4, <1>7, SumRemove
  <1>10. SumFunctionOnSet(w, S) = w[Count] + W
    BY <1>4, <1>7, SumRemove
  <1>11. ASSUME NEW k \in S
         PROVE  2 * Distance(rows[k] * b, total * SharesOf(k))
                  <= IF k < Count THEN b ELSE (Count - 1) * b
    <2>1. CASE k < Count
      <3>1. k \in R /\ rows[k] = c[k]
        BY <1>1, <1>4, <1>5, <2>1
      <3> DEFINE x == b * c[k]
                 y == total * SharesOf(k)
      <3>2. x \in Int /\ y \in Int /\ 2 * (x - y) <= b /\ 2 * (y - x) <= b /\ rows[k] * b = x
        BY <1>1, <1>2, <1>6, <3>1
      <3> HIDE DEF x
      <3> QED
        BY <2>1, <1>2, <3>2 DEF Distance
    <2>2. CASE k = Count
      <3>1. rows[Count] = total - C /\ w[Count] = SharesOf(Count) /\ SharesOf(Count) = b - W
        <4>1. w[Count] = SharesOf(Count) /\ w[Count] \in Int
          BY <1>4, <1>7 DEF w, IntValued, S
        <4>2. rows[Count] = total - C
          BY <1>1, <1>3, <1>5, <1>8, <1>9
        <4>3. w[Count] = b - W
          BY <1>2, <1>8, <1>10, <4>1
        <4> QED
          BY <4>1, <4>2, <4>3
      <3> DEFINE x == b * C
                 y == total * W
                 z == b * total
                 m == b * (Count - 1)
      <3>2. /\ x \in Int /\ y \in Int /\ z \in Int /\ m \in Int
            /\ (total - C) * b = z - x /\ total * (b - W) = z - y /\ (Count - 1) * b = m
        BY <1>1, <1>2, <1>8
      <3>3. 2 * (x - y) <= m /\ 2 * (y - x) <= m
        BY <1>8
      <3> HIDE DEF x, y, z, m
      <3>4. 2 * Distance(z - x, z - y) <= m
        BY <3>2, <3>3 DEF Distance
      <3> QED
        BY <1>1, <2>2, <3>1, <3>2, <3>4
    <2> QED
      BY <1>1, <2>1, <2>2 DEF S
  <1> QED
    BY <1>5, <1>11 DEF rows, b, S

\* The invariant behind the three properties: each is about one expense, which is
\* split in one step.
SplitsInv == in \in Inputs /\ SplitsAddUp /\ ClaimsKept /\ FairShares

LEMMA WholeCents ==
  ASSUME in \in Inputs, in.amount % Cent = 0, NEW total \in TotalCents
  PROVE  total = Stored(in.amount)
  BY InputTyped, RoundExact, StoredExact DEF TotalCents

LEMMA SplitSplits ==
  ASSUME SplitsInv, Split
  PROVE  SplitsInv'
  <1>0. in \in Inputs /\ in' = in /\ Count > 0
    <2>1. Count \in Nat
      BY InputTyped DEF SplitsInv
    <2> QED
      BY <2>1 DEF SplitsInv, Split, Accepted
  <1>1. ASSUME splitExact PROVE SplitsInv'
    <2>1. PICK total \in TotalCents, c \in Claims :
             out' = IF Close(c, total)
                    THEN [status |-> "stored", amount |-> Stored(in.amount),
                          splits |-> Reconciled(c, total)]
                    ELSE Refused
      BY <1>1 DEF splitExact
    <2>2. CASE ~Close(c, total)
      BY <1>0, <2>1, <2>2 DEF Refused, SplitsInv, SplitsAddUp, ClaimsKept, FairShares, IsStored
    <2>3. CASE Close(c, total)
      <3> DEFINE rows == Reconciled(c, total)
      <3>1. /\ out'.splits = rows /\ out'.amount = Stored(in.amount) /\ in.type = "EXACT"
        BY <1>1, <2>1, <2>3 DEF splitExact
      <3>2. /\ SumFunction(rows) = total
            /\ \A k \in 1..Count :
                 2 * Distance(Cent * rows[k], in.participants[k].amount)
                   <= IF k < Count THEN Cent ELSE (2 * Count + 1) * Cent
        BY <1>0, <2>3, ClaimsReconciled
      <3> HIDE DEF rows
      <3>3. SplitsAddUp'
        BY <1>0, <3>1, <3>2, WholeCents DEF SplitsAddUp, TotalCents
      <3>4. ClaimsKept'
        BY <1>0, <3>1, <3>2 DEF ClaimsKept, Count
      <3>5. FairShares'
        BY <1>0, <3>1 DEF FairShares
      <3> QED
        BY <1>0, <3>3, <3>4, <3>5 DEF SplitsInv
    <2> QED
      BY <2>2, <2>3
  <1>2. ASSUME splitByShares PROVE SplitsInv'
    <2>1. PICK total \in TotalCents : \E c \in Portions(total) :
             out' = [status |-> "stored", amount |-> Stored(in.amount),
                     splits |-> Reconciled(c, total)]
      BY <1>2 DEF splitByShares
    <2>2. PICK c \in Portions(total) :
             out' = [status |-> "stored", amount |-> Stored(in.amount),
                     splits |-> Reconciled(c, total)]
      BY <2>1
    <2> DEFINE rows == Reconciled(c, total)
    <2>3. /\ out'.splits = rows /\ out'.amount = Stored(in.amount) /\ in.type = "SHARES"
      BY <1>2, <2>2 DEF splitByShares
    <2>4. /\ SumFunction(rows) = total
          /\ \A k \in 1..Count :
               2 * Distance(rows[k] * TotalShares, total * SharesOf(k))
                 <= IF k < Count THEN TotalShares ELSE (Count - 1) * TotalShares
      BY <1>0, PortionsReconciled
    <2> HIDE DEF rows
    <2>5. SplitsAddUp'
      BY <1>0, <2>3, <2>4, WholeCents DEF SplitsAddUp, TotalCents
    <2>6. ClaimsKept'
      BY <1>0, <2>3 DEF ClaimsKept
    <2>7. FairShares'
      BY <1>0, <2>3, <2>4 DEF FairShares, TotalCents, Count, TotalShares, SharesOf
    <2> QED
      BY <1>0, <2>5, <2>6, <2>7 DEF SplitsInv
  <1> QED
    BY <1>1, <1>2 DEF Split

LEMMA NextSplits == SplitsInv /\ [SplitNext]_splitVars => SplitsInv'
  <1> SUFFICES ASSUME SplitsInv, [SplitNext]_splitVars PROVE SplitsInv'
    OBVIOUS
  <1>1. CASE Split
    BY <1>1, SplitSplits
  <1>2. CASE Refuse
    BY <1>2 DEF Refuse, Refused, SplitsInv, SplitsAddUp, ClaimsKept, FairShares, IsStored
  <1>3. CASE UNCHANGED splitVars
    BY <1>3 DEF splitVars, SplitsInv, SplitsAddUp, ClaimsKept, FairShares, IsStored,
                TotalCents, Count, TotalShares, SharesOf
  <1> QED
    BY <1>1, <1>2, <1>3 DEF SplitNext

LEMMA InitSplits == SplitInit => SplitsInv
  BY DEF SplitInit, Pending, SplitsInv, SplitsAddUp, ClaimsKept, FairShares, IsStored

\* However an expense is split and whatever is rounded, its splits add up to its
\* amount in whole cents, and to the amount stored when that was whole cents.
THEOREM SplittingAddsUp == SplitSpec => []SplitsAddUp
  <1>1. SplitsInv => SplitsAddUp
    BY DEF SplitsInv
  <1> QED
    BY <1>1, InitSplits, NextSplits, PTL DEF SplitSpec

\* EXACT keeps every claim to the nearest cent but the last one, and that to a
\* cent for each participant.
THEOREM SplittingKeepsClaims == SplitSpec => []ClaimsKept
  <1>1. SplitsInv => ClaimsKept
    BY DEF SplitsInv
  <1> QED
    BY <1>1, InitSplits, NextSplits, PTL DEF SplitSpec

\* SHARES charges everybody but the last in proportion to the nearest cent, and
\* the last one with what the others' rounding leaves.
THEOREM SplittingIsFair == SplitSpec => []FairShares
  <1>1. SplitsInv => FairShares
    BY DEF SplitsInv
  <1> QED
    BY <1>1, InitSplits, NextSplits, PTL DEF SplitSpec
=============================================================================
