--------------------------- MODULE ItineraryProofs ---------------------------
(***************************************************************************)
(* Proofs about Itinerary, for every set of keys and requests, any lengths *)
(* of a day and of the itinerary, and all answers of the model.            *)
(*                                                                         *)
(* The loop that pushes activities is a fold, which is defined by a        *)
(* recursive function on sets of indices.  The first part shows that there *)
(* is one and unfolds it into the states of the loop, turn by turn.        *)
(***************************************************************************)
EXTENDS Itinerary, FiniteSetTheorems, FunctionTheorems, SequenceTheorems, TLAPS

LEMMA SubsetInduction ==
  ASSUME NEW S, IsFiniteSet(S), NEW Good,
         \A T \in SUBSET S : (\A U \in SUBSET T : U # T => U \in Good) => T \in Good
  PROVE  SUBSET S \subseteq Good
  <1> DEFINE Bad == {T \in SUBSET S : T \notin Good}
  <1>1. SUFFICES ASSUME Bad # {} PROVE FALSE
    OBVIOUS
  <1>2. IsWellFoundedOn(StrictSubsetOrdering(S), SUBSET S)
    BY FS_FiniteSubsetsOfFinite, FS_StrictSubsetOrderingWellFounded
  <1>3. PICK T \in Bad : \A U \in Bad : <<U, T>> \notin StrictSubsetOrdering(S)
    <2> Bad \subseteq SUBSET S
      OBVIOUS
    <2> HIDE DEF Bad
    <2> QED
      BY <1>1, <1>2, WFMin
  <1>4. PICK U \in SUBSET T : U # T /\ U \notin Good
    OBVIOUS
  <1>5. U \in Bad /\ <<U, T>> \in StrictSubsetOrdering(S)
    BY <1>4 DEF StrictSubsetOrdering
  <1> QED
    BY <1>3, <1>5

\* Induction over the numbers up to N, by induction over the intervals from 1.
LEMMA UpTo ==
  ASSUME NEW N \in Nat, NEW Good, 0 \in Good, \A k \in 1..N : k - 1 \in Good => k \in Good
  PROVE  \A k \in 0..N : k \in Good
  <1> DEFINE Sets == {T \in SUBSET (1..N) : \A k \in 0..N : T = 1..k => k \in Good}
  <1>1. ASSUME NEW T \in SUBSET (1..N), \A U \in SUBSET T : U # T => U \in Sets
        PROVE  T \in Sets
    <2>1. SUFFICES ASSUME NEW k \in 0..N, T = 1..k PROVE k \in Good
      OBVIOUS
    <2>2. CASE k = 0
      BY <2>2
    <2>3. CASE k # 0
      <3>1. k - 1 \in 0..N /\ k \in 1..N /\ 1..(k - 1) \in SUBSET T /\ k \in T /\ k \notin 1..(k - 1)
        BY <2>1, <2>3
      <3>2. 1..(k - 1) \in Sets
        BY <1>1, <3>1
      <3>3. k - 1 \in Good
        BY <3>1, <3>2
      <3> QED
        BY <3>1, <3>3
    <2> QED
      BY <2>2, <2>3
  <1>2. IsFiniteSet(1..N)
    BY FS_Interval
  <1>3. SUBSET (1..N) \subseteq Sets
    <2> DEFINE S == 1..N
    <2> HIDE DEF Sets, S
    <2>1. IsFiniteSet(S) /\ \A T \in SUBSET S : (\A U \in SUBSET T : U # T => U \in Sets) => T \in Sets
      BY <1>1, <1>2 DEF S
    <2>2. SUBSET S \subseteq Sets
      BY <2>1, SubsetInduction
    <2> QED
      BY <2>2 DEF S
  <1>4. \A k \in 0..N : 1..k \in SUBSET (1..N)
    OBVIOUS
  <1> HIDE DEF Sets
  <1>5. \A k \in 0..N : 1..k \in Sets
    BY <1>3, <1>4
  <1> QED
    BY <1>5, <1>4 DEF Sets
-----------------------------------------------------------------------------
\* g is the loop from u over the elements of s, for every set of its indices.
IsRun(g, u, s, D) ==
    g = [T \in SUBSET D |-> IF T = {} THEN u ELSE Ripple(g[T \ {Max(T)}], s[Max(T)])]

LEMMA RunUnfold ==
  ASSUME NEW u, NEW s, NEW D, NEW g, IsRun(g, u, s, D), NEW T \in SUBSET D
  PROVE  g[T] = IF T = {} THEN u ELSE Ripple(g[T \ {Max(T)}], s[Max(T)])
  BY DEF IsRun

LEMMA MaxIs ==
  ASSUME NEW N \in Nat, NEW T \in SUBSET (1..N), T # {}
  PROVE  Max(T) \in T /\ \A k \in T : k <= Max(T)
  <1> DEFINE Good == {k \in 0..N : (\E l \in T : l <= k) => \E m \in T : \A l \in T : l <= k => l <= m}
  <1>1. 0 \in Good
    OBVIOUS
  <1>2. ASSUME NEW k \in 1..N, k - 1 \in Good
        PROVE  k \in Good
    <2>1. CASE k \in T
      BY <2>1
    <2>2. CASE k \notin T
      <3>1. \A l \in T : l <= k <=> l <= k - 1
        BY <2>2
      <3> QED
        BY <1>2, <3>1
    <2> QED
      BY <2>1, <2>2
  <1>3. N \in Good
    <2> HIDE DEF Good
    <2> QED
      BY <1>1, <1>2, UpTo
  <1>4. /\ \A l \in T : l <= N
        /\ (\E l \in T : l <= N) => \E m \in T : \A l \in T : l <= N => l <= m
    BY <1>3
  <1>5. \E m \in T : \A l \in T : l <= m
    BY <1>4
  <1>6. PICK m \in T : \A l \in T : l <= m
    BY <1>5
  <1>7. \A l \in T : m >= l
    BY <1>6
  <1> QED
    BY <1>6, <1>7 DEF Max

\* The sets of indices of a sequence.
Indices(D) == \E N \in Nat : D \subseteq 1..N

LEMMA IndicesFinite ==
  ASSUME NEW D, Indices(D)
  PROVE  IsFiniteSet(D)
  <1>1. PICK N \in Nat : D \subseteq 1..N
    BY DEF Indices
  <1>2. IsFiniteSet(1..N)
    BY FS_Interval
  <1> DEFINE S == 1..N
  <1> HIDE DEF S
  <1>3. IsFiniteSet(S) /\ D \subseteq S
    BY <1>1, <1>2 DEF S
  <1> QED
    BY <1>3, FS_Subset

LEMMA MaxIn ==
  ASSUME NEW D, Indices(D), NEW T \in SUBSET D, T # {}
  PROVE  Max(T) \in T
  <1>1. PICK N \in Nat : D \subseteq 1..N
    BY DEF Indices
  <1>2. T \in SUBSET (1..N)
    BY <1>1
  <1> QED
    BY <1>2, MaxIs

LEMMA RunsAgree ==
  ASSUME NEW u, NEW s, NEW S, NEW T, Indices(S),
         NEW g, NEW h, IsRun(g, u, s, S), IsRun(h, u, s, T)
  PROVE  \A U \in SUBSET (S \cap T) : g[U] = h[U]
  <1> DEFINE D == S \cap T
             Good == {U \in SUBSET D : g[U] = h[U]}
  <1>1. ASSUME NEW U \in SUBSET D, \A V \in SUBSET U : V # U => V \in Good
        PROVE  U \in Good
    <2>1. CASE U = {}
      BY <2>1, RunUnfold
    <2>2. CASE U # {}
      <3> DEFINE m == Max(U)
                 V == U \ {m}
      <3>1. m \in U
        BY <2>2, MaxIn
      <3> HIDE DEF m
      <3>2. V \in SUBSET U /\ V # U
        BY <3>1
      <3>3. g[V] = h[V]
        BY <1>1, <3>2
      <3>4. U \in SUBSET S /\ U \in SUBSET T
        OBVIOUS
      <3>5. g[U] = Ripple(g[V], s[m]) /\ h[U] = Ripple(h[V], s[m])
        <4>1. g[U] = Ripple(g[U \ {Max(U)}], s[Max(U)])
          BY <2>2, <3>4, RunUnfold
        <4>2. h[U] = Ripple(h[U \ {Max(U)}], s[Max(U)])
          BY <2>2, <3>4, RunUnfold
        <4> QED
          BY <4>1, <4>2 DEF m
      <3> QED
        BY <3>3, <3>5
    <2> QED
      BY <2>1, <2>2
  <1>2. IsFiniteSet(D)
    BY IndicesFinite, FS_Intersection
  <1>3. SUBSET D \subseteq Good
    <2> HIDE DEF Good, D
    <2> QED
      BY <1>1, <1>2, SubsetInduction
  <1> QED
    BY <1>3

LEMMA RunExists ==
  ASSUME NEW u, NEW s, NEW S, Indices(S)
  PROVE  \E g : IsRun(g, u, s, S)
  <1> DEFINE Good == {T \in SUBSET S : \E g : IsRun(g, u, s, T)}
  <1>1. ASSUME NEW T \in SUBSET S, \A U \in SUBSET T : U # T => U \in Good
        PROVE  T \in Good
    <2> DEFINE h(U) == CHOOSE g : IsRun(g, u, s, U)
               v(U) == h(U)[U]
               rest(U) == U \ {Max(U)}
               g0 == [U \in SUBSET T |-> IF U = {} THEN u ELSE Ripple(v(rest(U)), s[Max(U)])]
    <2>1. \A U \in SUBSET T : U # T => IsRun(h(U), u, s, U)
      BY <1>1
    <2>0. \A U \in SUBSET T : U # {} => rest(U) \in SUBSET U /\ rest(U) # U
      BY MaxIn
    <2>2. ASSUME NEW W \in SUBSET T, W # {} PROVE g0[rest(W)] = v(rest(W))
      <3> DEFINE U == rest(W)
      <3>1. U \in SUBSET T /\ U # T
        BY <2>2, <2>0
      <3>2. IsRun(h(U), u, s, U)
        BY <2>1, <3>1
      <3>0. SUFFICES g0[U] = v(U)
        OBVIOUS
      <3> HIDE DEF U, h
      <3>3. CASE U = {}
        BY <3>1, <3>2, <3>3, RunUnfold
      <3>4. CASE U # {}
        <4> DEFINE w == rest(U)
        <4>1. w \in SUBSET U /\ w \in SUBSET T /\ w # T /\ w \in SUBSET (U \cap w)
          BY <3>1, <3>4, <2>0
        <4>2. IsRun(h(w), u, s, w)
          BY <2>1, <4>1
        <4>6. Indices(w)
          BY <4>1 DEF Indices
        <4>3. h(U)[w] = h(w)[w]
          <5> DEFINE a == h(U)
                     b == h(w)
          <5>1. IsRun(a, u, s, U) /\ IsRun(b, u, s, w) /\ w \in SUBSET (w \cap U)
            BY <3>2, <4>1, <4>2
          <5> HIDE DEF w, a, b
          <5>2. b[w] = a[w]
            BY <5>1, <4>6, RunsAgree
          <5> QED
            BY <5>2 DEF a, b
        <4>4. h(U)[U] = Ripple(h(U)[w], s[Max(U)])
          BY <3>2, <3>4, RunUnfold
        <4>5. g0[U] = Ripple(h(w)[w], s[Max(U)])
          BY <3>1, <3>4
        <4> QED
          BY <4>3, <4>4, <4>5
      <3> QED
        BY <3>3, <3>4
    <2>3. g0 = [U \in SUBSET T |-> IF U = {} THEN u ELSE Ripple(g0[U \ {Max(U)}], s[Max(U)])]
      <3> HIDE DEF v
      <3> QED
        BY <2>2
    <2> HIDE DEF g0
    <2> QED
      BY <2>3 DEF IsRun
  <1>2. SUBSET S \subseteq Good
    <2>1. IsFiniteSet(S)
      BY IndicesFinite
    <2> HIDE DEF Good
    <2> QED
      BY <1>1, <2>1, SubsetInduction
  <1> QED
    BY <1>2

LEMMA FoldIsRun ==
  ASSUME NEW u, NEW s, \E g : IsRun(g, u, s, DOMAIN s)
  PROVE  \E g : IsRun(g, u, s, DOMAIN s) /\ FoldLeft(Ripple, u, s) = g[DOMAIN s]
  BY DEF IsRun, FoldLeft, MapThenFoldSet

\* f is the state of the loop before the first turn and after every turn.
IsLoop(f, u, s) ==
    /\ f[0] = u
    /\ \A k \in 1..Len(s) : f[k] = Ripple(f[k - 1], s[k])

LEMMA FoldIsLoop ==
  ASSUME NEW S, NEW s \in Seq(S), NEW u
  PROVE  \E f : IsLoop(f, u, s) /\ FoldLeft(Ripple, u, s) = f[Len(s)]
  <1> DEFINE N == Len(s)
  <1>1. N \in Nat /\ DOMAIN s = 1..N
    OBVIOUS
  <1>6. Indices(1..N)
    BY <1>1 DEF Indices
  <1>2. PICK g : IsRun(g, u, s, 1..N) /\ FoldLeft(Ripple, u, s) = g[1..N]
    BY <1>1, <1>6, RunExists, FoldIsRun
  <1> DEFINE f == [k \in 0..N |-> g[1..k]]
  <1>3. f[0] = u
    <2>1. f[0] = g[{}]
      BY <1>1
    <2> QED
      BY <1>2, <2>1, RunUnfold
  <1>4. ASSUME NEW k \in 1..N PROVE f[k] = Ripple(f[k - 1], s[k])
    <2>1. 1..k \in SUBSET (1..N) /\ k \in 1..k /\ \A l \in 1..k : l <= k
      BY <1>1
    <2>2. Max(1..k) = k
      <3>1. Max(1..k) \in 1..k /\ \A l \in 1..k : l <= Max(1..k)
        BY <1>1, <2>1, MaxIs
      <3> QED
        BY <3>1, <2>1
    <2>3. (1..k) \ {k} = 1..(k - 1)
      BY <1>1
    <2>4. g[1..k] = Ripple(g[(1..k) \ {Max(1..k)}], s[Max(1..k)])
      <3> DEFINE D == 1..N
                 T == 1..k
      <3>1. T \in SUBSET D /\ T # {} /\ IsRun(g, u, s, D)
        BY <1>2, <2>1
      <3> HIDE DEF D, T
      <3>2. g[T] = Ripple(g[T \ {Max(T)}], s[Max(T)])
        BY <3>1, RunUnfold
      <3> QED
        BY <3>2 DEF T
    <2>5. f[k] = g[1..k] /\ f[k - 1] = g[1..(k - 1)]
      BY <1>1
    <2> QED
      BY <2>2, <2>3, <2>4, <2>5
  <1>5. f[N] = g[1..N]
    BY <1>1
  <1> HIDE DEF f
  <1> QED
    BY <1>2, <1>3, <1>4, <1>5 DEF IsLoop
-----------------------------------------------------------------------------
(***************************************************************************)
(* What a moved activity pushes.                                           *)
(***************************************************************************)

\* The times of a row.
IsTime(t) == t \in Time /\ t.start < t.end

\* s is all elements of S, each of them once.
Lists(s, S) ==
    /\ s \in Seq(S)
    /\ \A k, l \in 1..Len(s) : s[k] = s[l] => k = l
    /\ \A y \in S : \E k \in 1..Len(s) : s[k] = y

LEMMA SeqsList ==
  ASSUME NEW S, IsFiniteSet(S), NEW s \in SetToSeqs(S)
  PROVE  Lists(s, S)
  <1> DEFINE n == Cardinality(S)
             D == 1..n
  <1>1. n \in Nat
    BY FS_CardinalityType
  <1>2. IsFiniteSet(D) /\ Cardinality(D) = n
    BY <1>1, FS_Interval
  <1>3. s \in [D -> S] /\ \A k, l \in D : s[k] = s[l] => k = l
    BY DEF SetToSeqs
  <1>4. s \in Seq(S) /\ Len(s) = n
    BY <1>1, <1>3
  <1>5. s \in Injection(D, S)
    <2> HIDE DEF D
    <2> QED
      BY <1>3, Fun_IsInj
  <1>6. s \in Surjection(D, S)
    <2> HIDE DEF D
    <2> QED
      BY <1>2, <1>5, FS_Injection
  <1>7. \A y \in S : \E k \in D : s[k] = y
    BY <1>6 DEF Surjection
  <1> QED
    BY <1>3, <1>4, <1>7 DEF Lists

\* What is written so far, w, ends by e: x has its time and the others are pushed
\* behind one of them, and none overlaps another.
Clear(w, e, x, time) ==
    /\ e \in Nat
    /\ w \in [DOMAIN w -> Time]
    /\ x \in DOMAIN w /\ w[x] = time
    /\ \A y \in DOMAIN w : w[y].start < w[y].end /\ time.start <= w[y].start /\ w[y].end <= e
    /\ \A y, z \in DOMAIN w : y # z => ~Overlap(w[y], w[z])
    /\ \A y \in DOMAIN w \ {x} :
         /\ items[y].start < w[y].start
         /\ w[y].end - w[y].start = items[y].end - items[y].start
         /\ \E z \in DOMAIN w : w[y].start = w[z].end

\* What is written once y is pushed, too.
Behind(w, e, y) ==
    [z \in DOMAIN w \cup {y} |-> IF z = y THEN Pushed(y, e - items[y].start) ELSE w[z]]

IsBehind(w, e, y, v, d) == v = Behind(w, e, y) /\ d = Pushed(y, e - items[y].start).end

\* y collides with the last activity that moved.
Collides(w, e, y) ==
    /\ y \notin DOMAIN w /\ IsTime(items[y]) /\ items[y].start < e
    /\ \E z \in DOMAIN w : w[z].end = e

\* Pushing one more activity.
LEMMA PushIsClear ==
  ASSUME NEW w, NEW e, NEW x, NEW time, Clear(w, e, x, time),
         NEW y, Collides(w, e, y), NEW v, NEW d, IsBehind(w, e, y, v, d)
  PROVE  /\ Clear(v, d, x, time)
         /\ DOMAIN v = DOMAIN w \cup {y}
         /\ \E z \in DOMAIN v : v[z].end = d
  <1> v = Behind(w, e, y) /\ d = Pushed(y, e - items[y].start).end
    BY DEF IsBehind
  <1> USE DEF Behind
  <1>0. y \notin DOMAIN w /\ IsTime(items[y]) /\ items[y].start < e /\ \E z \in DOMAIN w : w[z].end = e
    BY DEF Collides
  <1>1. /\ items[y] \in Time /\ items[y].start \in Nat /\ items[y].end \in Nat
        /\ items[y].start < items[y].end /\ e \in Nat
    BY <1>0 DEF IsTime, Time, Clear
  <1>2. v[y] = [start |-> e, end |-> items[y].end + (e - items[y].start)]
    BY <1>1 DEF Pushed
  <1>3. d = items[y].end + (e - items[y].start) /\ d > e /\ d \in Nat
    BY <1>1 DEF Pushed
  <1>4. v[y] \in Time /\ v[y].start = e /\ v[y].end = d
    BY <1>1, <1>2, <1>3 DEF Time
  <1>5. \A z \in DOMAIN w : v[z] = w[z] /\ z # y
    BY <1>0
  <1>6. DOMAIN v = DOMAIN w \cup {y}
    OBVIOUS
  <1>7. \A z \in DOMAIN w : w[z] \in Time /\ w[z].start \in Nat /\ w[z].end \in Nat
    BY DEF Clear, Time
  <1>8. v \in [DOMAIN v -> Time]
    BY <1>4, <1>5, <1>7
  <1>9. time.start <= e /\ x \in DOMAIN w /\ w[x] = time
    BY <1>1, <1>7 DEF Clear
  <1>10. \A z \in DOMAIN v : v[z].start < v[z].end /\ time.start <= v[z].start /\ v[z].end <= d
    <2>1. \A z \in DOMAIN w : v[z].start < v[z].end /\ time.start <= v[z].start /\ v[z].end <= d
      BY <1>1, <1>3, <1>5, <1>7 DEF Clear
    <2> QED
      BY <1>3, <1>4, <1>6, <1>9, <2>1
  <1>11. ASSUME NEW a \in DOMAIN v, NEW b \in DOMAIN v, a # b
         PROVE  ~Overlap(v[a], v[b])
    <2>1. \A z \in DOMAIN w : w[z].end <= e
      BY DEF Clear
    <2>2. CASE a = y
      <3>1. b \in DOMAIN w
        BY <1>6, <1>11, <2>2
      <3> QED
        BY <1>1, <1>3, <1>4, <1>5, <1>7, <2>1, <2>2, <3>1 DEF Overlap
    <2>3. CASE b = y
      <3>1. a \in DOMAIN w
        BY <1>6, <1>11, <2>3
      <3> QED
        BY <1>1, <1>3, <1>4, <1>5, <1>7, <2>1, <2>3, <3>1 DEF Overlap
    <2>4. CASE a # y /\ b # y
      <3>1. a \in DOMAIN w /\ b \in DOMAIN w
        BY <1>6, <2>4
      <3> QED
        BY <1>5, <1>11, <3>1 DEF Clear
    <2> QED
      BY <2>2, <2>3, <2>4
  <1>12. ASSUME NEW a \in DOMAIN v, a # x
         PROVE  /\ items[a].start < v[a].start
                /\ v[a].end - v[a].start = items[a].end - items[a].start
                /\ \E z \in DOMAIN v : v[a].start = v[z].end
    <2>1. CASE a = y
      <3>1. \E z \in DOMAIN v : v[z].end = e
        BY <1>0, <1>5, <1>6
      <3> QED
        BY <1>0, <1>1, <1>3, <1>4, <2>1, <3>1
    <2>2. CASE a # y
      <3>1. a \in DOMAIN w \ {x}
        BY <1>6, <1>12, <2>2
      <3>2. /\ items[a].start < w[a].start
            /\ w[a].end - w[a].start = items[a].end - items[a].start
            /\ \E z \in DOMAIN w : w[a].start = w[z].end
        BY <3>1 DEF Clear
      <3> QED
        BY <1>5, <1>6, <3>1, <3>2
    <2> QED
      BY <2>1, <2>2
  <1>13. y \in DOMAIN v
    BY <1>6
  <1> HIDE DEF Pushed
  <1>14. Clear(v, d, x, time)
    BY <1>3, <1>5, <1>6, <1>8, <1>9, <1>10, <1>11, <1>12 DEF Clear
  <1> QED
    BY <1>4, <1>6, <1>13, <1>14

\* One turn of the loop that pushes y.
LEMMA RipplePushes ==
  ASSUME NEW g, NEW h, NEW y, h = Ripple(g, y), ~g.stop,
         NEW x, NEW time, Clear(g.writes, g.currentEnd, x, time),
         Collides(g.writes, g.currentEnd, y)
  PROVE  /\ h.stop = FALSE
         /\ Clear(h.writes, h.currentEnd, x, time)
         /\ DOMAIN h.writes = DOMAIN g.writes \cup {y}
         /\ \E z \in DOMAIN h.writes : h.writes[z].end = h.currentEnd
  <1>1. items[y].start \in Nat /\ g.currentEnd \in Nat /\ items[y].start < g.currentEnd
    BY DEF Collides, IsTime, Time, Clear
  <1>2. h = Push(g, y, Pushed(y, g.currentEnd - items[y].start).end)
    BY <1>1 DEF Ripple
  <1>3. h.stop = FALSE
    BY <1>2 DEF Push
  <1>4. IsBehind(g.writes, g.currentEnd, y, h.writes, h.currentEnd)
    BY <1>2 DEF IsBehind, Behind, Push
  <1> DEFINE w == g.writes
             e == g.currentEnd
             v == h.writes
             d == h.currentEnd
  <1>5. Clear(w, e, x, time) /\ Collides(w, e, y) /\ IsBehind(w, e, y, v, d)
    BY <1>4
  <1> HIDE DEF w, e, v, d
  <1>6. Clear(v, d, x, time) /\ DOMAIN v = DOMAIN w \cup {y} /\ \E z \in DOMAIN v : v[z].end = d
    BY <1>5, PushIsClear
  <1> QED
    BY <1>3, <1>6 DEF w, v, d

\* The loop after k turns over s: what does not move starts after all that does.
Turn(f, k, s, x, time) ==
    /\ f[k].stop \in BOOLEAN
    /\ Clear(f[k].writes, f[k].currentEnd, x, time)
    /\ \A y \in DOMAIN f[k].writes : y = x \/ \E l \in 1..k : y = s[l]
    /\ f[k].stop => k >= 1 /\ items[s[k]].start >= f[k].currentEnd
    /\ ~f[k].stop => /\ \E z \in DOMAIN f[k].writes : f[k].writes[z].end = f[k].currentEnd
                     /\ \A l \in 1..k : s[l] \in DOMAIN f[k].writes
    /\ \A l \in 1..k : s[l] \in DOMAIN f[k].writes \/ items[s[l]].start >= f[k].currentEnd

Sorted(s) == \A k \in 1..(Len(s) - 1) : items[s[k]].start <= items[s[k + 1]].start

LEMMA EveryTurn ==
  ASSUME NEW S, NEW s, Lists(s, S), Sorted(s), \A y \in S : IsTime(items[y]),
         NEW x, x \notin S, NEW time, NEW f, NEW k \in 1..Len(s),
         f[k] = Ripple(f[k - 1], s[k]), Turn(f, k - 1, s, x, time)
  PROVE  Turn(f, k, s, x, time)
  <1> DEFINE g == f[k - 1]
             y == s[k]
  <1>0. s \in Seq(S) /\ \A l, m \in 1..Len(s) : s[l] = s[m] => l = m
    BY DEF Lists
  <1>7. Len(s) \in Nat /\ \A l \in 1..Len(s) : s[l] \in S
    BY <1>0
  <1>8. /\ k - 1 \in Nat /\ k \in Nat /\ k >= 1
        /\ \A l \in 1..(k - 1) : l \in 1..k /\ l \in 1..Len(s) /\ l # k
    BY <1>7
  <1>1. /\ y \in S /\ IsTime(items[y])
        /\ \A l \in 1..(k - 1) : s[l] \in S /\ s[l] # y
    BY <1>0, <1>7, <1>8
  <1>2. \A l \in 1..k : l = k \/ l \in 1..(k - 1)
    OBVIOUS
  <1>3. \A z \in S : items[z].start \in Nat /\ items[z].end \in Nat
    BY DEF IsTime, Time
  <1>4. /\ g.stop \in BOOLEAN /\ Clear(g.writes, g.currentEnd, x, time) /\ g.currentEnd \in Nat
        /\ \A z \in DOMAIN g.writes : z = x \/ \E l \in 1..(k - 1) : z = s[l]
    BY DEF Turn, Clear
  <1>5. CASE g.stop \/ items[y].start >= g.currentEnd
    <2>1. f[k] = [g EXCEPT !.stop = TRUE]
      BY <1>5 DEF Ripple
    <2>2. f[k].stop = TRUE /\ f[k].currentEnd = g.currentEnd /\ f[k].writes = g.writes
      BY <2>1
    <2>3. items[y].start >= g.currentEnd
      <3>1. CASE g.stop
        <4>1. k - 1 >= 1 /\ items[s[k - 1]].start >= g.currentEnd
          BY <3>1 DEF Turn
        <4>2. k - 1 \in 1..(Len(s) - 1) /\ (k - 1) + 1 = k
          BY <1>7, <4>1
        <4>3. items[s[k - 1]].start <= items[y].start
          BY <4>2 DEF Sorted
        <4>4. s[k - 1] \in S
          BY <1>8, <1>1, <4>1
        <4> QED
          BY <1>1, <1>3, <1>4, <4>1, <4>3, <4>4
      <3> QED
        BY <1>5, <3>1
    <2>4. \A l \in 1..(k - 1) : s[l] \in DOMAIN g.writes \/ items[s[l]].start >= g.currentEnd
      BY DEF Turn
    <2>5. /\ \A z \in DOMAIN g.writes : z = x \/ \E l \in 1..k : z = s[l]
          /\ \A l \in 1..k : s[l] \in DOMAIN g.writes \/ items[s[l]].start >= g.currentEnd
      BY <1>2, <1>4, <1>8, <2>3, <2>4
    <2> HIDE DEF g
    <2> QED
      BY <1>4, <1>8, <2>2, <2>3, <2>5 DEF Turn
  <1>6. CASE ~(g.stop \/ items[y].start >= g.currentEnd)
    <2> DEFINE h == f[k]
    <2>1. h = Ripple(g, y) /\ ~g.stop
      BY <1>6
    <2>2. /\ \E z \in DOMAIN g.writes : g.writes[z].end = g.currentEnd
          /\ \A l \in 1..(k - 1) : s[l] \in DOMAIN g.writes
      BY <1>4, <1>6 DEF Turn
    <2>3. Collides(g.writes, g.currentEnd, y)
      <3>1. y \notin DOMAIN g.writes
        BY <1>1, <1>4
      <3>2. items[y].start < g.currentEnd
        BY <1>1, <1>3, <1>4, <1>6
      <3> QED
        BY <1>1, <2>2, <3>1, <3>2 DEF Collides
    <2>4. Clear(g.writes, g.currentEnd, x, time)
      BY <1>4
    <2>5. y = s[k] /\ k \in 1..k
      BY <1>8
    <2> HIDE DEF y, g, h
    <2>6. /\ h.stop = FALSE
          /\ Clear(h.writes, h.currentEnd, x, time)
          /\ DOMAIN h.writes = DOMAIN g.writes \cup {y}
          /\ \E z \in DOMAIN h.writes : h.writes[z].end = h.currentEnd
      BY <2>1, <2>3, <2>4, RipplePushes
    <2>7. \A l \in 1..k : s[l] \in DOMAIN h.writes
      BY <1>2, <2>2, <2>5, <2>6
    <2>8. \A z \in DOMAIN h.writes : z = x \/ \E l \in 1..k : z = s[l]
      BY <1>4, <1>8, <2>5, <2>6
    <2> QED
      BY <2>6, <2>7, <2>8 DEF Turn, h
  <1> QED
    BY <1>5, <1>6

\* What an update writes: x and those of the day after it that are pushed, none
\* overlapping another; what is not pushed starts when all of them have ended.
LEMMA WritesAreClear ==
  ASSUME Stored \subseteq Ids, \A y \in Stored : IsTime(items[y]),
         NEW x, NEW time, IsTime(time), NEW w \in Writes(x, time)
  PROVE  \E e : /\ Clear(w, e, x, time)
                /\ DOMAIN w \subseteq {x} \cup SubsequentItems(x, time)
                /\ \A y \in SubsequentItems(x, time) : y \in DOMAIN w \/ items[y].start >= e
  <1> DEFINE S == SubsequentItems(x, time)
             unmoved == [stop |-> FALSE, currentEnd |-> time.end, writes |-> [y \in {x} |-> time]]
  <1>1. PICK s \in SetToSeqs(S) : Sorted(s) /\ w = FoldLeft(Ripple, unmoved, s).writes
    BY DEF Writes, Sorted
  <1>2. /\ IsFiniteSet(S)
        /\ \A y \in S : IsTime(items[y])
        /\ x \notin S
    <2>1. S \subseteq Stored /\ x \notin S
      BY DEF SubsequentItems
    <2>2. IsFiniteSet(Ids)
      BY ItineraryAssumption
    <2> HIDE DEF S
    <2>3. S \subseteq Ids
      BY <2>1
    <2> QED
      BY <2>1, <2>2, <2>3, FS_Subset
  <1>3. time \in Time /\ time.start \in Nat /\ time.end \in Nat /\ time.start < time.end
    BY DEF IsTime, Time
  <1> HIDE DEF S
  <1>4. Lists(s, S)
    BY <1>1, <1>2, SeqsList
  <1>5. s \in Seq(S) /\ Len(s) \in Nat
    BY <1>4 DEF Lists
  <1>6. PICK f : IsLoop(f, unmoved, s) /\ FoldLeft(Ripple, unmoved, s) = f[Len(s)]
    <2> HIDE DEF unmoved
    <2> QED
      BY <1>5, FoldIsLoop
  <1>7. Turn(f, 0, s, x, time)
    <2>1. f[0] = unmoved
      BY <1>6 DEF IsLoop
    <2>2. /\ f[0].stop = FALSE /\ f[0].currentEnd = time.end /\ f[0].writes = [y \in {x} |-> time]
      BY <2>1
    <2>3. \A l \in 1..0 : FALSE
      OBVIOUS
    <2>4. Clear([y \in {x} |-> time], time.end, x, time)
      BY <1>3 DEF Clear
    <2> HIDE DEF unmoved
    <2> QED
      BY <2>2, <2>3, <2>4 DEF Turn
  <1> DEFINE N == Len(s)
             Good == {k \in 0..N : Turn(f, k, s, x, time)}
  <1>8. ASSUME NEW k \in 1..N, k - 1 \in Good
        PROVE  k \in Good
    <2>1. Turn(f, k - 1, s, x, time) /\ k \in 0..N
      BY <1>8
    <2>2. f[k] = Ripple(f[k - 1], s[k])
      BY <1>6 DEF IsLoop
    <2>3. Turn(f, k, s, x, time)
      <3> HIDE DEF Good, unmoved
      <3> QED
        BY <1>1, <1>2, <1>4, <2>1, <2>2, EveryTurn
    <2> QED
      BY <2>1, <2>3
  <1>9. N \in Good
    <2>1. 0 \in Good
      BY <1>5, <1>7
    <2>2. N \in Nat
      BY <1>5
    <2> HIDE DEF Good, N
    <2> QED
      BY <1>8, <2>1, <2>2, UpTo
  <1>10. Turn(f, N, s, x, time)
    BY <1>9
  <1> DEFINE e == f[N].currentEnd
  <1>11. w = f[N].writes
    BY <1>1, <1>6
  <1>12. /\ Clear(w, e, x, time)
         /\ \A y \in DOMAIN w : y = x \/ \E l \in 1..N : y = s[l]
         /\ \A l \in 1..N : s[l] \in DOMAIN w \/ items[s[l]].start >= e
    <2> HIDE DEF N, unmoved, Good
    <2> QED
      BY <1>10, <1>11 DEF Turn
  <1>13. /\ \A l \in 1..N : s[l] \in S
         /\ \A y \in S : \E l \in 1..N : s[l] = y
    BY <1>4, <1>5 DEF Lists
  <1> HIDE DEF e, N, Good, unmoved
  <1>14. /\ DOMAIN w \subseteq {x} \cup S
         /\ \A y \in S : y \in DOMAIN w \/ items[y].start >= e
    BY <1>12, <1>13
  <1> QED
    BY <1>12, <1>14 DEF S

\* The transaction writes what it read about: the day is clear, and what moved
\* was pushed.
LEMMA CommitClearsDay ==
  ASSUME Stored \subseteq Ids, \A y \in Stored : IsTime(items[y]),
         NEW x, NEW time, IsTime(time), NEW w \in Writes(x, time), DOMAIN w \subseteq Stored,
         items' = [y \in Stored |-> IF y \in DOMAIN w THEN w[y] ELSE items[y]],
         Disjoint(items, OthersOfDay(x, time)),
         \A y \in OthersOfDay(x, time) :
           items[y].start < time.start => items[y].end <= time.start
  PROVE  Disjoint(items', OthersOfDay(x, time) \cup {x})
  <1>1. PICK e : /\ Clear(w, e, x, time)
                 /\ DOMAIN w \subseteq {x} \cup SubsequentItems(x, time)
                 /\ \A y \in SubsequentItems(x, time) : y \in DOMAIN w \/ items[y].start >= e
    BY WritesAreClear
  <1>2. x \in DOMAIN w /\ x \in Stored
    BY <1>1 DEF Clear
  <1>3. ASSUME NEW y \in DOMAIN w, NEW z \in OthersOfDay(x, time), z \notin DOMAIN w
        PROVE  w[y].end <= items[z].start \/ items[z].end <= w[y].start
    <2>1. /\ z \in Stored /\ IsTime(items[z])
          /\ items[z].start \in Nat /\ items[z].end \in Nat /\ time.start \in Nat
      BY DEF OthersOfDay, IsTime, Time
    <2>2. /\ e \in Nat /\ w[y].start \in Nat /\ w[y].end \in Nat
          /\ time.start <= w[y].start /\ w[y].end <= e
      BY <1>1 DEF Clear, Time
    <2>3. CASE items[z].start < time.start
      <3>1. items[z].end <= time.start
        BY <2>3
      <3> QED
        BY <2>1, <2>2, <3>1
    <2>4. CASE items[z].start >= time.start
      <3>1. z \in SubsequentItems(x, time)
        BY <2>4 DEF SubsequentItems, OthersOfDay
      <3>2. items[z].start >= e
        BY <1>1, <1>3, <3>1
      <3> QED
        BY <2>1, <2>2, <3>2
    <2> QED
      BY <2>1, <2>3, <2>4
  <1>4. ASSUME NEW y \in DOMAIN w, NEW z \in OthersOfDay(x, time), z \notin DOMAIN w
        PROVE  ~Overlap(w[y], items[z]) /\ ~Overlap(items[z], w[y])
    <2>1. z \in Stored /\ items[z].start \in Nat /\ items[z].end \in Nat
      BY DEF OthersOfDay, IsTime, Time
    <2>2. w[y].start \in Nat /\ w[y].end \in Nat
      BY <1>1 DEF Clear, Time
    <2> QED
      BY <1>3, <1>4, <2>1, <2>2 DEF Overlap
  <1>5. /\ \A y \in DOMAIN w : items'[y] = w[y]
        /\ \A y \in OthersOfDay(x, time) \ DOMAIN w : items'[y] = items[y]
        /\ \A y, z \in DOMAIN w : y # z => ~Overlap(w[y], w[z])
    BY <1>1 DEF OthersOfDay, Clear
  <1>6. \A y \in (OthersOfDay(x, time) \cup {x}) : y \in DOMAIN w \/ y \in OthersOfDay(x, time) \ DOMAIN w
    BY <1>2
  <1>7. \A y, z \in OthersOfDay(x, time) : y # z => ~Overlap(items[y], items[z])
    BY DEF Disjoint
  <1> QED
    BY <1>4, <1>5, <1>6, <1>7 DEF Disjoint

LEMMA CommitMovesOnly ==
  ASSUME Stored \subseteq Ids, \A y \in Stored : IsTime(items[y]),
         NEW x, NEW time, IsTime(time), NEW w \in Writes(x, time), DOMAIN w \subseteq Stored,
         items' = [y \in Stored |-> IF y \in DOMAIN w THEN w[y] ELSE items[y]],
         NEW y \in Stored \ {x}, items'[y] # items[y]
  PROVE  /\ y \in OthersOfDay(x, time)
         /\ items[y].start >= time.start
         /\ items'[y].start > items[y].start
         /\ items'[y].end - items'[y].start = items[y].end - items[y].start
         /\ \E z \in OthersOfDay(x, time) \cup {x} : items'[y].start = items'[z].end
  <1>1. PICK e : /\ Clear(w, e, x, time)
                 /\ DOMAIN w \subseteq {x} \cup SubsequentItems(x, time)
    BY WritesAreClear
  <1>2. y \in DOMAIN w \ {x} /\ y \in SubsequentItems(x, time)
    BY <1>1
  <1>3. \A z \in DOMAIN w : items'[z] = w[z] /\ z \in OthersOfDay(x, time) \cup {x}
    BY <1>1 DEF SubsequentItems, OthersOfDay
  <1>4. /\ items[y].start < w[y].start
        /\ w[y].end - w[y].start = items[y].end - items[y].start
        /\ \E z \in DOMAIN w : w[y].start = w[z].end
    BY <1>1, <1>2 DEF Clear
  <1>5. /\ w[y].start \in Nat /\ items[y].start \in Nat /\ items[y].start >= time.start
        /\ y \in OthersOfDay(x, time)
    BY <1>1, <1>2 DEF Clear, IsTime, Time, SubsequentItems, OthersOfDay
  <1> QED
    BY <1>2, <1>3, <1>4, <1>5
-----------------------------------------------------------------------------
(***************************************************************************)
(* The rows of a plan.                                                     *)
(***************************************************************************)

\* A whole number of units and less than one more stays within the next ones.
LEMMA Blocks ==
  ASSUME NEW c \in Nat, NEW k \in Nat, NEW m \in Nat, k < m
  PROVE  /\ k * c \in Nat /\ m * c \in Nat /\ k * c + c <= m * c
  <1>1. \A a, b \in Nat : a * b \in Nat
    OBVIOUS
  <1>2. m - k - 1 \in Nat /\ m = k + 1 + (m - k - 1)
    OBVIOUS
  <1>3. ASSUME NEW d \in Nat PROVE (k + 1 + d) * c = k * c + c + d * c
    OBVIOUS
  <1>4. m * c = k * c + c + (m - k - 1) * c
    BY <1>2, <1>3
  <1>5. k * c \in Nat /\ m * c \in Nat /\ (m - k - 1) * c \in Nat
    BY <1>1, <1>2
  <1> QED
    BY <1>4, <1>5

\* Of one day, what has a higher number starts when the other has ended.
LEMMA LaterStartsLater ==
  ASSUME NEW answer \in Answers, Accepted(answer),
         NEW a \in answer, NEW b \in answer, a.day = b.day, a.order < b.order
  PROVE  b.start >= a.end
  <1> DEFINE N == b.order - a.order
             Good == {k \in 0..N : \A c \in answer :
                        c.day = a.day /\ c.order = a.order + k => k = 0 \/ c.start >= a.end}
  <1>1. \A c \in answer : c \in AiItem
    BY ItineraryAssumption
  <1>2. \A c \in answer : /\ c.day \in Nat /\ c.order \in Nat \ {0}
                          /\ c.start \in Nat /\ c.end \in Nat /\ c.start < c.end
    BY <1>1 DEF AiItem, Accepted, AiItemSchema
  <1>3. N \in Nat /\ N # 0 /\ a.order + N = b.order
    BY <1>2
  <1>4. ASSUME NEW k \in 1..N, k - 1 \in Good
        PROVE  k \in Good
    <2>1. SUFFICES ASSUME NEW c \in answer, c.day = a.day, c.order = a.order + k
                   PROVE  c.start >= a.end
      BY <1>3
    <2>2. PICK n : n = Cardinality(OfDay(answer, a.day))
      OBVIOUS
    <2>3. {d.order : d \in OfDay(answer, a.day)} = 1..n
      BY <2>2 DEF Accepted, validateAiItems
    <2>4. \A d \in answer : d.day = a.day => d.order \in 1..n
      BY <2>3 DEF OfDay
    <2>5. a.order + (k - 1) \in 1..n
      <3>1. c.order \in 1..n /\ a.order \in 1..n
        BY <2>1, <2>4
      <3>2. n \in Nat
        BY <2>2, <1>1, ItineraryAssumption, FS_Subset, FS_CardinalityType DEF OfDay
      <3> QED
        BY <1>2, <1>3, <2>1, <3>1, <3>2
    <2>6. PICK d \in OfDay(answer, a.day) : d.order = a.order + (k - 1)
      BY <2>3, <2>5
    <2>7. d \in answer /\ d.day = a.day
      BY <2>6 DEF OfDay
    <2>8. c.order = d.order + 1
      BY <1>2, <1>3, <2>1, <2>6
    <2>9. c.start >= d.end
      BY <2>1, <2>7, <2>8 DEF Accepted, validateAiItems, InTimeOrder
    <2>10. CASE k = 1
      <3>1. d = a
        BY <1>2, <2>6, <2>7, <2>10 DEF Accepted, validateAiItems
      <3> QED
        BY <2>9, <3>1
    <2>11. CASE k # 1
      <3>1. d.start >= a.end
        BY <1>3, <1>4, <2>6, <2>7, <2>11
      <3> QED
        BY <1>2, <2>1, <2>7, <2>9, <3>1
    <2> QED
      BY <2>10, <2>11
  <1>5. 0 \in Good
    BY <1>3
  <1>6. N \in Good
    <2> HIDE DEF N, Good
    <2> QED
      BY <1>3, <1>4, <1>5, UpTo
  <1> QED
    BY <1>3, <1>6

\* The rows of a plan are within the itinerary, do not overlap, and are numbered
\* in the order of time.
IsPlan(rows) ==
    /\ rows \subseteq PlanRow
    /\ \A p \in rows : p.start < p.end /\ p.end <= Days * Day
    /\ \A p, q \in rows :
         /\ p # q => ~Overlap(p, q)
         /\ (p.orderNo < q.orderNo) = (p.start < q.start)

\* The row of one item precedes that of another.
Precedes(p, q) == p.end <= q.start /\ p.start < q.start /\ p.orderNo < q.orderNo

LEMMA RowIs ==
  ASSUME NEW answer \in Answers, Accepted(answer), NEW a \in answer
  PROVE  /\ Row(a) \in PlanRow /\ Row(a).start < Row(a).end /\ Row(a).end <= Days * Day
  <1>1. a \in AiItem /\ Day \in Nat /\ Days \in Nat /\ Block \in Nat
    BY ItineraryAssumption
  <1>2. /\ a.day \in Nat \ {0} /\ a.order \in Nat \ {0} /\ a.start \in Nat /\ a.end \in Nat
        /\ a.start < a.end /\ a.end < Day /\ a.day <= Days
    BY <1>1 DEF AiItem, Accepted, AiItemSchema, validateAiItems
  <1>3. a.day - 1 \in Nat /\ a.day - 1 < Days
    BY <1>1, <1>2
  <1>4. /\ (a.day - 1) * Day \in Nat /\ Days * Day \in Nat
        /\ (a.day - 1) * Day + Day <= Days * Day
    BY <1>1, <1>3, Blocks
  <1>5. (a.day - 1) * Block \in Nat
    BY <1>1, <1>3, Blocks
  <1>6. /\ Row(a).start = (a.day - 1) * Day + a.start
        /\ Row(a).end = (a.day - 1) * Day + a.end
        /\ Row(a).orderNo = a.order + (a.day - 1) * Block
    BY DEF Row
  <1> DEFINE m == (a.day - 1) * Day
             k == (a.day - 1) * Block
  <1>7. m \in Nat /\ k \in Nat /\ m + Day <= Days * Day
    BY <1>4, <1>5
  <1>8. Row(a) = [start |-> m + a.start, end |-> m + a.end, orderNo |-> a.order + k]
    BY DEF Row
  <1> HIDE DEF m, k
  <1>9. m + a.start \in Nat /\ m + a.end \in Nat /\ a.order + k \in Nat \ {0}
    BY <1>2, <1>7
  <1>10. Row(a) \in PlanRow
    BY <1>8, <1>9 DEF PlanRow
  <1>11. m + a.start < m + a.end /\ m + a.end <= Days * Day
    BY <1>1, <1>2, <1>4, <1>7
  <1> QED
    BY <1>8, <1>10, <1>11

LEMMA RowsPrecede ==
  ASSUME NEW answer \in Answers, Accepted(answer), NEW a \in answer, NEW b \in answer,
         a.day < b.day \/ (a.day = b.day /\ a.order < b.order)
  PROVE  Precedes(Row(a), Row(b))
  <1>1. Day \in Nat /\ Days \in Nat /\ Block \in Nat /\ \A c \in answer : c \in AiItem
    BY ItineraryAssumption
  <1>2. \A c \in answer :
          /\ c.day \in Nat \ {0} /\ c.order \in Nat \ {0} /\ c.start \in Nat /\ c.end \in Nat
          /\ c.start < c.end /\ c.end < Day /\ c.order < Block
    BY <1>1 DEF AiItem, Accepted, AiItemSchema
  <1> DEFINE m == (a.day - 1) * Day
             n == (b.day - 1) * Day
             k == (a.day - 1) * Block
             l == (b.day - 1) * Block
  <1>3. /\ Row(a) = [start |-> m + a.start, end |-> m + a.end, orderNo |-> a.order + k]
        /\ Row(b) = [start |-> n + b.start, end |-> n + b.end, orderNo |-> b.order + l]
    BY DEF Row
  <1>4. a.day - 1 \in Nat /\ b.day - 1 \in Nat
    BY <1>2
  <1>5. m \in Nat /\ n \in Nat /\ k \in Nat /\ l \in Nat
    <2>1. \A c, d \in Nat : c * d \in Nat
      OBVIOUS
    <2> QED
      BY <1>1, <1>4, <2>1
  <1>6. CASE a.day < b.day
    <2>1. a.day - 1 < b.day - 1
      BY <1>2, <1>6
    <2>2. m + Day <= n /\ k + Block <= l
      BY <1>1, <1>4, <2>1, Blocks
    <2> HIDE DEF m, n, k, l
    <2>3. /\ m + a.end <= n + b.start /\ m + a.start < n + b.start
          /\ a.order + k < b.order + l
      BY <1>1, <1>2, <1>5, <2>2
    <2> QED
      BY <1>3, <2>3 DEF Precedes
  <1>7. CASE a.day = b.day /\ a.order < b.order
    <2>1. m = n /\ k = l
      BY <1>7
    <2>2. b.start >= a.end
      BY <1>7, LaterStartsLater
    <2> HIDE DEF m, n, k, l
    <2>3. /\ m + a.end <= n + b.start /\ m + a.start < n + b.start
          /\ a.order + k < b.order + l
      BY <1>2, <1>5, <1>7, <2>1, <2>2
    <2> QED
      BY <1>3, <2>3 DEF Precedes
  <1> QED
    BY <1>6, <1>7

LEMMA RowsArePlan ==
  ASSUME NEW answer \in Answers, Accepted(answer)
  PROVE  IsPlan({Row(a) : a \in answer})
  <1> DEFINE rows == {Row(a) : a \in answer}
  <1>1. \A p \in rows : /\ p \in PlanRow /\ p.start < p.end /\ p.end <= Days * Day
    BY RowIs
  <1>2. ASSUME NEW a \in answer, NEW b \in answer
        PROVE  Row(a) = Row(b) \/ Precedes(Row(a), Row(b)) \/ Precedes(Row(b), Row(a))
    <2>1. /\ a.day \in Nat /\ a.order \in Nat /\ b.day \in Nat /\ b.order \in Nat
          /\ (a.day = b.day /\ a.order = b.order => a = b)
      BY ItineraryAssumption DEF AiItem, Accepted, validateAiItems
    <2>2. CASE a.day < b.day \/ (a.day = b.day /\ a.order < b.order)
      BY <2>2, RowsPrecede
    <2>3. CASE b.day < a.day \/ (b.day = a.day /\ b.order < a.order)
      BY <2>3, RowsPrecede
    <2>4. CASE a.day = b.day /\ a.order = b.order
      BY <2>1, <2>4
    <2> QED
      BY <2>1, <2>2, <2>3, <2>4
  <1>3. \A p, q \in rows : p = q \/ Precedes(p, q) \/ Precedes(q, p)
    BY <1>2
  <1> HIDE DEF rows
  <1>4. \A p \in rows : p.start \in Nat /\ p.end \in Nat /\ p.orderNo \in Nat /\ p.start < p.end
    BY <1>1 DEF PlanRow
  <1>5. ASSUME NEW p \in rows, NEW q \in rows
        PROVE  /\ p # q => ~Overlap(p, q)
               /\ (p.orderNo < q.orderNo) = (p.start < q.start)
    <2>1. CASE p = q
      BY <1>4, <2>1
    <2>2. CASE Precedes(p, q)
      BY <1>4, <2>2 DEF Precedes, Overlap
    <2>3. CASE Precedes(q, p)
      BY <1>4, <2>3 DEF Precedes, Overlap
    <2> QED
      BY <1>3, <2>1, <2>2, <2>3
  <1>6. rows \subseteq PlanRow
    BY <1>1
  <1>7. IsPlan(rows)
    BY <1>1, <1>5, <1>6 DEF IsPlan
  <1> QED
    BY <1>7 DEF rows
-----------------------------------------------------------------------------
(***************************************************************************)
(* The invariant: the times of the rows, those a request holds, and those  *)
(* it will insert.                                                         *)
(***************************************************************************)

Table == UNION {[S -> Time] : S \in SUBSET Ids}

Ops == {"idle", "update", "shift", "ask", "replace"}

Requested == [op : Ops, id : Ids \cup {Absent}, time : Time, writes : Table,
              rows : SUBSET PlanRow, sees : SUBSET Ids]

\* A table of times that are in order.
GoodTable(t) == t \in Table /\ \A x \in DOMAIN t : IsTime(t[x])

GoodRequest(q) ==
    /\ q \in Requested
    /\ q.op \in {"update", "shift"} => IsTime(q.time)
    /\ GoodTable(q.writes)
    /\ IsPlan(q.rows)

RequestsInv == req \in [Requests -> Requested] /\ \A r \in Requests : GoodRequest(req[r])

ItineraryInv == GoodTable(items) /\ RequestsInv

LEMMA TableIs == \A t, S : S \subseteq Ids /\ t \in [S -> Time] => t \in Table /\ DOMAIN t = S
  BY DEF Table

LEMMA TableHas ==
  ASSUME NEW t, t \in Table
  PROVE  DOMAIN t \subseteq Ids /\ t \in [DOMAIN t -> Time]
  <1>1. PICK S \in SUBSET Ids : t \in [S -> Time]
    BY DEF Table
  <1> QED
    BY <1>1

LEMMA TimesAreTimes ==
  ASSUME NEW t, GoodTable(t)
  PROVE  DOMAIN t \subseteq Ids /\ t \in [DOMAIN t -> Time] /\ \A x \in DOMAIN t : IsTime(t[x])
  BY TableHas DEF GoodTable

\* A table put together from rows whose times are in order.
LEMMA GoodTableIf ==
  ASSUME NEW t, NEW S, S \subseteq Ids, t \in [S -> Time], \A x \in S : IsTime(t[x])
  PROVE  GoodTable(t)
  <1>1. t \in Table /\ DOMAIN t = S
    BY TableIs
  <1> QED
    BY <1>1 DEF GoodTable

LEMMA EmptyTable == \A y : GoodTable([x \in {} |-> y])
  <1> TAKE y
  <1> DEFINE t == [x \in {} |-> y]
  <1>1. t \in [{} -> Time] /\ \A x \in {} : IsTime(t[x])
    OBVIOUS
  <1> HIDE DEF t
  <1>2. GoodTable(t)
    BY <1>1, GoodTableIf
  <1> QED
    BY <1>2 DEF t

LEMMA IdleIsGood == GoodRequest(Idle)
  <1>1. GoodTable(NoWrites)
    BY EmptyTable DEF NoWrites
  <1>2. Idle \in Requested
    BY <1>1 DEF Idle, Requested, Ops, Time, GoodTable
  <1>3. IsPlan({})
    BY DEF IsPlan
  <1> QED
    BY <1>1, <1>2, <1>3 DEF GoodRequest, Idle

LEMMA InsertionsAreGood ==
  ASSUME NEW rows, IsPlan(rows), NEW S, S \subseteq Ids, NEW t \in Insertions(rows, S)
  PROVE  GoodTable(t)
  <1>0. PICK D \in kSubset(Cardinality(rows), S) : \E f \in Bijection(D, rows) :
          t = [x \in DOMAIN f |-> [start |-> f[x].start, end |-> f[x].end]]
    BY DEF Insertions
  <1>1. PICK f \in Bijection(D, rows) :
          t = [x \in DOMAIN f |-> [start |-> f[x].start, end |-> f[x].end]]
    BY <1>0
  <1>2. D \subseteq Ids
    BY DEF kSubset
  <1>3. f \in [D -> rows]
    BY DEF Bijection, Injection
  <1>4. ASSUME NEW x \in D PROVE IsTime(t[x])
    <2>1. f[x] \in rows /\ t[x] = [start |-> f[x].start, end |-> f[x].end]
      BY <1>1, <1>3
    <2>2. f[x] \in PlanRow /\ f[x].start < f[x].end
      BY <2>1 DEF IsPlan
    <2> QED
      BY <2>1, <2>2 DEF IsTime, Time, PlanRow
  <1>5. t \in [D -> Time]
    BY <1>1, <1>3, <1>4 DEF IsTime
  <1> QED
    BY <1>2, <1>4, <1>5, GoodTableIf

LEMMA InitInv == Init => ItineraryInv
  <1> SUFFICES ASSUME Init PROVE ItineraryInv
    OBVIOUS
  <1>1. GoodTable(items)
    <2>1. CASE items = [x \in {} |-> Absent]
      BY <2>1, EmptyTable
    <2>2. ASSUME NEW answer \in Answers, Accepted(answer),
                 items \in Insertions({Row(a) : a \in answer}, Ids)
          PROVE  GoodTable(items)
      <3>1. IsPlan({Row(a) : a \in answer})
        BY <2>2, RowsArePlan
      <3> QED
        BY <2>2, <3>1, InsertionsAreGood
    <2> QED
      BY <2>1, <2>2 DEF Init
  <1>2. RequestsInv
    BY IdleIsGood DEF Init, RequestsInv, GoodRequest
  <1> QED
    BY <1>1, <1>2 DEF ItineraryInv

\* One request goes on with q.
LEMMA RequestStep ==
  ASSUME RequestsInv, NEW r \in Requests, NEW q, GoodRequest(q), req' = [req EXCEPT ![r] = q]
  PROVE  RequestsInv'
  <1>1. q \in Requested
    BY DEF GoodRequest
  <1>2. req' \in [Requests -> Requested]
    BY <1>1 DEF RequestsInv
  <1>3. \A p \in Requests : req'[p] = IF p = r THEN q ELSE req[p]
    BY DEF RequestsInv
  <1>4. \A p \in Requests : GoodRequest(req'[p])
    BY <1>3 DEF RequestsInv
  <1> QED
    BY <1>2, <1>4 DEF RequestsInv

LEMMA Finishes ==
  ASSUME RequestsInv, NEW r \in Requests, Finish(r)
  PROVE  RequestsInv'
  BY IdleIsGood, RequestStep DEF Finish

LEMMA CreateInv ==
  ASSUME ItineraryInv, NEW r \in Requests, NEW time \in [start : Times, end : Times], Create(r, time)
  PROVE  ItineraryInv'
  <1>1. PICK x \in Fresh : items' = [y \in Stored \cup {x} |-> IF y = x THEN time ELSE items[y]]
    BY DEF Create
  <1>2. x \in Ids
    BY DEF Fresh
  <1>3. IsTime(time)
    BY ItineraryAssumption DEF IsTime, Time, Create
  <1>4. Stored \subseteq Ids /\ items \in [Stored -> Time] /\ \A y \in Stored : IsTime(items[y])
    BY TimesAreTimes DEF ItineraryInv, Stored
  <1>5. /\ Stored \cup {x} \subseteq Ids
        /\ items' \in [Stored \cup {x} -> Time]
        /\ \A y \in Stored \cup {x} : IsTime(items'[y])
    BY <1>1, <1>2, <1>3, <1>4 DEF IsTime
  <1>6. GoodTable(items)'
    BY <1>5, GoodTableIf
  <1>7. RequestsInv'
    BY DEF ItineraryInv, RequestsInv, Create
  <1> QED
    BY <1>6, <1>7 DEF ItineraryInv

LEMMA UpdateReadInv ==
  ASSUME ItineraryInv, NEW r \in Requests, NEW x \in Ids, NEW s \in 0..Latest, NEW e \in 0..Latest,
         UpdateRead(r, x, [start |-> s, end |-> e])
  PROVE  ItineraryInv'
  <1> DEFINE time == [start |-> s, end |-> e]
             q == [Idle EXCEPT !.op = "update", !.id = x, !.time = time]
  <1>1. Latest \in Nat
    BY ItineraryAssumption
  <1>2. IsTime(time)
    BY <1>1 DEF UpdateRead, IsTime, Time
  <1>3. GoodRequest(Idle) /\ Idle \in Requested
    BY IdleIsGood DEF GoodRequest
  <1> HIDE DEF time
  <1>4. /\ q \in Requested /\ q.time = time
        /\ q.writes = Idle.writes /\ q.rows = Idle.rows
    BY <1>2, <1>3 DEF Requested, Ops, Idle, IsTime
  <1>5. GoodRequest(q)
    BY <1>2, <1>3, <1>4 DEF GoodRequest
  <1>6. req' = [req EXCEPT ![r] = q] /\ items' = items
    BY DEF UpdateRead, time
  <1> HIDE DEF q
  <1>7. RequestsInv'
    BY <1>5, <1>6, RequestStep DEF ItineraryInv
  <1> QED
    BY <1>6, <1>7 DEF ItineraryInv

LEMMA UpdateBeginInv ==
  ASSUME ItineraryInv, NEW r \in Requests, UpdateBegin(r)
  PROVE  ItineraryInv'
  <1>1. PICK w \in Writes(req[r].id, req[r].time) :
          req' = [req EXCEPT ![r] = [req[r] EXCEPT !.op = "shift", !.writes = w]]
    BY DEF UpdateBegin, ItineraryInv, RequestsInv
  <1>2. Stored \subseteq Ids /\ \A y \in Stored : IsTime(items[y])
    BY TimesAreTimes DEF ItineraryInv, Stored
  <1> DEFINE x == req[r].id
             time == req[r].time
             q == [req[r] EXCEPT !.op = "shift", !.writes = w]
  <1>3. GoodRequest(req[r]) /\ req[r] \in Requested
    BY DEF ItineraryInv, RequestsInv, GoodRequest
  <1>4. IsTime(time) /\ req[r].op = "update" /\ req[r].id \in Stored
    BY <1>3 DEF UpdateBegin, GoodRequest
  <1>5. GoodTable(w)
    <2> HIDE DEF x, time, q
    <2>1. w \in Writes(x, time)
      BY <1>1 DEF x, time
    <2>2. PICK d : /\ Clear(w, d, x, time)
                   /\ DOMAIN w \subseteq {x} \cup SubsequentItems(x, time)
      BY <1>2, <1>4, <2>1, WritesAreClear
    <2>3. x \in Ids /\ SubsequentItems(x, time) \subseteq Ids
      BY <1>2, <1>4 DEF x, SubsequentItems
    <2>4. /\ DOMAIN w \subseteq Ids /\ w \in [DOMAIN w -> Time]
          /\ \A y \in DOMAIN w : IsTime(w[y])
      BY <2>2, <2>3 DEF Clear, IsTime
    <2> QED
      BY <2>4, GoodTableIf
  <1>6. /\ q \in Requested /\ q.op = "shift" /\ q.writes = w
        /\ q.time = req[r].time /\ q.rows = req[r].rows
    BY <1>3, <1>5 DEF Requested, Ops, GoodTable
  <1>7. GoodRequest(q)
    BY <1>3, <1>4, <1>5, <1>6 DEF GoodRequest
  <1>8. req' = [req EXCEPT ![r] = q] /\ items' = items
    BY <1>1 DEF UpdateBegin
  <1> HIDE DEF q
  <1>9. RequestsInv'
    BY <1>7, <1>8, RequestStep DEF ItineraryInv
  <1> QED
    BY <1>8, <1>9 DEF ItineraryInv

LEMMA UpdateCommitInv ==
  ASSUME ItineraryInv, NEW r \in Requests, UpdateCommit(r)
  PROVE  ItineraryInv'
  <1> DEFINE w == req[r].writes
  <1>1. Stored \subseteq Ids /\ items \in [Stored -> Time] /\ \A y \in Stored : IsTime(items[y])
    BY TimesAreTimes DEF ItineraryInv, Stored
  <1>2. GoodTable(w)
    BY DEF ItineraryInv, RequestsInv, GoodRequest
  <1>3. w \in [DOMAIN w -> Time] /\ \A y \in DOMAIN w : IsTime(w[y])
    <2> HIDE DEF w
    <2> QED
      BY <1>2, TimesAreTimes
  <1>4. items' = [y \in Stored |-> IF y \in DOMAIN w THEN w[y] ELSE items[y]]
    BY DEF UpdateCommit
  <1> HIDE DEF w
  <1>5. items' \in [Stored -> Time] /\ \A y \in Stored : IsTime(items'[y])
    BY <1>1, <1>3, <1>4
  <1>6. GoodTable(items)'
    BY <1>1, <1>5, GoodTableIf
  <1>7. RequestsInv'
    BY Finishes DEF ItineraryInv, UpdateCommit
  <1> QED
    BY <1>6, <1>7 DEF ItineraryInv

LEMMA DeleteInv ==
  ASSUME ItineraryInv, NEW r \in Requests, NEW x \in Ids, Delete(r, x)
  PROVE  ItineraryInv'
  <1>1. Stored \subseteq Ids /\ items \in [Stored -> Time] /\ \A y \in Stored : IsTime(items[y])
    BY TimesAreTimes DEF ItineraryInv, Stored
  <1>2. items' = [y \in Stored \ {x} |-> items[y]] /\ req' = req
    BY DEF Delete
  <1>3. /\ Stored \ {x} \subseteq Ids /\ items' \in [Stored \ {x} -> Time]
        /\ \A y \in Stored \ {x} : IsTime(items'[y])
    BY <1>1, <1>2
  <1>4. GoodTable(items)'
    BY <1>3, GoodTableIf
  <1> QED
    BY <1>2, <1>4 DEF ItineraryInv, RequestsInv

LEMMA AskInv ==
  ASSUME ItineraryInv, NEW r \in Requests, Ask(r)
  PROVE  ItineraryInv'
  <1> DEFINE q == [Idle EXCEPT !.op = "ask"]
  <1>1. GoodRequest(Idle) /\ Idle \in Requested
    BY IdleIsGood DEF GoodRequest
  <1>2. /\ q \in Requested /\ q.op = "ask" /\ q.writes = Idle.writes /\ q.rows = Idle.rows
    BY <1>1 DEF Requested, Ops, Idle
  <1>3. GoodRequest(q)
    BY <1>1, <1>2 DEF GoodRequest
  <1>4. req' = [req EXCEPT ![r] = q] /\ items' = items
    BY DEF Ask
  <1> HIDE DEF q
  <1>5. RequestsInv'
    BY <1>3, <1>4, RequestStep DEF ItineraryInv
  <1> QED
    BY <1>4, <1>5 DEF ItineraryInv

LEMMA ReplaceBeginInv ==
  ASSUME ItineraryInv, NEW r \in Requests, NEW answer \in Answers, ReplaceBegin(r, answer)
  PROVE  ItineraryInv'
  <1> DEFINE rows == {Row(a) : a \in answer}
             q == [req[r] EXCEPT !.op = "replace", !.sees = Stored, !.rows = rows]
  <1>1. IsPlan(rows)
    BY RowsArePlan DEF ReplaceBegin
  <1> HIDE DEF rows
  <1>2. rows \subseteq PlanRow
    BY <1>1 DEF IsPlan
  <1>3. GoodRequest(req[r]) /\ req[r] \in Requested
    BY DEF ItineraryInv, RequestsInv, GoodRequest
  <1>4. Stored \subseteq Ids
    BY TimesAreTimes DEF ItineraryInv, Stored
  <1>5. q \in Requested /\ q.op = "replace" /\ q.writes = req[r].writes /\ q.rows = rows
    BY <1>2, <1>3, <1>4 DEF Requested, Ops
  <1>6. GoodRequest(q)
    BY <1>1, <1>3, <1>5 DEF GoodRequest
  <1>7. req' = [req EXCEPT ![r] = q] /\ items' = items
    BY DEF ReplaceBegin, rows, ItineraryInv, RequestsInv
  <1> HIDE DEF q
  <1>8. RequestsInv'
    BY <1>6, <1>7, RequestStep DEF ItineraryInv
  <1> QED
    BY <1>7, <1>8 DEF ItineraryInv

LEMMA ReplaceCommitInv ==
  ASSUME ItineraryInv, NEW r \in Requests, ReplaceCommit(r)
  PROVE  ItineraryInv'
  <1>1. PICK new \in Insertions(req[r].rows, Fresh) :
          items' = [y \in (Stored \ req[r].sees) \cup DOMAIN new |->
                      IF y \in DOMAIN new THEN new[y] ELSE items[y]]
    BY DEF ReplaceCommit
  <1>2. Stored \subseteq Ids /\ items \in [Stored -> Time] /\ \A y \in Stored : IsTime(items[y])
    BY TimesAreTimes DEF ItineraryInv, Stored
  <1>3. GoodTable(new)
    <2>1. IsPlan(req[r].rows) /\ Fresh \subseteq Ids
      BY DEF ItineraryInv, RequestsInv, GoodRequest, Fresh
    <2> QED
      BY <2>1, InsertionsAreGood
  <1>4. /\ DOMAIN new \subseteq Ids /\ new \in [DOMAIN new -> Time]
        /\ \A y \in DOMAIN new : IsTime(new[y])
    BY <1>3, TimesAreTimes
  <1> DEFINE S == (Stored \ req[r].sees) \cup DOMAIN new
  <1>5. S \subseteq Ids /\ items' \in [S -> Time] /\ \A y \in S : IsTime(items'[y])
    BY <1>1, <1>2, <1>4
  <1> HIDE DEF S
  <1>6. GoodTable(items)'
    BY <1>5, GoodTableIf
  <1>7. RequestsInv'
    BY Finishes DEF ItineraryInv, ReplaceCommit
  <1> QED
    BY <1>6, <1>7 DEF ItineraryInv

LEMMA StepInv == ItineraryInv /\ [Next]_vars => ItineraryInv'
  <1> SUFFICES ASSUME ItineraryInv, [Next]_vars PROVE ItineraryInv'
    OBVIOUS
  <1>1. ASSUME NEW r \in Requests, NEW time \in [start : Times, end : Times], Create(r, time)
        PROVE  ItineraryInv'
    BY <1>1, CreateInv
  <1>2. ASSUME NEW r \in Requests, NEW x \in Ids, NEW s \in 0..Latest, NEW e \in 0..Latest,
               UpdateRead(r, x, [start |-> s, end |-> e])
        PROVE  ItineraryInv'
    BY <1>2, UpdateReadInv
  <1>3. ASSUME NEW r \in Requests, UpdateBegin(r) PROVE ItineraryInv'
    BY <1>3, UpdateBeginInv
  <1>4. ASSUME NEW r \in Requests, UpdateCommit(r) PROVE ItineraryInv'
    BY <1>4, UpdateCommitInv
  <1>5. ASSUME NEW r \in Requests, UpdateRollback(r) \/ AskFails(r) PROVE ItineraryInv'
    <2>1. Finish(r) /\ items' = items
      BY <1>5 DEF UpdateRollback, AskFails
    <2> QED
      BY <2>1, Finishes DEF ItineraryInv
  <1>6. ASSUME NEW r \in Requests, NEW x \in Ids, Delete(r, x) PROVE ItineraryInv'
    BY <1>6, DeleteInv
  <1>7. ASSUME NEW r \in Requests, Ask(r) PROVE ItineraryInv'
    BY <1>7, AskInv
  <1>8. ASSUME NEW r \in Requests, NEW answer \in Answers, ReplaceBegin(r, answer)
        PROVE  ItineraryInv'
    BY <1>8, ReplaceBeginInv
  <1>9. ASSUME NEW r \in Requests, ReplaceCommit(r) PROVE ItineraryInv'
    BY <1>9, ReplaceCommitInv
  <1>10. CASE ServerCrash
    <2>1. RequestsInv'
      BY <1>10, IdleIsGood DEF ServerCrash, RequestsInv, GoodRequest
    <2> QED
      BY <1>10, <2>1 DEF ServerCrash, ItineraryInv
  <1>11. CASE UNCHANGED vars
    BY <1>11 DEF vars, ItineraryInv, RequestsInv
  <1> QED
    BY <1>1, <1>2, <1>3, <1>4, <1>5, <1>6, <1>7, <1>8, <1>9, <1>10, <1>11 DEF Next

LEMMA ItineraryIsInv == Spec => []ItineraryInv
  BY InitInv, StepInv, PTL DEF Spec
-----------------------------------------------------------------------------
\* The rows and the requests have their types: rows under known keys, whatever
\* updates, pushes and replacements of the whole plan interleave.
THEOREM ItineraryTypeCorrect == Spec => []TypeOK
  <1>1. ItineraryInv => TypeOK
    <2> SUFFICES ASSUME ItineraryInv PROVE TypeOK
      OBVIOUS
    <2>1. Stored \subseteq Ids /\ \A x \in Stored : items[x] \in Time
      BY TimesAreTimes DEF ItineraryInv, Stored
    <2>2. ASSUME NEW r \in Requests
          PROVE  /\ req[r] \in Requested /\ DOMAIN req[r].writes \subseteq Ids
                 /\ \A x \in DOMAIN req[r].writes : req[r].writes[x] \in Time
      <3>1. req[r] \in Requested /\ GoodTable(req[r].writes)
        BY DEF ItineraryInv, RequestsInv, GoodRequest
      <3> QED
        BY <3>1, TimesAreTimes
    <2> QED
      BY <2>1, <2>2 DEF TypeOK, Requested, Ops
  <1> QED
    BY <1>1, ItineraryIsInv, PTL

\* Every activity ends after it starts: the times an update computed before its
\* transaction, what it pushes and the rows of a plan are all in order, and each
\* is written as a pair.
THEOREM ActivitiesEndAfterTheyStart == Spec => []TimesInOrder
  <1>1. ItineraryInv => TimesInOrder
    BY TimesAreTimes DEF ItineraryInv, TimesInOrder, IsTime, Stored
  <1> QED
    BY <1>1, ItineraryIsInv, PTL

\* The rows a plan is stored as do not overlap, lie in the itinerary and are
\* numbered in the order of time, for every answer that validateAiItems accepts.
THEOREM AcceptedPlansAreOrdered == Spec => []PlanIsOrdered
  <1>1. ItineraryInv => PlanIsOrdered
    BY DEF ItineraryInv, RequestsInv, GoodRequest, IsPlan, PlanIsOrdered
  <1> QED
    BY <1>1, ItineraryIsInv, PTL

\* What both action properties speak of, as facts about the commit.
LEMMA CommitIs ==
  ASSUME ItineraryInv, NEW r \in Requests, UpdateCommit(r), Undisturbed(r)
  PROVE  /\ Stored \subseteq Ids /\ \A y \in Stored : IsTime(items[y])
         /\ IsTime(req[r].time)
         /\ req[r].writes \in Writes(req[r].id, req[r].time)
         /\ DOMAIN req[r].writes \subseteq Stored
         /\ items' = [y \in Stored |->
                        IF y \in DOMAIN req[r].writes THEN req[r].writes[y] ELSE items[y]]
  <1>1. Stored \subseteq Ids /\ \A y \in Stored : IsTime(items[y])
    BY TimesAreTimes DEF ItineraryInv, Stored
  <1>2. IsTime(req[r].time)
    BY DEF ItineraryInv, RequestsInv, GoodRequest, UpdateCommit
  <1> QED
    BY <1>1, <1>2 DEF UpdateCommit, Undisturbed

\* 'Update an itinerary item and auto-shift time': an update leaves a day without
\* overlap, of any number of activities, if the others did not overlap and none
\* was going on when the moved one starts.
THEOREM UpdatesClearTheDay == Spec => UpdateClearsDay
  <1>1. ASSUME ItineraryInv, NEW r \in Requests, UpdateCommit(r), Undisturbed(r),
               Disjoint(items, OthersOfDay(req[r].id, req[r].time)),
               \A y \in OthersOfDay(req[r].id, req[r].time) :
                 items[y].start < req[r].time.start => items[y].end <= req[r].time.start
        PROVE  Disjoint(items', OthersOfDay(req[r].id, req[r].time) \cup {req[r].id})
    <2> DEFINE x == req[r].id
               time == req[r].time
               w == req[r].writes
    <2>1. /\ Stored \subseteq Ids /\ \A y \in Stored : IsTime(items[y])
          /\ IsTime(time) /\ w \in Writes(x, time) /\ DOMAIN w \subseteq Stored
          /\ items' = [y \in Stored |-> IF y \in DOMAIN w THEN w[y] ELSE items[y]]
      BY <1>1, CommitIs
    <2>2. /\ Disjoint(items, OthersOfDay(x, time))
          /\ \A y \in OthersOfDay(x, time) :
               items[y].start < time.start => items[y].end <= time.start
      BY <1>1
    <2> HIDE DEF x, time, w
    <2>3. Disjoint(items', OthersOfDay(x, time) \cup {x})
      BY <2>1, <2>2, CommitClearsDay
    <2> QED
      BY <2>3 DEF x, time
  <1>2. ItineraryInv /\ [Next]_vars =>
          [\A r \in Requests :
             LET others == OthersOfDay(req[r].id, req[r].time)
             IN  UpdateCommit(r) /\ Undisturbed(r) /\ Disjoint(items, others)
                   /\ (\A y \in others : items[y].start < req[r].time.start
                                           => items[y].end <= req[r].time.start)
                 => Disjoint(items', others \cup {req[r].id})]_vars
    BY <1>1
  <1> QED
    BY <1>2, ItineraryIsInv, PTL DEF Spec, UpdateClearsDay

\* 'No collision, stop ripple': an update moves only what collides, later by the
\* collision and no further, and never changes the length of an activity.
THEOREM UpdatesMoveOnlyWhatCollides == Spec => UpdateMovesOnlyWhatCollides
  <1>1. ASSUME ItineraryInv, NEW r \in Requests, UpdateCommit(r), Undisturbed(r),
               NEW y \in Stored \ {req[r].id}, items'[y] # items[y]
        PROVE  /\ y \in OthersOfDay(req[r].id, req[r].time)
               /\ items[y].start >= req[r].time.start
               /\ items'[y].start > items[y].start
               /\ items'[y].end - items'[y].start = items[y].end - items[y].start
               /\ \E z \in OthersOfDay(req[r].id, req[r].time) \cup {req[r].id} :
                    items'[y].start = items'[z].end
    <2> DEFINE x == req[r].id
               time == req[r].time
               w == req[r].writes
    <2>1. /\ Stored \subseteq Ids /\ \A z \in Stored : IsTime(items[z])
          /\ IsTime(time) /\ w \in Writes(x, time) /\ DOMAIN w \subseteq Stored
          /\ items' = [z \in Stored |-> IF z \in DOMAIN w THEN w[z] ELSE items[z]]
      BY <1>1, CommitIs
    <2>2. y \in Stored \ {x} /\ items'[y] # items[y]
      BY <1>1
    <2> HIDE DEF x, time, w
    <2>3. /\ y \in OthersOfDay(x, time)
          /\ items[y].start >= time.start
          /\ items'[y].start > items[y].start
          /\ items'[y].end - items'[y].start = items[y].end - items[y].start
          /\ \E z \in OthersOfDay(x, time) \cup {x} : items'[y].start = items'[z].end
      BY <2>1, <2>2, CommitMovesOnly
    <2> QED
      BY <2>3 DEF x, time
  <1>2. ItineraryInv /\ [Next]_vars =>
          [\A r \in Requests : UpdateCommit(r) /\ Undisturbed(r) =>
             \A y \in Stored \ {req[r].id} :
               items'[y] # items[y] =>
                 /\ y \in OthersOfDay(req[r].id, req[r].time)
                 /\ items[y].start >= req[r].time.start
                 /\ items'[y].start > items[y].start
                 /\ items'[y].end - items'[y].start = items[y].end - items[y].start
                 /\ \E z \in OthersOfDay(req[r].id, req[r].time) \cup {req[r].id} :
                      items'[y].start = items'[z].end]_vars
    BY <1>1
  <1> QED
    BY <1>2, ItineraryIsInv, PTL DEF Spec, UpdateMovesOnlyWhatCollides
====
