--------------------------- MODULE Pipeline_proofs ----------------------------
EXTENDS Pipeline, FiniteSetTheorems, SequenceTheorems, WellFoundedInduction, TLAPS

-----------------------------------------------------------------------------
\* Induction up to n, from a least counterexample.
LEMMA UpTo ==
  ASSUME NEW n \in Nat, NEW S, 0 \in S, \A k \in 1..n : k - 1 \in S => k \in S
  PROVE  \A k \in 0..n : k \in S
<1> DEFINE R == {ss \in Nat \X Nat : ss[1] < ss[2]}
           B == {k \in 0..n : k \notin S}
<1>1. OpToRel(<, Nat) = R
  BY Zenon DEF OpToRel
<1>2. IsWellFoundedOn(R, Nat)
  BY <1>1, NatLessThanWellFounded, Zenon
<1>3. SUFFICES ASSUME B # {} PROVE FALSE
  OBVIOUS
<1>4. PICK k \in B : \A j \in B : ~(<<j, k>> \in R)
  <2>1. B \subseteq Nat
    OBVIOUS
  <2> HIDE DEF R, B
  <2> QED BY <1>2, <1>3, <2>1, WFMin
<1>5. k \in 1..n /\ k \in Nat /\ k - 1 \in 0..n
  OBVIOUS
<1>6. k - 1 \in B => <<k - 1, k>> \in R
  BY <1>5
<1>7. k - 1 \in S
  BY <1>4, <1>5, <1>6
<1> QED BY <1>5, <1>7

\* The largest of a set that has the largest number.
LEMMA MaxIs == ASSUME NEW S \in SUBSET Int, NEW x \in S, \A y \in S : y <= x PROVE Max(S) = x
<1>1. \A y \in S : (\A z \in S : y >= z) => y = x
  OBVIOUS
<1>2. \A z \in S : x >= z
  OBVIOUS
<1> QED BY <1>1, <1>2 DEF Max

\* Every set of places has a largest.
LEMMA MaxIn ==
  ASSUME NEW n \in Nat, NEW S \in SUBSET (1..n), S # {}
  PROVE  Max(S) \in S /\ \A y \in S : y <= Max(S)
<1> DEFINE Tops == {k \in 0..n : \A T \in SUBSET (1..k) : T # {} => \E x \in T : \A y \in T : y <= x}
<1>1. 0 \in Tops
  <2>1. 1..0 = {} /\ 0 \in 0..n
    OBVIOUS
  <2>2. \A T \in SUBSET (1..0) : T = {}
    BY <2>1
  <2> QED BY <2>1, <2>2, Zenon
<1>2. ASSUME NEW k \in 1..n, k - 1 \in Tops PROVE k \in Tops
  <2> SUFFICES ASSUME NEW T \in SUBSET (1..k), T # {} PROVE \E x \in T : \A y \in T : y <= x
    OBVIOUS
  <2>1. CASE k \in T
    BY <2>1
  <2>2. CASE k \notin T
    <3>1. T \in SUBSET (1..(k - 1))
      BY <2>2
    <3> QED BY <1>2, <3>1
  <2> QED BY <2>1, <2>2
<1>3. n \in Tops
  <2>1. n \in 0..n
    OBVIOUS
  <2> HIDE DEF Tops
  <2> QED BY <1>1, <1>2, <2>1, UpTo
<1>4. PICK x \in S : \A y \in S : y <= x
  BY <1>3
<1>5. Max(S) = x
  <2>1. S \in SUBSET Int
    OBVIOUS
  <2> QED BY <1>4, <2>1, MaxIs
<1> QED BY <1>4, <1>5

LEMMA TopOf ==
  ASSUME NEW k \in Nat, k > 0
  PROVE  /\ Max(1..k) = k /\ 1..k # {} /\ (1..k) \ {k} = 1..(k - 1) /\ 1..(k - 1) \subseteq 1..k
<1>1. Max(1..k) = k
  <2>1. 1..k \in SUBSET Int /\ k \in 1..k /\ \A y \in 1..k : y <= k
    OBVIOUS
  <2> QED BY <2>1, MaxIs
<1>2. ASSUME NEW i PROVE i \in (1..k) \ {k} <=> i \in 1..(k - 1)
  OBVIOUS
<1>3. k \in 1..k
  OBVIOUS
<1> QED BY <1>1, <1>2, <1>3

-----------------------------------------------------------------------------
(***************************************************************************)
(* Folds.  A fold over n items is a function of sets of places that takes  *)
(* away the last; that it exists is shown by induction.  The steps of the  *)
(* folds of the model are put together, so that this is done once.         *)
(***************************************************************************)
StepOf(c, x, i) ==
  CASE c.fold = "weighted"  -> Heavier(c.m, c.gs, x, i, c.groups)
    [] c.fold = "sanitized" ->
         UNION {IF r = Failed THEN {r} ELSE SanitizedBy(c.tr.sanitizers[i], r) : r \in x}
    [] c.fold = "templated" -> Filled(c.tr, c.id, x, c.order[i])
    [] c.fold = "defaulted" ->
         IF c.tr.mappings[i].default = Nil THEN x
         ELSE [x EXCEPT !.attrs[c.tr.mappings[i].target] = c.tr.mappings[i].default]
    [] c.fold = "among"     -> IF c.gs[i] \in c.S THEN Append(x, c.gs[i]) ELSE x
    [] c.fold = "replaced"  -> Replaced(x, c.order[i], c.id.attrs[c.order[i]])
    [] c.fold = "extended"  -> Extended(c.m, x, c.groups[c.gs[i]].attrs[c.m.source], NoHeap)
    [] c.fold = "mapped"    -> MappedAlone(c.tr, x, c.tr.mappings[i], c.groups)
    [] c.fold = "alone"     -> StepAlone(x, c.steps[i], c.groups)

IsFold(g, n, base, c) ==
  g = [s \in SUBSET (1..n) |-> IF s = {} THEN base ELSE StepOf(c, g[s \ {Max(s)}], Max(s))]

LEMMA FoldExists ==
  ASSUME NEW n \in Nat, NEW base, NEW c
  PROVE  \E g : IsFold(g, n, base, c)
<1> DEFINE S == {k \in 0..n : \E g : IsFold(g, k, base, c)}
<1>1. 0 \in S
  <2> DEFINE g == [s \in SUBSET (1..0) |-> base]
  <2>1. \A s \in SUBSET (1..0) : s = {}
    OBVIOUS
  <2>2. IsFold(g, 0, base, c)
    BY <2>1 DEF IsFold
  <2>3. 0 \in 0..n
    OBVIOUS
  <2> HIDE DEF g
  <2> QED BY <2>2, <2>3, Zenon
<1>2. ASSUME NEW k \in 1..n, k - 1 \in S PROVE k \in S
  <2>1. PICK g : IsFold(g, k - 1, base, c)
    BY <1>2
  <2> DEFINE f == [s \in SUBSET (1..k) |-> IF k \notin s THEN g[s] ELSE StepOf(c, g[s \ {k}], k)]
  <2>2. \A s \in SUBSET (1..k) : /\ k \notin s => s \in SUBSET (1..(k - 1))
                                 /\ s \ {k} \in SUBSET (1..(k - 1))
    OBVIOUS
  <2>3. ASSUME NEW s \in SUBSET (1..k)
        PROVE  f[s] = IF s = {} THEN base ELSE StepOf(c, f[s \ {Max(s)}], Max(s))
    <3>1. CASE k \in s
      <4>1. Max(s) = k
        <5>1. s \in SUBSET Int /\ \A y \in s : y <= k
          OBVIOUS
        <5> QED BY <3>1, <5>1, MaxIs
      <4>2. f[s \ {k}] = g[s \ {k}]
        BY <2>2
      <4> QED BY <3>1, <4>1, <4>2
    <3>2. CASE k \notin s
      <4>1. s \in SUBSET (1..(k - 1)) /\ f[s] = g[s]
        BY <2>2, <3>2
      <4>2. g[s] = IF s = {} THEN base ELSE StepOf(c, g[s \ {Max(s)}], Max(s))
        BY <2>1, <4>1 DEF IsFold
      <4>3. f[s \ {Max(s)}] = g[s \ {Max(s)}]
        BY <3>2
      <4> QED BY <4>1, <4>2, <4>3
    <3> QED BY <3>1, <3>2
  <2>4. IsFold(f, k, base, c)
    <3>1. f = [s \in SUBSET (1..k) |-> f[s]]
      OBVIOUS
    <3> HIDE DEF f
    <3> QED BY <2>3, <3>1 DEF IsFold
  <2>5. k \in 0..n
    OBVIOUS
  <2> HIDE DEF f
  <2> QED BY <2>4, <2>5
<1>3. n \in S
  <2> HIDE DEF S
  <2>1. \A k \in 0..n : k \in S
    BY <1>1, <1>2, UpTo
  <2> QED BY <2>1
<1> QED BY <1>3

\* The values that a fold goes through, from the base to the result.
Runs(w, n, base, c) ==
  /\ w[0] = base
  /\ \A k \in 1..n : w[k] = StepOf(c, w[k - 1], k)

LEMMA FoldRuns ==
  ASSUME NEW n \in Nat, NEW base, NEW c, NEW g, IsFold(g, n, base, c)
  PROVE  \E w : Runs(w, n, base, c) /\ w[n] = g[1..n]
<1> DEFINE w == [k \in 0..n |-> g[1..k]]
<1>1. w[0] = base
  <2>1. 1..0 = {} /\ 0 \in 0..n /\ {} \in SUBSET (1..n)
    OBVIOUS
  <2> QED BY <2>1 DEF IsFold
<1>2. ASSUME NEW k \in 1..n PROVE w[k] = StepOf(c, w[k - 1], k)
  <2>1. Max(1..k) = k /\ 1..k # {} /\ (1..k) \ {k} = 1..(k - 1)
    <3>1. k \in Nat /\ k > 0
      OBVIOUS
    <3> QED BY <3>1, TopOf
  <2>2. 1..k \in SUBSET (1..n) /\ k - 1 \in 0..n /\ k \in 0..n
    OBVIOUS
  <2>3. g[1..k] = StepOf(c, g[(1..k) \ {Max(1..k)}], Max(1..k))
    BY <2>1, <2>2 DEF IsFold
  <2>4. g[1..k] = StepOf(c, g[1..(k - 1)], k)
    BY <2>1, <2>3
  <2> QED BY <2>2, <2>4
<1>3. w[n] = g[1..n]
  BY n \in 0..n
<1> HIDE DEF w
<1> QED BY <1>1, <1>2, <1>3 DEF Runs

-----------------------------------------------------------------------------
(***************************************************************************)
(* Loops.  A loop is a step on a set of states, taken until it may stop;   *)
(* it ends because each step makes some measure smaller.                   *)
(***************************************************************************)
Loop(Sts, stop, next, Out, out) ==
  /\ stop \in SUBSET Sts /\ next \in [Sts -> Sts] /\ out \in [Sts -> Out]
Shrinks(Sts, stop, next, mu, M, R) ==
  /\ IsWellFoundedOn(R, M) /\ mu \in [Sts -> M]
  /\ \A s \in Sts \ stop : <<mu[next[s]], mu[s]>> \in R
Ends(Sts, stop, next, out, V) ==
  \A s \in Sts : V[s] = IF s \in stop THEN out[s] ELSE V[next[s]]

\* Induction along the loop: what holds where it stops and steps back, holds.
LEMMA LoopInduction ==
  ASSUME NEW Sts, NEW stop, NEW next, NEW mu, NEW M, NEW R,
         stop \in SUBSET Sts, next \in [Sts -> Sts], Shrinks(Sts, stop, next, mu, M, R),
         NEW Q, \A s \in stop : s \in Q, \A s \in Sts \ stop : next[s] \in Q => s \in Q
  PROVE  \A s \in Sts : s \in Q
<1> DEFINE Bad == {s \in Sts : s \notin Q}
           Sizes == {mu[s] : s \in Bad}
<1> SUFFICES ASSUME Bad # {} PROVE FALSE
  OBVIOUS
<1>1. Sizes # {} /\ Sizes \subseteq M
  BY DEF Shrinks
<1>2. PICK x \in Sizes : \A y \in Sizes : ~(<<y, x>> \in R)
  <2>1. IsWellFoundedOn(R, M)
    BY DEF Shrinks
  <2> HIDE DEF Sizes
  <2> QED BY <1>1, <2>1, WFMin
<1>3. PICK s \in Bad : x = mu[s]
  OBVIOUS
<1>4. s \in Sts \ stop /\ next[s] \in Sts /\ next[s] \notin Q
  OBVIOUS
<1>5. mu[next[s]] \in Sizes
  BY <1>4
<1> QED BY <1>2, <1>3, <1>4, <1>5 DEF Shrinks

\* The loop has a result from every state.
LEMMA LoopExists ==
  ASSUME NEW Sts, NEW stop, NEW next, NEW Out, NEW out, NEW mu, NEW M, NEW R,
         Loop(Sts, stop, next, Out, out), Shrinks(Sts, stop, next, mu, M, R)
  PROVE  \E V \in [Sts -> Out] : Ends(Sts, stop, next, out, V)
<1> USE DEF Loop
<1> DEFINE Closed(T) == \A s \in Sts, r \in Out :
                          (IF s \in stop THEN r = out[s] ELSE <<next[s], r>> \in T) => <<s, r>> \in T
           L == {p \in Sts \X Out : \A T \in SUBSET (Sts \X Out) : Closed(T) => p \in T}
<1>1. Closed(L)
  OBVIOUS
<1>2. ASSUME NEW s \in Sts, NEW r \in Out, <<s, r>> \in L
      PROVE  IF s \in stop THEN r = out[s] ELSE <<next[s], r>> \in L
  <2> SUFFICES ASSUME ~(IF s \in stop THEN r = out[s] ELSE <<next[s], r>> \in L) PROVE FALSE
    OBVIOUS
  <2> DEFINE T == L \ {<<s, r>>}
  <2>1. T \in SUBSET (Sts \X Out)
    OBVIOUS
  <2>2. Closed(T)
    <3> SUFFICES ASSUME NEW s1 \in Sts, NEW r1 \in Out,
                        IF s1 \in stop THEN r1 = out[s1] ELSE <<next[s1], r1>> \in T
                 PROVE  <<s1, r1>> \in T
      OBVIOUS
    <3>1. <<s1, r1>> \in L
      <4> HIDE DEF L
      <4> QED BY <1>1
    <3>2. <<s1, r1>> # <<s, r>>
      <4> HIDE DEF L
      <4> QED OBVIOUS
    <3> HIDE DEF L
    <3> QED BY <3>1, <3>2
  <2>3. <<s, r>> \in T
    <3> HIDE DEF T
    <3> QED BY <1>2, <2>1, <2>2
  <2> HIDE DEF L
  <2> QED BY <2>3
<1> HIDE DEF L
<1> DEFINE Q == {s \in Sts : \E r \in Out : <<s, r>> \in L /\ \A r1 \in Out : <<s, r1>> \in L => r1 = r}
<1>3. ASSUME NEW s \in stop PROVE s \in Q
  <2>1. s \in Sts /\ out[s] \in Out
    OBVIOUS
  <2>2. <<s, out[s]>> \in L
    BY <1>1, <2>1
  <2>3. \A r \in Out : <<s, r>> \in L => r = out[s]
    BY <1>2, <2>1
  <2> QED BY <2>1, <2>2, <2>3
<1>4. ASSUME NEW s \in Sts \ stop, next[s] \in Q PROVE s \in Q
  BY <1>1, <1>2, <1>4
<1>5. \A s \in Sts : s \in Q
  <2> HIDE DEF Q
  <2> QED BY <1>3, <1>4, LoopInduction
<1> DEFINE V == [s \in Sts |-> CHOOSE r \in Out : <<s, r>> \in L]
<1>6. \A s \in Sts : V[s] \in Out /\ <<s, V[s]>> \in L /\ \A r \in Out : <<s, r>> \in L => r = V[s]
  BY <1>5
<1>7. V \in [Sts -> Out]
  BY <1>6
<1>8. ASSUME NEW s \in Sts PROVE V[s] = IF s \in stop THEN out[s] ELSE V[next[s]]
  <2> HIDE DEF V
  <2>1. CASE s \in stop
    BY <1>1, <1>6, <2>1
  <2>2. CASE s \notin stop
    <3>1. next[s] \in Sts
      OBVIOUS
    <3> QED BY <1>1, <1>6, <2>2, <3>1
  <2> QED BY <2>1, <2>2
<1> HIDE DEF V
<1> QED BY <1>7, <1>8 DEF Ends

\* What a step keeps holds of the state that the loop stops in.
LEMMA LoopKeeps ==
  ASSUME NEW Sts, NEW stop, NEW next, NEW Out, NEW out, NEW mu, NEW M, NEW R, NEW V,
         Loop(Sts, stop, next, Out, out), Shrinks(Sts, stop, next, mu, M, R),
         Ends(Sts, stop, next, out, V),
         NEW I \in SUBSET Sts, \A s \in I \ stop : next[s] \in I,
         NEW s0 \in I
  PROVE  \E s \in I \cap stop : V[s0] = out[s]
<1> USE DEF Loop
<1> DEFINE Q == {s \in Sts : s \in I => \E e \in I \cap stop : V[s] = out[e]}
<1>1. \A s \in stop : s \in Q
  BY DEF Ends
<1>2. \A s \in Sts \ stop : next[s] \in Q => s \in Q
  BY DEF Ends
<1>3. \A s \in Sts : s \in Q
  <2> HIDE DEF Q
  <2> QED BY <1>1, <1>2, LoopInduction
<1> QED BY <1>3

-----------------------------------------------------------------------------
\* The mapping names an attribute to weigh the groups by.
Weighs(m) == m.weight # ""

\* The weighted value of a list of groups is a run.
WeightFold(m, gs, groups) == [fold |-> "weighted", m |-> m, gs |-> gs, groups |-> groups]
Weighing(w, m, gs, groups, n) ==
  /\ w[0] = 0 /\ \A k \in 1..n : w[k] = Heavier(m, gs, w[k - 1], k, groups)
  /\ Weighted(m, gs, groups) = IF w[n] = 0 \/ ~Weighs(m) THEN Nil
                               ELSE groups[gs[w[n]]].attrs[m.source]

LEMMA WeightedRuns ==
  ASSUME NEW m, NEW gs, NEW groups, NEW n \in Nat, DOMAIN gs = 1..n
  PROVE  \E w : Weighing(w, m, gs, groups, n)
<1> DEFINE c == WeightFold(m, gs, groups)
           places == [i \in DOMAIN gs |-> i]
           P(g) == g = [s \in SUBSET (DOMAIN places) |->
                          IF s = {} THEN 0
                          ELSE Heavier(m, gs, g[s \ {Max(s)}], places[Max(s)], groups)]
           iter == CHOOSE g : P(g)
<1>0. DOMAIN places = 1..n /\ \A k \in 1..n : places[k] = k
  OBVIOUS
<1>1. \A x, i : StepOf(c, x, i) = Heavier(m, gs, x, i, groups)
  BY DEF StepOf, WeightFold
<1>2. ASSUME NEW g PROVE P(g) <=> IsFold(g, n, 0, c)
  <2>1. ASSUME NEW s \in SUBSET (1..n), s # {}
        PROVE  Heavier(m, gs, g[s \ {Max(s)}], places[Max(s)], groups)
                 = StepOf(c, g[s \ {Max(s)}], Max(s))
    <3>1. Max(s) \in 1..n
      BY <2>1, MaxIn
    <3>2. places[Max(s)] = Max(s)
      BY <1>0, <3>1
    <3> HIDE DEF places, c
    <3> QED BY <1>1, <3>2
  <2> HIDE DEF c, places
  <2> QED BY <1>0, <2>1 DEF IsFold
<1>3. P(iter)
  <2>1. \E g : P(g)
    <3> HIDE DEF P, c
    <3> QED BY <1>2, FoldExists
  <2> HIDE DEF P
  <2> QED BY <2>1
<1>4. PICK w : Runs(w, n, 0, c) /\ w[n] = iter[1..n]
  <2> HIDE DEF P, iter, c
  <2> QED BY <1>2, <1>3, FoldRuns
<1>5. FoldLeftDomain(LAMBDA best, i : Heavier(m, gs, best, i, groups), 0, gs)
        = iter[DOMAIN places]
  BY DEF FoldLeftDomain, FoldLeft, MapThenFoldSet
<1>6. Weighted(m, gs, groups) = IF iter[1..n] = 0 \/ ~Weighs(m) THEN Nil
                                ELSE groups[gs[iter[1..n]]].attrs[m.source]
  <2> HIDE DEF iter, places
  <2> QED BY <1>0, <1>5, Zenon DEF Weighted, Weighs
<1> HIDE DEF iter, places, c
<1> QED BY <1>1, <1>4, <1>6 DEF Runs, Weighing

\* The groups can be compared; a group has the attribute; it beats another one.
Comparable(m, groups) ==
  \A g \in GroupIds : groups[g].rank \in Int /\ WeightOf(m, g, groups) \in Int
HasValue(m, g, groups) == groups[g].attrs[m.source] # Absent
Above(m, g, k, groups) ==
  \/ WeightOf(m, g, groups) > WeightOf(m, k, groups)
  \/ WeightOf(m, g, groups) = WeightOf(m, k, groups) /\ groups[g].rank <= groups[k].rank

LEMMA HeaviestFound ==
  ASSUME NEW m, NEW groups, NEW n \in Nat, NEW gs \in [1..n -> GroupIds],
         Weighs(m), Comparable(m, groups),
         NEW j \in 1..n, HasValue(m, gs[j], groups)
  PROVE  \E i \in 1..n :
           /\ HasValue(m, gs[i], groups) /\ Weighted(m, gs, groups) = groups[gs[i]].attrs[m.source]
           /\ \A k \in 1..n : HasValue(m, gs[k], groups) => Above(m, gs[i], gs[k], groups)
<1> DEFINE Has(k) == HasValue(m, gs[k], groups)
           W(k) == WeightOf(m, gs[k], groups)
           N(k) == groups[gs[k]].rank
           Over(i, k) == W(i) > W(k) \/ (W(i) = W(k) /\ N(i) <= N(k))
           Best(k, i) == IF i = 0 THEN \A l \in 1..k : ~Has(l)
                         ELSE Has(i) /\ \A l \in 1..k : Has(l) => Over(i, l)
<1>0. PICK w : Weighing(w, m, gs, groups, n)
  <2>1. DOMAIN gs = 1..n
    OBVIOUS
  <2> QED BY <2>1, WeightedRuns
<1>1. /\ w[0] = 0 /\ \A k \in 1..n : w[k] = Heavier(m, gs, w[k - 1], k, groups)
      /\ Weighted(m, gs, groups) = IF w[n] = 0 THEN Nil ELSE groups[gs[w[n]]].attrs[m.source]
  BY <1>0 DEF Weighing
<1>2. \A k \in 1..n : gs[k] \in GroupIds /\ W(k) \in Int /\ N(k) \in Int
  BY DEF Comparable
<1>3. \A k \in 0..n : w[k] \in 0..n
  <2> DEFINE T == {k \in 0..n : w[k] \in 0..n}
  <2>1. 0 \in T
    BY <1>1
  <2>2. ASSUME NEW k \in 1..n, k - 1 \in T PROVE k \in T
    BY <1>1, <2>2 DEF Heavier
  <2> HIDE DEF T
  <2>3. \A k \in 0..n : k \in T
    BY <2>1, <2>2, UpTo
  <2> QED BY <2>3 DEF T
<1>4. ASSUME NEW k \in 1..n
      PROVE  w[k] = IF Has(k) /\ (w[k - 1] = 0 \/ W(k) > W(w[k - 1])
                                  \/ (W(k) = W(w[k - 1]) /\ N(k) < N(w[k - 1])))
                    THEN k ELSE w[k - 1]
  BY <1>1 DEF Heavier, IsWinner, HasValue
<1> HIDE DEF Has, W, N
<1> DEFINE S == {k \in 0..n : Best(k, w[k])}
<1>5. 0 \in S
  <2>1. 0 \in 0..n /\ 1..0 = {}
    OBVIOUS
  <2> QED BY <1>1, <2>1
<1>6. ASSUME NEW k \in 1..n, k - 1 \in S PROVE k \in S
  <2>1. k - 1 \in 0..n /\ k \in 0..n /\ k # 0 /\ \A l \in 1..k : l = k \/ l \in 1..(k - 1)
    OBVIOUS
  <2>2. w[k - 1] \in 0..n /\ Best(k - 1, w[k - 1])
    BY <1>3, <1>6, <2>1
  <2>3. \A l \in 1..k : l \in 1..n
    OBVIOUS
  <2>4. CASE w[k] = k /\ w[k - 1] # k
    <3>1. Has(k)
      BY <1>4, <2>4
    <3>2. ASSUME NEW l \in 1..(k - 1), Has(l) PROVE Over(k, l)
      <4>1. l \in 1..k
        OBVIOUS
      <4>2. w[k - 1] # 0 /\ w[k - 1] \in 1..n /\ Over(w[k - 1], l)
        BY <2>2, <3>2
      <4>3. W(k) > W(w[k - 1]) \/ (W(k) = W(w[k - 1]) /\ N(k) < N(w[k - 1]))
        BY <1>4, <2>4, <4>2
      <4>4. /\ W(l) \in Int /\ N(l) \in Int /\ W(k) \in Int /\ N(k) \in Int
            /\ W(w[k - 1]) \in Int /\ N(w[k - 1]) \in Int
        BY <1>2, <2>3, <4>1, <4>2
      <4> HIDE DEF W, N
      <4> QED BY <4>2, <4>3, <4>4
    <3>3. Over(k, k)
      BY <1>2
    <3>4. \A l \in 1..k : Has(l) => Over(k, l)
      BY <2>1, <3>2, <3>3
    <3> HIDE DEF Over
    <3> QED BY <2>1, <2>4, <3>1, <3>4
  <2>5. CASE w[k] = w[k - 1]
    <3>1. CASE w[k] = 0
      <4>1. ~Has(k)
        BY <1>4, <2>1, <2>5, <3>1
      <4> QED BY <2>1, <2>2, <2>5, <3>1, <4>1
    <3>2. CASE w[k] # 0
      <4>1. w[k] \in 1..n /\ Has(w[k]) /\ \A l \in 1..(k - 1) : Has(l) => Over(w[k], l)
        BY <2>2, <2>5, <3>2
      <4>2. Has(k) => Over(w[k], k)
        <5>1. CASE w[k] = k
          BY <1>2, <5>1
        <5>2. CASE w[k] # k
          <6>1. Has(k) => ~(W(k) > W(w[k]) \/ (W(k) = W(w[k]) /\ N(k) < N(w[k])))
            BY <1>4, <2>5, <5>2
          <6> QED BY <1>2, <4>1, <6>1
        <5> QED BY <5>1, <5>2
      <4>3. \A l \in 1..k : Has(l) => Over(w[k], l)
        <5> HIDE DEF Over
        <5> QED BY <2>1, <4>1, <4>2
      <4> HIDE DEF Over
      <4> QED BY <2>1, <3>2, <4>1, <4>3
    <3> QED BY <3>1, <3>2
  <2>6. w[k] = k \/ w[k] = w[k - 1]
    BY <1>4
  <2> QED BY <2>4, <2>5, <2>6
<1>7. Best(n, w[n])
  <2>1. n \in 0..n
    OBVIOUS
  <2>2. \A k \in 0..n : k \in S
    <3> HIDE DEF S
    <3> QED BY <1>5, <1>6, UpTo
  <2> HIDE DEF Best
  <2> QED BY <2>1, <2>2
<1>8. w[n] # 0 /\ w[n] \in 1..n
  <2>1. Has(j)
    BY DEF Has
  <2>2. w[n] \in 0..n
    BY <1>3
  <2> QED BY <1>7, <2>1, <2>2
<1>9. Has(w[n]) /\ \A k \in 1..n : Has(k) => Over(w[n], k)
  <2> HIDE DEF Over
  <2> QED BY <1>7, <1>8
<1>10. Weighted(m, gs, groups) = groups[gs[w[n]]].attrs[m.source]
  BY <1>1, <1>8
<1> QED BY <1>8, <1>9, <1>10 DEF Has, W, N, Above

-----------------------------------------------------------------------------
\* What a behaviour starts from, it keeps.
Given == manifest \in [Targets -> Manifests] /\ source \in SourceData

LEMMA GivenKept == Spec => []Given
<1>1. Init => Given
  BY DEF Init, Given
<1>2. Given /\ [Next]_vars => Given'
  BY DEF Given, Next, vars, Build, Extend, Assign, Advance, Transform, Aggregate
<1> QED BY <1>1, <1>2, PTL DEF Spec

\* A finite set has an order, and an order leaves nothing out and has nothing twice.
LEMMA OrdersAreComplete ==
  ASSUME NEW S, IsFiniteSet(S), NEW order \in SetToSeqs(S)
  PROVE  LET n == Cardinality(S)
         IN /\ n \in Nat /\ order \in [1..n -> S] /\ \A x \in S : \E i \in 1..n : order[i] = x
            /\ \A i, j \in 1..n : i # j => order[i] # order[j]
<1> DEFINE n == Cardinality(S)
<1>2. n \in Nat
  BY FS_CardinalityType
<1>3. order \in [1..n -> S] /\ \A i, j \in 1..n : i # j => order[i] # order[j]
  BY DEF SetToSeqs
<1>4. order \in Injection(1..n, S)
  BY <1>3 DEF Injection, IsInjective
<1>5. Cardinality(1..n) = n
  <2> HIDE DEF n
  <2>1. 1 \in Int /\ n \in Int
    BY <1>2
  <2>2. Cardinality(1..n) = IF 1 > n THEN 0 ELSE n - 1 + 1
    BY <2>1, FS_Interval
  <2> QED BY <1>2, <2>2
<1>6. order \in Surjection(1..n, S)
  <2> HIDE DEF n
  <2> QED BY <1>4, <1>5, FS_Injection DEF n
<1> QED BY <1>2, <1>3, <1>6 DEF Surjection

LEMMA OrdersExist ==
  ASSUME NEW S, IsFiniteSet(S)
  PROVE  SetToSeqs(S) # {}
<1> DEFINE n == Cardinality(S)
<1>1. PICK f : f \in Bijection(1..n, S)
  BY FS_CardinalityType DEF ExistsBijection
<1>2. f \in [1..n -> S] /\ \A i, j \in 1..n : i # j => f[i] # f[j]
  BY <1>1 DEF Bijection, Injection, IsInjective
<1> QED BY <1>2 DEF SetToSeqs

\* The weighted value of an identity is the one of its heaviest group that has it,
\* whatever the order in which its groups are listed, for every set of groups and
\* every mapping (getWeightedValue).
THEOREM HeaviestDecides == Spec => []HeaviestWins
<1>1. Given => HeaviestWins
  <2> SUFFICES ASSUME Given,
                      NEW tr \in Aggregations, NEW m \in ToSet(tr.mappings),
                      m.mode = "weighted", Weighs(m),
                      NEW order \in SetToSeqs(GroupIds)
               PROVE  LET v == Weighted(m, order, source.groups)
                          having == {g \in GroupIds : HasValue(m, g, source.groups)}
                      IN having # {} =>
                           \E g \in having : /\ v = source.groups[g].attrs[m.source]
                                             /\ \A h \in having : Above(m, g, h, source.groups)
    BY Zenon DEF HeaviestWins, Weighs, HasValue, Above, Beats
  <2> SUFFICES ASSUME NEW g0 \in GroupIds, HasValue(m, g0, source.groups)
               PROVE  \E g \in GroupIds :
                        /\ HasValue(m, g, source.groups)
                        /\ Weighted(m, order, source.groups) = source.groups[g].attrs[m.source]
                        /\ \A h \in GroupIds : HasValue(m, h, source.groups) =>
                             Above(m, g, h, source.groups)
    BY Zenon
  <2> DEFINE n == Cardinality(GroupIds)
  <2>1. /\ n \in Nat /\ order \in [1..n -> GroupIds]
        /\ \A g \in GroupIds : \E i \in 1..n : order[i] = g
    <3>1. IsFiniteSet(GroupIds)
      BY SourceAssumption, Zenon DEF SourceAssumption
    <3> QED BY <3>1, OrdersAreComplete
  <2>2. m.weight \in Attrs
    <3>1. PICK t \in Targets : tr \in ToSet(manifest[t].transformers) /\ tr.type = "groupAggregation"
      BY Zenon DEF Aggregations
    <3>2. manifest[t] \in Manifests
      BY DEF Given
    <3> QED BY <3>1, <3>2, ManifestsAssumption, Zenon DEF ManifestsAssumption, Weighs
  <2>3. Comparable(m, source.groups)
    <3>1. \A g \in GroupIds :
            /\ source.groups[g].rank \in Int
            /\ LET v == source.groups[g].attrs[m.weight] IN Is(v, "number") => v.number \in Int
      BY <2>2, SourceAssumption, Zenon DEF SourceAssumption, Given
    <3> QED BY <3>1 DEF Comparable, WeightOf
  <2>4. PICK j \in 1..n : order[j] = g0
    BY <2>1
  <2>5. PICK i \in 1..n :
          /\ HasValue(m, order[i], source.groups)
          /\ Weighted(m, order, source.groups) = source.groups[order[i]].attrs[m.source]
          /\ \A k \in 1..n : HasValue(m, order[k], source.groups) =>
               Above(m, order[i], order[k], source.groups)
    <3> HIDE DEF n
    <3>1. HasValue(m, order[j], source.groups)
      BY <2>4
    <3> QED BY <2>1, <2>3, <3>1, HeaviestFound
  <2>6. order[i] \in GroupIds
    BY <2>1
  <2> HIDE DEF n
  <2> QED BY <2>1, <2>5, <2>6
<1> QED BY <1>1, GivenKept, PTL

-----------------------------------------------------------------------------
(***************************************************************************)
(* The walk over the parents of groups.                                    *)
(***************************************************************************)
\* The items of a list that is put together or taken apart.
LEMMA ItemsOfLists ==
  ASSUME NEW S, NEW a \in Seq(S), NEW b \in Seq(S), NEW x \in S
  PROVE  /\ ToSet(a \o b) = ToSet(a) \cup ToSet(b)
         /\ ToSet(Append(a, x)) = ToSet(a) \cup {x}
         /\ a # <<>> => ToSet(a) = {Head(a)} \cup ToSet(Tail(a))
         /\ Contains(a, x) <=> x \in ToSet(a)
<1>1. ASSUME NEW y PROVE y \in ToSet(a \o b) <=> y \in ToSet(a) \cup ToSet(b)
  <2>1. Len(a \o b) = Len(a) + Len(b) /\ Len(a) \in Nat /\ Len(b) \in Nat
    OBVIOUS
  <2>2. ASSUME NEW i \in 1..Len(a \o b) PROVE (a \o b)[i] \in ToSet(a) \cup ToSet(b)
    <3>1. CASE i <= Len(a)
      <4>1. (a \o b)[i] = a[i] /\ i \in DOMAIN a
        BY <3>1
      <4> QED BY <4>1 DEF ToSet
    <3>2. CASE ~(i <= Len(a))
      <4>1. (a \o b)[i] = b[i - Len(a)] /\ i - Len(a) \in DOMAIN b
        BY <2>1, <3>2
      <4> QED BY <4>1 DEF ToSet
    <3> QED BY <3>1, <3>2
  <2>3. ASSUME NEW i \in DOMAIN a PROVE a[i] \in ToSet(a \o b)
    <3>1. i \in DOMAIN (a \o b) /\ (a \o b)[i] = a[i]
      BY <2>1
    <3> QED BY <3>1 DEF ToSet
  <2>4. ASSUME NEW i \in DOMAIN b PROVE b[i] \in ToSet(a \o b)
    <3>1. i + Len(a) \in DOMAIN (a \o b) /\ (a \o b)[i + Len(a)] = b[i]
      BY <2>1
    <3> QED BY <3>1 DEF ToSet
  <2>5. DOMAIN (a \o b) = 1..Len(a \o b)
    OBVIOUS
  <2> QED BY <2>2, <2>3, <2>4, <2>5 DEF ToSet
<1>2. ASSUME NEW y PROVE y \in ToSet(Append(a, x)) <=> y \in ToSet(a) \cup {x}
  <2>1. /\ DOMAIN Append(a, x) = 1..(Len(a) + 1) /\ DOMAIN a = 1..Len(a) /\ Len(a) \in Nat
        /\ Append(a, x)[Len(a) + 1] = x /\ \A i \in DOMAIN a : Append(a, x)[i] = a[i]
    OBVIOUS
  <2>2. \A i \in 1..(Len(a) + 1) : i \in 1..Len(a) \/ i = Len(a) + 1
    BY <2>1
  <2>3. 1..Len(a) \subseteq 1..(Len(a) + 1) /\ Len(a) + 1 \in 1..(Len(a) + 1)
    BY <2>1
  <2> QED BY <2>1, <2>2, <2>3 DEF ToSet
<1>3. ASSUME a # <<>>, NEW y PROVE y \in ToSet(a) <=> y \in {Head(a)} \cup ToSet(Tail(a))
  <2>1. /\ DOMAIN Tail(a) = 1..(Len(a) - 1) /\ DOMAIN a = 1..Len(a) /\ Len(a) \in Nat /\ Len(a) > 0
        /\ Head(a) = a[1] /\ \A i \in 1..(Len(a) - 1) : Tail(a)[i] = a[i + 1]
    BY <1>3
  <2>2. \A i \in 1..Len(a) : i = 1 \/ (i - 1 \in 1..(Len(a) - 1) /\ (i - 1) + 1 = i)
    BY <2>1
  <2>3. 1 \in 1..Len(a) /\ \A i \in 1..(Len(a) - 1) : i + 1 \in 1..Len(a)
    BY <2>1
  <2>4. ASSUME NEW i \in 1..Len(a) PROVE a[i] \in {Head(a)} \cup ToSet(Tail(a))
    <3>1. CASE i = 1
      BY <2>1, <3>1
    <3>2. CASE i # 1
      <4>1. i - 1 \in DOMAIN Tail(a) /\ Tail(a)[i - 1] = a[i]
        BY <2>1, <2>2, <3>2
      <4> QED BY <4>1 DEF ToSet
    <3> QED BY <3>1, <3>2
  <2>5. ASSUME NEW i \in 1..(Len(a) - 1) PROVE Tail(a)[i] \in ToSet(a)
    BY <2>1, <2>3 DEF ToSet
  <2> QED BY <2>1, <2>3, <2>4, <2>5 DEF ToSet
<1>4. Contains(a, x) <=> x \in ToSet(a)
  BY DEF Contains, ToSet
<1> QED BY <1>1, <1>2, <1>3, <1>4

WalkStates == Seq(STRING) \X Seq(GroupIds)
WalkEnd == {s \in WalkStates : s[1] = <<>>}
WalkOn(groups) == [s \in WalkStates |-> IF s[1] = <<>> THEN s ELSE Follow(s, groups)]
WalkFound == [s \in WalkStates |-> s[2]]
HasParents(groups) == \A g \in GroupIds : groups[g].parents \in Seq(STRING)

LEMMA WalkSteps ==
  ASSUME NEW groups, HasParents(groups), NEW s \in WalkStates, s \notin WalkEnd
  PROVE  LET g == Head(s[1])  on == WalkOn(groups)[s]
         IN /\ s[1] \in Seq(STRING) /\ s[1] # <<>> /\ s[2] \in Seq(GroupIds)
            /\ on \in WalkStates
            /\ g \in GroupIds /\ g \notin ToSet(s[2]) =>
                 /\ on[1] = groups[g].parents \o Tail(s[1]) /\ on[2] = Append(s[2], g)
            /\ ~(g \in GroupIds /\ g \notin ToSet(s[2])) => on[1] = Tail(s[1]) /\ on[2] = s[2]
<1> DEFINE g == Head(s[1])
<1>1. s[1] \in Seq(STRING) /\ s[1] # <<>> /\ s[2] \in Seq(GroupIds) /\ s = <<s[1], s[2]>>
  BY DEF WalkStates, WalkEnd
<1>2. Tail(s[1]) \in Seq(STRING)
  BY <1>1
<1> DEFINE on == WalkOn(groups)[s]
           New == g \in GroupIds /\ g \notin ToSet(s[2])
<1>3. on = Follow(s, groups)
  BY <1>1 DEF WalkOn
<1>4. Contains(s[2], g) <=> g \in ToSet(s[2])
  BY DEF Contains, ToSet
<1>5. CASE ~New
  <2>1. on = <<Tail(s[1]), s[2]>>
    BY <1>3, <1>4, <1>5 DEF Follow
  <2>2. on \in WalkStates
    <3> HIDE DEF on
    <3> QED BY <1>1, <1>2, <2>1 DEF WalkStates
  <2>3. on[1] = Tail(s[1]) /\ on[2] = s[2]
    <3> HIDE DEF on
    <3> QED BY <2>1
  <2> HIDE DEF on, New
  <2> QED BY <1>1, <1>5, <2>2, <2>3 DEF on, New
<1>6. CASE New
  <2>1. on = <<groups[g].parents \o Tail(s[1]), Append(s[2], g)>>
    BY <1>3, <1>4, <1>6 DEF Follow, Ahead
  <2>2. groups[g].parents \in Seq(STRING)
    BY <1>6 DEF HasParents
  <2>3. groups[g].parents \o Tail(s[1]) \in Seq(STRING) /\ Append(s[2], g) \in Seq(GroupIds)
    BY <1>1, <1>2, <1>6, <2>2
  <2>4. on \in WalkStates
    <3> HIDE DEF on, g
    <3> QED BY <2>1, <2>3 DEF WalkStates
  <2>5. on[1] = groups[g].parents \o Tail(s[1]) /\ on[2] = Append(s[2], g)
    <3> HIDE DEF on, g
    <3> QED BY <2>1
  <2> HIDE DEF on, New
  <2> QED BY <1>1, <1>6, <2>4, <2>5 DEF on, New
<1> QED BY <1>5, <1>6

\* Each step finds a group that was not found, or leaves less to look at.
WalkSize == [s \in WalkStates |-> <<GroupIds \ ToSet(s[2]), Len(s[1])>>]
NatOrder == OpToRel(<, Nat)
SizeOrder ==
  LexPairOrdering(StrictSubsetOrdering(GroupIds), NatOrder, FiniteSubsetsOf(GroupIds), Nat)

LEMMA WalkShrinks ==
  ASSUME NEW groups, HasParents(groups)
  PROVE  /\ Loop(WalkStates, WalkEnd, WalkOn(groups), Seq(GroupIds), WalkFound)
         /\ Shrinks(WalkStates, WalkEnd, WalkOn(groups), WalkSize,
                    FiniteSubsetsOf(GroupIds) \X Nat, SizeOrder)
<1>1. ASSUME NEW s \in WalkStates
      PROVE  s[1] \in Seq(STRING) /\ s[2] \in Seq(GroupIds) /\ WalkOn(groups)[s] \in WalkStates
  <2>1. s[1] \in Seq(STRING) /\ s[2] \in Seq(GroupIds)
    BY DEF WalkStates
  <2>2. CASE s \in WalkEnd
    <3>1. s[1] = <<>>
      BY <2>2 DEF WalkEnd
    <3>2. WalkOn(groups)[s] = s
      BY <3>1 DEF WalkOn
    <3> QED BY <2>1, <3>2
  <2>3. CASE s \notin WalkEnd
    BY <2>3, WalkSteps
  <2> QED BY <2>1, <2>2, <2>3
<1>2. Loop(WalkStates, WalkEnd, WalkOn(groups), Seq(GroupIds), WalkFound)
  <2>1. WalkEnd \in SUBSET WalkStates
    BY DEF WalkEnd
  <2>2. WalkOn(groups) = [s \in WalkStates |-> WalkOn(groups)[s]]
    BY DEF WalkOn
  <2>3. WalkOn(groups) \in [WalkStates -> WalkStates]
    BY <1>1, <2>2
  <2>4. WalkFound \in [WalkStates -> Seq(GroupIds)]
    BY <1>1 DEF WalkFound
  <2> QED BY <2>1, <2>3, <2>4 DEF Loop
<1>3. IsWellFoundedOn(SizeOrder, FiniteSubsetsOf(GroupIds) \X Nat)
  <2>1. IsWellFoundedOn(NatOrder, Nat)
    BY NatLessThanWellFounded, Zenon DEF NatOrder
  <2> QED BY <2>1, FS_StrictSubsetOrderingWellFounded, WFLexPairOrdering DEF SizeOrder
<1>4. ASSUME NEW s \in WalkStates PROVE WalkSize[s] \in FiniteSubsetsOf(GroupIds) \X Nat
  <2>1. IsFiniteSet(GroupIds)
    BY SourceAssumption, Zenon DEF SourceAssumption
  <2>2. GroupIds \ ToSet(s[2]) \in FiniteSubsetsOf(GroupIds)
    BY <2>1, FS_Subset DEF FiniteSubsetsOf
  <2>3. Len(s[1]) \in Nat
    BY <1>1
  <2>4. WalkSize[s] = <<GroupIds \ ToSet(s[2]), Len(s[1])>>
    BY DEF WalkSize
  <2> DEFINE l == GroupIds \ ToSet(s[2])
             k == Len(s[1])
  <2>5. l \in FiniteSubsetsOf(GroupIds) /\ k \in Nat /\ WalkSize[s] = <<l, k>>
    BY <2>2, <2>3, <2>4
  <2> HIDE DEF l, k
  <2> QED BY <2>5
<1>5. ASSUME NEW s \in WalkStates \ WalkEnd
      PROVE  <<WalkSize[WalkOn(groups)[s]], WalkSize[s]>> \in SizeOrder
  <2> DEFINE on == WalkOn(groups)[s]
             g == Head(s[1])
             L(p) == GroupIds \ ToSet(p[2])
             N(p) == Len(p[1])
  <2>1. /\ s[1] \in Seq(STRING) /\ s[1] # <<>> /\ s[2] \in Seq(GroupIds) /\ on \in WalkStates
        /\ g \in GroupIds /\ g \notin ToSet(s[2]) => on[2] = Append(s[2], g)
        /\ ~(g \in GroupIds /\ g \notin ToSet(s[2])) => on[1] = Tail(s[1]) /\ on[2] = s[2]
    BY WalkSteps
  <2>2. WalkSize[s] = <<L(s), N(s)>> /\ WalkSize[on] = <<L(on), N(on)>>
    BY <2>1 DEF WalkSize
  <2>3. <<L(s), N(s)>> \in FiniteSubsetsOf(GroupIds) \X Nat /\ <<L(on), N(on)>> \in FiniteSubsetsOf(GroupIds) \X Nat
    <3> HIDE DEF on, L, N
    <3> QED BY <1>4, <2>1, <2>2
  <2>4. \/ <<L(on), L(s)>> \in StrictSubsetOrdering(GroupIds)
        \/ L(on) = L(s) /\ <<N(on), N(s)>> \in NatOrder
    <3>1. CASE g \in GroupIds /\ g \notin ToSet(s[2])
      <4>1. ToSet(on[2]) = ToSet(s[2]) \cup {g}
        <5>1. ToSet(Append(s[2], g)) = ToSet(s[2]) \cup {g}
          <6> HIDE DEF g
          <6> QED BY <2>1, <3>1, ItemsOfLists
        <5>2. on[2] = Append(s[2], g)
          BY <2>1, <3>1
        <5> HIDE DEF on, g
        <5> QED BY <5>1, <5>2
      <4>2. L(on) \subseteq L(s) /\ L(on) # L(s)
        <5> HIDE DEF on, g
        <5> QED BY <3>1, <4>1
      <4>3. L(on) \in SUBSET GroupIds /\ L(s) \in SUBSET GroupIds
        OBVIOUS
      <4> HIDE DEF L, on
      <4> QED BY <4>2, <4>3 DEF StrictSubsetOrdering
    <3>2. CASE ~(g \in GroupIds /\ g \notin ToSet(s[2]))
      <4>1. on[1] = Tail(s[1]) /\ on[2] = s[2]
        BY <2>1, <3>2
      <4>2. N(on) < N(s) /\ N(on) \in Nat /\ N(s) \in Nat
        <5> HIDE DEF on, g
        <5> QED BY <2>1, <4>1
      <4>3. L(on) = L(s)
        <5> HIDE DEF on, g
        <5> QED BY <4>1
      <4>4. <<N(on), N(s)>> \in NatOrder
        <5> HIDE DEF N, on
        <5> QED BY <4>2 DEF NatOrder, OpToRel
      <4> QED BY <4>3, <4>4
    <3> QED BY <3>1, <3>2
  <2> HIDE DEF L, N, on
  <2> QED BY <2>2, <2>3, <2>4 DEF SizeOrder, LexPairOrdering, on
<1>6. WalkSize \in [WalkStates -> FiniteSubsetsOf(GroupIds) \X Nat]
  <2>1. WalkSize = [s \in WalkStates |-> WalkSize[s]]
    BY DEF WalkSize
  <2> QED BY <1>4, <2>1
<1> QED BY <1>2, <1>3, <1>5, <1>6 DEF Shrinks

\* The walk of the model is that loop.
IsWalk(W, groups) ==
  W = [walk \in Seq(STRING) \X Seq(GroupIds) |->
         IF walk[1] = <<>> THEN walk[2] ELSE W[Follow(walk, groups)]]

LEMMA WalkExists ==
  ASSUME NEW groups, HasParents(groups)
  PROVE  \E W : IsWalk(W, groups)
<1>1. PICK V \in [WalkStates -> Seq(GroupIds)] : Ends(WalkStates, WalkEnd, WalkOn(groups), WalkFound, V)
  BY WalkShrinks, LoopExists
<1>2. ASSUME NEW s \in WalkStates
      PROVE  V[s] = IF s[1] = <<>> THEN s[2] ELSE V[Follow(s, groups)]
  BY <1>1 DEF Ends, WalkEnd, WalkFound, WalkOn
<1>3. V = [s \in WalkStates |-> IF s[1] = <<>> THEN s[2] ELSE V[Follow(s, groups)]]
  BY <1>2
<1> QED BY <1>3 DEF IsWalk, WalkStates

LEMMA WalkEnds ==
  ASSUME NEW groups, NEW W, IsWalk(W, groups)
  PROVE  Ends(WalkStates, WalkEnd, WalkOn(groups), WalkFound, W)
<1>1. \A s \in WalkStates : W[s] = IF s[1] = <<>> THEN s[2] ELSE W[Follow(s, groups)]
  BY DEF IsWalk, WalkStates
<1> QED BY <1>1 DEF Ends, WalkEnd, WalkFound, WalkOn

LEMMA ResolvedIs ==
  ASSUME NEW tr, NEW id, NEW groups, tr.includeParents, HasParents(groups)
  PROVE  \E W : IsWalk(W, groups) /\ Resolved(tr, id, groups) = W[<<id.groups, <<>>>>]
<1>1. Resolved(tr, id, groups) = (CHOOSE W : IsWalk(W, groups))[<<id.groups, <<>>>>]
  BY DEF Resolved, IsWalk
<1>2. IsWalk((CHOOSE W : IsWalk(W, groups)), groups)
  BY WalkExists, Zenon
<1> QED BY <1>1, <1>2, Zenon

\* What holds all along the walk from the names of an identity: the groups that are
\* still to be found are among those to look at, what is found cannot be missed in
\* any set that has the parents of its members, and nothing is found twice.
ParentsOf(S, groups) == {p \in GroupIds : \E g \in S : p \in ToSet(groups[g].parents)}
IsClosed(S, names, groups) ==
  ToSet(names) \cap GroupIds \subseteq S /\ ParentsOf(S, groups) \subseteq S
OnTheWay(names, groups) ==
  {s \in WalkStates :
     /\ ToSet(names) \cap GroupIds \subseteq ToSet(s[1]) \cup ToSet(s[2])
     /\ ParentsOf(ToSet(s[2]), groups) \subseteq ToSet(s[1]) \cup ToSet(s[2])
     /\ \A S \in SUBSET GroupIds : IsClosed(S, names, groups) =>
          ToSet(s[1]) \cap GroupIds \subseteq S /\ ToSet(s[2]) \subseteq S
     /\ Cardinality(ToSet(s[2])) = Len(s[2])}

LEMMA StaysOnTheWay ==
  ASSUME NEW groups, HasParents(groups), NEW names \in Seq(STRING),
         NEW s \in OnTheWay(names, groups) \ WalkEnd
  PROVE  WalkOn(groups)[s] \in OnTheWay(names, groups)
<1> DEFINE g == Head(s[1])
           on == WalkOn(groups)[s]
           Mine == ToSet(names) \cap GroupIds
<1>1. s \in WalkStates /\ s \notin WalkEnd
  BY DEF OnTheWay
<1>2. /\ s[1] \in Seq(STRING) /\ s[1] # <<>> /\ s[2] \in Seq(GroupIds) /\ on \in WalkStates
      /\ g \in GroupIds /\ g \notin ToSet(s[2]) =>
           on[1] = groups[g].parents \o Tail(s[1]) /\ on[2] = Append(s[2], g)
      /\ ~(g \in GroupIds /\ g \notin ToSet(s[2])) => on[1] = Tail(s[1]) /\ on[2] = s[2]
  BY <1>1, WalkSteps
<1>3. /\ Mine \subseteq ToSet(s[1]) \cup ToSet(s[2])
      /\ ParentsOf(ToSet(s[2]), groups) \subseteq ToSet(s[1]) \cup ToSet(s[2])
      /\ \A S \in SUBSET GroupIds : IsClosed(S, names, groups) =>
           ToSet(s[1]) \cap GroupIds \subseteq S /\ ToSet(s[2]) \subseteq S
      /\ Cardinality(ToSet(s[2])) = Len(s[2])
  BY DEF OnTheWay
<1>4. ToSet(s[1]) = {g} \cup ToSet(Tail(s[1])) /\ Tail(s[1]) \in Seq(STRING)
  <2>1. s[1][1] \in STRING
    BY <1>2
  <2>2. ToSet(s[1]) = {Head(s[1])} \cup ToSet(Tail(s[1]))
    <3> DEFINE a == s[1]
    <3>1. a \in Seq(STRING) /\ a # <<>> /\ a[1] \in STRING
      BY <1>2, <2>1
    <3> HIDE DEF a
    <3>2. ToSet(a) = {Head(a)} \cup ToSet(Tail(a))
      BY <3>1, ItemsOfLists
    <3> QED BY <3>2 DEF a
  <2>3. Tail(s[1]) \in Seq(STRING)
    <3>1. \A a \in Seq(STRING) : a # <<>> => Tail(a) \in Seq(STRING)
      OBVIOUS
    <3> QED BY <1>2, <3>1
  <2> QED BY <2>2, <2>3
<1>5. ToSet(s[2]) \in SUBSET GroupIds
  BY <1>2 DEF ToSet
<1> HIDE DEF on, g
<1>6. CASE ~(g \in GroupIds /\ g \notin ToSet(s[2]))
  <2>1. on[1] = Tail(s[1]) /\ on[2] = s[2]
    BY <1>2, <1>6
  <2>2. ParentsOf(ToSet(s[2]), groups) \subseteq GroupIds
    BY DEF ParentsOf
  <2>3. Mine \subseteq ToSet(on[1]) \cup ToSet(on[2])
    BY <1>3, <1>4, <1>6, <2>1
  <2>4. ParentsOf(ToSet(on[2]), groups) \subseteq ToSet(on[1]) \cup ToSet(on[2])
    BY <1>3, <1>4, <1>6, <2>1, <2>2
  <2>5. \A S \in SUBSET GroupIds : IsClosed(S, names, groups) =>
          ToSet(on[1]) \cap GroupIds \subseteq S /\ ToSet(on[2]) \subseteq S
    BY <1>3, <1>4, <2>1
  <2> QED BY <1>2, <1>3, <2>1, <2>3, <2>4, <2>5 DEF OnTheWay, on
<1>7. CASE g \in GroupIds /\ g \notin ToSet(s[2])
  <2>1. on[1] = groups[g].parents \o Tail(s[1]) /\ on[2] = Append(s[2], g)
    BY <1>2, <1>7
  <2> DEFINE parents == ToSet(groups[g].parents)
  <2>2. ToSet(on[1]) = parents \cup ToSet(Tail(s[1]))
    <3>1. groups[g].parents \in Seq(STRING) /\ g \in STRING
      BY <1>7, SourceAssumption, Zenon DEF HasParents, SourceAssumption
    <3> QED BY <1>4, <2>1, <3>1, ItemsOfLists
  <2>3. ToSet(on[2]) = ToSet(s[2]) \cup {g}
    BY <1>2, <1>7, <2>1, ItemsOfLists
  <2>4. ParentsOf(ToSet(on[2]), groups) = ParentsOf(ToSet(s[2]), groups) \cup (parents \cap GroupIds)
    <3>1. ASSUME NEW p
          PROVE  p \in ParentsOf(ToSet(s[2]) \cup {g}, groups)
                   <=> p \in ParentsOf(ToSet(s[2]), groups) \cup (parents \cap GroupIds)
      BY DEF ParentsOf
    <3> HIDE DEF parents
    <3> QED BY <2>3, <3>1
  <2>5. ASSUME NEW S \in SUBSET GroupIds, IsClosed(S, names, groups)
        PROVE  ToSet(on[1]) \cap GroupIds \subseteq S /\ ToSet(on[2]) \subseteq S
    <3>1. g \in S /\ ToSet(Tail(s[1])) \cap GroupIds \subseteq S /\ ToSet(s[2]) \subseteq S
      BY <1>3, <1>4, <1>7, <2>5
    <3>2. parents \cap GroupIds \subseteq S
      BY <2>5, <3>1 DEF IsClosed, ParentsOf
    <3> HIDE DEF parents
    <3> QED BY <2>2, <2>3, <3>1, <3>2
  <2> HIDE DEF parents
  <2>6. Mine \subseteq ToSet(on[1]) \cup ToSet(on[2])
    BY <1>3, <1>4, <2>2, <2>3
  <2>7. ParentsOf(ToSet(on[2]), groups) \subseteq ToSet(on[1]) \cup ToSet(on[2])
    BY <1>3, <1>4, <2>2, <2>3, <2>4
  <2>8. Cardinality(ToSet(on[2])) = Len(on[2])
    <3>1. IsFiniteSet(ToSet(s[2]))
      <4>1. IsFiniteSet(GroupIds)
        BY SourceAssumption, Zenon DEF SourceAssumption
      <4> QED BY <1>5, <4>1, FS_Subset
    <3>2. Cardinality(ToSet(s[2]) \cup {g}) = Cardinality(ToSet(s[2])) + 1
      BY <1>7, <3>1, FS_AddElement
    <3>3. Len(on[2]) = Len(s[2]) + 1
      BY <1>2, <1>7, <2>1
    <3> QED BY <1>3, <2>3, <3>2, <3>3
  <2> QED BY <1>2, <2>5, <2>6, <2>7, <2>8 DEF OnTheWay, on
<1> QED BY <1>6, <1>7

\* Inherited groups are the ones that a chain of parents leads to from the own ones,
\* all of them and each once, whatever the parents of the groups are (resolveGroups).
THEOREM InheritanceIsComplete == Spec => []InheritsReachable
<1>1. Given => InheritsReachable
  <2> SUFFICES ASSUME Given, NEW tr \in Aggregations, tr.includeParents, NEW u \in Uids
               PROVE  LET found == Resolved(tr, source.identities[u], source.groups)
                          own == ToSet(source.identities[u].groups) \cap GroupIds
                      IN /\ own \subseteq ToSet(found) /\ Reach(ToSet(found)) \subseteq ToSet(found)
                         /\ \A S \in SUBSET GroupIds :
                              own \subseteq S /\ Reach(S) \subseteq S => ToSet(found) \subseteq S
                         /\ Cardinality(ToSet(found)) = Len(found)
    BY Zenon DEF InheritsReachable
  <2> DEFINE names == source.identities[u].groups
             groups == source.groups
             s0 == <<names, <<>>>>
  <2>1. HasParents(groups) /\ names \in Seq(STRING)
    BY SourceAssumption, Zenon DEF SourceAssumption, Given, HasParents
  <2>2. PICK W : IsWalk(W, groups) /\ Resolved(tr, source.identities[u], groups) = W[s0]
    BY <2>1, ResolvedIs
  <2> HIDE DEF groups, names
  <2>3. s0 \in OnTheWay(names, groups)
    <3>0. <<>> \in Seq(GroupIds)
      OBVIOUS
    <3>1. s0[1] = names /\ s0[2] = <<>> /\ s0 \in WalkStates
      <4>1. s0 \in Seq(STRING) \X Seq(GroupIds)
        BY <2>1, <3>0
      <4>2. s0[1] = names /\ s0[2] = <<>>
        OBVIOUS
      <4> HIDE DEF s0
      <4> QED BY <4>1, <4>2 DEF WalkStates
    <3>2. ToSet(<<>>) = {} /\ Cardinality({}) = 0 /\ Len(<<>>) = 0
      BY FS_EmptySet DEF ToSet
    <3>3. ParentsOf({}, groups) = {}
      BY DEF ParentsOf
    <3> HIDE DEF s0
    <3> QED BY <3>1, <3>2, <3>3 DEF OnTheWay, IsClosed
  <2>4. PICK s \in OnTheWay(names, groups) \cap WalkEnd : W[s0] = WalkFound[s]
    <3>1. Ends(WalkStates, WalkEnd, WalkOn(groups), WalkFound, W)
      BY <2>2, WalkEnds
    <3>2. OnTheWay(names, groups) \in SUBSET WalkStates
      BY DEF OnTheWay
    <3>3. \A s \in OnTheWay(names, groups) \ WalkEnd : WalkOn(groups)[s] \in OnTheWay(names, groups)
      BY <2>1, StaysOnTheWay
    <3> HIDE DEF s0
    <3> QED BY <2>1, <2>3, <3>1, <3>2, <3>3, WalkShrinks, LoopKeeps
  <2>5. s \in WalkStates /\ s[1] = <<>> /\ W[s0] = s[2]
    <3> HIDE DEF s0
    <3> QED BY <2>4 DEF WalkEnd, WalkFound
  <2>6. ToSet(s[1]) = {}
    BY <2>5 DEF ToSet
  <2>7. \A S : Reach(S) = ParentsOf(S, groups)
    BY DEF Reach, ParentsOf, groups
  <2>8. /\ ToSet(names) \cap GroupIds \subseteq ToSet(s[2])
        /\ ParentsOf(ToSet(s[2]), groups) \subseteq ToSet(s[2])
        /\ \A S \in SUBSET GroupIds : IsClosed(S, names, groups) => ToSet(s[2]) \subseteq S
        /\ Cardinality(ToSet(s[2])) = Len(s[2])
    BY <2>4, <2>6 DEF OnTheWay
  <2> HIDE DEF s0
  <2> QED BY <2>2, <2>5, <2>7, <2>8 DEF IsClosed, names, groups
<1> QED BY <1>1, GivenKept, PTL

-----------------------------------------------------------------------------
(***************************************************************************)
(* Types.  The transformers never make of an identity what stands for one  *)
(* that is gone: only a selector removes an identity.                      *)
(***************************************************************************)
IsRecord(r) ==
  r = [own |-> r.own, disabled |-> r.disabled, groups |-> r.groups,
       attrs |-> [a \in Attrs |-> r.attrs[a]]]

LEMMA RecordKept ==
  ASSUME NEW r, IsRecord(r) PROVE r # Gone /\ r # Failed /\ DOMAIN r.attrs = Attrs
<1>1. DOMAIN r = {"own", "disabled", "groups", "attrs"} /\ DOMAIN r.attrs = Attrs
  BY DEF IsRecord
<1> QED BY <1>1 DEF Gone, Failed

LEMMA FetchedAre ==
  ASSUME Given
  PROVE  /\ DOMAIN source.identities = Uids
         /\ \A u \in Uids : LET id == source.identities[u] IN
              IsRecord(id) /\ id.groups \in Seq(STRING) /\ \A a \in Attrs : IsSlice(id.attrs[a])
  BY SourceAssumption, Zenon DEF SourceAssumption, Given, IsRecord

Set(r, a, x) == [r EXCEPT !.attrs[a] = x]
SetOwn(r, f, x) == [r EXCEPT !.own[f] = x]

LEMMA RecordSet ==
  ASSUME NEW r, IsRecord(r), NEW a, NEW x, NEW s, s = Set(r, a, x)
  PROVE  /\ IsRecord(s) /\ s.own = r.own /\ s.disabled = r.disabled /\ s.groups = r.groups
         /\ \A b \in Attrs : s.attrs[b] = IF b = a THEN x ELSE r.attrs[b]
<1>1. /\ DOMAIN r = {"own", "disabled", "groups", "attrs"} /\ DOMAIN r.attrs = Attrs
      /\ r = [k \in DOMAIN r |-> r[k]]
  BY DEF IsRecord
<1>2. s = [r EXCEPT !.attrs = [r.attrs EXCEPT ![a] = x]]
  BY DEF Set
<1>3. /\ DOMAIN s = DOMAIN r /\ s.own = r.own /\ s.disabled = r.disabled /\ s.groups = r.groups
      /\ s.attrs = [r.attrs EXCEPT ![a] = x]
  BY <1>1, <1>2
<1>4. /\ s.attrs = [b \in Attrs |-> s.attrs[b]]
      /\ \A b \in Attrs : s.attrs[b] = IF b = a THEN x ELSE r.attrs[b]
  BY <1>1, <1>3
<1>5. IsRecord(s)
  BY <1>1, <1>2, <1>3, <1>4 DEF IsRecord
<1> QED BY <1>3, <1>4, <1>5

LEMMA RecordOwn ==
  ASSUME NEW r, IsRecord(r), NEW f, NEW x, NEW s, s = SetOwn(r, f, x)
  PROVE  /\ IsRecord(s) /\ s.own = [r.own EXCEPT ![f] = x] /\ s.disabled = r.disabled
         /\ s.groups = r.groups /\ s.attrs = r.attrs
<1>1. /\ DOMAIN r = {"own", "disabled", "groups", "attrs"} /\ DOMAIN r.attrs = Attrs
      /\ r = [k \in DOMAIN r |-> r[k]] /\ r.attrs = [a \in Attrs |-> r.attrs[a]]
  BY DEF IsRecord
<1>2. /\ DOMAIN s = DOMAIN r /\ s.own = [r.own EXCEPT ![f] = x] /\ s.disabled = r.disabled
      /\ s.groups = r.groups /\ s.attrs = r.attrs /\ s = [k \in DOMAIN s |-> s[k]]
  BY <1>1 DEF SetOwn
<1>3. IsRecord(s)
  BY <1>1, <1>2 DEF IsRecord
<1> QED BY <1>2, <1>3

LEMMA RecordAttrs ==
  ASSUME NEW r, IsRecord(r), NEW at, NEW s,
         s = [r EXCEPT !.attrs = at], at = [a \in Attrs |-> at[a]]
  PROVE  /\ IsRecord(s) /\ s.own = r.own /\ s.disabled = r.disabled
         /\ s.groups = r.groups /\ s.attrs = at
<1>1. /\ DOMAIN r = {"own", "disabled", "groups", "attrs"} /\ r = [k \in DOMAIN r |-> r[k]]
  BY DEF IsRecord
<1>2. /\ DOMAIN s = DOMAIN r /\ s.own = r.own /\ s.disabled = r.disabled
      /\ s.groups = r.groups /\ s.attrs = at /\ s = [k \in DOMAIN s |-> s[k]]
  BY <1>1
<1>3. IsRecord(s)
  BY <1>1, <1>2 DEF IsRecord
<1> QED BY <1>2, <1>3

LEMMA WithTextKeeps ==
  ASSUME NEW id, NEW f, NEW t, IsRecord(id), NEW r, r = WithText(id, f, t)
  PROVE  IsRecord(r)
<1>1. CASE f \in Own
  BY <1>1, RecordOwn DEF WithText, SetOwn
<1>2. CASE f \notin Own
  <2>1. PICK x : x = Text(t)
    OBVIOUS
  <2>2. r = Set(id, f, x)
    BY <1>2, <2>1 DEF WithText, Set
  <2> QED BY <2>2, RecordSet
<1> QED BY <1>1, <1>2

LEMMA SanitizedByKeeps ==
  ASSUME NEW s, s.type \in {"rewrite", "compute"}, NEW id, IsRecord(id), NEW r \in SanitizedBy(s, id)
  PROVE  r = Failed \/ IsRecord(r)
<1>1. CASE s.type = "rewrite"
  <2>1. r = Rewritten(s, id)
    BY <1>1 DEF SanitizedBy
  <2> QED BY <2>1, WithTextKeeps, Zenon DEF Rewritten
<1>2. CASE s.type = "compute"
  <2>1. PICK v : r = [id EXCEPT !.attrs[s.target] = v]
    BY <1>2, Zenon DEF SanitizedBy, Computed
  <2> QED BY <2>1, RecordSet DEF Set
<1> QED BY <1>1, <1>2

LEMMA SanitizedRuns ==
  ASSUME NEW tr, NEW id, NEW n \in Nat, DOMAIN tr.sanitizers = 1..n
  PROVE  \E w : Runs(w, n, {id}, [fold |-> "sanitized", tr |-> tr]) /\ w[n] = Sanitized(tr, id)
<1> DEFINE c == [fold |-> "sanitized", tr |-> tr]
           Step(x, k) == UNION {IF i = Failed THEN {i} ELSE SanitizedBy(tr.sanitizers[k], i) : i \in x}
           P(g) == g = [s \in SUBSET (DOMAIN tr.sanitizers) |->
                          IF s = {} THEN {id} ELSE Step(g[s \ {Max(s)}], Max(s))]
           iter == CHOOSE g : P(g)
<1>1. \A x, i : StepOf(c, x, i) = Step(x, i)
  BY DEF StepOf
<1>2. ASSUME NEW g PROVE P(g) <=> IsFold(g, n, {id}, c)
  <2> HIDE DEF c, Step
  <2> QED BY <1>1 DEF IsFold
<1>3. P(iter)
  <2>1. \E g : P(g)
    <3> HIDE DEF P, c
    <3> QED BY <1>2, FoldExists
  <2> HIDE DEF P
  <2> QED BY <2>1
<1>4. IsFold(iter, n, {id}, c)
  <2> HIDE DEF P, iter, c
  <2> QED BY <1>2, <1>3
<1>5. PICK w : Runs(w, n, {id}, c) /\ w[n] = iter[1..n]
  <2> HIDE DEF P, iter, c
  <2> QED BY <1>4, FoldRuns
<1>6. Sanitized(tr, id) = iter[DOMAIN tr.sanitizers]
  BY DEF Sanitized, FoldLeft, MapThenFoldSet
<1> HIDE DEF iter, c
<1> QED BY <1>5, <1>6 DEF c

\* The templates in one order.
FilledAll(tr, id, order) == FoldLeft(LAMBDA now, k : Filled(tr, id, now, k), id, order)

LEMMA TemplatedRuns ==
  ASSUME NEW tr, NEW id, NEW n \in Nat, NEW order, DOMAIN order = 1..n
  PROVE  \E w : /\ Runs(w, n, id, [fold |-> "templated", tr |-> tr, id |-> id, order |-> order])
                /\ w[n] = FilledAll(tr, id, order)
<1> DEFINE c == [fold |-> "templated", tr |-> tr, id |-> id, order |-> order]
           P(g) == g = [s \in SUBSET (DOMAIN order) |->
                          IF s = {} THEN id
                          ELSE Filled(tr, id, g[s \ {Max(s)}], order[Max(s)])]
           iter == CHOOSE g : P(g)
<1>1. \A x, i : StepOf(c, x, i) = Filled(tr, id, x, order[i])
  BY DEF StepOf
<1>2. ASSUME NEW g PROVE P(g) <=> IsFold(g, n, id, c)
  <2> HIDE DEF c
  <2> QED BY <1>1 DEF IsFold
<1>3. P(iter)
  <2>1. \E g : P(g)
    <3> HIDE DEF P, c
    <3> QED BY <1>2, FoldExists
  <2> HIDE DEF P
  <2> QED BY <2>1
<1>4. PICK w : Runs(w, n, id, c) /\ w[n] = iter[1..n]
  <2> HIDE DEF P, iter, c
  <2> QED BY <1>2, <1>3, FoldRuns
<1>5. FilledAll(tr, id, order) = iter[DOMAIN order]
  BY DEF FilledAll, FoldLeft, MapThenFoldSet
<1> HIDE DEF iter, c
<1> QED BY <1>4, <1>5 DEF c

LEMMA DefaultedRuns ==
  ASSUME NEW tr, NEW id, NEW n \in Nat, DOMAIN tr.mappings = 1..n
  PROVE  \E w : Runs(w, n, id, [fold |-> "defaulted", tr |-> tr]) /\ w[n] = Defaulted(tr, id)
<1> DEFINE c == [fold |-> "defaulted", tr |-> tr]
           Step(x, i) == IF tr.mappings[i].default = Nil THEN x
                         ELSE [x EXCEPT !.attrs[tr.mappings[i].target] = tr.mappings[i].default]
           P(g) == g = [s \in SUBSET (DOMAIN tr.mappings) |->
                          IF s = {} THEN id ELSE Step(g[s \ {Max(s)}], Max(s))]
           iter == CHOOSE g : P(g)
<1>1. \A x, i : StepOf(c, x, i) = Step(x, i)
  BY DEF StepOf
<1>2. ASSUME NEW g PROVE P(g) <=> IsFold(g, n, id, c)
  <2> HIDE DEF c, Step
  <2> QED BY <1>1 DEF IsFold
<1>3. P(iter)
  <2>1. \E g : P(g)
    <3> HIDE DEF P, c
    <3> QED BY <1>2, FoldExists
  <2> HIDE DEF P
  <2> QED BY <2>1
<1>4. IsFold(iter, n, id, c)
  <2> HIDE DEF P, iter, c
  <2> QED BY <1>2, <1>3
<1>5. PICK w : Runs(w, n, id, c) /\ w[n] = iter[1..n]
  <2> HIDE DEF P, iter, c
  <2> QED BY <1>4, FoldRuns
<1>6. Defaulted(tr, id) = iter[DOMAIN tr.mappings]
  BY DEF Defaulted, FoldLeft, MapThenFoldSet
<1> HIDE DEF iter, c
<1> QED BY <1>5, <1>6 DEF c

LEMMA SanitizedKeeps ==
  ASSUME NEW tr, NEW id, NEW n \in Nat, DOMAIN tr.sanitizers = 1..n, IsRecord(id),
         \A k \in 1..n : tr.sanitizers[k].type \in {"rewrite", "compute"},
         NEW r \in Sanitized(tr, id)
  PROVE  r = Failed \/ IsRecord(r)
<1> DEFINE c == [fold |-> "sanitized", tr |-> tr]
<1>1. PICK w : Runs(w, n, {id}, c) /\ w[n] = Sanitized(tr, id)
  BY SanitizedRuns
<1>2. \A x, k : StepOf(c, x, k)
                  = UNION {IF i = Failed THEN {i} ELSE SanitizedBy(tr.sanitizers[k], i) : i \in x}
  BY DEF StepOf
<1> HIDE DEF c
<1> DEFINE S == {k \in 0..n : \A x \in w[k] : x = Failed \/ IsRecord(x)}
<1>3. 0 \in S
  BY <1>1 DEF Runs
<1>4. ASSUME NEW k \in 1..n, k - 1 \in S PROVE k \in S
  <2>1. w[k] = UNION {IF i = Failed THEN {i} ELSE SanitizedBy(tr.sanitizers[k], i) : i \in w[k - 1]}
    BY <1>1, <1>2 DEF Runs
  <2>2. ASSUME NEW x \in w[k] PROVE x = Failed \/ IsRecord(x)
    <3>1. PICK i \in w[k - 1] : x \in (IF i = Failed THEN {i} ELSE SanitizedBy(tr.sanitizers[k], i))
      BY <2>1
    <3>2. i = Failed \/ IsRecord(i)
      BY <1>4
    <3> QED BY <3>1, <3>2, SanitizedByKeeps
  <2>3. k \in 0..n
    OBVIOUS
  <2> QED BY <2>2, <2>3
<1>5. n \in S
  <2>1. n \in 0..n
    OBVIOUS
  <2> HIDE DEF S
  <2> QED BY <1>3, <1>4, <2>1, UpTo
<1> QED BY <1>1, <1>5

\* What the templates of a transformer make of an identity, whatever their order.
Refuses(tr, id, k) == tr.templates[k].strict /\ ~Is(FieldOf(id, tr.templates[k].field), "text")
Shown(tr, id, k) == Rendered(FieldOf(id, tr.templates[k].field))
IsShown(r, tr, id, K) ==
  /\ IsRecord(r) /\ r.own = id.own /\ r.disabled = id.disabled /\ r.groups = id.groups
  /\ \A a \in Attrs : r.attrs[a] = IF a \in K THEN Shown(tr, id, a) ELSE id.attrs[a]

LEMMA FilledIs ==
  ASSUME NEW tr, NEW id, NEW now, NEW K, IsShown(now, tr, id, K), NEW k
  PROVE  /\ Refuses(tr, id, k) => Filled(tr, id, now, k) = Failed
         /\ ~Refuses(tr, id, k) => IsShown(Filled(tr, id, now, k), tr, id, K \cup {k})
<1>1. IsRecord(now) /\ now # Failed
  BY RecordKept DEF IsShown
<1>2. Filled(tr, id, now, k) = IF Refuses(tr, id, k) THEN Failed ELSE Set(now, k, Shown(tr, id, k))
  BY <1>1, Zenon DEF Filled, Snapshot, Set, Refuses, Shown
<1>3. PICK x, s : x = Shown(tr, id, k) /\ s = Set(now, k, x)
  OBVIOUS
<1>4. /\ IsRecord(s) /\ s.own = now.own /\ s.disabled = now.disabled /\ s.groups = now.groups
      /\ \A b \in Attrs : s.attrs[b] = IF b = k THEN x ELSE now.attrs[b]
  BY <1>1, <1>3, RecordSet
<1>5. IsShown(s, tr, id, K \cup {k})
  BY <1>3, <1>4 DEF IsShown
<1> QED BY <1>2, <1>3, <1>5

LEMMA ShownIsOne ==
  ASSUME NEW tr, NEW id, NEW K, NEW r, NEW s, IsShown(r, tr, id, K), IsShown(s, tr, id, K)
  PROVE  r = s
<1>1. \A a \in Attrs : r.attrs[a] = s.attrs[a]
  BY DEF IsShown
<1>2. /\ r.own = s.own /\ r.disabled = s.disabled /\ r.groups = s.groups
      /\ IsRecord(r) /\ IsRecord(s)
  BY DEF IsShown
<1> QED BY <1>1, <1>2 DEF IsRecord

LEMMA FilledInOrder ==
  ASSUME NEW tr, NEW id, IsFiniteSet(DOMAIN tr.templates), IsRecord(id),
         NEW order \in SetToSeqs(DOMAIN tr.templates), NEW r, r = FilledAll(tr, id, order)
  PROVE  IF \E k \in DOMAIN tr.templates : Refuses(tr, id, k)
         THEN r = Failed ELSE IsShown(r, tr, id, DOMAIN tr.templates)
<1> DEFINE n == Cardinality(DOMAIN tr.templates)
           c == [fold |-> "templated", tr |-> tr, id |-> id, order |-> order]
           Past(k) == {order[j] : j \in 1..k}
<1>1. /\ n \in Nat /\ order \in [1..n -> DOMAIN tr.templates]
      /\ \A x \in DOMAIN tr.templates : \E i \in 1..n : order[i] = x
  BY OrdersAreComplete
<1> HIDE DEF n
<1>2. PICK w : Runs(w, n, id, c) /\ w[n] = r
  BY <1>1, TemplatedRuns
<1>3. \A x, i : StepOf(c, x, i) = Filled(tr, id, x, order[i])
  BY DEF StepOf
<1> HIDE DEF c
<1> DEFINE S == {k \in 0..n : IF \E x \in Past(k) : Refuses(tr, id, x)
                              THEN w[k] = Failed ELSE IsShown(w[k], tr, id, Past(k))}
<1>4. 0 \in S
  <2>1. Past(0) = {} /\ w[0] = id /\ 0 \in 0..n
    BY <1>1, <1>2 DEF Runs
  <2>2. IsShown(id, tr, id, {})
    BY DEF IsShown
  <2> QED BY <2>1, <2>2
<1>5. ASSUME NEW k \in 1..n, k - 1 \in S PROVE k \in S
  <2>1. k \in 0..n /\ Past(k) = Past(k - 1) \cup {order[k]}
    <3>1. 1..k = (1..(k - 1)) \cup {k}
      BY <1>1
    <3> QED BY <1>1, <3>1
  <2>2. w[k] = Filled(tr, id, w[k - 1], order[k])
    BY <1>2, <1>3 DEF Runs
  <2>3. CASE \E x \in Past(k - 1) : Refuses(tr, id, x)
    <3>1. w[k] = Failed
      BY <1>5, <2>2, <2>3 DEF Filled
    <3> QED BY <2>1, <2>3, <3>1
  <2>4. CASE ~(\E x \in Past(k - 1) : Refuses(tr, id, x))
    <3>1. IsShown(w[k - 1], tr, id, Past(k - 1))
      BY <1>5, <2>4
    <3> HIDE DEF Past
    <3>2. /\ Refuses(tr, id, order[k]) => w[k] = Failed
          /\ ~Refuses(tr, id, order[k]) => IsShown(w[k], tr, id, Past(k))
      BY <2>1, <2>2, <3>1, FilledIs
    <3> QED BY <2>1, <2>4, <3>2
  <2> QED BY <2>3, <2>4
<1>6. n \in S
  <2>1. n \in 0..n
    BY <1>1
  <2> HIDE DEF S
  <2> QED BY <1>1, <1>4, <1>5, <2>1, UpTo
<1>7. Past(n) = DOMAIN tr.templates
  BY <1>1
<1> HIDE DEF Past
<1> QED BY <1>2, <1>6, <1>7

LEMMA TemplatedIsOne ==
  ASSUME NEW tr, NEW id, IsFiniteSet(DOMAIN tr.templates), IsRecord(id)
  PROVE  \E r : Templated(tr, id) = {r} /\ (r = Failed \/ IsRecord(r))
<1>1. Templated(tr, id) = {FilledAll(tr, id, order) : order \in SetToSeqs(DOMAIN tr.templates)}
  BY Zenon DEF Templated, FilledAll
<1>2. PICK first \in SetToSeqs(DOMAIN tr.templates) : TRUE
  BY OrdersExist
<1>3. PICK r : r = FilledAll(tr, id, first)
  OBVIOUS
<1>4. ASSUME NEW order \in SetToSeqs(DOMAIN tr.templates) PROVE FilledAll(tr, id, order) = r
  <2>1. PICK s : s = FilledAll(tr, id, order)
    OBVIOUS
  <2>2. CASE \E k \in DOMAIN tr.templates : Refuses(tr, id, k)
    BY <1>3, <2>1, <2>2, FilledInOrder
  <2>3. CASE ~(\E k \in DOMAIN tr.templates : Refuses(tr, id, k))
    <3>1. IsShown(r, tr, id, DOMAIN tr.templates) /\ IsShown(s, tr, id, DOMAIN tr.templates)
      BY <1>3, <2>1, <2>3, FilledInOrder
    <3> QED BY <2>1, <3>1, ShownIsOne
  <2> QED BY <2>2, <2>3
<1>5. Templated(tr, id) = {r}
  BY <1>1, <1>2, <1>4
<1>6. r = Failed \/ IsRecord(r)
  BY <1>3, FilledInOrder DEF IsShown
<1> QED BY <1>5, <1>6

LEMMA DefaultedKeeps ==
  ASSUME NEW tr, NEW id, NEW n \in Nat, DOMAIN tr.mappings = 1..n, IsRecord(id)
  PROVE  IsRecord(Defaulted(tr, id))
<1> DEFINE c == [fold |-> "defaulted", tr |-> tr]
<1>1. PICK w : Runs(w, n, id, c) /\ w[n] = Defaulted(tr, id)
  BY DefaultedRuns
<1>2. ASSUME NEW x, NEW k, IsRecord(x) PROVE IsRecord(StepOf(c, x, k))
  <2>1. PICK m : m = tr.mappings[k]
    OBVIOUS
  <2>2. StepOf(c, x, k) = IF m.default = Nil THEN x ELSE Set(x, m.target, m.default)
    BY <2>1 DEF StepOf, Set
  <2>3. IsRecord(Set(x, m.target, m.default))
    BY <1>2, RecordSet
  <2> QED BY <1>2, <2>2, <2>3
<1> HIDE DEF c
<1> DEFINE S == {k \in 0..n : IsRecord(w[k])}
<1>3. 0 \in S
  BY <1>1 DEF Runs
<1>4. ASSUME NEW k \in 1..n, k - 1 \in S PROVE k \in S
  <2>1. k \in 0..n
    OBVIOUS
  <2> QED BY <1>1, <1>2, <1>4, <2>1 DEF Runs
<1>5. n \in S
  <2>1. n \in 0..n
    OBVIOUS
  <2> HIDE DEF S
  <2> QED BY <1>3, <1>4, <2>1, UpTo
<1> QED BY <1>1, <1>5

\* The transformers of a manifest are lists, and a pipeline is only built of known ones.
Listed(tr) ==
  /\ tr.type = "sanitizer" => tr.sanitizers \in Seq(ToSet(tr.sanitizers))
  /\ tr.type = "template" => IsFiniteSet(DOMAIN tr.templates)
  /\ tr.type = "groupAggregation" => tr.mappings \in Seq(ToSet(tr.mappings))

LEMMA ListDomain ==
  ASSUME NEW s, s \in Seq(ToSet(s))
  PROVE  Len(s) \in Nat /\ DOMAIN s = 1..Len(s) /\ \A k \in 1..Len(s) : s[k] \in ToSet(s)
  BY DEF ToSet

LEMMA CutKeeps ==
  ASSUME NEW tr, NEW id, IsRecord(id)
  PROVE  IsRecord(Cut(tr, id))
<1>1. PICK at : at = [a \in Attrs |-> IF \E b \in DOMAIN tr.field : tr.field[b] = a
                       THEN id.attrs[CHOOSE b \in DOMAIN tr.field : tr.field[b] = a] ELSE Absent]
  OBVIOUS
<1>2. at = [a \in Attrs |-> at[a]] /\ (tr.prefixed => Cut(tr, id) = [id EXCEPT !.attrs = at])
  BY <1>1 DEF Cut
<1>3. IsRecord([id EXCEPT !.attrs = at])
  BY <1>2, RecordAttrs
<1> QED BY <1>2, <1>3 DEF Cut

LEMMA ResultsKeep ==
  ASSUME NEW tr, Listed(tr), Creates(tr) \/ tr.type = "prefix", tr.type # "groupAggregation",
         NEW id, IsRecord(id), NEW groups, NEW r \in Results(tr, id, groups)
  PROVE  r \in {Gone, Failed} \/ IsRecord(r)
<1>1. CASE tr.type = "selector"
  <2>1. r = Selected(tr, id, groups)
    BY <1>1 DEF Results
  <2> QED BY <2>1 DEF Selected
<1>2. CASE tr.type = "sanitizer"
  <2>1. r \in Sanitized(tr, id)
    BY <1>2 DEF Results
  <2>2. tr.sanitizers \in Seq(ToSet(tr.sanitizers))
    BY <1>2 DEF Listed
  <2>3. \A s \in ToSet(tr.sanitizers) : s.type \in {"rewrite", "compute"}
    BY <1>2 DEF Creates, ParsesSanitizers
  <2>4. /\ Len(tr.sanitizers) \in Nat /\ DOMAIN tr.sanitizers = 1..Len(tr.sanitizers)
        /\ \A k \in 1..Len(tr.sanitizers) : tr.sanitizers[k] \in ToSet(tr.sanitizers)
    BY <2>2, ListDomain
  <2> QED BY <2>1, <2>3, <2>4, SanitizedKeeps
<1>3. CASE tr.type = "template"
  <2>1. r \in Templated(tr, id)
    BY <1>3 DEF Results
  <2> QED BY <1>3, <2>1, TemplatedIsOne DEF Listed
<1>4. CASE tr.type = "prefix"
  <2>1. r = Cut(tr, id)
    BY <1>4 DEF Results
  <2> QED BY <2>1, CutKeeps
<1> QED BY <1>1, <1>2, <1>3, <1>4 DEF Creates, Types

(***************************************************************************)
(* The invariant behind TypeOK: of every target, that its pipeline is one  *)
(* of known transformers once it is built, that an identity is there or    *)
(* gone, and that an aggregation is one of its stage.                      *)
(***************************************************************************)
Shape(t) ==
  /\ stage[t] \in 0..Len(Steps(t))
  /\ stage[t] > 0 => \A tr \in ToSet(manifest[t].transformers) : Creates(tr)
  /\ DOMAIN ids[t] = Uids /\ \A u \in Uids : ids[t][u] = Gone \/ IsRecord(ids[t][u])
  /\ todo[t] \subseteq Left(t)
  /\ acc[t] # Idle => /\ DOMAIN acc[t] = {"u", "m", "rest", "list"} /\ acc[t].u \in todo[t]
                      /\ Current(t).type = "groupAggregation"
  /\ acc[t] # Idle \/ todo[t] # {} => stage[t] > 0
Tables ==
  /\ DOMAIN heap = Cells /\ DOMAIN writers = Cells
  /\ DOMAIN stage = Targets /\ DOMAIN ids = Targets /\ DOMAIN acc = Targets
  /\ todo \in [Targets -> SUBSET Uids] /\ outcome \in [Targets -> {"none", "ok", "error"}]
IInv == Given /\ Tables /\ \A t \in Targets : Shape(t)

LEMMA StepsOf ==
  ASSUME Given, NEW t \in Targets
  PROVE  LET n == Len(manifest[t].transformers)
         IN /\ n \in Nat /\ Len(Steps(t)) = n + 1
            /\ \A k \in 1..n : /\ Steps(t)[k] \in ToSet(manifest[t].transformers)
                               /\ Listed(Steps(t)[k])
            /\ Steps(t)[n + 1].type = "prefix" /\ Listed(Steps(t)[n + 1])
<1> DEFINE trs == manifest[t].transformers
           n == Len(trs)
           last == PrefixStep(manifest[t].prefix)
<1>1. manifest[t] \in Manifests
  BY DEF Given
<1>2. trs \in Seq(ToSet(trs)) /\ \A tr \in ToSet(trs) : Listed(tr)
  BY <1>1, ManifestsAssumption, Zenon DEF ManifestsAssumption, Listed
<1>3. n \in Nat /\ \A k \in 1..n : trs[k] \in ToSet(trs)
  BY <1>2, ListDomain
<1>4. last.type = "prefix"
  BY DEF PrefixStep
<1>5. Steps(t) = trs \o <<last>>
  BY Zenon DEF Steps
<1> HIDE DEF last
<1>6. Listed(last)
  BY <1>4 DEF Listed
<1>7. Len(Steps(t)) = n + 1 /\ Steps(t)[n + 1] = last /\ \A k \in 1..n : Steps(t)[k] = trs[k]
  <2>1. <<last>> \in Seq({last}) /\ Len(<<last>>) = 1 /\ <<last>>[1] = last
    OBVIOUS
  <2>2. \A S : \A a \in Seq(S), b \in Seq({last}) :
          /\ Len(a \o b) = Len(a) + Len(b)
          /\ \A k \in 1..(Len(a) + Len(b)) : (a \o b)[k] = IF k <= Len(a) THEN a[k] ELSE b[k - Len(a)]
    OBVIOUS
  <2> HIDE DEF trs
  <2> QED BY <1>2, <1>3, <1>5, <2>1, <2>2
<1> HIDE DEF trs
<1> QED BY <1>2, <1>3, <1>4, <1>6, <1>7 DEF trs

LEMMA CurrentOf ==
  ASSUME Given, NEW t \in Targets, Shape(t), stage[t] > 0
  PROVE  Listed(Current(t)) /\ (Creates(Current(t)) \/ Current(t).type = "prefix")
<1> DEFINE n == Len(manifest[t].transformers)
<1>1. /\ n \in Nat /\ Len(Steps(t)) = n + 1
      /\ \A k \in 1..n : /\ Steps(t)[k] \in ToSet(manifest[t].transformers)
                         /\ Listed(Steps(t)[k])
      /\ Steps(t)[n + 1].type = "prefix" /\ Listed(Steps(t)[n + 1])
  BY StepsOf
<1> HIDE DEF n
<1>2. stage[t] \in 1..n \/ stage[t] = n + 1
  <2>1. stage[t] \in 0..(n + 1)
    BY <1>1 DEF Shape
  <2> QED BY <1>1, <2>1
<1>3. \A tr \in ToSet(manifest[t].transformers) : Creates(tr)
  BY DEF Shape
<1> QED BY <1>1, <1>2, <1>3 DEF Current

\* A step of one target leaves the others alone.
LEMMA OthersKeep ==
  ASSUME NEW t \in Targets, Shape(t), UNCHANGED manifest, stage'[t] = stage[t],
         ids'[t] = ids[t], todo'[t] = todo[t], acc'[t] = acc[t]
  PROVE  Shape(t)'
<1>1. Steps(t)' = Steps(t)
  BY DEF Steps
<1>2. Current(t)' = Current(t) /\ Left(t)' = Left(t)
  BY <1>1 DEF Current, Left
<1> QED BY <1>1, <1>2 DEF Shape

LEMMA BuildKeeps ==
  ASSUME IInv, NEW t \in Targets, Build(t)
  PROVE  IInv'
<1> USE DEF Build, Known
<1>1. Given' /\ UNCHANGED <<manifest, source, acc, heap, writers>>
  BY DEF IInv, Given
<1>2. Tables'
  BY <1>1 DEF IInv, Tables
<1>3. ASSUME NEW s \in Targets, s # t PROVE Shape(s)'
  <2>1. stage'[s] = stage[s] /\ ids'[s] = ids[s] /\ todo'[s] = todo[s] /\ acc'[s] = acc[s]
    BY <1>3 DEF IInv, Tables
  <2> QED BY <1>1, <2>1, OthersKeep DEF IInv
<1>4. CASE \A tr \in ToSet(manifest[t].transformers) : Creates(tr)
  <2>1. stage'[t] = 1 /\ ids'[t] = source.identities /\ todo'[t] = Uids
    BY <1>4 DEF IInv, Tables
  <2>2. acc[t] = Idle
    BY DEF IInv, Shape
  <2>3. 1 \in 0..Len(Steps(t)) /\ Steps(t)' = Steps(t)
    <3>1. Len(manifest[t].transformers) \in Nat
          /\ Len(Steps(t)) = Len(manifest[t].transformers) + 1
      BY StepsOf DEF IInv
    <3> QED BY <1>1, <3>1 DEF Steps
  <2>4. DOMAIN source.identities = Uids /\ \A u \in Uids : IsRecord(source.identities[u])
    BY FetchedAre, RecordKept DEF IInv
  <2>5. Left(t)' = Uids
    <3>1. \A u \in Uids : source.identities[u] # Gone
      BY <2>4, RecordKept
    <3> QED BY <2>1, <3>1 DEF Left
  <2>6. Shape(t)'
    BY <1>1, <1>4, <2>1, <2>2, <2>3, <2>4, <2>5 DEF Shape
  <2> QED BY <1>1, <1>2, <1>3, <2>6 DEF IInv
<1>5. CASE ~(\A tr \in ToSet(manifest[t].transformers) : Creates(tr))
  <2>1. UNCHANGED <<stage, ids, todo>>
    BY <1>5
  <2>2. Shape(t)'
    BY <1>1, <2>1, OthersKeep DEF IInv
  <2> QED BY <1>1, <1>2, <1>3, <2>2 DEF IInv
<1> QED BY <1>4, <1>5

LEMMA AdvanceKeeps ==
  ASSUME IInv, NEW t \in Targets, Advance(t)
  PROVE  IInv'
<1> USE DEF Advance
<1>1. Given' /\ UNCHANGED <<manifest, source, ids, acc, heap, writers>>
  BY DEF IInv, Given
<1>2. Tables'
  BY <1>1 DEF IInv, Tables, Left
<1>3. ASSUME NEW s \in Targets, s # t PROVE Shape(s)'
  <2>1. stage'[s] = stage[s] /\ ids'[s] = ids[s] /\ todo'[s] = todo[s] /\ acc'[s] = acc[s]
    BY <1>3 DEF IInv, Tables
  <2> QED BY <1>1, <2>1, OthersKeep DEF IInv
<1>4. CASE LastStage(t)
  <2>1. UNCHANGED <<stage, todo>>
    BY <1>4
  <2>2. Shape(t)'
    BY <1>1, <2>1, OthersKeep DEF IInv
  <2> QED BY <1>1, <1>2, <1>3, <2>2 DEF IInv
<1>5. CASE ~LastStage(t)
  <2>1. stage'[t] = stage[t] + 1 /\ todo'[t] = Left(t)
    BY <1>5 DEF IInv, Tables
  <2>2. acc[t] = Idle /\ Steps(t)' = Steps(t) /\ Left(t)' = Left(t)
    BY <1>1 DEF StageDone, Steps, Left
  <2>3. stage[t] + 1 \in 0..Len(Steps(t)) /\ stage[t] + 1 > 0
    <3>1. Len(Steps(t)) \in Nat /\ stage[t] \in 0..Len(Steps(t)) /\ stage[t] # Len(Steps(t))
      <4>1. Len(manifest[t].transformers) \in Nat
            /\ Len(Steps(t)) = Len(manifest[t].transformers) + 1
        BY StepsOf DEF IInv
      <4> QED BY <1>5, <4>1 DEF LastStage, IInv, Shape
    <3> QED BY <3>1
  <2>4. Shape(t)'
    BY <1>1, <2>1, <2>2, <2>3 DEF IInv, Shape
  <2> QED BY <1>1, <1>2, <1>3, <2>4 DEF IInv
<1> QED BY <1>4, <1>5

\* The identity that a step works on is there.
LEMMA AtIsKept ==
  ASSUME IInv, NEW t \in Targets, NEW u \in todo[t]
  PROVE  u \in Uids /\ IsRecord(ids[t][u]) /\ ids[t][u] # Gone /\ stage[t] > 0
  BY DEF IInv, Shape, Tables, Left

LEMMA TransformKeeps ==
  ASSUME IInv, NEW t \in Targets, NEW u \in Uids, Transform(t, u)
  PROVE  IInv'
<1>1. Given' /\ UNCHANGED <<manifest, source, stage, acc, heap, writers>>
  BY DEF IInv, Given, Transform
<1>2. At(t, u) /\ Current(t).type # "groupAggregation" /\ u \in todo[t] /\ acc[t] = Idle
  BY DEF Transform, At
<1>3. PICK r \in Results(Current(t), ids[t][u], source.groups) :
        IF r = Failed
        THEN /\ outcome' = [outcome EXCEPT ![t] = "error"]
             /\ ids' = [ids EXCEPT ![t] = [v \in Uids |-> Gone]]
             /\ todo' = [todo EXCEPT ![t] = {}]
        ELSE /\ ids' = [ids EXCEPT ![t][u] = r]
             /\ todo' = [todo EXCEPT ![t] = Rest(t, u)]
             /\ UNCHANGED outcome
  BY DEF Transform
<1>4. r \in {Gone, Failed} \/ IsRecord(r)
  <2>1. Shape(t) /\ Given
    BY DEF IInv
  <2>2. Listed(Current(t)) /\ (Creates(Current(t)) \/ Current(t).type = "prefix")
    BY <1>2, <2>1, AtIsKept, CurrentOf
  <2>3. IsRecord(ids[t][u])
    BY <1>2, AtIsKept
  <2> QED BY <1>2, <1>3, <2>2, <2>3, ResultsKeep
<1>5. Tables'
  BY <1>1, <1>3 DEF IInv, Tables, Rest
<1>6. ASSUME NEW s \in Targets, s # t PROVE Shape(s)'
  <2>1. stage'[s] = stage[s] /\ ids'[s] = ids[s] /\ todo'[s] = todo[s] /\ acc'[s] = acc[s]
    BY <1>1, <1>3, <1>6 DEF IInv, Tables
  <2> QED BY <1>1, <2>1, OthersKeep DEF IInv
<1>7. Steps(t)' = Steps(t)
  BY <1>1 DEF Steps
<1>8. CASE r = Failed
  <2>1. ids'[t] = [v \in Uids |-> Gone] /\ todo'[t] = {}
    BY <1>3, <1>8 DEF IInv, Tables
  <2>2. Shape(t)'
    BY <1>1, <1>2, <1>7, <2>1 DEF IInv, Shape
  <2> QED BY <1>1, <1>5, <1>6, <2>2 DEF IInv
<1>9. CASE r # Failed
  <2>1. /\ ids'[t] = [ids[t] EXCEPT ![u] = r] /\ todo'[t] = todo[t] \ {u}
    BY <1>3, <1>9 DEF IInv, Tables, Rest
  <2>2. DOMAIN ids'[t] = Uids /\ \A v \in Uids : ids'[t][v] = IF v = u THEN r ELSE ids[t][v]
    BY <2>1 DEF IInv, Shape
  <2>3. todo'[t] \subseteq Left(t)'
    BY <2>1, <2>2 DEF IInv, Shape, Left
  <2>4. \A v \in Uids : ids'[t][v] = Gone \/ IsRecord(ids'[t][v])
    BY <1>4, <1>9, <2>2 DEF IInv, Shape
  <2>5. acc'[t] = Idle /\ stage'[t] = stage[t] /\ stage[t] > 0
    BY <1>1, <1>2, AtIsKept
  <2>6. Shape(t)'
    BY <1>1, <1>7, <2>2, <2>3, <2>4, <2>5 DEF IInv, Shape
  <2> QED BY <1>1, <1>5, <1>6, <2>6 DEF IInv
<1> QED BY <1>8, <1>9

\* The steps of an aggregation: the identity u stays, or is done with.
LEMMA AggregationKeeps ==
  ASSUME IInv, NEW t \in Targets, NEW u \in todo[t], NEW id, IsRecord(id),
         Current(t).type = "groupAggregation",
         UNCHANGED <<manifest, source, stage, outcome>>,
         DOMAIN heap' = Cells, DOMAIN writers' = Cells,
         ids' = [ids EXCEPT ![t][u] = id] \/ ids' = ids,
         \/ DOMAIN acc' = DOMAIN acc /\ acc'[t] = Idle /\ todo' = [todo EXCEPT ![t] = Rest(t, u)]
         \/ /\ DOMAIN acc' = DOMAIN acc /\ DOMAIN acc'[t] = {"u", "m", "rest", "list"}
            /\ acc'[t].u = u /\ UNCHANGED todo,
         \A s \in Targets : s # t => acc'[s] = acc[s]
  PROVE  IInv'
<1>1. Given' /\ UNCHANGED manifest
  BY DEF IInv, Given
<1>2. u \in Uids /\ IsRecord(ids[t][u]) /\ ids[t][u] # Gone /\ stage[t] > 0
  BY AtIsKept
<1>3. Tables'
  BY <1>2 DEF IInv, Tables, Rest
<1>4. ASSUME NEW s \in Targets, s # t PROVE Shape(s)'
  <2>1. stage'[s] = stage[s] /\ ids'[s] = ids[s] /\ todo'[s] = todo[s] /\ acc'[s] = acc[s]
    BY <1>4 DEF IInv, Tables
  <2> QED BY <1>1, <2>1, OthersKeep DEF IInv
<1>5. Steps(t)' = Steps(t) /\ Current(t)' = Current(t) /\ stage'[t] = stage[t]
  BY <1>1 DEF Steps, Current
<1>6. DOMAIN ids'[t] = Uids /\ \A v \in Uids : ids'[t][v] = ids[t][v] \/ (v = u /\ ids'[t][v] = id)
  BY DEF IInv, Shape, Tables
<1>7. id # Gone
  BY RecordKept
<1>8. Left(t)' = Left(t)
  BY <1>2, <1>6, <1>7 DEF Left
<1>9. todo'[t] = todo[t] \/ (todo'[t] = todo[t] \ {u} /\ acc'[t] = Idle)
  BY DEF IInv, Tables, Rest
<1>10. todo'[t] \subseteq Left(t)'
  BY <1>8, <1>9 DEF IInv, Shape
<1>11. \A v \in Uids : ids'[t][v] = Gone \/ IsRecord(ids'[t][v])
  BY <1>6 DEF IInv, Shape
<1>12. acc'[t] # Idle => /\ DOMAIN acc'[t] = {"u", "m", "rest", "list"} /\ acc'[t].u \in todo'[t]
                         /\ Current(t)'.type = "groupAggregation"
  BY <1>5
<1>13. Shape(t)'
  BY <1>2, <1>1, <1>5, <1>6, <1>10, <1>11, <1>12 DEF IInv, Shape
<1> QED BY <1>1, <1>3, <1>4, <1>13 DEF IInv

\* What Begin makes of the aggregation and the list of identities.
LEMMA BeginDoes ==
  ASSUME IInv, NEW t \in Targets, NEW u, NEW id, NEW m, Begin(t, u, id, m)
  PROVE  /\ DOMAIN acc' = DOMAIN acc /\ \A s \in Targets : s # t => acc'[s] = acc[s]
         /\ \/ acc'[t] = Idle /\ todo' = [todo EXCEPT ![t] = Rest(t, u)]
            \/ /\ DOMAIN acc'[t] = {"u", "m", "rest", "list"}
               /\ acc'[t].u = u /\ UNCHANGED todo
<1>1. DOMAIN acc = Targets
  BY DEF IInv, Tables
<1>2. CASE m > Len(Current(t).mappings)
  BY <1>1, <1>2 DEF Begin
<1>3. CASE ~(m > Len(Current(t).mappings))
  BY <1>1, <1>3 DEF Begin
<1> QED BY <1>2, <1>3

LEMMA AggregateKeeps ==
  ASSUME IInv, NEW t \in Targets, NEW u \in Uids, Aggregate(t, u)
  PROVE  IInv'
<1>1. /\ u \in todo[t] /\ acc[t] = Idle /\ Current(t).type = "groupAggregation"
      /\ UNCHANGED <<manifest, source, stage, outcome, heap, writers>>
  BY DEF Aggregate, At
<1>2. DOMAIN heap' = Cells /\ DOMAIN writers' = Cells /\ IsRecord(ids[t][u])
  BY <1>1, AtIsKept DEF IInv, Tables
<1>3. CASE ids[t][u].groups = <<>>
  <2>1. PICK id : id = Defaulted(Current(t), ids[t][u])
    OBVIOUS
  <2>2. IsRecord(id)
    <3>1. Shape(t) /\ Given
      BY DEF IInv
    <3>2. Current(t).mappings \in Seq(ToSet(Current(t).mappings))
      BY <1>1, <3>1, AtIsKept, CurrentOf DEF Listed
    <3> QED BY <1>2, <2>1, <3>2, ListDomain, DefaultedKeeps
  <2>3. ids' = [ids EXCEPT ![t][u] = id] /\ todo' = [todo EXCEPT ![t] = Rest(t, u)] /\ acc' = acc
    BY <1>3, <2>1 DEF Aggregate
  <2> QED BY <1>1, <1>2, <2>2, <2>3, AggregationKeeps
<1>4. CASE ids[t][u].groups # <<>>
  <2>1. Begin(t, u, ids[t][u], 1) /\ ids' = ids
    BY <1>4 DEF Aggregate
  <2>2. /\ DOMAIN acc' = DOMAIN acc /\ \A s \in Targets : s # t => acc'[s] = acc[s]
        /\ \/ acc'[t] = Idle /\ todo' = [todo EXCEPT ![t] = Rest(t, u)]
           \/ /\ DOMAIN acc'[t] = {"u", "m", "rest", "list"}
              /\ acc'[t].u = u /\ UNCHANGED todo
    BY <2>1, BeginDoes
  <2>3. PICK id : id = ids[t][u]
    OBVIOUS
  <2>4. IsRecord(id)
    BY <1>2, <2>3
  <2> QED BY <1>1, <1>2, <2>1, <2>2, <2>4, AggregationKeeps
<1> QED BY <1>3, <1>4

LEMMA AssignKeeps ==
  ASSUME IInv, NEW t \in Targets, Assign(t)
  PROVE  IInv'
<1>1. /\ acc[t] # Idle
      /\ UNCHANGED <<manifest, source, stage, outcome, heap, writers>>
  BY DEF Assign
<1>2. PICK u : u = acc[t].u
  OBVIOUS
<1>3. u \in todo[t] /\ Current(t).type = "groupAggregation"
  BY <1>1, <1>2 DEF IInv, Shape
<1>4. PICK m, v, id : /\ id = [ids[t][u] EXCEPT !.attrs[m.target] = v]
                      /\ ids' = [ids EXCEPT ![t][u] = id] /\ Begin(t, u, id, acc[t].m + 1)
  BY <1>2 DEF Assign
<1>5. DOMAIN heap' = Cells /\ DOMAIN writers' = Cells /\ IsRecord(id)
  <2>1. PICK a, x : x = ids[t][u] /\ a = m.target
    OBVIOUS
  <2>2. id = Set(x, a, v)
    BY <1>4, <2>1 DEF Set
  <2>3. IsRecord(x)
    BY <1>3, <2>1, AtIsKept
  <2> QED BY <1>1, <2>2, <2>3, RecordSet DEF IInv, Tables
<1>6. /\ DOMAIN acc' = DOMAIN acc /\ \A s \in Targets : s # t => acc'[s] = acc[s]
      /\ \/ acc'[t] = Idle /\ todo' = [todo EXCEPT ![t] = Rest(t, u)]
         \/ /\ DOMAIN acc'[t] = {"u", "m", "rest", "list"}
            /\ acc'[t].u = u /\ UNCHANGED todo
  BY <1>4, BeginDoes
<1> QED BY <1>1, <1>3, <1>4, <1>5, <1>6, AggregationKeeps

LEMMA ExtendKeeps ==
  ASSUME IInv, NEW t \in Targets, Extend(t)
  PROVE  IInv'
<1>1. /\ acc[t] # Idle
      /\ UNCHANGED <<manifest, source, stage, todo, ids, outcome>>
  BY DEF Extend
<1>2. PICK u : u = acc[t].u
  OBVIOUS
<1>3. u \in todo[t] /\ Current(t).type = "groupAggregation"
      /\ DOMAIN acc[t] = {"u", "m", "rest", "list"}
  BY <1>1, <1>2 DEF IInv, Shape
<1>4. DOMAIN heap' = Cells /\ DOMAIN writers' = Cells
  BY DEF Extend, IInv, Tables
<1>5. PICK rest, list : acc' = [acc EXCEPT ![t].rest = rest, ![t].list = list]
  BY DEF Extend
<1>6. /\ DOMAIN acc' = DOMAIN acc /\ \A s \in Targets : s # t => acc'[s] = acc[s]
      /\ DOMAIN acc'[t] = {"u", "m", "rest", "list"} /\ acc'[t].u = u
  BY <1>2, <1>3, <1>5 DEF IInv, Tables
<1>7. PICK id : id = ids[t][u]
  OBVIOUS
<1>8. IsRecord(id)
  BY <1>3, <1>7, AtIsKept
<1> QED BY <1>1, <1>3, <1>4, <1>6, <1>8, AggregationKeeps

LEMMA InitIs == Init => IInv
<1> SUFFICES ASSUME Init PROVE IInv
  OBVIOUS
<1>1. Given /\ Tables
  BY DEF Init, Given, Tables
<1>2. ASSUME NEW t \in Targets PROVE Shape(t)
  <2>1. 0 \in 0..Len(Steps(t))
    <3>1. Len(manifest[t].transformers) \in Nat
          /\ Len(Steps(t)) = Len(manifest[t].transformers) + 1
      BY <1>1, StepsOf
    <3> QED BY <3>1
  <2>2. stage[t] = 0 /\ todo[t] = {} /\ acc[t] = Idle /\ ids[t] = [u \in Uids |-> Gone]
    BY DEF Init
  <2> QED BY <2>1, <2>2 DEF Shape
<1> QED BY <1>1, <1>2 DEF IInv

LEMMA NextKeeps == IInv /\ [Next]_vars => IInv'
<1> SUFFICES ASSUME IInv, [Next]_vars PROVE IInv'
  OBVIOUS
<1>1. CASE Next
  BY <1>1, BuildKeeps, ExtendKeeps, AssignKeeps, AdvanceKeeps, TransformKeeps, AggregateKeeps
     DEF Next
<1>2. CASE UNCHANGED vars
  <2>1. Given' /\ Tables'
    BY <1>2 DEF IInv, Given, Tables, vars
  <2>2. \A t \in Targets : Shape(t)'
    BY <1>2, OthersKeep DEF IInv, vars
  <2> QED BY <2>1, <2>2 DEF IInv
<1> QED BY <1>1, <1>2

\* Every variable keeps its type, a pipeline never runs past its last transformer,
\* and an aggregation under way is one of the stage it is in, on an identity that is
\* still there: for every set of targets, identities and manifests (Pipeline.Execute).
THEOREM TypeCorrect == Spec => []TypeOK
<1>1. IInv => TypeOK
  BY DEF IInv, Given, Tables, Shape, TypeOK
<1> QED BY <1>1, InitIs, NextKeeps, PTL DEF Spec

(***************************************************************************)
(* Isolated.  What a pipeline has made of an identity so far looks like    *)
(* what it would have made when nothing else runs: the same fields, and    *)
(* lists that show the same items.  The two run side by side, a list that  *)
(* is full reads its last item from a cell that the identity wrote.        *)
(***************************************************************************)
\* A list is a slice; one that is full has its last item in one of the cells K.
Fits(v, K) ==
  Is(v, "items") =>
    /\ v = [items |-> v.items, cell |-> v.cell, full |-> v.full] /\ v.full \in BOOLEAN
    /\ v.cell # NoCell => v.cell \in Cells /\ v.items \in Seq(ToSet(v.items))
    /\ v.full => v.cell # NoCell /\ v.cell \in K
Kinds == {"text", "number", "bool", "nil", "absent", "items"}

LEMMA PrivateIs ==
  ASSUME NEW s
  PROVE  LET x == Private(s)
         IN /\ \A k \in Kinds : Is(x, k) <=> k = "items"
            /\ x # Nil /\ x # Absent /\ \A K : Fits(x, K)
            /\ x.items = s /\ x.full = FALSE /\ x.cell = NoCell
  BY DEF Private, Is, Kinds, Nil, Absent, Fits

LEMMA ClonedIs ==
  ASSUME NEW v, NEW K, NEW hp, Fits(v, K), NEW x, x = Cloned(v, hp)
  PROVE  /\ ~Is(v, "items") => x = v
         /\ Is(v, "items") => x = Private(ItemsOf(v, hp))
         /\ \A k \in Kinds : Is(x, k) <=> Is(v, k)
         /\ (x = Nil <=> v = Nil) /\ (x = Absent <=> v = Absent)
         /\ \A L : Fits(x, L)
         /\ AsValue(x) = x /\ Cloned(x, hp) = x /\ ToBool(x) = ToBool(v)
<1>1. CASE ~Is(v, "items")
  BY <1>1 DEF Cloned, Fits, AsValue
<1>2. CASE Is(v, "items")
  <2>1. x = Private(ItemsOf(v, hp))
    BY <1>2 DEF Cloned
  <2>2. /\ \A k \in Kinds : Is(x, k) <=> k = "items"
        /\ x # Nil /\ x # Absent /\ \A L : Fits(x, L)
        /\ x.items = ItemsOf(v, hp) /\ x.full = FALSE
    BY <2>1, PrivateIs
  <2>3. DOMAIN v = {"items", "cell", "full"}
    BY <1>2 DEF Fits
  <2>4. /\ \A k \in Kinds : Is(v, k) <=> k = "items"
        /\ v # Nil /\ v # Absent
    BY <2>3 DEF Is, Kinds, Nil, Absent
  <2>5. AsValue(x) = x /\ Cloned(x, hp) = x
    BY <2>1, <2>2 DEF AsValue, Cloned, ItemsOf, Kinds
  <2>6. ToBool(x) = ToBool(v)
    BY <2>2, <2>4 DEF ToBool, Kinds
  <2> QED BY <1>2, <2>1, <2>2, <2>4, <2>5, <2>6
<1> QED BY <1>1, <1>2

LEMMA SliceIs ==
  ASSUME NEW v, IsSlice(v), NEW K, NEW hp
  PROVE  Fits(v, K) /\ AsValue(v) = Cloned(v, hp)
<1>1. CASE ~Is(v, "items")
  BY <1>1 DEF Fits, AsValue, Cloned
<1>2. CASE Is(v, "items")
  <2>1. v = [items |-> v.items, cell |-> v.cell, full |-> FALSE]
    BY <1>2 DEF IsSlice
  <2>2. v.full = FALSE
    BY <2>1
  <2>3. Fits(v, K)
    BY <1>2, <2>1, <2>2 DEF Fits, IsSlice
  <2> QED BY <1>2, <2>2, <2>3 DEF AsValue, Cloned, ItemsOf
<1> QED BY <1>1, <1>2

\* The identity id of a pipeline looks like r.
Alike(id, r, hp, K) ==
  /\ IsRecord(id) /\ IsRecord(r) /\ r.groups \in Seq(STRING)
  /\ r.own = id.own /\ r.disabled = id.disabled /\ r.groups = id.groups
  /\ \A a \in Attrs : Fits(id.attrs[a], K) /\ r.attrs[a] = Cloned(id.attrs[a], hp)

LEMMA AlikeSet ==
  ASSUME NEW id, NEW r, NEW hp, NEW K, Alike(id, r, hp, K),
         NEW x, Fits(x, K), NEW y, y = Cloned(x, hp), NEW a
  PROVE  Alike(Set(id, a, x), Set(r, a, y), hp, K)
<1>1. PICK id1 : id1 = Set(id, a, x)
  OBVIOUS
<1>2. PICK r1 : r1 = Set(r, a, y)
  OBVIOUS
<1>3. IsRecord(id) /\ IsRecord(r)
  BY DEF Alike
<1>4. /\ IsRecord(id1) /\ id1.own = id.own /\ id1.disabled = id.disabled /\ id1.groups = id.groups
      /\ \A b \in Attrs : id1.attrs[b] = IF b = a THEN x ELSE id.attrs[b]
  BY <1>1, <1>3, RecordSet
<1>5. /\ IsRecord(r1) /\ r1.own = r.own /\ r1.disabled = r.disabled /\ r1.groups = r.groups
      /\ \A b \in Attrs : r1.attrs[b] = IF b = a THEN y ELSE r.attrs[b]
  BY <1>2, <1>3, RecordSet
<1>6. Alike(id1, r1, hp, K)
  BY <1>4, <1>5 DEF Alike
<1> QED BY <1>1, <1>2, <1>6

LEMMA AlikeText ==
  ASSUME NEW id, NEW r, NEW hp, NEW K, Alike(id, r, hp, K), NEW f, NEW t
  PROVE  Alike(WithText(id, f, t), WithText(r, f, t), hp, K)
<1>1. CASE f \in Own
  <2>1. PICK id1 : id1 = SetOwn(id, f, t)
    OBVIOUS
  <2>2. PICK r1 : r1 = SetOwn(r, f, t)
    OBVIOUS
  <2>3. IsRecord(id) /\ IsRecord(r)
    BY DEF Alike
  <2>4. /\ IsRecord(id1) /\ id1.own = [id.own EXCEPT ![f] = t] /\ id1.disabled = id.disabled
        /\ id1.groups = id.groups /\ id1.attrs = id.attrs
    BY <2>1, <2>3, RecordOwn
  <2>5. /\ IsRecord(r1) /\ r1.own = [r.own EXCEPT ![f] = t] /\ r1.disabled = r.disabled
        /\ r1.groups = r.groups /\ r1.attrs = r.attrs
    BY <2>2, <2>3, RecordOwn
  <2>6. Alike(id1, r1, hp, K)
    BY <2>4, <2>5 DEF Alike
  <2> QED BY <1>1, <2>1, <2>2, <2>6 DEF WithText, SetOwn
<1>2. CASE f \notin Own
  <2>1. PICK v : v = Text(t)
    OBVIOUS
  <2>2. Fits(v, K) /\ Cloned(v, hp) = v
    BY <2>1 DEF Fits, Cloned, Text, Is
  <2>3. Alike(Set(id, f, v), Set(r, f, v), hp, K)
    BY <2>2, AlikeSet
  <2> QED BY <1>2, <2>1, <2>3 DEF WithText, Set
<1> QED BY <1>1, <1>2

\* A field of an identity reads the same.
LEMMA AttrsAre ==
  ASSUME NEW id, NEW r, NEW hp, NEW K, Alike(id, r, hp, K), NEW a \in Attrs
  PROVE  /\ \A k \in Kinds : Is(r.attrs[a], k) <=> Is(id.attrs[a], k)
         /\ ~Is(id.attrs[a], "items") => r.attrs[a] = id.attrs[a]
         /\ (r.attrs[a] = Nil <=> id.attrs[a] = Nil) /\ (r.attrs[a] = Absent <=> id.attrs[a] = Absent)
         /\ Is(id.attrs[a], "text") \/ Is(id.attrs[a], "bool") => r.attrs[a] = id.attrs[a]
<1>1. PICK v, x : v = id.attrs[a] /\ x = r.attrs[a]
  OBVIOUS
<1>2. Fits(v, K) /\ x = Cloned(v, hp)
  BY <1>1 DEF Alike
<1>3. /\ ~Is(v, "items") => x = v
      /\ \A k \in Kinds : Is(x, k) <=> Is(v, k)
      /\ (x = Nil <=> v = Nil) /\ (x = Absent <=> v = Absent)
  BY <1>2, ClonedIs
<1>4. Is(v, "items") => ~Is(v, "text") /\ ~Is(v, "bool")
  BY <1>2 DEF Fits, Is
<1> QED BY <1>1, <1>3, <1>4, Zenon

LEMMA TextsAre ==
  ASSUME NEW id, NEW r, NEW hp, NEW K, Alike(id, r, hp, K), NEW f \in Attrs \cup Own
  PROVE  TextOf(r, f) = TextOf(id, f)
<1>1. r.own = id.own
  BY DEF Alike
<1>2. CASE f \in Own
  BY <1>1, <1>2 DEF TextOf
<1>3. CASE f \notin Own
  <2>1. /\ Is(r.attrs[f], "text") <=> Is(id.attrs[f], "text")
        /\ Is(id.attrs[f], "text") => r.attrs[f] = id.attrs[f]
    BY <1>3, AttrsAre DEF Kinds
  <2> QED BY <1>3, <2>1 DEF TextOf
<1> QED BY <1>2, <1>3

LEMMA AmongRuns ==
  ASSUME NEW gs, NEW S, NEW n \in Nat, DOMAIN gs = 1..n
  PROVE  \E w : Runs(w, n, <<>>, [fold |-> "among", gs |-> gs, S |-> S]) /\ w[n] = Among(gs, S)
<1> DEFINE c == [fold |-> "among", gs |-> gs, S |-> S]
           Step(x, i) == IF gs[i] \in S THEN Append(x, gs[i]) ELSE x
           P(g) == g = [s \in SUBSET (DOMAIN gs) |->
                          IF s = {} THEN <<>> ELSE Step(g[s \ {Max(s)}], Max(s))]
           iter == CHOOSE g : P(g)
<1>1. \A x, i : StepOf(c, x, i) = Step(x, i)
  BY DEF StepOf
<1>2. ASSUME NEW g PROVE P(g) <=> IsFold(g, n, <<>>, c)
  <2> HIDE DEF c, Step
  <2> QED BY <1>1 DEF IsFold
<1>3. P(iter)
  <2>1. \E g : P(g)
    <3> HIDE DEF P, c
    <3> QED BY <1>2, FoldExists
  <2> HIDE DEF P
  <2> QED BY <2>1
<1>4. IsFold(iter, n, <<>>, c)
  <2> HIDE DEF P, iter, c
  <2> QED BY <1>2, <1>3
<1>5. PICK w : Runs(w, n, <<>>, c) /\ w[n] = iter[1..n]
  <2> HIDE DEF P, iter, c
  <2> QED BY <1>4, FoldRuns
<1>6. Among(gs, S) = iter[DOMAIN gs]
  BY DEF Among, FoldLeft, MapThenFoldSet
<1> HIDE DEF iter, c
<1> QED BY <1>5, <1>6 DEF c

\* Of a list, the ones in S are a list of members of S.
LEMMA AmongIs ==
  ASSUME NEW S, NEW T, NEW gs \in Seq(T)
  PROVE  Among(gs, S) \in Seq(S)
<1> DEFINE n == Len(gs)
           c == [fold |-> "among", gs |-> gs, S |-> S]
<1>1. n \in Nat /\ DOMAIN gs = 1..n
  OBVIOUS
<1> HIDE DEF n
<1>2. PICK w : Runs(w, n, <<>>, c) /\ w[n] = Among(gs, S)
  BY <1>1, AmongRuns
<1>3. \A x, k : StepOf(c, x, k) = IF gs[k] \in S THEN Append(x, gs[k]) ELSE x
  BY DEF StepOf
<1> HIDE DEF c
<1> DEFINE Good == {k \in 0..n : w[k] \in Seq(S)}
<1>4. 0 \in Good
  <2>1. <<>> \in Seq(S) /\ 0 \in 0..n
    BY <1>1
  <2> QED BY <1>2, <2>1 DEF Runs
<1>5. ASSUME NEW k \in 1..n, k - 1 \in Good PROVE k \in Good
  <2>1. w[k] = IF gs[k] \in S THEN Append(w[k - 1], gs[k]) ELSE w[k - 1]
    BY <1>2, <1>3 DEF Runs
  <2>2. k \in 0..n
    BY <1>1
  <2>3. \A x \in S, q \in Seq(S) : Append(q, x) \in Seq(S)
    OBVIOUS
  <2>4. w[k] \in Seq(S)
    BY <1>5, <2>1, <2>3
  <2> QED BY <2>2, <2>4
<1>6. n \in Good
  <2>1. n \in 0..n
    BY <1>1
  <2> HIDE DEF Good
  <2> QED BY <1>1, <1>4, <1>5, <2>1, UpTo
<1> QED BY <1>2, <1>6

\* Groups and the copies of their own that a target would have alone.
Twins(groups, own) ==
  \A g \in GroupIds :
    /\ own[g].name = groups[g].name /\ own[g].rank = groups[g].rank
    /\ own[g].parents = groups[g].parents /\ groups[g].parents \in Seq(STRING)
    /\ \A a \in Attrs : IsSlice(groups[g].attrs[a]) /\ own[g].attrs[a] = AsValue(groups[g].attrs[a])

LEMMA TwinAttrs ==
  ASSUME NEW groups, NEW own, Twins(groups, own), NEW g \in GroupIds, NEW a \in Attrs
  PROVE  LET v == groups[g].attrs[a]  x == own[g].attrs[a]
         IN /\ \A K : Fits(v, K) /\ \A hp : x = Cloned(v, hp)
            /\ \A k \in Kinds : Is(x, k) <=> Is(v, k)
            /\ ~Is(v, "items") => x = v
            /\ (x = Nil <=> v = Nil) /\ (x = Absent <=> v = Absent)
            /\ ToBool(x) = ToBool(v)
            /\ Is(v, "text") \/ Is(v, "number") => x = v
<1>1. PICK v, x : v = groups[g].attrs[a] /\ x = own[g].attrs[a]
  OBVIOUS
<1>2. IsSlice(v) /\ x = AsValue(v)
  BY <1>1 DEF Twins
<1>3. \A K, hp : Fits(v, K) /\ x = Cloned(v, hp)
  BY <1>2, SliceIs
<1>4. PICK hp, K : Fits(v, K) /\ x = Cloned(v, hp)
  BY <1>3
<1>5. /\ ~Is(v, "items") => x = v
      /\ \A k \in Kinds : Is(x, k) <=> Is(v, k)
      /\ (x = Nil <=> v = Nil) /\ (x = Absent <=> v = Absent)
      /\ ToBool(x) = ToBool(v)
  BY <1>4, ClonedIs
<1>6. Is(v, "items") => ~Is(v, "text") /\ ~Is(v, "number")
  BY <1>4 DEF Fits, Is
<1> QED BY <1>1, <1>3, <1>5, <1>6, Zenon

LEMMA TwinCloned ==
  ASSUME NEW groups, NEW own, Twins(groups, own), NEW g \in GroupIds, NEW a \in Attrs, NEW K, NEW hp
  PROVE  Fits(groups[g].attrs[a], K) /\ own[g].attrs[a] = Cloned(groups[g].attrs[a], hp)
  BY SliceIs DEF Twins

\* What a mapping reads is in Attrs.
Reads(m) == m.source \in Attrs /\ (Weighs(m) => m.weight \in Attrs)

\* The names of attributes in a transformer (ManifestsAssumption).
Named(tr) ==
  /\ tr.type = "selector" => \A s \in ToSet(tr.selectors) : s.field \in Attrs \cup FieldsOf(s)
  /\ tr.type = "sanitizer" =>
       \A s \in ToSet(tr.sanitizers) : s.type = "rewrite" => s.field \in Attrs \cup Own
  /\ tr.type = "template" => \A k \in DOMAIN tr.templates : tr.templates[k].field \in Attrs \cup Own
  /\ tr.type = "groupAggregation" => \A m \in ToSet(tr.mappings) : Reads(m) /\ IsSlice(m.default)
  /\ tr.type = "prefix" => (tr.prefixed => DOMAIN tr.field \subseteq Attrs)

LEMMA SelectedAlike ==
  ASSUME NEW id, NEW r, NEW hp, NEW K, Alike(id, r, hp, K), NEW groups, NEW own, Twins(groups, own),
         NEW tr, tr.type = "selector", Creates(tr), Named(tr)
  PROVE  \/ Selected(tr, id, groups) = Gone /\ Selected(tr, r, own) = Gone
         \/ Selected(tr, id, groups) = id /\ Selected(tr, r, own) = r
<1>1. ASSUME NEW s \in ToSet(tr.selectors) PROVE Matches(s, r, own) = Matches(s, id, groups)
  <2>1. s.type \in {"text", "bool", "group"} /\ s.field \in Attrs \cup FieldsOf(s)
    BY DEF Creates, ParsesSelectors, Named
  <2>2. r.disabled = id.disabled /\ r.groups = id.groups /\ r.groups \in Seq(STRING)
    BY DEF Alike
  <2>3. CASE s.type = "text"
    <3>1. s.field = "disabled" \/ s.field \in Attrs \cup Own
      BY <2>1, <2>3 DEF FieldsOf
    <3>2. s.field # "disabled" => TextOf(r, s.field) = TextOf(id, s.field)
      BY <3>1, TextsAre
    <3>3. SelectorText(r, s.field) = SelectorText(id, s.field)
      BY <2>2, <3>2 DEF SelectorText
    <3> QED BY <2>3, <3>3 DEF Matches, MatchesText
  <2>4. CASE s.type = "bool"
    <3>1. s.field = "disabled" \/ s.field \in Attrs
      BY <2>1, <2>4 DEF FieldsOf
    <3>2. s.field # "disabled" => /\ Is(r.attrs[s.field], "bool") <=> Is(id.attrs[s.field], "bool")
                                  /\ Is(id.attrs[s.field], "bool") => r.attrs[s.field] = id.attrs[s.field]
      BY <3>1, AttrsAre DEF Kinds
    <3>3. MatchesBool(s, r) = MatchesBool(s, id)
      BY <2>2, <3>2 DEF MatchesBool
    <3> QED BY <2>4, <3>3 DEF Matches
  <2>5. CASE s.type = "group"
    <3>1. s.field \in Attrs \cup {"name", "gid"}
      BY <2>1, <2>5 DEF FieldsOf
    <3>2. ASSUME NEW g \in GroupIds PROVE GroupText(s, g, own) = GroupText(s, g, groups)
      <4>1. own[g].name = groups[g].name
        BY DEF Twins
      <4>2. s.field \in Attrs => /\ Is(own[g].attrs[s.field], "text") <=> Is(groups[g].attrs[s.field], "text")
                                 /\ Is(groups[g].attrs[s.field], "text") =>
                                      own[g].attrs[s.field] = groups[g].attrs[s.field]
        BY TwinAttrs DEF Kinds
      <4> QED BY <3>1, <4>1, <4>2 DEF GroupText
    <3>3. PICK known : known = Among(id.groups, GroupIds)
      OBVIOUS
    <3>4. known \in Seq(GroupIds)
      BY <2>2, <3>3, AmongIs
    <3>5. \A i \in DOMAIN known : GroupText(s, known[i], own) = GroupText(s, known[i], groups)
      BY <3>2, <3>4
    <3>6. \A i \in DOMAIN known : 1..(i - 1) \subseteq DOMAIN known
      BY <3>4
    <3>7. MatchesGroup(s, r, own) = MatchesGroup(s, id, groups)
      BY <2>2, <3>3, <3>5, <3>6 DEF MatchesGroup
    <3> QED BY <2>5, <3>7 DEF Matches
  <2> QED BY <2>1, <2>3, <2>4, <2>5
<1> QED BY <1>1 DEF Selected

\* The placeholders of an expression in one order.
LEMMA ReplacedRuns ==
  ASSUME NEW id, NEW start, NEW n \in Nat, NEW order, DOMAIN order = 1..n
  PROVE  \E w : /\ Runs(w, n, start, [fold |-> "replaced", id |-> id, order |-> order])
                /\ w[n] = ReplacedAll(id, start, order)
<1> DEFINE c == [fold |-> "replaced", id |-> id, order |-> order]
           P(g) == g = [s \in SUBSET (DOMAIN order) |->
                          IF s = {} THEN start
                          ELSE Replaced(g[s \ {Max(s)}], order[Max(s)], id.attrs[order[Max(s)]])]
           iter == CHOOSE g : P(g)
<1>1. \A x, i : StepOf(c, x, i) = Replaced(x, order[i], id.attrs[order[i]])
  BY DEF StepOf
<1>2. ASSUME NEW g PROVE P(g) <=> IsFold(g, n, start, c)
  <2> HIDE DEF c
  <2> QED BY <1>1 DEF IsFold
<1>3. P(iter)
  <2>1. \E g : P(g)
    <3> HIDE DEF P, c
    <3> QED BY <1>2, FoldExists
  <2> HIDE DEF P
  <2> QED BY <2>1
<1>4. PICK w : Runs(w, n, start, c) /\ w[n] = iter[1..n]
  <2> HIDE DEF P, iter, c
  <2> QED BY <1>2, <1>3, FoldRuns
<1>5. ReplacedAll(id, start, order) = iter[DOMAIN order]
  BY DEF ReplacedAll, FoldLeft, MapThenFoldSet
<1> HIDE DEF iter, c
<1> QED BY <1>4, <1>5 DEF c

\* Two runs of the same steps from the same base are the same.
LEMMA SameRuns ==
  ASSUME NEW n \in Nat, NEW base, NEW c, NEW d, NEW v, NEW w, Runs(v, n, base, c), Runs(w, n, base, d),
         \A k \in 1..n : \A x : StepOf(c, x, k) = StepOf(d, x, k)
  PROVE  \A k \in 0..n : v[k] = w[k]
<1> DEFINE Same == {k \in 0..n : v[k] = w[k]}
<1>1. 0 \in Same
  <2>1. 0 \in 0..n
    OBVIOUS
  <2> QED BY <2>1 DEF Runs
<1>2. ASSUME NEW k \in 1..n, k - 1 \in Same PROVE k \in Same
  <2>1. k \in 0..n
    OBVIOUS
  <2>2. v[k] = StepOf(c, v[k - 1], k) /\ w[k] = StepOf(d, w[k - 1], k)
    BY DEF Runs
  <2> QED BY <1>2, <2>1, <2>2
<1>3. \A k \in 0..n : k \in Same
  <2> HIDE DEF Same
  <2> QED BY <1>1, <1>2, UpTo
<1> QED BY <1>3

LEMMA ReplacedAlike ==
  ASSUME NEW id, NEW r, NEW start, NEW n \in Nat, NEW order, DOMAIN order = 1..n,
         \A k \in 1..n : r.attrs[order[k]] = id.attrs[order[k]]
  PROVE  ReplacedAll(r, start, order) = ReplacedAll(id, start, order)
<1> DEFINE c == [fold |-> "replaced", id |-> id, order |-> order]
           d == [fold |-> "replaced", id |-> r, order |-> order]
<1>1. PICK v : Runs(v, n, start, c) /\ v[n] = ReplacedAll(id, start, order)
  BY ReplacedRuns
<1>2. PICK w : Runs(w, n, start, d) /\ w[n] = ReplacedAll(r, start, order)
  BY ReplacedRuns
<1>3. /\ \A x, k : StepOf(c, x, k) = Replaced(x, order[k], id.attrs[order[k]])
      /\ \A x, k : StepOf(d, x, k) = Replaced(x, order[k], r.attrs[order[k]])
  BY DEF StepOf
<1>4. \A k \in 1..n : \A x : StepOf(c, x, k) = StepOf(d, x, k)
  <2> HIDE DEF c, d
  <2> QED BY <1>3
<1>5. \A k \in 0..n : v[k] = w[k]
  <2> HIDE DEF c, d
  <2> QED BY <1>1, <1>2, <1>4, SameRuns
<1> QED BY <1>1, <1>2, <1>5

LEMMA ComputedAlike ==
  ASSUME NEW id, NEW r, NEW hp, NEW K, Alike(id, r, hp, K), NEW s, NEW x \in Computed(s, id)
  PROVE  \E y \in Computed(s, r) : Alike(x, y, hp, K)
<1>1. TextsIn(r) = TextsIn(id)
  BY AttrsAre DEF Kinds, TextsIn
<1>2. OwnReplaced(s, r) = OwnReplaced(s, id)
  BY Zenon DEF Alike, OwnReplaced
<1>3. PICK start : start = OwnReplaced(s, id)
  OBVIOUS
<1>4. PICK order \in SetToSeqs(TextsIn(id)) :
        x = [id EXCEPT !.attrs[s.target] = Text(ReplacedAll(id, start, order))]
  BY <1>3, Zenon DEF Computed
<1>5. PICK n : n = Cardinality(TextsIn(id)) /\ DOMAIN order = 1..n /\ \A k \in 1..n : order[k] \in TextsIn(id)
  BY DEF SetToSeqs
<1>6. n \in Nat
  <2>1. TextsIn(id) \subseteq Attrs
    BY DEF TextsIn
  <2>2. IsFiniteSet(Attrs)
    BY SourceAssumption, Zenon DEF SourceAssumption
  <2>3. IsFiniteSet(TextsIn(id))
    BY <2>1, <2>2, FS_Subset
  <2> QED BY <1>5, <2>3, FS_CardinalityType
<1>7. \A k \in 1..n : r.attrs[order[k]] = id.attrs[order[k]]
  <2>1. \A a \in TextsIn(id) : r.attrs[a] = id.attrs[a]
    BY AttrsAre DEF TextsIn
  <2> QED BY <1>5, <2>1
<1>8. PICK v : v = Text(ReplacedAll(id, start, order)) /\ v = Text(ReplacedAll(r, start, order))
  <2>1. ReplacedAll(r, start, order) = ReplacedAll(id, start, order)
    BY <1>5, <1>6, <1>7, ReplacedAlike
  <2> QED BY <2>1
<1>9. PICK y : y = Set(r, s.target, v)
  OBVIOUS
<1>10. y \in Computed(s, r)
  BY <1>1, <1>2, <1>3, <1>4, <1>8, <1>9, Zenon DEF Computed, Set
<1>11. Alike(x, y, hp, K)
  <2>1. Fits(v, K) /\ Cloned(v, hp) = v
    BY <1>8 DEF Fits, Cloned, Text, Is
  <2>2. Alike(Set(id, s.target, v), Set(r, s.target, v), hp, K)
    BY <2>1, AlikeSet
  <2> QED BY <1>4, <1>8, <1>9, <2>2 DEF Set
<1> QED BY <1>10, <1>11

\* A transformer fails on both or on neither.
Match(x, y, hp, K) == (x = Failed /\ y = Failed) \/ Alike(x, y, hp, K)

LEMMA SanitizedByAlike ==
  ASSUME NEW id, NEW r, NEW hp, NEW K, Alike(id, r, hp, K),
         NEW s, s.type \in {"rewrite", "compute"}, s.type = "rewrite" => s.field \in Attrs \cup Own,
         NEW x \in SanitizedBy(s, id)
  PROVE  \E y \in SanitizedBy(s, r) : Match(x, y, hp, K)
<1>1. CASE s.type = "rewrite"
  <2>1. SanitizedBy(s, r) = {Rewritten(s, r)} /\ SanitizedBy(s, id) = {Rewritten(s, id)}
    BY <1>1 DEF SanitizedBy
  <2>2. TextOf(r, s.field) = TextOf(id, s.field)
    BY <1>1, TextsAre
  <2>3. Match(Rewritten(s, id), Rewritten(s, r), hp, K)
    BY <2>2, AlikeText, Zenon DEF Rewritten, Match
  <2> QED BY <2>1, <2>3
<1>2. CASE s.type = "compute"
  <2>1. SanitizedBy(s, r) = Computed(s, r) /\ SanitizedBy(s, id) = Computed(s, id)
    BY <1>2 DEF SanitizedBy
  <2> QED BY <2>1, ComputedAlike DEF Match
<1> QED BY <1>1, <1>2

LEMMA SanitizedAlike ==
  ASSUME NEW id, NEW r, NEW hp, NEW K, Alike(id, r, hp, K),
         NEW tr, tr.type = "sanitizer", Listed(tr), Creates(tr), Named(tr),
         NEW x \in Sanitized(tr, id)
  PROVE  \E y \in Sanitized(tr, r) : Match(x, y, hp, K)
<1> DEFINE n == Len(tr.sanitizers)
           c == [fold |-> "sanitized", tr |-> tr]
<1>1. /\ n \in Nat /\ DOMAIN tr.sanitizers = 1..n
      /\ \A k \in 1..n : tr.sanitizers[k] \in ToSet(tr.sanitizers)
  BY ListDomain DEF Listed
<1>2. \A k \in 1..n : LET s == tr.sanitizers[k] IN
        s.type \in {"rewrite", "compute"} /\ (s.type = "rewrite" => s.field \in Attrs \cup Own)
  BY <1>1 DEF Creates, ParsesSanitizers, Named
<1> HIDE DEF n
<1>3. PICK v : Runs(v, n, {id}, c) /\ v[n] = Sanitized(tr, id)
  BY <1>1, SanitizedRuns
<1>4. PICK w : Runs(w, n, {r}, c) /\ w[n] = Sanitized(tr, r)
  BY <1>1, SanitizedRuns
<1>5. \A z, k : StepOf(c, z, k)
                  = UNION {IF i = Failed THEN {i} ELSE SanitizedBy(tr.sanitizers[k], i) : i \in z}
  BY DEF StepOf
<1> HIDE DEF c
<1> DEFINE S == {k \in 0..n : \A z \in v[k] : \E y \in w[k] : Match(z, y, hp, K)}
<1>6. 0 \in S
  <2>1. 0 \in 0..n
    BY <1>1
  <2>2. v[0] = {id} /\ w[0] = {r}
    BY <1>3, <1>4 DEF Runs
  <2> QED BY <2>1, <2>2 DEF Match
<1>7. ASSUME NEW k \in 1..n, k - 1 \in S PROVE k \in S
  <2>1. k \in 0..n
    BY <1>1
  <2>2. PICK s : s = tr.sanitizers[k]
    OBVIOUS
  <2>3. /\ v[k] = UNION {IF i = Failed THEN {i} ELSE SanitizedBy(s, i) : i \in v[k - 1]}
        /\ w[k] = UNION {IF i = Failed THEN {i} ELSE SanitizedBy(s, i) : i \in w[k - 1]}
    BY <1>3, <1>4, <1>5, <2>2 DEF Runs
  <2>4. ASSUME NEW z \in v[k] PROVE \E y \in w[k] : Match(z, y, hp, K)
    <3>1. PICK i \in v[k - 1] : z \in (IF i = Failed THEN {i} ELSE SanitizedBy(s, i))
      BY <2>3
    <3>2. PICK j \in w[k - 1] : Match(i, j, hp, K)
      BY <1>7
    <3>3. CASE i = Failed /\ j = Failed
      BY <2>3, <3>1, <3>3 DEF Match
    <3>4. CASE Alike(i, j, hp, K)
      <4>1. i # Failed /\ j # Failed
        BY <3>4, RecordKept DEF Alike
      <4>2. PICK y \in SanitizedBy(s, j) : Match(z, y, hp, K)
        BY <1>2, <2>2, <3>1, <3>4, <4>1, SanitizedByAlike
      <4> QED BY <2>3, <4>1, <4>2
    <3> QED BY <3>2, <3>3, <3>4 DEF Match
  <2> QED BY <2>1, <2>4
<1>8. n \in S
  <2>1. n \in 0..n
    BY <1>1
  <2> HIDE DEF S
  <2> QED BY <1>1, <1>6, <1>7, <2>1, UpTo
<1> QED BY <1>3, <1>4, <1>8

LEMMA RenderedAlike ==
  ASSUME NEW id, NEW r, NEW hp, NEW K, Alike(id, r, hp, K), NEW f \in Attrs \cup Own,
         NEW x, x = Rendered(FieldOf(id, f))
  PROVE  /\ Rendered(FieldOf(r, f)) = x /\ Fits(x, K) /\ Cloned(x, hp) = x
         /\ Is(FieldOf(r, f), "text") <=> Is(FieldOf(id, f), "text")
<1>1. PICK v, w : v = FieldOf(id, f) /\ w = FieldOf(r, f)
  OBVIOUS
<1>2. /\ \A k \in Kinds : Is(w, k) <=> Is(v, k)
      /\ ~Is(v, "items") => w = v
      /\ (w = Nil <=> v = Nil) /\ (w = Absent <=> v = Absent)
  <2>1. CASE f \in Own
    BY <1>1, <2>1 DEF FieldOf, Alike
  <2>2. CASE f \notin Own
    BY <1>1, <2>2, AttrsAre DEF FieldOf
  <2> QED BY <2>1, <2>2
<1>3. Rendered(w) = Rendered(v)
  BY <1>2 DEF Rendered, Kinds, IsNothing
<1>4. \A t : LET y == Text(t) IN ~Is(y, "items")
  BY DEF Text, Is
<1>5. ~Is(x, "items") \/ x = Private(x.items)
  <2>1. \A t \in DOMAIN ParsedTexts : Is(ParsedTexts[t], "items") =>
          ParsedTexts[t] = Private(ParsedTexts[t].items)
    BY ParsedAssumption, Zenon DEF ParsedAssumption
  <2> QED BY <1>1, <1>4, <2>1 DEF Rendered
<1>6. Fits(x, K) /\ Cloned(x, hp) = x
  <2>1. CASE ~Is(x, "items")
    BY <2>1 DEF Fits, Cloned
  <2>2. CASE x = Private(x.items)
    BY <2>2, PrivateIs DEF Cloned, ItemsOf
  <2> QED BY <1>5, <2>1, <2>2
<1> QED BY <1>1, <1>2, <1>3, <1>6 DEF Kinds

LEMMA FilledAlike ==
  ASSUME NEW id, NEW r, NEW hp, NEW K, Alike(id, r, hp, K),
         NEW now, NEW then, Alike(now, then, hp, K), NEW tr, NEW k, tr.templates[k].field \in Attrs \cup Own
  PROVE  Match(Filled(tr, id, now, k), Filled(tr, r, then, k), hp, K)
<1>1. PICK f : f = tr.templates[k].field
  OBVIOUS
<1>2. PICK x : x = Rendered(FieldOf(id, f))
  OBVIOUS
<1>3. /\ Rendered(FieldOf(r, f)) = x /\ Fits(x, K) /\ Cloned(x, hp) = x
      /\ Is(FieldOf(r, f), "text") <=> Is(FieldOf(id, f), "text")
  BY <1>1, <1>2, RenderedAlike
<1>4. now # Failed /\ then # Failed
  BY RecordKept DEF Alike
<1>5. Alike(Set(now, k, x), Set(then, k, x), hp, K)
  BY <1>3, AlikeSet
<1>6. /\ Filled(tr, id, now, k) = IF tr.templates[k].strict /\ ~Is(FieldOf(id, f), "text")
                                  THEN Failed ELSE Set(now, k, x)
      /\ Filled(tr, r, then, k) = IF tr.templates[k].strict /\ ~Is(FieldOf(r, f), "text")
                                  THEN Failed ELSE Set(then, k, x)
  BY <1>1, <1>2, <1>3, <1>4 DEF Filled, Snapshot, Set
<1> QED BY <1>3, <1>5, <1>6, Zenon DEF Match

LEMMA TemplatedAlike ==
  ASSUME NEW id, NEW r, NEW hp, NEW K, Alike(id, r, hp, K),
         NEW tr, tr.type = "template", Listed(tr), Named(tr),
         NEW x \in Templated(tr, id)
  PROVE  \E y \in Templated(tr, r) : Match(x, y, hp, K)
<1> DEFINE n == Cardinality(DOMAIN tr.templates)
<1>1. n \in Nat
  BY FS_CardinalityType DEF Listed
<1>2. PICK order \in SetToSeqs(DOMAIN tr.templates) : x = FilledAll(tr, id, order)
  BY Zenon DEF Templated, FilledAll
<1>3. DOMAIN order = 1..n /\ \A k \in 1..n : order[k] \in DOMAIN tr.templates
  BY DEF SetToSeqs
<1> HIDE DEF n
<1>4. PICK y : y = FilledAll(tr, r, order)
  OBVIOUS
<1>5. y \in Templated(tr, r)
  BY <1>2, <1>4, Zenon DEF Templated, FilledAll
<1> DEFINE c(i) == [fold |-> "templated", tr |-> tr, id |-> i, order |-> order]
<1>6. PICK v : Runs(v, n, id, c(id)) /\ v[n] = x
  BY <1>1, <1>2, <1>3, TemplatedRuns
<1>7. PICK w : Runs(w, n, r, c(r)) /\ w[n] = y
  BY <1>1, <1>3, <1>4, TemplatedRuns
<1>8. \A i, z, k : StepOf(c(i), z, k) = Filled(tr, i, z, order[k])
  BY DEF StepOf
<1> HIDE DEF c
<1>9. \A k \in 1..n : tr.templates[order[k]].field \in Attrs \cup Own
  BY <1>3 DEF Named
<1>10. \A i, k : Filled(tr, i, Failed, k) = Failed
  BY DEF Filled
<1> DEFINE S == {k \in 0..n : Match(v[k], w[k], hp, K)}
<1>11. 0 \in S
  <2>1. 0 \in 0..n
    BY <1>1
  <2> QED BY <1>6, <1>7, <2>1 DEF Runs, Match
<1>12. ASSUME NEW k \in 1..n, k - 1 \in S PROVE k \in S
  <2>1. k \in 0..n
    BY <1>1
  <2>2. v[k] = Filled(tr, id, v[k - 1], order[k]) /\ w[k] = Filled(tr, r, w[k - 1], order[k])
    BY <1>6, <1>7, <1>8 DEF Runs
  <2>3. CASE v[k - 1] = Failed /\ w[k - 1] = Failed
    BY <1>10, <2>1, <2>2, <2>3 DEF Match
  <2>4. CASE Alike(v[k - 1], w[k - 1], hp, K)
    BY <1>9, <2>1, <2>2, <2>4, FilledAlike
  <2>5. Match(v[k - 1], w[k - 1], hp, K)
    BY <1>12
  <2> QED BY <2>3, <2>4, <2>5 DEF Match
<1>13. n \in S
  <2>1. n \in 0..n
    BY <1>1
  <2> HIDE DEF S
  <2> QED BY <1>1, <1>11, <1>12, <2>1, UpTo
<1> QED BY <1>5, <1>6, <1>7, <1>13

LEMMA CutAlike ==
  ASSUME NEW id, NEW r, NEW hp, NEW K, Alike(id, r, hp, K),
         NEW tr, tr.type = "prefix", Named(tr)
  PROVE  Alike(Cut(tr, id), Cut(tr, r), hp, K)
<1>1. CASE ~tr.prefixed
  BY <1>1 DEF Cut
<1>2. CASE tr.prefixed
  <2> DEFINE From(a) == CHOOSE b \in DOMAIN tr.field : tr.field[b] = a
             Has(a) == \E b \in DOMAIN tr.field : tr.field[b] = a
             at(i) == [a \in Attrs |-> IF Has(a) THEN i.attrs[From(a)] ELSE Absent]
  <2>1. \A a \in Attrs : Has(a) => From(a) \in Attrs
    BY <1>2 DEF Named
  <2>2. Cut(tr, id) = [id EXCEPT !.attrs = at(id)] /\ Cut(tr, r) = [r EXCEPT !.attrs = at(r)]
    BY <1>2 DEF Cut
  <2>3. PICK id1, r1 : id1 = Cut(tr, id) /\ r1 = Cut(tr, r)
    OBVIOUS
  <2>4. IsRecord(id) /\ IsRecord(r)
    BY DEF Alike
  <2>5. /\ IsRecord(id1) /\ id1.own = id.own /\ id1.disabled = id.disabled
        /\ id1.groups = id.groups /\ id1.attrs = at(id)
    <3>1. at(id) = [a \in Attrs |-> at(id)[a]]
      OBVIOUS
    <3> HIDE DEF at
    <3> QED BY <2>2, <2>3, <2>4, <3>1, RecordAttrs
  <2>6. /\ IsRecord(r1) /\ r1.own = r.own /\ r1.disabled = r.disabled
        /\ r1.groups = r.groups /\ r1.attrs = at(r)
    <3>1. at(r) = [a \in Attrs |-> at(r)[a]]
      OBVIOUS
    <3> HIDE DEF at
    <3> QED BY <2>2, <2>3, <2>4, <3>1, RecordAttrs
  <2>7. ASSUME NEW a \in Attrs
        PROVE  Fits(id1.attrs[a], K) /\ r1.attrs[a] = Cloned(id1.attrs[a], hp)
    <3>1. CASE Has(a)
      <4>1. id1.attrs[a] = id.attrs[From(a)] /\ r1.attrs[a] = r.attrs[From(a)]
        BY <2>5, <2>6, <3>1
      <4>2. From(a) \in Attrs
        BY <2>1, <3>1
      <4> HIDE DEF From, Has, at
      <4> QED BY <4>1, <4>2 DEF Alike
    <3>2. CASE ~Has(a)
      <4>1. id1.attrs[a] = Absent /\ r1.attrs[a] = Absent
        BY <2>5, <2>6, <3>2
      <4> QED BY <4>1 DEF Fits, Cloned, Absent, Is
    <3> QED BY <3>1, <3>2
  <2>8. r.groups \in Seq(STRING) /\ r.own = id.own /\ r.disabled = id.disabled /\ r.groups = id.groups
    BY DEF Alike
  <2> HIDE DEF at
  <2> QED BY <2>3, <2>5, <2>6, <2>7, <2>8 DEF Alike
<1> QED BY <1>1, <1>2

\* What a transformer makes of an identity it makes of what that looks like.
Like(id, r, hp, K) == (id = Gone /\ r = Gone) \/ Alike(id, r, hp, K)

LEMMA ResultsAlike ==
  ASSUME NEW id, NEW r, NEW hp, NEW K, Alike(id, r, hp, K), NEW groups, NEW own, Twins(groups, own),
         NEW tr, tr.type # "groupAggregation", Listed(tr), Named(tr), Creates(tr) \/ tr.type = "prefix",
         NEW x \in Results(tr, id, groups)
  PROVE  \E y \in Results(tr, r, own) : (x = Failed /\ y = Failed) \/ Like(x, y, hp, K)
<1>1. CASE tr.type = "selector"
  <2>1. Results(tr, id, groups) = {Selected(tr, id, groups)} /\ Results(tr, r, own) = {Selected(tr, r, own)}
    BY <1>1 DEF Results
  <2>2. Creates(tr)
    BY <1>1
  <2>3. Like(Selected(tr, id, groups), Selected(tr, r, own), hp, K)
    BY <1>1, <2>2, SelectedAlike DEF Like
  <2> QED BY <2>1, <2>3
<1>2. CASE tr.type = "sanitizer"
  <2>1. Results(tr, id, groups) = Sanitized(tr, id) /\ Results(tr, r, own) = Sanitized(tr, r)
    BY <1>2 DEF Results
  <2>2. Creates(tr)
    BY <1>2
  <2> QED BY <1>2, <2>1, <2>2, SanitizedAlike DEF Like, Match
<1>3. CASE tr.type = "template"
  <2>1. Results(tr, id, groups) = Templated(tr, id) /\ Results(tr, r, own) = Templated(tr, r)
    BY <1>3 DEF Results
  <2> QED BY <1>3, <2>1, TemplatedAlike DEF Like, Match
<1>4. CASE tr.type = "prefix"
  <2>1. Results(tr, id, groups) = {Cut(tr, id)} /\ Results(tr, r, own) = {Cut(tr, r)}
    BY <1>4 DEF Results
  <2>2. Like(Cut(tr, id), Cut(tr, r), hp, K)
    BY <1>4, CutAlike DEF Like
  <2> QED BY <2>1, <2>2
<1> QED BY <1>1, <1>2, <1>3, <1>4 DEF Creates, Types

\* The groups of an identity are the same when they are copies.
LEMMA ResolvedTwins ==
  ASSUME NEW groups, NEW own, Twins(groups, own), NEW tr, NEW id, NEW r,
         r.groups = id.groups, id.groups \in Seq(STRING)
  PROVE  Resolved(tr, r, own) = Resolved(tr, id, groups) /\ Resolved(tr, id, groups) \in Seq(GroupIds)
<1>1. CASE ~tr.includeParents
  <2>1. Resolved(tr, r, own) = Among(r.groups, GroupIds) /\ Resolved(tr, id, groups) = Among(id.groups, GroupIds)
    BY <1>1 DEF Resolved
  <2> QED BY <2>1, AmongIs
<1>2. CASE tr.includeParents
  <2>1. HasParents(groups) /\ HasParents(own)
    BY DEF HasParents, Twins
  <2>2. PICK V : IsWalk(V, groups) /\ Resolved(tr, id, groups) = V[<<id.groups, <<>>>>]
    BY <1>2, <2>1, ResolvedIs
  <2>3. PICK W : IsWalk(W, own) /\ Resolved(tr, r, own) = W[<<r.groups, <<>>>>]
    BY <1>2, <2>1, ResolvedIs
  <2>4. ASSUME NEW s \in WalkStates, s[1] # <<>> PROVE Follow(s, own) = Follow(s, groups)
    <3>1. \A g \in GroupIds : own[g].parents = groups[g].parents
      BY DEF Twins
    <3> QED BY <3>1 DEF Follow
  <2>5. WalkOn(own) = WalkOn(groups)
    BY <2>4 DEF WalkOn
  <2>6. /\ Ends(WalkStates, WalkEnd, WalkOn(groups), WalkFound, V)
        /\ Ends(WalkStates, WalkEnd, WalkOn(groups), WalkFound, W)
    BY <2>2, <2>3, <2>5, WalkEnds
  <2>7. /\ Loop(WalkStates, WalkEnd, WalkOn(groups), Seq(GroupIds), WalkFound)
        /\ Shrinks(WalkStates, WalkEnd, WalkOn(groups), WalkSize,
                   FiniteSubsetsOf(GroupIds) \X Nat, SizeOrder)
    BY <2>1, WalkShrinks
  <2> DEFINE Q == {s \in WalkStates : V[s] = W[s]}
  <2>8. /\ \A s \in WalkEnd : s \in Q
        /\ \A s \in WalkStates \ WalkEnd : WalkOn(groups)[s] \in Q => s \in Q
    <3>1. WalkEnd \subseteq WalkStates
      BY DEF WalkEnd
    <3> QED BY <2>6, <3>1 DEF Ends
  <2>9. \A s \in WalkStates : s \in Q
    <3>1. WalkEnd \in SUBSET WalkStates /\ WalkOn(groups) \in [WalkStates -> WalkStates]
      BY <2>7 DEF Loop
    <3> HIDE DEF Q
    <3> QED BY <2>7, <2>8, <3>1, LoopInduction
  <2>10. <<id.groups, <<>>>> \in WalkStates
    <3>1. <<>> \in Seq(GroupIds)
      OBVIOUS
    <3> QED BY <3>1, Zenon DEF WalkStates
  <2>11. PICK s \in WalkStates \cap WalkEnd : V[<<id.groups, <<>>>>] = WalkFound[s]
    <3>1. \A s \in WalkStates \ WalkEnd : WalkOn(groups)[s] \in WalkStates
      BY <2>7 DEF Loop
    <3> QED BY <2>6, <2>7, <2>10, <3>1, LoopKeeps
  <2>12. WalkFound[s] \in Seq(GroupIds)
    BY <2>7, <2>11 DEF Loop
  <2> QED BY <2>2, <2>3, <2>9, <2>10, <2>11, <2>12
<1> QED BY <1>1, <1>2

LEMMA HavingTwins ==
  ASSUME NEW groups, NEW own, Twins(groups, own), NEW m, Reads(m), NEW gs \in Seq(GroupIds)
  PROVE  LET having == Having(m, gs, groups)
         IN /\ Having(m, gs, own) = having /\ having \in Seq(GroupIds)
<1>0. m.source \in Attrs
  BY DEF Reads
<1>1. PICK S : S = {g \in GroupIds : groups[g].attrs[m.source] # Absent}
  OBVIOUS
<1>2. {g \in GroupIds : own[g].attrs[m.source] # Absent} = S
  BY <1>0, <1>1, TwinAttrs
<1>3. Having(m, gs, groups) = Among(gs, S) /\ Having(m, gs, own) = Among(gs, S)
  BY <1>1, <1>2, Zenon DEF Having
<1>4. Among(gs, S) \in Seq(S)
  BY AmongIs
<1>5. Seq(S) \subseteq Seq(GroupIds)
  BY <1>1
<1> QED BY <1>3, <1>4, <1>5

LEMMA WeightedTwins ==
  ASSUME NEW groups, NEW own, Twins(groups, own), NEW m, Reads(m),
         NEW gs \in Seq(GroupIds), NEW K, NEW hp, NEW x, x = Weighted(m, gs, groups)
  PROVE  Fits(x, K) /\ Weighted(m, gs, own) = Cloned(x, hp)
<1> DEFINE n == Len(gs)
<1>1. n \in Nat /\ DOMAIN gs = 1..n /\ \A k \in 1..n : gs[k] \in GroupIds
  OBVIOUS
<1> HIDE DEF n
<1>2. PICK v : Weighing(v, m, gs, groups, n)
  BY <1>1, WeightedRuns
<1>3. PICK w : Weighing(w, m, gs, own, n)
  BY <1>1, WeightedRuns
<1>4. CASE ~Weighs(m)
  <2>1. x = Nil /\ Weighted(m, gs, own) = Nil
    BY <1>2, <1>3, <1>4 DEF Weighing
  <2> QED BY <2>1 DEF Fits, Cloned, Nil, Is
<1>5. CASE Weighs(m)
  <2>1. \A g \in GroupIds : WeightOf(m, g, own) = WeightOf(m, g, groups)
    BY <1>5, TwinAttrs DEF WeightOf, Kinds, Reads
  <2>2. \A g, b \in GroupIds : IsWinner(m, g, b, own) = IsWinner(m, g, b, groups)
    BY <2>1 DEF IsWinner, Twins
  <2>3. ASSUME NEW b \in 0..n, NEW i \in 1..n
        PROVE  Heavier(m, gs, b, i, own) = Heavier(m, gs, b, i, groups) /\ Heavier(m, gs, b, i, groups) \in 0..n
    <3>1. own[gs[i]].attrs[m.source] # Absent <=> groups[gs[i]].attrs[m.source] # Absent
      BY <1>1, TwinAttrs DEF Reads
    <3>2. b # 0 => IsWinner(m, gs[i], gs[b], own) = IsWinner(m, gs[i], gs[b], groups)
      BY <1>1, <2>2
    <3>3. i \in 0..n
      BY <1>1
    <3> QED BY <3>1, <3>2, <3>3 DEF Heavier
  <2> DEFINE S == {k \in 0..n : v[k] = w[k] /\ v[k] \in 0..n}
  <2>4. 0 \in S
    <3>1. 0 \in 0..n
      BY <1>1
    <3> QED BY <1>2, <1>3, <3>1 DEF Weighing
  <2>5. ASSUME NEW k \in 1..n, k - 1 \in S PROVE k \in S
    <3>1. k \in 0..n
      BY <1>1
    <3>2. v[k] = Heavier(m, gs, v[k - 1], k, groups) /\ w[k] = Heavier(m, gs, w[k - 1], k, own)
      BY <1>2, <1>3 DEF Weighing
    <3> QED BY <2>3, <2>5, <3>1, <3>2
  <2>6. n \in S
    <3>1. n \in 0..n
      BY <1>1
    <3> HIDE DEF S
    <3> QED BY <1>1, <2>4, <2>5, <3>1, UpTo
  <2>7. CASE v[n] = 0
    <3>1. x = Nil /\ Weighted(m, gs, own) = Nil
      BY <1>2, <1>3, <2>6, <2>7 DEF Weighing
    <3> QED BY <3>1 DEF Fits, Cloned, Nil, Is
  <2>8. CASE v[n] # 0
    <3>1. v[n] \in 1..n /\ w[n] = v[n]
      BY <1>1, <2>6, <2>8
    <3>2. x = groups[gs[v[n]]].attrs[m.source] /\ Weighted(m, gs, own) = own[gs[v[n]]].attrs[m.source]
      BY <1>2, <1>3, <1>5, <2>8, <3>1 DEF Weighing
    <3>3. PICK g : g = gs[v[n]]
      OBVIOUS
    <3>4. g \in GroupIds
      BY <1>1, <3>1, <3>3
    <3>5. \A a \in Attrs : Fits(groups[g].attrs[a], K) /\ own[g].attrs[a] = Cloned(groups[g].attrs[a], hp)
      BY <3>4, TwinCloned
    <3> QED BY <3>2, <3>3, <3>5 DEF Reads
  <2> QED BY <2>7, <2>8
<1> QED BY <1>4, <1>5

\* A value that is no list looks the same to all.
LEMMA PlainIs ==
  ASSUME NEW v, ~Is(v, "items"), NEW K, NEW hp
  PROVE  Fits(v, K) /\ Cloned(v, hp) = v
  BY DEF Fits, Cloned

\* A mapping that sets one value of the groups.
SetsOne(m) == m.mode \in Modes \ Appends

LEMMA AggregatedTwins ==
  ASSUME NEW groups, NEW own, Twins(groups, own), NEW m, Reads(m), SetsOne(m),
         NEW gs \in Seq(GroupIds), NEW K, NEW hp, NEW src, Fits(src, K), Cloned(src, hp) = src,
         NEW x, x = Aggregated(m, src, gs, groups)
  PROVE  Fits(x, K) /\ Aggregated(m, src, gs, own) = Cloned(x, hp)
<1> DEFINE having == Having(m, gs, groups)
           y == Aggregated(m, src, gs, own)
<1>1. Having(m, gs, own) = having /\ having \in Seq(GroupIds)
  BY HavingTwins
<1>2. \A g \in ToSet(gs) : g \in GroupIds
  BY DEF ToSet
<1>3. \A g \in ToSet(having) : g \in GroupIds
  BY <1>1 DEF ToSet
<1>4. Numbers(m, gs, own) = Numbers(m, gs, groups)
  <2>1. ASSUME NEW g \in ToSet(gs)
        PROVE  /\ Is(own[g].attrs[m.source], "number") <=> Is(groups[g].attrs[m.source], "number")
               /\ Is(groups[g].attrs[m.source], "number") => own[g].attrs[m.source] = groups[g].attrs[m.source]
    BY <1>2, TwinAttrs DEF Kinds, Reads
  <2> QED BY <2>1 DEF Numbers
<1>5. Bools(m, gs, own) = Bools(m, gs, groups)
  <2>1. \A g \in ToSet(having) : ToBool(own[g].attrs[m.source]) = ToBool(groups[g].attrs[m.source])
    BY <1>3, TwinAttrs DEF Reads
  <2> HIDE DEF having
  <2>2. Bools(m, gs, groups) = {ToBool(groups[g].attrs[m.source]) : g \in ToSet(having)}
    BY DEF Bools, having
  <2>3. Bools(m, gs, own) = {ToBool(own[g].attrs[m.source]) : g \in ToSet(having)}
    BY <1>1 DEF Bools
  <2> QED BY <2>1, <2>2, <2>3
<1>6. having # <<>> => Head(having) \in GroupIds /\ Last(having) \in GroupIds
  <2> HIDE DEF having
  <2>1. having # <<>> => Len(having) \in 1..Len(having) /\ 1 \in 1..Len(having)
    BY <1>1
  <2> QED BY <1>1, <2>1 DEF Last
<1> HIDE DEF having, y
<1>7. \A g \in GroupIds : Fits(groups[g].attrs[m.source], K)
                          /\ own[g].attrs[m.source] = Cloned(groups[g].attrs[m.source], hp)
  <2>1. \A a \in Attrs : \A g \in GroupIds : Fits(groups[g].attrs[a], K)
                                             /\ own[g].attrs[a] = Cloned(groups[g].attrs[a], hp)
    BY TwinCloned
  <2> QED BY <2>1 DEF Reads
<1>8. \A b : ~Is(Bool(b), "items") /\ ~Is(Number(b), "items") /\ ~Is(Nil, "items")
  BY DEF Is, Bool, Number, Nil
<1>9. CASE m.mode = "first"
  <2>1. x = IF having = <<>> THEN src ELSE groups[Head(having)].attrs[m.source]
    BY <1>9 DEF Aggregated, having
  <2>2. y = IF having = <<>> THEN src ELSE own[Head(having)].attrs[m.source]
    BY <1>1, <1>9 DEF Aggregated, y
  <2> QED BY <1>6, <1>7, <2>1, <2>2 DEF y
<1>10. CASE m.mode = "last"
  <2>1. x = IF having = <<>> THEN src ELSE groups[Last(having)].attrs[m.source]
    BY <1>10 DEF Aggregated, having
  <2>2. y = IF having = <<>> THEN src ELSE own[Last(having)].attrs[m.source]
    BY <1>1, <1>10 DEF Aggregated, y
  <2> QED BY <1>6, <1>7, <2>1, <2>2 DEF y
<1>11. CASE m.mode \in {"max", "min"}
  <2>1. y = x /\ (x = Nil \/ \E k : x = Number(k))
    <3>1. CASE m.mode = "max"
      BY <1>4, <3>1, Zenon DEF Aggregated, y
    <3>2. CASE m.mode = "min"
      BY <1>4, <3>2 DEF Aggregated, y
    <3> QED BY <1>11, <3>1, <3>2
  <2> QED BY <1>8, <2>1, PlainIs DEF y
<1>12. CASE m.mode = "weighted"
  <2>1. x = Weighted(m, gs, groups) /\ y = Weighted(m, gs, own)
    BY <1>12 DEF Aggregated, y
  <2>2. Fits(x, K) /\ Weighted(m, gs, own) = Cloned(x, hp)
    BY <2>1, WeightedTwins
  <2> QED BY <2>1, <2>2 DEF y
<1>13. CASE m.mode \in {"any", "all", "anyFalse", "allFalse"}
  <2>1. y = x /\ \E b : x = Bool(b)
    <3>1. CASE m.mode = "any"
      BY <1>5, <3>1 DEF Aggregated, y
    <3>2. CASE m.mode = "all"
      BY <1>5, <3>2 DEF Aggregated, y
    <3>3. CASE m.mode = "anyFalse"
      BY <1>5, <3>3 DEF Aggregated, y
    <3>4. CASE m.mode = "allFalse"
      BY <1>5, <3>4 DEF Aggregated, y
    <3> QED BY <1>13, <3>1, <3>2, <3>3, <3>4
  <2> QED BY <1>8, <2>1, PlainIs DEF y
<1> QED BY <1>9, <1>10, <1>11, <1>12, <1>13 DEF SetsOne, Modes, Appends

\* The default takes the place of the same values.
LEMMA OrDefaultAlike ==
  ASSUME NEW m, IsSlice(m.default), NEW x, NEW y, NEW K, NEW hp, Fits(x, K), y = Cloned(x, hp)
  PROVE  LET z == OrDefault(m, x)
         IN Fits(z, K) /\ AsValue(OrDefault(m, y)) = Cloned(z, hp)
<1> DEFINE Empty(v) == Is(v, "items") /\ v.items = <<>> /\ ~v.full
<1>1. /\ ~Is(x, "items") => y = x
      /\ Is(x, "items") => y = Private(ItemsOf(x, hp))
      /\ Is(y, "items") <=> Is(x, "items")
      /\ (y = Nil <=> x = Nil) /\ (y = Absent <=> x = Absent)
      /\ AsValue(y) = y
  BY ClonedIs DEF Kinds
<1>2. Empty(y) <=> Empty(x)
  <2>1. CASE ~Is(x, "items")
    BY <1>1, <2>1
  <2>2. CASE Is(x, "items") /\ ~x.full
    <3>1. y = Private(x.items)
      BY <1>1, <2>2 DEF ItemsOf
    <3>2. y.items = x.items /\ y.full = FALSE
      BY <3>1, PrivateIs
    <3> QED BY <1>1, <2>2, <3>2
  <2>3. CASE Is(x, "items") /\ x.full
    <3>1. x.items \in Seq(ToSet(x.items))
      BY <2>3 DEF Fits
    <3>2. PICK e : e = hp[x.cell]
      OBVIOUS
    <3>3. Append(x.items, e) # <<>>
      BY <3>1
    <3>4. y = Private(Append(x.items, e))
      BY <1>1, <2>3, <3>2 DEF ItemsOf
    <3>5. y.items # <<>>
      BY <3>3, <3>4, PrivateIs
    <3> QED BY <2>3, <3>5
  <2> QED BY <2>1, <2>2, <2>3
<1>3. IsNothing(y) <=> IsNothing(x)
  BY <1>1 DEF IsNothing
<1>4. \A v : OrDefault(m, v) = IF m.default # Nil /\ (IsNothing(v) \/ Empty(v)) THEN m.default
                               ELSE IF v = Absent THEN Nil ELSE v
  BY DEF OrDefault
<1> HIDE DEF Empty
<1>5. CASE m.default # Nil /\ (IsNothing(x) \/ Empty(x))
  <2>1. OrDefault(m, x) = m.default /\ OrDefault(m, y) = m.default
    BY <1>2, <1>3, <1>4, <1>5
  <2>2. PICK d : d = m.default
    OBVIOUS
  <2>3. Fits(d, K) /\ AsValue(d) = Cloned(d, hp)
    BY <2>2, SliceIs
  <2> QED BY <2>1, <2>2, <2>3
<1>6. CASE ~(m.default # Nil /\ (IsNothing(x) \/ Empty(x)))
  <2>1. /\ OrDefault(m, x) = IF x = Absent THEN Nil ELSE x
        /\ OrDefault(m, y) = IF y = Absent THEN Nil ELSE y
    BY <1>2, <1>3, <1>4, <1>6
  <2>2. CASE x = Absent
    <3>1. OrDefault(m, x) = Nil /\ OrDefault(m, y) = Nil
      BY <1>1, <2>1, <2>2
    <3>2. ~Is(Nil, "items")
      BY DEF Is, Nil
    <3>3. Fits(Nil, K) /\ Cloned(Nil, hp) = Nil /\ AsValue(Nil) = Nil
      BY <3>2, PlainIs DEF AsValue
    <3> QED BY <3>1, <3>3
  <2>3. CASE x # Absent
    BY <1>1, <2>1, <2>3
  <2> QED BY <2>2, <2>3
<1> QED BY <1>5, <1>6

\* A list under way in an aggregation.
IsList(v, K) == Is(v, "items") /\ Fits(v, K)

LEMMA StartAlike ==
  ASSUME NEW x, NEW y, NEW K, NEW hp, Fits(x, K), y = Cloned(x, hp)
  PROVE  IsList(Start(x), K) /\ Start(y) = Cloned(Start(x), hp)
<1>1. /\ ~Is(x, "items") => y = x
      /\ Is(y, "items") <=> Is(x, "items")
  BY ClonedIs DEF Kinds
<1>2. CASE Is(x, "items")
  BY <1>1, <1>2 DEF Start, IsList
<1>3. CASE ~Is(x, "items")
  <2>1. PICK s : Start(x) = Private(s) /\ Start(y) = Private(s)
    BY <1>1, <1>3 DEF Start
  <2>2. /\ Is(Private(s), "items") /\ Fits(Private(s), K) /\ Private(s).full = FALSE
        /\ Private(s).items = s
    BY PrivateIs DEF Kinds
  <2> QED BY <2>1, <2>2 DEF IsList, Cloned, ItemsOf
<1> QED BY <1>2, <1>3

\* The groups of a mapping that appends, on lists of one's own.
ExtendedAlone(m, list, gs, groups) ==
  FoldLeft(LAMBDA l, g : Extended(m, l, groups[g].attrs[m.source], NoHeap), list, gs)
MappedAll(tr, id, groups) == FoldLeft(LAMBDA i, m : MappedAlone(tr, i, m, groups), id, tr.mappings)

LEMMA ExtendedRuns ==
  ASSUME NEW m, NEW start, NEW gs, NEW groups, NEW n \in Nat, DOMAIN gs = 1..n
  PROVE  \E w : /\ Runs(w, n, start, [fold |-> "extended", m |-> m, gs |-> gs, groups |-> groups])
                /\ w[n] = ExtendedAlone(m, start, gs, groups)
<1> DEFINE c == [fold |-> "extended", m |-> m, gs |-> gs, groups |-> groups]
           P(g) == g = [s \in SUBSET (DOMAIN gs) |->
                          IF s = {} THEN start
                          ELSE Extended(m, g[s \ {Max(s)}], groups[gs[Max(s)]].attrs[m.source], NoHeap)]
           iter == CHOOSE g : P(g)
<1>1. \A x, i : StepOf(c, x, i) = Extended(m, x, groups[gs[i]].attrs[m.source], NoHeap)
  BY DEF StepOf
<1>2. ASSUME NEW g PROVE P(g) <=> IsFold(g, n, start, c)
  <2> HIDE DEF c
  <2> QED BY <1>1 DEF IsFold
<1>3. P(iter)
  <2>1. \E g : P(g)
    <3> HIDE DEF P, c
    <3> QED BY <1>2, FoldExists
  <2> HIDE DEF P
  <2> QED BY <2>1
<1>4. PICK w : Runs(w, n, start, c) /\ w[n] = iter[1..n]
  <2> HIDE DEF P, iter, c
  <2> QED BY <1>2, <1>3, FoldRuns
<1>5. ExtendedAlone(m, start, gs, groups) = iter[DOMAIN gs]
  BY DEF ExtendedAlone, FoldLeft, MapThenFoldSet
<1> HIDE DEF iter, c
<1> QED BY <1>4, <1>5 DEF c

LEMMA MappedRuns ==
  ASSUME NEW tr, NEW id, NEW groups, NEW n \in Nat, DOMAIN tr.mappings = 1..n
  PROVE  \E w : /\ Runs(w, n, id, [fold |-> "mapped", tr |-> tr, groups |-> groups])
                /\ w[n] = MappedAll(tr, id, groups)
<1> DEFINE c == [fold |-> "mapped", tr |-> tr, groups |-> groups]
           P(g) == g = [s \in SUBSET (DOMAIN tr.mappings) |->
                          IF s = {} THEN id
                          ELSE MappedAlone(tr, g[s \ {Max(s)}], tr.mappings[Max(s)], groups)]
           iter == CHOOSE g : P(g)
<1>1. \A x, i : StepOf(c, x, i) = MappedAlone(tr, x, tr.mappings[i], groups)
  BY DEF StepOf
<1>2. ASSUME NEW g PROVE P(g) <=> IsFold(g, n, id, c)
  <2> HIDE DEF c
  <2> QED BY <1>1 DEF IsFold
<1>3. P(iter)
  <2>1. \E g : P(g)
    <3> HIDE DEF P, c
    <3> QED BY <1>2, FoldExists
  <2> HIDE DEF P
  <2> QED BY <2>1
<1>4. PICK w : Runs(w, n, id, c) /\ w[n] = iter[1..n]
  <2> HIDE DEF P, iter, c
  <2> QED BY <1>2, <1>3, FoldRuns
<1>5. MappedAll(tr, id, groups) = iter[DOMAIN tr.mappings]
  BY DEF MappedAll, FoldLeft, MapThenFoldSet
<1> HIDE DEF iter, c
<1> QED BY <1>4, <1>5 DEF c

LEMMA AloneRuns ==
  ASSUME NEW steps, NEW id, NEW groups, NEW n \in Nat, DOMAIN steps = 1..n
  PROVE  \E w : /\ Runs(w, n, {id}, [fold |-> "alone", steps |-> steps, groups |-> groups])
                /\ w[n] = ResultsAlone(steps, id, groups)
<1> DEFINE c == [fold |-> "alone", steps |-> steps, groups |-> groups]
           P(g) == g = [s \in SUBSET (DOMAIN steps) |->
                          IF s = {} THEN {id}
                          ELSE StepAlone(g[s \ {Max(s)}], steps[Max(s)], groups)]
           iter == CHOOSE g : P(g)
<1>1. \A x, i : StepOf(c, x, i) = StepAlone(x, steps[i], groups)
  BY DEF StepOf
<1>2. ASSUME NEW g PROVE P(g) <=> IsFold(g, n, {id}, c)
  <2> HIDE DEF c
  <2> QED BY <1>1 DEF IsFold
<1>3. P(iter)
  <2>1. \E g : P(g)
    <3> HIDE DEF P, c
    <3> QED BY <1>2, FoldExists
  <2> HIDE DEF P
  <2> QED BY <2>1
<1>4. PICK w : Runs(w, n, {id}, c) /\ w[n] = iter[1..n]
  <2>1. IsFold(iter, n, {id}, c)
    <3> HIDE DEF P, iter, c
    <3> QED BY <1>2, <1>3
  <2> HIDE DEF P, iter, c
  <2> QED BY <2>1, FoldRuns
<1>5. ResultsAlone(steps, id, groups) = iter[DOMAIN steps]
  BY DEF ResultsAlone, FoldLeft, MapThenFoldSet
<1> HIDE DEF iter, c
<1> QED BY <1>4, <1>5 DEF c

\* The defaults of an identity without groups: lists of one's own are copied at the end.
Halfway(id, r, hp, K) ==
  /\ IsRecord(id) /\ IsRecord(r) /\ r.groups \in Seq(STRING)
  /\ r.own = id.own /\ r.disabled = id.disabled /\ r.groups = id.groups
  /\ \A a \in Attrs : Fits(id.attrs[a], K) /\ AsValue(r.attrs[a]) = Cloned(id.attrs[a], hp)

LEMMA HalfwaySet ==
  ASSUME NEW id, NEW r, NEW hp, NEW K, Halfway(id, r, hp, K), NEW d, IsSlice(d), NEW a
  PROVE  Halfway(Set(id, a, d), Set(r, a, d), hp, K)
<1>1. PICK id1 : id1 = Set(id, a, d)
  OBVIOUS
<1>2. PICK r1 : r1 = Set(r, a, d)
  OBVIOUS
<1>3. IsRecord(id) /\ IsRecord(r)
  BY DEF Halfway
<1>4. /\ IsRecord(id1) /\ id1.own = id.own /\ id1.disabled = id.disabled /\ id1.groups = id.groups
      /\ \A b \in Attrs : id1.attrs[b] = IF b = a THEN d ELSE id.attrs[b]
  BY <1>1, <1>3, RecordSet
<1>5. /\ IsRecord(r1) /\ r1.own = r.own /\ r1.disabled = r.disabled /\ r1.groups = r.groups
      /\ \A b \in Attrs : r1.attrs[b] = IF b = a THEN d ELSE r.attrs[b]
  BY <1>2, <1>3, RecordSet
<1>6. Fits(d, K) /\ AsValue(d) = Cloned(d, hp)
  BY SliceIs
<1>7. Halfway(id1, r1, hp, K)
  BY <1>4, <1>5, <1>6 DEF Halfway
<1> QED BY <1>1, <1>2, <1>7

LEMMA DefaultedAlike ==
  ASSUME NEW id, NEW r, NEW hp, NEW K, Alike(id, r, hp, K),
         NEW tr, tr.type = "groupAggregation", Listed(tr), Named(tr)
  PROVE  Alike(Defaulted(tr, id), OwnCopy(Defaulted(tr, r)), hp, K)
<1> DEFINE n == Len(tr.mappings)
           c == [fold |-> "defaulted", tr |-> tr]
<1>1. /\ n \in Nat /\ DOMAIN tr.mappings = 1..n
      /\ \A k \in 1..n : tr.mappings[k] \in ToSet(tr.mappings)
  BY ListDomain DEF Listed
<1>2. \A k \in 1..n : IsSlice(tr.mappings[k].default)
  BY <1>1 DEF Named
<1> HIDE DEF n
<1>3. PICK v : Runs(v, n, id, c) /\ v[n] = Defaulted(tr, id)
  BY <1>1, DefaultedRuns
<1>4. PICK w : Runs(w, n, r, c) /\ w[n] = Defaulted(tr, r)
  BY <1>1, DefaultedRuns
<1>5. \A x, k : LET m == tr.mappings[k] IN
        StepOf(c, x, k) = IF m.default = Nil THEN x ELSE Set(x, m.target, m.default)
  BY DEF StepOf, Set
<1> HIDE DEF c
<1> DEFINE S == {k \in 0..n : Halfway(v[k], w[k], hp, K)}
<1>6. 0 \in S
  <2>1. 0 \in 0..n
    BY <1>1
  <2>2. ASSUME NEW a \in Attrs PROVE AsValue(r.attrs[a]) = Cloned(id.attrs[a], hp)
    <3>1. PICK x, y : x = id.attrs[a] /\ y = r.attrs[a]
      OBVIOUS
    <3>2. Fits(x, K) /\ y = Cloned(x, hp)
      BY <3>1 DEF Alike
    <3>3. AsValue(y) = y
      BY <3>2, ClonedIs
    <3> QED BY <3>1, <3>2, <3>3
  <2>3. Halfway(id, r, hp, K)
    BY <2>2 DEF Alike, Halfway
  <2> QED BY <1>3, <1>4, <2>1, <2>3 DEF Runs
<1>7. ASSUME NEW k \in 1..n, k - 1 \in S PROVE k \in S
  <2>1. k \in 0..n
    BY <1>1
  <2>2. PICK m : m = tr.mappings[k]
    OBVIOUS
  <2>3. /\ v[k] = IF m.default = Nil THEN v[k - 1] ELSE Set(v[k - 1], m.target, m.default)
        /\ w[k] = IF m.default = Nil THEN w[k - 1] ELSE Set(w[k - 1], m.target, m.default)
    BY <1>3, <1>4, <1>5, <2>2 DEF Runs
  <2>4. IsSlice(m.default)
    BY <1>2, <2>2
  <2>5. Halfway(v[k], w[k], hp, K)
    BY <1>7, <2>3, <2>4, HalfwaySet
  <2> QED BY <2>1, <2>5
<1>8. Halfway(v[n], w[n], hp, K)
  <2>1. n \in 0..n
    BY <1>1
  <2>2. n \in S
    <3> HIDE DEF S
    <3> QED BY <1>1, <1>6, <1>7, <2>1, UpTo
  <2> QED BY <2>2
<1>9. PICK x, y : x = Defaulted(tr, id) /\ y = Defaulted(tr, r)
  OBVIOUS
<1>10. Halfway(x, y, hp, K)
  BY <1>3, <1>4, <1>8, <1>9
<1>11. PICK z : z = OwnCopy(y)
  OBVIOUS
<1>12. /\ IsRecord(z) /\ z.own = y.own /\ z.disabled = y.disabled /\ z.groups = y.groups
       /\ z.attrs = [a \in Attrs |-> AsValue(y.attrs[a])]
  <2>1. PICK at : at = [a \in Attrs |-> AsValue(y.attrs[a])]
    OBVIOUS
  <2>2. z = [y EXCEPT !.attrs = at] /\ at = [a \in Attrs |-> at[a]]
    BY <1>11, <2>1 DEF OwnCopy
  <2>3. IsRecord(y)
    BY <1>10 DEF Halfway
  <2>4. /\ IsRecord(z) /\ z.own = y.own /\ z.disabled = y.disabled /\ z.groups = y.groups
        /\ z.attrs = at
    BY <2>2, <2>3, RecordAttrs
  <2> QED BY <2>1, <2>4
<1>13. Alike(x, z, hp, K)
  BY <1>10, <1>12 DEF Halfway, Alike
<1> QED BY <1>9, <1>11, <1>13

(***************************************************************************)
(* The steps of an aggregation.  F are the identities between its mappings *)
(* when nothing else runs, G the lists between the groups of one that      *)
(* appends; the pipeline has come to one of each.                          *)
(***************************************************************************)
IsMapping(F, y, tr, own) ==
  /\ F[0] = y /\ F[Len(tr.mappings)] = MappedAll(tr, y, own)
  /\ \A k \in 1..Len(tr.mappings) : F[k] = MappedAlone(tr, F[k - 1], tr.mappings[k], own)
IsExtending(G, m, list, gs, own) ==
  /\ G[0] = list /\ G[Len(gs)] = ExtendedAlone(m, list, gs, own)
  /\ \A k \in 1..Len(gs) : G[k] = Extended(m, G[k - 1], own[gs[k]].attrs[m.source], NoHeap)

LEMMA MappingExists ==
  ASSUME NEW y, NEW tr, NEW own, tr.type = "groupAggregation", Listed(tr)
  PROVE  \E F : IsMapping(F, y, tr, own)
<1> DEFINE n == Len(tr.mappings)
           c == [fold |-> "mapped", tr |-> tr, groups |-> own]
<1>1. n \in Nat /\ DOMAIN tr.mappings = 1..n
  BY ListDomain DEF Listed
<1>2. PICK w : Runs(w, n, y, c) /\ w[n] = MappedAll(tr, y, own)
  <2> HIDE DEF n
  <2> QED BY <1>1, MappedRuns
<1>3. \A x, i : StepOf(c, x, i) = MappedAlone(tr, x, tr.mappings[i], own)
  BY DEF StepOf
<1> HIDE DEF c
<1> QED BY <1>2, <1>3 DEF IsMapping, Runs

LEMMA ExtendingExists ==
  ASSUME NEW m, NEW list, NEW gs \in Seq(GroupIds), NEW own
  PROVE  \E G : IsExtending(G, m, list, gs, own)
<1> DEFINE n == Len(gs)
           c == [fold |-> "extended", m |-> m, gs |-> gs, groups |-> own]
<1>1. n \in Nat /\ DOMAIN gs = 1..n
  OBVIOUS
<1>2. PICK w : Runs(w, n, list, c) /\ w[n] = ExtendedAlone(m, list, gs, own)
  <2> HIDE DEF n
  <2> QED BY <1>1, ExtendedRuns
<1>3. \A x, i : StepOf(c, x, i) = Extended(m, x, own[gs[i]].attrs[m.source], NoHeap)
  BY DEF StepOf
<1> HIDE DEF c
<1> QED BY <1>2, <1>3 DEF IsExtending, Runs

LEMMA MappedAloneIs ==
  ASSUME NEW tr, NEW r, NEW m, NEW own
  PROVE  LET gs == Resolved(tr, r, own)
             src == r.attrs[m.source]
             v == IF m.mode \in Appends THEN ExtendedAlone(m, Start(src), Having(m, gs, own), own)
                  ELSE Aggregated(m, src, gs, own)
         IN MappedAlone(tr, r, m, own) = Set(r, m.target, AsValue(OrDefault(m, v)))
  BY Zenon DEF MappedAlone, ExtendedAlone, Set

\* The list of the aggregation a is one of those that the mapping m goes through.
Extending(a, m, r, tr, own, hp, K) ==
  LET hv == Having(m, Resolved(tr, r, own), own) IN
  \E G : /\ IsExtending(G, m, Start(r.attrs[m.source]), hv, own)
         /\ \E p \in 0..Len(hv) :
              /\ a.rest = SubSeq(hv, p + 1, Len(hv))
              /\ IsList(a.list, K) /\ G[p] = Cloned(a.list, hp)
UnderWay(a, id, y, tr, own, hp, K) ==
  /\ IsRecord(y) /\ y.groups # <<>> /\ a.m \in 1..Len(tr.mappings)
  /\ \E F : /\ IsMapping(F, y, tr, own) /\ Alike(id, F[a.m - 1], hp, K)
            /\ LET m == tr.mappings[a.m]
               IN IF m.mode \in Appends THEN Extending(a, m, F[a.m - 1], tr, own, hp, K)
                  ELSE a.rest = <<>>

\* An aggregation has lists, and reads attributes that there are.
Ready(tr) == tr.type = "groupAggregation" /\ Listed(tr) /\ Named(tr) /\ Creates(tr)

LEMMA MappingOk ==
  ASSUME NEW tr, Ready(tr), NEW k \in 1..Len(tr.mappings), NEW m, m = tr.mappings[k]
  PROVE  Reads(m) /\ IsSlice(m.default) /\ m.mode \in Modes
<1>1. Len(tr.mappings) \in Nat /\ \A j \in 1..Len(tr.mappings) : tr.mappings[j] \in ToSet(tr.mappings)
  BY ListDomain DEF Ready, Listed
<1> QED BY <1>1 DEF Ready, Named, Creates, ParsesMappings

LEMMA BegunAlike ==
  ASSUME NEW groups, NEW own, Twins(groups, own), NEW tr, Ready(tr),
         NEW y, IsRecord(y), y.groups # <<>>, NEW F, IsMapping(F, y, tr, own),
         NEW k \in 1..Len(tr.mappings), NEW id, NEW hp, NEW K, Alike(id, F[k - 1], hp, K),
         NEW m, m = tr.mappings[k], NEW a, a.m = k,
         a.rest = IF m.mode \in Appends THEN Having(m, Resolved(tr, id, groups), groups) ELSE <<>>,
         m.mode \in Appends => a.list = Start(id.attrs[m.source])
  PROVE  UnderWay(a, id, y, tr, own, hp, K)
<1>1. PICK r : r = F[k - 1]
  OBVIOUS
<1>2. Alike(id, r, hp, K)
  BY <1>1
<1>3. Reads(m)
  BY MappingOk
<1>4. r.groups = id.groups /\ id.groups \in Seq(STRING)
  BY <1>2 DEF Alike
<1>5. PICK gs : gs = Resolved(tr, r, own) /\ gs = Resolved(tr, id, groups) /\ gs \in Seq(GroupIds)
  BY <1>4, ResolvedTwins
<1>6. PICK hv : hv = Having(m, gs, own) /\ hv = Having(m, gs, groups) /\ hv \in Seq(GroupIds)
  BY <1>3, <1>5, HavingTwins
<1>7. ASSUME m.mode \in Appends PROVE Extending(a, m, r, tr, own, hp, K)
  <2>1. PICK x, z : x = id.attrs[m.source] /\ z = r.attrs[m.source]
    OBVIOUS
  <2>2. Fits(x, K) /\ z = Cloned(x, hp)
    BY <1>2, <1>3, <2>1 DEF Alike, Reads
  <2>3. IsList(a.list, K) /\ Start(z) = Cloned(a.list, hp)
    BY <1>7, <2>1, <2>2, StartAlike
  <2>4. PICK G : IsExtending(G, m, Start(z), hv, own)
    BY <1>6, ExtendingExists
  <2>5. a.rest = hv
    BY <1>5, <1>6, <1>7
  <2>6. 0 \in 0..Len(hv) /\ SubSeq(hv, 0 + 1, Len(hv)) = hv
    BY <1>6, SubSeqFull
  <2>7. G[0] = Cloned(a.list, hp)
    BY <2>3, <2>4 DEF IsExtending
  <2> QED BY <1>5, <1>6, <2>1, <2>3, <2>4, <2>5, <2>6, <2>7 DEF Extending
<1> QED BY <1>1, <1>2, <1>7 DEF UnderWay

\* The mapping that ends: what it sets looks like what it would have set.
LEMMA AssignedAlike ==
  ASSUME NEW groups, NEW own, Twins(groups, own), NEW tr, Ready(tr), NEW y, NEW id, NEW hp, NEW K,
         NEW a, UnderWay(a, id, y, tr, own, hp, K), a.rest = <<>>, NEW m, m = tr.mappings[a.m],
         NEW v, v = IF m.mode \in Appends THEN a.list
                    ELSE Aggregated(m, Cloned(id.attrs[m.source], hp), Resolved(tr, id, groups), groups)
  PROVE  \E F : IsMapping(F, y, tr, own) /\ Alike(Set(id, m.target, OrDefault(m, v)), F[a.m], hp, K)
<1>1. PICK k \in 1..Len(tr.mappings) : k = a.m
  BY DEF UnderWay
<1>2. PICK F : /\ IsMapping(F, y, tr, own) /\ Alike(id, F[k - 1], hp, K)
               /\ IF m.mode \in Appends THEN Extending(a, m, F[k - 1], tr, own, hp, K) ELSE a.rest = <<>>
  BY <1>1 DEF UnderWay
<1>3. PICK r : r = F[k - 1]
  OBVIOUS
<1>4. Alike(id, r, hp, K)
  BY <1>2, <1>3
<1>5. Reads(m) /\ IsSlice(m.default) /\ m.mode \in Modes
  BY <1>1, MappingOk
<1>6. r.groups = id.groups /\ id.groups \in Seq(STRING)
  BY <1>4 DEF Alike
<1>7. PICK gs : gs = Resolved(tr, r, own) /\ gs = Resolved(tr, id, groups) /\ gs \in Seq(GroupIds)
  BY <1>6, ResolvedTwins
<1>8. PICK x, z : x = id.attrs[m.source] /\ z = r.attrs[m.source]
  OBVIOUS
<1>9. Fits(x, K) /\ z = Cloned(x, hp)
  BY <1>4, <1>5, <1>8 DEF Alike, Reads
<1>10. PICK w : w = IF m.mode \in Appends THEN ExtendedAlone(m, Start(z), Having(m, gs, own), own)
                    ELSE Aggregated(m, z, gs, own)
  OBVIOUS
<1>11. Fits(v, K) /\ w = Cloned(v, hp)
  <2>1. CASE m.mode \in Appends
    <3>1. PICK hv : hv = Having(m, gs, own) /\ hv \in Seq(GroupIds)
      BY <1>5, <1>7, HavingTwins
    <3>2. PICK G, p : /\ IsExtending(G, m, Start(z), hv, own) /\ p \in 0..Len(hv)
                      /\ a.rest = SubSeq(hv, p + 1, Len(hv))
                      /\ IsList(a.list, K) /\ G[p] = Cloned(a.list, hp)
      BY <1>2, <1>3, <1>7, <1>8, <2>1, <3>1 DEF Extending
    <3>3. p = Len(hv)
      <4>1. p + 1 \in 1..(Len(hv) + 1) /\ Len(hv) \in Nat
        BY <3>1, <3>2
      <4>2. Len(SubSeq(hv, p + 1, Len(hv))) = Len(hv) - p
        BY <3>1, <3>2, <4>1
      <4> QED BY <3>2, <4>1, <4>2
    <3>4. w = G[Len(hv)] /\ v = a.list
      BY <1>10, <2>1, <3>1, <3>2 DEF IsExtending
    <3> QED BY <3>2, <3>3, <3>4 DEF IsList
  <2>2. CASE m.mode \notin Appends
    <3>1. PICK src : src = Cloned(x, hp)
      OBVIOUS
    <3>2. Fits(src, K) /\ Cloned(src, hp) = src
      BY <1>9, <3>1, ClonedIs
    <3>3. SetsOne(m)
      BY <1>5, <2>2 DEF SetsOne
    <3>4. v = Aggregated(m, src, gs, groups) /\ w = Aggregated(m, src, gs, own)
      BY <1>7, <1>8, <1>9, <1>10, <2>2, <3>1
    <3>5. Fits(v, K) /\ Aggregated(m, src, gs, own) = Cloned(v, hp)
      <4>1. Reads(m) /\ gs \in Seq(GroupIds) /\ v = Aggregated(m, src, gs, groups)
        BY <1>5, <1>7, <3>4
      <4> QED BY <3>2, <3>3, <4>1, AggregatedTwins
    <3> QED BY <3>4, <3>5
  <2> QED BY <2>1, <2>2
<1>12. PICK o, q : o = OrDefault(m, v) /\ q = AsValue(OrDefault(m, w))
  OBVIOUS
<1>13. Fits(o, K) /\ q = Cloned(o, hp)
  <2>1. IsSlice(m.default) /\ Fits(v, K) /\ w = Cloned(v, hp)
    BY <1>5, <1>11
  <2>2. Fits(OrDefault(m, v), K) /\ AsValue(OrDefault(m, w)) = Cloned(OrDefault(m, v), hp)
    BY <2>1, OrDefaultAlike
  <2> QED BY <1>12, <2>2
<1>14. Alike(Set(id, m.target, o), Set(r, m.target, q), hp, K)
  BY <1>4, <1>13, AlikeSet
<1>15. F[k] = MappedAlone(tr, r, m, own)
  BY <1>1, <1>2, <1>3 DEF IsMapping
<1>16. MappedAlone(tr, r, m, own) = Set(r, m.target, q)
  BY <1>7, <1>8, <1>10, <1>12, MappedAloneIs
<1> QED BY <1>1, <1>2, <1>12, <1>14, <1>15, <1>16

\* What an identity looks like stays when the cells K that it wrote stay.
Agree(h, hp, K) == \A c \in K : h[c] = hp[c]

LEMMA GrownValue ==
  ASSUME NEW v, NEW K, NEW L, Fits(v, K), K \subseteq L, NEW hp, NEW h, Agree(h, hp, K)
  PROVE  Fits(v, L) /\ Cloned(v, h) = Cloned(v, hp)
<1>1. Fits(v, L)
  BY DEF Fits
<1>2. Is(v, "items") => ItemsOf(v, h) = ItemsOf(v, hp)
  <2>1. Is(v, "items") /\ v.full => v.cell \in K
    BY DEF Fits
  <2> QED BY <2>1 DEF ItemsOf, Agree
<1> QED BY <1>1, <1>2 DEF Cloned

LEMMA GrownAlike ==
  ASSUME NEW id, NEW r, NEW hp, NEW K, Alike(id, r, hp, K), NEW L, K \subseteq L,
         NEW h, Agree(h, hp, K)
  PROVE  Alike(id, r, h, L)
<1>1. ASSUME NEW a \in Attrs PROVE Fits(id.attrs[a], L) /\ r.attrs[a] = Cloned(id.attrs[a], h)
  <2>1. PICK v, x : v = id.attrs[a] /\ x = r.attrs[a]
    OBVIOUS
  <2>2. Fits(v, K) /\ x = Cloned(v, hp)
    BY <2>1 DEF Alike
  <2> QED BY <2>1, <2>2, GrownValue
<1> QED BY <1>1 DEF Alike

LEMMA GrownLike ==
  ASSUME NEW id, NEW r, NEW hp, NEW K, Like(id, r, hp, K), NEW L, K \subseteq L,
         NEW h, Agree(h, hp, K)
  PROVE  Like(id, r, h, L)
  BY GrownAlike DEF Like

LEMMA GrownUnderWay ==
  ASSUME NEW a, NEW id, NEW y, NEW tr, NEW own, NEW hp, NEW K, UnderWay(a, id, y, tr, own, hp, K),
         NEW L, K \subseteq L, NEW h, Agree(h, hp, K)
  PROVE  UnderWay(a, id, y, tr, own, h, L)
<1>1. PICK m : m = tr.mappings[a.m]
  OBVIOUS
<1>2. PICK F : /\ IsMapping(F, y, tr, own) /\ Alike(id, F[a.m - 1], hp, K)
               /\ IF m.mode \in Appends THEN Extending(a, m, F[a.m - 1], tr, own, hp, K) ELSE a.rest = <<>>
  BY <1>1 DEF UnderWay
<1>3. PICK r : r = F[a.m - 1]
  OBVIOUS
<1>4. Alike(id, r, h, L)
  <2>1. Alike(id, r, hp, K)
    BY <1>2, <1>3
  <2> QED BY <2>1, GrownAlike
<1>5. ASSUME Extending(a, m, r, tr, own, hp, K) PROVE Extending(a, m, r, tr, own, h, L)
  <2>1. PICK list : list = a.list
    OBVIOUS
  <2>2. IsList(list, K) => IsList(list, L) /\ Cloned(list, h) = Cloned(list, hp)
    BY GrownValue DEF IsList
  <2> QED BY <1>5, <2>1, <2>2 DEF Extending
<1> QED BY <1>1, <1>2, <1>3, <1>4, <1>5 DEF UnderWay

LEMMA NextOf ==
  ASSUME NEW S, NEW s \in Seq(S), NEW p \in 0..Len(s), SubSeq(s, p + 1, Len(s)) # <<>>
  PROVE  /\ p + 1 \in 0..Len(s) /\ p + 1 \in 1..Len(s) /\ (p + 1) - 1 = p
         /\ Head(SubSeq(s, p + 1, Len(s))) = s[p + 1]
         /\ Tail(SubSeq(s, p + 1, Len(s))) = SubSeq(s, (p + 1) + 1, Len(s))
<1> DEFINE n == Len(s)
<1>1. n \in Nat
  OBVIOUS
<1>2. p + 1 \in Int /\ n \in Int /\ ~(n < p + 1)
  <2>1. n < p + 1 => SubSeq(s, p + 1, n) = <<>>
    BY SubSeqEmpty
  <2> QED BY <1>1, <2>1
<1>3. PICK q : q = p + 1
  OBVIOUS
<1>4. q \in 1..n /\ n \in q..n /\ q \in 0..n /\ q - 1 = p
  BY <1>1, <1>2, <1>3
<1>5. Head(SubSeq(s, q, n)) = s[q] /\ Tail(SubSeq(s, q, n)) = SubSeq(s, q + 1, n)
  BY <1>4, HeadTailOfSubSeq
<1> QED BY <1>3, <1>4, <1>5

\* The cell that a group goes into holds it.
Holds(m, list, v, hp, h, L) == WritesCell(m, list, v, hp) => list.cell \in L /\ h[list.cell] = v

\* One more group: the list that a pipeline extends still looks like its own copy.
LEMMA ListExtended ==
  ASSUME NEW m, NEW hp, NEW K, NEW list, IsList(list, K), NEW v, IsSlice(v),
         NEW L, K \subseteq L, NEW h, Agree(h, hp, K), Holds(m, list, v, hp, h, L)
  PROVE  /\ IsList(Extended(m, list, v, hp), L)
         /\ Extended(m, Cloned(list, hp), AsValue(v), NoHeap) = Cloned(Extended(m, list, v, hp), h)
<1> DEFINE on == Extended(m, list, v, hp)
           copy == Cloned(list, hp)
           w == AsValue(v)
           alone == Extended(m, copy, w, NoHeap)
           items == ItemsOf(list, hp)
           unique == m.mode = "uniqueAppend"
<1>1. copy = Private(items)
  BY DEF Cloned, IsList
<1>2. copy.full = FALSE /\ ItemsOf(copy, NoHeap) = items /\ ~InPlace(copy)
  BY <1>1, PrivateIs DEF ItemsOf, InPlace
<1>3. Is(w, "items") <=> Is(v, "items")
  BY PrivateIs DEF AsValue, Kinds
<1>4. \A s : IsList(Private(s), L) /\ Cloned(Private(s), h) = Private(s)
  <2>1. \A s : /\ Is(Private(s), "items") /\ Fits(Private(s), L)
               /\ Private(s).items = s /\ Private(s).full = FALSE
    BY PrivateIs DEF Kinds
  <2> QED BY <2>1 DEF IsList, Cloned, ItemsOf
<1> HIDE DEF copy, items, unique
<1>5. CASE Is(v, "items")
  <2>1. ItemsOf(w, NoHeap) = v.items /\ ItemsOf(v, hp) = v.items
    <3>1. v.full = FALSE
      BY <1>5 DEF IsSlice
    <3>2. w = Private(v.items)
      BY <1>5 DEF AsValue
    <3> HIDE DEF w
    <3> QED BY <3>1, <3>2, PrivateIs DEF ItemsOf
  <2>2. PICK s : s = IF unique THEN Unique(items \o v.items) ELSE items \o v.items
    OBVIOUS
  <2>3. on = Private(s)
    BY <1>5, <2>1, <2>2 DEF Extended, items, unique
  <2>4. alone = Private(s)
    <3> HIDE DEF w
    <3> QED BY <1>2, <1>3, <1>5, <2>1, <2>2 DEF Extended, unique
  <2> HIDE DEF on, alone
  <2> QED BY <1>4, <2>3, <2>4 DEF on, alone, w, copy
<1>6. CASE ~Is(v, "items")
  <2>1. w = v
    BY <1>6 DEF AsValue
  <2>2. on = IF unique /\ Contains(items, v) THEN list
             ELSE IF InPlace(list) THEN [list EXCEPT !.full = TRUE] ELSE Private(Append(items, v))
    BY <1>6 DEF Extended, items, unique
  <2>3. alone = IF unique /\ Contains(items, v) THEN copy ELSE Private(Append(items, v))
    <3> HIDE DEF w
    <3> QED BY <1>2, <1>6, <2>1 DEF Extended, unique
  <2>4. WritesCell(m, list, v, hp) <=> InPlace(list) /\ ~(unique /\ Contains(items, v))
    BY <1>6 DEF WritesCell, items, unique
  <2> HIDE DEF on, alone, w
  <2>5. CASE ~WritesCell(m, list, v, hp)
    <3>1. (on = list /\ alone = copy) \/ (\E s : on = Private(s) /\ alone = Private(s))
      BY <2>2, <2>3, <2>4, <2>5
    <3>2. IsList(list, L) /\ Cloned(list, h) = Cloned(list, hp)
      BY GrownValue DEF IsList
    <3> QED BY <1>4, <3>1, <3>2 DEF on, alone, w, copy
  <2>6. CASE WritesCell(m, list, v, hp)
    <3>1. /\ list = [items |-> list.items, cell |-> list.cell, full |-> list.full]
          /\ list.cell \in Cells /\ ~list.full /\ list.items \in Seq(ToSet(list.items))
          /\ list.cell # NoCell
      BY <2>4, <2>6 DEF IsList, Fits, InPlace
    <3>2. on = [list EXCEPT !.full = TRUE] /\ alone = Private(Append(items, v))
      BY <2>2, <2>3, <2>4, <2>6
    <3>3. on = [items |-> list.items, cell |-> list.cell, full |-> TRUE]
      BY <3>1, <3>2
    <3>4. on.items = list.items /\ on.cell = list.cell /\ on.full = TRUE /\ Is(on, "items")
      BY <3>3 DEF Is
    <3>5. list.cell \in L /\ h[list.cell] = v
      BY <2>6 DEF Holds
    <3>6. IsList(on, L)
      BY <3>1, <3>3, <3>4, <3>5 DEF IsList, Fits
    <3>7. alone = Cloned(on, h)
      <4>1. items = list.items
        BY <3>1 DEF items, ItemsOf
      <4>2. ItemsOf(on, h) = Append(list.items, v)
        BY <3>4, <3>5 DEF ItemsOf
      <4> QED BY <3>2, <3>4, <4>1, <4>2 DEF Cloned
    <3> QED BY <3>6, <3>7 DEF on, alone, w, copy
  <2> QED BY <2>5, <2>6
<1> QED BY <1>5, <1>6

\* One more group of a mapping that appends takes the aggregation a to b.
NextGroup(b, a, m, v, groups, hp) ==
  /\ a.rest # <<>> /\ v = groups[Head(a.rest)].attrs[m.source]
  /\ b.m = a.m /\ b.rest = Tail(a.rest) /\ b.list = Extended(m, a.list, v, hp)

LEMMA ExtendAlike ==
  ASSUME NEW groups, NEW own, Twins(groups, own), NEW tr, Ready(tr), NEW y, NEW id,
         NEW hp, NEW K,
         NEW a, UnderWay(a, id, y, tr, own, hp, K), NEW m, m = tr.mappings[a.m],
         NEW v, NEW b, NextGroup(b, a, m, v, groups, hp),
         NEW L, K \subseteq L, NEW h, Agree(h, hp, K),
         Holds(m, a.list, v, hp, h, L)
  PROVE  UnderWay(b, id, y, tr, own, h, L)
<1>1. PICK k \in 1..Len(tr.mappings) : k = a.m
  BY DEF UnderWay
<1>2. PICK F : /\ IsMapping(F, y, tr, own) /\ Alike(id, F[k - 1], hp, K)
               /\ m.mode \in Appends /\ Extending(a, m, F[k - 1], tr, own, hp, K)
  BY <1>1 DEF UnderWay, NextGroup
<1>3. PICK r : r = F[k - 1]
  OBVIOUS
<1>4. Alike(id, r, hp, K) /\ Alike(id, r, h, L)
  <2>1. Alike(id, r, hp, K)
    BY <1>2, <1>3
  <2> QED BY <2>1, GrownAlike
<1>5. Reads(m)
  BY <1>1, MappingOk
<1>6. PICK hv : hv = Having(m, Resolved(tr, r, own), own) /\ hv \in Seq(GroupIds)
  <2>1. r.groups = id.groups /\ id.groups \in Seq(STRING)
    BY <1>4 DEF Alike
  <2>2. PICK gs : gs = Resolved(tr, r, own) /\ gs \in Seq(GroupIds)
    <3>1. Resolved(tr, r, own) = Resolved(tr, id, groups) /\ Resolved(tr, id, groups) \in Seq(GroupIds)
      BY <2>1, ResolvedTwins
    <3> QED BY <3>1
  <2> QED BY <1>5, <2>2, HavingTwins
<1>7. PICK G, p : /\ IsExtending(G, m, Start(r.attrs[m.source]), hv, own) /\ p \in 0..Len(hv)
                  /\ a.rest = SubSeq(hv, p + 1, Len(hv))
                  /\ IsList(a.list, K) /\ G[p] = Cloned(a.list, hp)
  BY <1>2, <1>3, <1>6 DEF Extending
<1>8. /\ p + 1 \in 0..Len(hv) /\ p + 1 \in 1..Len(hv) /\ (p + 1) - 1 = p
      /\ Head(a.rest) = hv[p + 1] /\ Tail(a.rest) = SubSeq(hv, (p + 1) + 1, Len(hv))
  <2>1. hv \in Seq(GroupIds) /\ p \in 0..Len(hv) /\ SubSeq(hv, p + 1, Len(hv)) # <<>>
    BY <1>6, <1>7 DEF NextGroup
  <2> QED BY <1>7, <2>1, NextOf
<1>9. PICK g : g = hv[p + 1] /\ g \in GroupIds
  BY <1>6, <1>8
<1>10. PICK w : w = own[g].attrs[m.source] /\ IsSlice(v) /\ w = AsValue(v)
  BY <1>5, <1>8, <1>9 DEF Twins, Reads, NextGroup
<1>11. PICK list : list = a.list
  OBVIOUS
<1>12. PICK on : on = Extended(m, list, v, hp)
  OBVIOUS
<1>13. G[p + 1] = Extended(m, Cloned(list, hp), AsValue(v), NoHeap)
  BY <1>7, <1>8, <1>9, <1>10, <1>11 DEF IsExtending
<1>14. IsList(on, L) /\ G[p + 1] = Cloned(on, h)
  <2>1. IsList(list, K) /\ IsSlice(v)
    BY <1>7, <1>10, <1>11
  <2>2. Holds(m, list, v, hp, h, L)
    BY <1>11
  <2>3. /\ IsList(Extended(m, list, v, hp), L)
        /\ Extended(m, Cloned(list, hp), AsValue(v), NoHeap) = Cloned(Extended(m, list, v, hp), h)
    BY <2>1, <2>2, ListExtended
  <2> QED BY <1>12, <1>13, <2>3
<1>15. Extending(b, m, r, tr, own, h, L)
  BY <1>6, <1>7, <1>8, <1>11, <1>12, <1>14 DEF Extending, NextGroup
<1> QED BY <1>1, <1>2, <1>3, <1>4, <1>15 DEF UnderWay, NextGroup

-----------------------------------------------------------------------------
\* What the batch fetched looks like the copies of one's own.
LEMMA SourceTwins == Given => Twins(source.groups, OwnGroups)
<1> SUFFICES ASSUME Given PROVE Twins(source.groups, OwnGroups)
  OBVIOUS
<1> SUFFICES ASSUME NEW g \in GroupIds
             PROVE  /\ OwnGroups[g].name = source.groups[g].name
                    /\ OwnGroups[g].rank = source.groups[g].rank
                    /\ OwnGroups[g].parents = source.groups[g].parents
                    /\ source.groups[g].parents \in Seq(STRING)
                    /\ \A a \in Attrs : /\ IsSlice(source.groups[g].attrs[a])
                                       /\ OwnGroups[g].attrs[a] = AsValue(source.groups[g].attrs[a])
  BY DEF Twins
<1>1. PICK x : x = source.groups[g]
  OBVIOUS
<1>2. /\ x = [name |-> x.name, rank |-> x.rank, parents |-> x.parents,
              attrs |-> [a \in Attrs |-> x.attrs[a]]]
      /\ x.parents \in Seq(STRING) /\ \A a \in Attrs : IsSlice(x.attrs[a])
  BY <1>1, SourceAssumption, Zenon DEF SourceAssumption, Given
<1>3. OwnGroups[g] = OwnCopy(x)
  BY <1>1 DEF OwnGroups
<1>4. PICK at : at = [a \in Attrs |-> AsValue(x.attrs[a])]
  OBVIOUS
<1>5. OwnCopy(x) = [x EXCEPT !.attrs = at]
  BY <1>4 DEF OwnCopy
<1>6. DOMAIN x = {"name", "rank", "parents", "attrs"}
  BY <1>2
<1>7. LET y == OwnCopy(x)
      IN y.name = x.name /\ y.rank = x.rank /\ y.parents = x.parents /\ y.attrs = at
  BY <1>5, <1>6
<1>8. \A a \in Attrs : at[a] = AsValue(x.attrs[a])
  BY <1>4
<1> QED BY <1>1, <1>2, <1>3, <1>7, <1>8

LEMMA FetchedAlike ==
  ASSUME Given, NEW u \in Uids, NEW hp, NEW K
  PROVE  Alike(source.identities[u], OwnCopy(source.identities[u]), hp, K)
<1>1. PICK id : id = source.identities[u]
  OBVIOUS
<1>2. IsRecord(id) /\ id.groups \in Seq(STRING) /\ \A a \in Attrs : IsSlice(id.attrs[a])
  BY <1>1, FetchedAre
<1>3. PICK at : at = [a \in Attrs |-> AsValue(id.attrs[a])]
  OBVIOUS
<1>4. PICK r : r = OwnCopy(id)
  OBVIOUS
<1>5. /\ IsRecord(r) /\ r.own = id.own /\ r.disabled = id.disabled
      /\ r.groups = id.groups /\ r.attrs = at
  <2>1. r = [id EXCEPT !.attrs = at] /\ at = [a \in Attrs |-> at[a]]
    BY <1>3, <1>4 DEF OwnCopy
  <2> QED BY <1>2, <2>1, RecordAttrs
<1>6. ASSUME NEW a \in Attrs PROVE Fits(id.attrs[a], K) /\ r.attrs[a] = Cloned(id.attrs[a], hp)
  <2>1. PICK v : v = id.attrs[a]
    OBVIOUS
  <2>2. IsSlice(v)
    BY <1>2, <2>1
  <2>3. Fits(v, K) /\ AsValue(v) = Cloned(v, hp)
    BY <2>2, SliceIs
  <2> QED BY <1>3, <1>5, <2>1, <2>3
<1>7. Alike(id, r, hp, K)
  BY <1>2, <1>5, <1>6 DEF Alike
<1> QED BY <1>1, <1>4, <1>7

\* The steps of a pipeline that is built read attributes that there are.
LEMMA NamedOf ==
  ASSUME Given, NEW t \in Targets, Shape(t), stage[t] > 0
  PROVE  Named(Current(t))
<1> DEFINE trs == manifest[t].transformers
           n == Len(trs)
           last == PrefixStep(manifest[t].prefix)
<1>1. manifest[t] \in Manifests
  BY DEF Given
<1>2. ASSUME NEW tr \in ToSet(trs) PROVE Named(tr)
  <2>1. /\ tr.type = "selector" =>
             \A s \in ToSet(tr.selectors) : s.field \in Attrs \cup FieldsOf(s)
        /\ tr.type = "sanitizer" =>
             \A s \in ToSet(tr.sanitizers) : s.type = "rewrite" => s.field \in Attrs \cup Own
        /\ tr.type = "template" => \A j \in DOMAIN tr.templates : tr.templates[j].field \in Attrs \cup Own
    BY <1>1, <1>2, ManifestsAssumption, Zenon DEF ManifestsAssumption
  <2>2. tr.type = "groupAggregation" => \A m \in ToSet(tr.mappings) : Reads(m) /\ IsSlice(m.default)
    <3>1. tr.type = "groupAggregation" => \A m \in ToSet(tr.mappings) :
            m.source \in Attrs /\ m.weight \in Attrs \cup {""} /\ IsSlice(m.default)
      BY <1>1, <1>2, ManifestsAssumption, Zenon DEF ManifestsAssumption
    <3> QED BY <3>1, Zenon DEF Reads, Weighs
  <2>3. tr.type # "prefix"
    <3>1. Creates(tr)
      BY <1>2 DEF Shape
    <3> HIDE DEF trs
    <3> QED BY <3>1 DEF Creates, Types
  <2> HIDE DEF trs
  <2> QED BY <2>1, <2>2, <2>3, Zenon DEF Named
<1>3. Named(last)
  <2>1. manifest[t].prefix.prefixed => DOMAIN manifest[t].prefix.field \subseteq Attrs
    BY <1>1, ManifestsAssumption, Zenon DEF ManifestsAssumption
  <2>2. last.type = "prefix" /\ last.prefixed = manifest[t].prefix.prefixed
        /\ last.field = manifest[t].prefix.field
    BY DEF PrefixStep
  <2> HIDE DEF last
  <2> QED BY <2>1, <2>2 DEF Named
<1>4. trs \in Seq(ToSet(trs))
  BY <1>1, ManifestsAssumption, Zenon DEF ManifestsAssumption
<1>5. n \in Nat /\ \A k \in 1..n : trs[k] \in ToSet(trs)
  BY <1>4, ListDomain
<1>6. Steps(t) = trs \o <<last>>
  BY Zenon DEF Steps
<1> HIDE DEF last
<1>7. Len(Steps(t)) = n + 1 /\ Steps(t)[n + 1] = last /\ \A k \in 1..n : Steps(t)[k] = trs[k]
  <2>1. <<last>> \in Seq({last}) /\ Len(<<last>>) = 1 /\ <<last>>[1] = last
    OBVIOUS
  <2>2. \A S : \A a \in Seq(S), b \in Seq({last}) :
          /\ Len(a \o b) = Len(a) + Len(b)
          /\ \A k \in 1..(Len(a) + Len(b)) : (a \o b)[k] = IF k <= Len(a) THEN a[k] ELSE b[k - Len(a)]
    OBVIOUS
  <2> HIDE DEF trs
  <2> QED BY <1>4, <1>5, <1>6, <2>1, <2>2
<1> HIDE DEF trs, n
<1>8. stage[t] \in 1..n \/ stage[t] = n + 1
  <2>1. stage[t] \in 0..(n + 1)
    BY <1>7 DEF Shape
  <2> QED BY <1>5, <2>1
<1> QED BY <1>2, <1>3, <1>5, <1>7, <1>8 DEF Current

-----------------------------------------------------------------------------
(***************************************************************************)
(* The invariant behind Isolated.  A are the sets that the transformers    *)
(* make of the identity one after the other when nothing else runs; what   *)
(* the pipeline has looks like a member of the one it has come to, unless  *)
(* a cell that the identity wrote holds what somebody else wrote.          *)
(***************************************************************************)
IsAlone(A, steps, id, own) ==
  /\ A[0] = {id} /\ A[Len(steps)] = ResultsAlone(steps, id, own)
  /\ \A k \in 1..Len(steps) : A[k] = StepAlone(A[k - 1], steps[k], own)
Track(A, t, u) == IsAlone(A, Steps(t), OwnCopy(source.identities[u]), OwnGroups)

WrittenBy(t, u) == {c \in Cells : \E w \in writers[c] : w[1] = t /\ w[2] = u}
Busy(t, u) == acc[t] # Idle /\ acc[t].u = u
Behind(t, u) == IF u \in todo[t] THEN stage[t] - 1 ELSE stage[t]
Follows(A, t, u) ==
  \/ Clobbered(t, u) \/ stage[t] = 0 \/ outcome[t] = "error"
  \/ /\ Busy(t, u)
     /\ \E y \in A[stage[t] - 1] :
          UnderWay(acc[t], ids[t][u], y, Current(t), OwnGroups, heap, WrittenBy(t, u))
  \/ /\ ~Busy(t, u)
     /\ \E y \in A[Behind(t, u)] : Like(ids[t][u], y, heap, WrittenBy(t, u))

\* A cell that somebody wrote holds what one of them did.
HeapWritten == \A c \in Cells : writers[c] # {} => \E w \in writers[c] : heap[c] = w[5]
Done == \A t \in Targets : outcome[t] = "ok" =>
          stage[t] = Len(Steps(t)) /\ todo[t] = {} /\ acc[t] = Idle
Settled == HeapWritten /\ Done
SInv == IInv /\ Settled /\ \A t \in Targets, u \in Uids : \A A : Track(A, t, u) => Follows(A, t, u)

LEMMA TrackExists ==
  ASSUME Given, NEW t \in Targets, NEW u \in Uids
  PROVE  \E A : Track(A, t, u)
<1>1. PICK steps, id, own : steps = Steps(t) /\ id = OwnCopy(source.identities[u]) /\ own = OwnGroups
  OBVIOUS
<1>2. PICK n : n = Len(steps) /\ n \in Nat /\ DOMAIN steps = 1..n
  <2>1. PICK s, last : s = manifest[t].transformers /\ last = PrefixStep(manifest[t].prefix)
    OBVIOUS
  <2>2. s \in Seq(ToSet(s))
    <3>1. manifest[t] \in Manifests
      BY DEF Given
    <3> QED BY <2>1, <3>1, ManifestsAssumption, Zenon DEF ManifestsAssumption
  <2>3. steps = s \o <<last>>
    BY <1>1, <2>1, Zenon DEF Steps
  <2>4. s \o <<last>> \in Seq(ToSet(s) \cup {last})
    <3>1. s \in Seq(ToSet(s) \cup {last})
      <4>1. ToSet(s) \subseteq ToSet(s) \cup {last}
        OBVIOUS
      <4> QED BY <2>2, <4>1, SeqMonotonic
    <3>2. <<last>> \in Seq(ToSet(s) \cup {last})
      OBVIOUS
    <3> QED BY <3>1, <3>2, ConcatProperties
  <2>5. PICK T : steps \in Seq(T)
    BY <2>3, <2>4
  <2> QED BY <2>5
<1> DEFINE c == [fold |-> "alone", steps |-> steps, groups |-> own]
<1>3. PICK w : Runs(w, n, {id}, c) /\ w[n] = ResultsAlone(steps, id, own)
  BY <1>2, AloneRuns
<1>4. \A x, i : StepOf(c, x, i) = StepAlone(x, steps[i], own)
  BY DEF StepOf
<1> HIDE DEF c
<1>5. IsAlone(w, steps, id, own)
  BY <1>2, <1>3, <1>4 DEF IsAlone, Runs
<1> QED BY <1>1, <1>5 DEF Track

\* Of every member of a set, the next has what the transformer makes of it.
LEMMA NextAlone ==
  ASSUME NEW A, NEW steps, NEW id, NEW own, IsAlone(A, steps, id, own),
         NEW k \in 1..Len(steps), NEW tr, tr = steps[k], NEW y \in A[k - 1]
  PROVE  /\ y \in {Gone, Failed} => y \in A[k]
         /\ y \notin {Gone, Failed} /\ tr.type = "groupAggregation" => AggregatedAlone(tr, y, own) \in A[k]
         /\ y \notin {Gone, Failed} /\ tr.type # "groupAggregation" =>
              \A r \in Results(tr, y, own) : r \in A[k]
<1>1. A[k] = StepAlone(A[k - 1], tr, own)
  BY DEF IsAlone
<1> QED BY <1>1, Zenon DEF StepAlone

LEMMA IdleIs == Idle.m = 0
  BY Zenon DEF Idle

\* A step writes at most one cell, and the history has what it wrote.
OneWrite(c, v, w) ==
  /\ w[5] = v
  /\ \A d \in Cells : /\ writers'[d] = IF d = c THEN writers[d] \cup {w} ELSE writers[d]
                     /\ heap'[d] = IF d = c THEN v ELSE heap[d]

LEMMA ExtendWrites ==
  ASSUME IInv, NEW t \in Targets, Extend(t), NEW m, m = MappingOf(t),
         NEW v, v = source.groups[Head(acc[t].rest)].attrs[m.source],
         WritesCell(m, acc[t].list, v, heap)
  PROVE  OneWrite(acc[t].list.cell, v, <<t, acc[t].u, stage[t], acc[t].m, v>>)
<1>1. PICK a : a = acc[t]
  OBVIOUS
<1>2. PICK c, w : c = a.list.cell /\ w = <<t, a.u, stage[t], a.m, v>>
  OBVIOUS
<1>3. heap' = [heap EXCEPT ![c] = v] /\ writers' = [writers EXCEPT ![c] = writers[c] \cup {w}]
  BY <1>1, <1>2 DEF Extend
<1>4. w[5] = v
  BY <1>2
<1>5. DOMAIN heap = Cells /\ DOMAIN writers = Cells
  BY DEF IInv, Tables
<1>6. OneWrite(c, v, w)
  BY <1>3, <1>4, <1>5 DEF OneWrite
<1> QED BY <1>1, <1>2, <1>6

LEMMA StepWrites ==
  ASSUME IInv, [Next]_vars
  PROVE  UNCHANGED <<heap, writers>> \/ \E c, v, w : OneWrite(c, v, w)
<1>1. ASSUME NEW t \in Targets, Extend(t)
      PROVE  UNCHANGED <<heap, writers>> \/ \E c, v, w : OneWrite(c, v, w)
  <2>1. PICK m : m = MappingOf(t)
    OBVIOUS
  <2>2. PICK v : v = source.groups[Head(acc[t].rest)].attrs[m.source]
    OBVIOUS
  <2>3. CASE WritesCell(m, acc[t].list, v, heap)
    BY <1>1, <2>1, <2>2, <2>3, ExtendWrites
  <2>4. CASE ~WritesCell(m, acc[t].list, v, heap)
    BY <1>1, <2>1, <2>2, <2>4 DEF Extend
  <2> QED BY <2>3, <2>4
<1> QED BY <1>1 DEF Next, vars, Build, Assign, Advance, Transform, Aggregate

\* Unless a cell is clobbered, what an identity wrote stays.
LEMMA HeapStays ==
  ASSUME IInv, HeapWritten, [Next]_vars, NEW t \in Targets, NEW u \in Uids, ~Clobbered(t, u)'
  PROVE  ~Clobbered(t, u) /\ WrittenBy(t, u) \subseteq WrittenBy(t, u)'
         /\ Agree(heap', heap, WrittenBy(t, u))
<1>1. CASE UNCHANGED <<heap, writers>>
  BY <1>1 DEF Clobbered, WrittenBy, Agree
<1>2. CASE \E c, v, w : OneWrite(c, v, w)
  <2>1. PICK c, v, w : OneWrite(c, v, w)
    BY <1>2
  <2>2. \A d \in Cells : writers[d] \subseteq writers'[d]
    BY <2>1 DEF OneWrite
  <2>3. ~Clobbered(t, u) /\ WrittenBy(t, u) \subseteq WrittenBy(t, u)'
    BY <2>2 DEF Clobbered, WrittenBy
  <2>4. ASSUME NEW d \in WrittenBy(t, u) PROVE heap'[d] = heap[d]
    <3>1. PICK x \in writers[d] : d \in Cells /\ x[1] = t /\ x[2] = u
      BY DEF WrittenBy
    <3>2. CASE d = c
      <4>1. PICK y \in writers[d] : heap[d] = y[5]
        BY <3>1 DEF HeapWritten
      <4>2. w \in writers'[d] /\ heap'[d] = v /\ w[5] = v
        BY <2>1, <3>1, <3>2 DEF OneWrite
      <4>3. \A z \in writers'[d] : z[5] = x[5]
        <5>1. x \in writers'[d]
          BY <2>2, <3>1
        <5> QED BY <3>1, <5>1 DEF Clobbered
      <4> QED BY <2>2, <3>1, <4>1, <4>2, <4>3
    <3>3. CASE d # c
      BY <2>1, <3>1, <3>3 DEF OneWrite
    <3> QED BY <3>2, <3>3
  <2> QED BY <2>3, <2>4 DEF Agree
<1> QED BY <1>1, <1>2, StepWrites

\* An identity that a step does not touch still follows.
LEMMA OthersFollow ==
  ASSUME IInv, HeapWritten, [Next]_vars, NEW t \in Targets, NEW u \in Uids, NEW A, Follows(A, t, u),
         UNCHANGED <<manifest, source>>, stage'[t] = stage[t], ids'[t][u] = ids[t][u],
         u \in todo'[t] <=> u \in todo[t],
         acc'[t] = acc[t] \/ (~Busy(t, u) /\ ~Busy(t, u)'),
         outcome[t] = "error" => outcome'[t] = "error"
  PROVE  Follows(A, t, u)'
<1> SUFFICES ASSUME ~Clobbered(t, u)', stage[t] # 0, outcome[t] # "error" PROVE Follows(A, t, u)'
  BY DEF Follows
<1>1. /\ ~Clobbered(t, u) /\ WrittenBy(t, u) \subseteq WrittenBy(t, u)'
      /\ Agree(heap', heap, WrittenBy(t, u))
  BY HeapStays
<1>2. PICK K, L, h : K = WrittenBy(t, u) /\ L = WrittenBy(t, u)' /\ h = heap'
  OBVIOUS
<1>3. K \subseteq L /\ Agree(h, heap, K)
  BY <1>1, <1>2
<1>4. Current(t)' = Current(t) /\ OwnGroups' = OwnGroups /\ Behind(t, u)' = Behind(t, u)
  BY DEF Current, Steps, OwnGroups, Behind
<1>5. CASE Busy(t, u)
  <2>1. Busy(t, u)' /\ acc'[t] = acc[t]
    BY <1>5 DEF Busy
  <2>2. PICK y \in A[stage[t] - 1] :
          UnderWay(acc[t], ids[t][u], y, Current(t), OwnGroups, heap, K)
    BY <1>1, <1>2, <1>5 DEF Follows
  <2>3. UnderWay(acc[t], ids[t][u], y, Current(t), OwnGroups, h, L)
    BY <1>3, <2>2, GrownUnderWay
  <2> QED BY <1>2, <1>4, <2>1, <2>3 DEF Follows
<1>6. CASE ~Busy(t, u)
  <2>1. ~Busy(t, u)'
    BY <1>6 DEF Busy
  <2>2. PICK y \in A[Behind(t, u)] : Like(ids[t][u], y, heap, K)
    BY <1>1, <1>2, <1>6 DEF Follows
  <2>3. Like(ids[t][u], y, h, L)
    BY <1>3, <2>2, GrownLike
  <2> QED BY <1>2, <1>4, <2>1, <2>2, <2>3 DEF Follows
<1> QED BY <1>5, <1>6

\* A step of one target leaves the identities of the others alone.
LEMMA OtherTarget ==
  ASSUME IInv, HeapWritten, Next, NEW t \in Targets, NEW u \in Uids, NEW A, Follows(A, t, u),
         UNCHANGED <<manifest, source>>, stage'[t] = stage[t], ids'[t] = ids[t],
         todo'[t] = todo[t], acc'[t] = acc[t], outcome'[t] = outcome[t]
  PROVE  Follows(A, t, u)'
<1>1. u \in todo'[t] <=> u \in todo[t]
  OBVIOUS
<1>2. ids'[t][u] = ids[t][u]
  OBVIOUS
<1> QED BY <1>1, <1>2, OthersFollow

LEMMA BuildFollows ==
  ASSUME IInv, HeapWritten, Next, NEW t \in Targets, NEW u \in Uids, NEW A, Track(A, t, u),
         Follows(A, t, u), NEW s \in Targets, Build(s)
  PROVE  Follows(A, t, u)'
<1> USE DEF Build, Known
<1>1. UNCHANGED <<manifest, source, acc, heap, writers>>
  OBVIOUS
<1>2. CASE s # t
  <2>1. stage'[t] = stage[t] /\ ids'[t] = ids[t] /\ todo'[t] = todo[t] /\ outcome'[t] = outcome[t]
    BY <1>2 DEF IInv, Tables
  <2> QED BY <1>1, <2>1, OtherTarget
<1>3. CASE s = t /\ \A tr \in ToSet(manifest[t].transformers) : Creates(tr)
  <2>1. stage'[t] = 1 /\ ids'[t] = source.identities /\ todo'[t] = Uids
    BY <1>3 DEF IInv, Tables
  <2>2. acc[t] = Idle
    BY <1>3 DEF IInv, Shape
  <2>3. ~Busy(t, u)' /\ Behind(t, u)' = 0
    BY <1>1, <2>1, <2>2 DEF Busy, Behind
  <2>4. PICK y : y = OwnCopy(source.identities[u])
    OBVIOUS
  <2>5. y \in A[0]
    BY <2>4 DEF Track, IsAlone
  <2>6. Like(ids'[t][u], y, heap', WrittenBy(t, u)')
    <3>1. PICK hp, K : hp = heap' /\ K = WrittenBy(t, u)'
      OBVIOUS
    <3>2. Alike(source.identities[u], y, hp, K)
      BY <2>4, FetchedAlike DEF IInv
    <3> QED BY <2>1, <3>1, <3>2 DEF Like
  <2> QED BY <2>3, <2>5, <2>6 DEF Follows
<1>4. CASE s = t /\ ~(\A tr \in ToSet(manifest[t].transformers) : Creates(tr))
  <2>1. outcome'[t] = "error"
    BY <1>4 DEF IInv, Tables
  <2> QED BY <2>1 DEF Follows
<1> QED BY <1>2, <1>3, <1>4

\* What a transformer makes of an identity that follows is in the next set, a failure too.
LEMMA ResultAlone ==
  ASSUME IInv, NEW t \in Targets, NEW u \in Uids, At(t, u), Current(t).type # "groupAggregation",
         NEW A, Track(A, t, u), Follows(A, t, u), ~Clobbered(t, u),
         NEW r \in Results(Current(t), ids[t][u], source.groups)
  PROVE  /\ stage[t] \in 1..Len(Steps(t))
         /\ \E z \in A[stage[t]] : (r = Failed /\ z = Failed) \/ Like(r, z, heap, WrittenBy(t, u))
<1>1. /\ u \in todo[t] /\ acc[t] = Idle /\ outcome[t] = "none"
      /\ ~Busy(t, u) /\ Behind(t, u) = stage[t] - 1
  BY DEF At, Busy, Behind
<1>2. ids[t][u] # Gone /\ stage[t] > 0
  BY <1>1, AtIsKept
<1>3. stage[t] \in 1..Len(Steps(t))
  <2>1. stage[t] \in 0..Len(Steps(t))
    BY DEF IInv, Shape
  <2> QED BY <1>2, <2>1
<1>4. PICK y \in A[stage[t] - 1] : Like(ids[t][u], y, heap, WrittenBy(t, u))
  BY <1>1, <1>2 DEF Follows
<1>5. PICK id, hp, K, tr, groups, own :
        /\ id = ids[t][u] /\ hp = heap /\ K = WrittenBy(t, u) /\ tr = Current(t)
        /\ groups = source.groups /\ own = OwnGroups
  OBVIOUS
<1>6. Alike(id, y, hp, K)
  BY <1>2, <1>4, <1>5 DEF Like
<1>7. /\ tr.type # "groupAggregation" /\ Listed(tr) /\ Named(tr)
      /\ Creates(tr) \/ tr.type = "prefix"
  BY <1>2, <1>5, CurrentOf, NamedOf DEF IInv
<1>8. Twins(groups, own)
  BY <1>5, SourceTwins DEF IInv
<1>9. r \in Results(tr, id, groups)
  BY <1>5
<1>10. PICK z \in Results(tr, y, own) : (r = Failed /\ z = Failed) \/ Like(r, z, hp, K)
  BY <1>6, <1>7, <1>8, <1>9, ResultsAlike
<1>11. z \in A[stage[t]]
  <2>1. y \notin {Gone, Failed}
    BY <1>6, RecordKept DEF Alike
  <2>2. PICK steps, k : steps = Steps(t) /\ k = stage[t]
    OBVIOUS
  <2>3. IsAlone(A, steps, OwnCopy(source.identities[u]), own)
    BY <1>5, <2>2 DEF Track
  <2>4. k \in 1..Len(steps) /\ tr = steps[k] /\ y \in A[k - 1]
    BY <1>3, <1>4, <1>5, <2>2 DEF Current
  <2> QED BY <1>7, <1>10, <2>1, <2>2, <2>3, <2>4, NextAlone
<1> QED BY <1>3, <1>5, <1>10, <1>11

LEMMA TransformFollows ==
  ASSUME IInv, HeapWritten, Next, NEW t \in Targets, NEW u \in Uids, NEW A, Track(A, t, u),
         Follows(A, t, u), NEW s \in Targets, NEW x \in Uids, Transform(s, x)
  PROVE  Follows(A, t, u)'
<1>1. UNCHANGED <<manifest, source, stage, acc, heap, writers>>
  BY DEF Transform
<1>2. /\ At(s, x) /\ Current(s).type # "groupAggregation" /\ x \in todo[s] /\ acc[s] = Idle
      /\ outcome[s] = "none"
  BY DEF Transform, At
<1>3. PICK r \in Results(Current(s), ids[s][x], source.groups) :
        IF r = Failed
        THEN /\ outcome' = [outcome EXCEPT ![s] = "error"]
             /\ ids' = [ids EXCEPT ![s] = [v \in Uids |-> Gone]]
             /\ todo' = [todo EXCEPT ![s] = {}]
        ELSE /\ ids' = [ids EXCEPT ![s][x] = r]
             /\ todo' = [todo EXCEPT ![s] = Rest(s, x)]
             /\ UNCHANGED outcome
  BY DEF Transform
<1>4. CASE s # t
  <2>1. ids'[t] = ids[t] /\ todo'[t] = todo[t] /\ outcome'[t] = outcome[t]
    BY <1>3, <1>4 DEF IInv, Tables
  <2> QED BY <1>1, <2>1, OtherTarget
<1>5. CASE s = t /\ r = Failed
  <2>1. outcome'[t] = "error"
    BY <1>3, <1>5 DEF IInv, Tables
  <2> QED BY <2>1 DEF Follows
<1>6. CASE s = t /\ r # Failed
  <2>1. ids'[t] = [ids[t] EXCEPT ![x] = r] /\ todo'[t] = todo[t] \ {x} /\ outcome'[t] = outcome[t]
    BY <1>3, <1>6 DEF IInv, Tables, Rest
  <2>2. CASE x # u
    <3>1. ids'[t][u] = ids[t][u] /\ (u \in todo'[t] <=> u \in todo[t])
      BY <2>1, <2>2
    <3> QED BY <1>1, <2>1, <3>1, OthersFollow
  <2>3. CASE x = u
    <3>1. ids'[t][u] = r /\ u \notin todo'[t]
      BY <2>1, <2>3 DEF IInv, Shape
    <3>2. ~Busy(t, u) /\ ~Busy(t, u)' /\ Behind(t, u) = stage[t] - 1 /\ Behind(t, u)' = stage[t]
      BY <1>1, <1>2, <1>6, <2>3, <3>1 DEF Busy, Behind
    <3> SUFFICES ASSUME ~Clobbered(t, u)' PROVE Follows(A, t, u)'
      BY DEF Follows
    <3>3. ~Clobbered(t, u)
      BY <1>1 DEF Clobbered
    <3>4. PICK z \in A[stage[t]] : Like(r, z, heap, WrittenBy(t, u))
      <4>1. r \in Results(Current(t), ids[t][u], source.groups) /\ At(t, u)
        BY <1>2, <1>3, <1>6, <2>3
      <4> QED BY <1>2, <1>6, <3>3, <4>1, ResultAlone
    <3>5. Like(ids'[t][u], z, heap', WrittenBy(t, u)')
      BY <1>1, <3>1, <3>4 DEF WrittenBy
    <3> QED BY <1>1, <3>2, <3>4, <3>5 DEF Follows
  <2> QED BY <2>2, <2>3
<1> QED BY <1>4, <1>5, <1>6

LEMMA AdvanceFollows ==
  ASSUME IInv, HeapWritten, Next, NEW t \in Targets, NEW u \in Uids, NEW A, Track(A, t, u),
         Follows(A, t, u), NEW s \in Targets, Advance(s)
  PROVE  Follows(A, t, u)'
<1> USE DEF Advance
<1>1. UNCHANGED <<manifest, source, ids, acc, heap, writers>>
  OBVIOUS
<1>2. CASE s # t
  <2>1. stage'[t] = stage[t] /\ todo'[t] = todo[t] /\ outcome'[t] = outcome[t]
    BY <1>2 DEF IInv, Tables
  <2> QED BY <1>1, <2>1, OtherTarget
<1>3. CASE s = t /\ LastStage(t)
  <2>1. stage' = stage /\ todo' = todo /\ outcome[t] # "error"
    BY <1>3
  <2> QED BY <1>1, <2>1, OthersFollow
<1>4. CASE s = t /\ ~LastStage(t)
  <2>1. stage'[t] = stage[t] + 1 /\ todo'[t] = Left(t) /\ stage[t] > 0 /\ outcome[t] = "none"
    BY <1>4 DEF IInv, Tables
  <2>2. acc[t] = Idle /\ u \notin todo[t]
    BY <1>4 DEF StageDone
  <2>3. stage[t] \in Nat /\ stage[t] + 1 \in 1..Len(Steps(t)) /\ (stage[t] + 1) - 1 = stage[t]
    <3>1. Len(Steps(t)) \in Nat /\ stage[t] \in 0..Len(Steps(t)) /\ stage[t] # Len(Steps(t))
      <4>1. Len(manifest[t].transformers) \in Nat
            /\ Len(Steps(t)) = Len(manifest[t].transformers) + 1
        BY StepsOf DEF IInv
      <4> QED BY <1>4, <4>1 DEF LastStage, IInv, Shape
    <3> QED BY <3>1
  <2>4. ~Busy(t, u) /\ ~Busy(t, u)' /\ Behind(t, u) = stage[t]
    BY <1>1, <2>2 DEF Busy, Behind
  <2> SUFFICES ASSUME ~Clobbered(t, u)' PROVE Follows(A, t, u)'
    BY DEF Follows
  <2>5. ~Clobbered(t, u)
    BY <1>1 DEF Clobbered
  <2>6. PICK y \in A[stage[t]] : Like(ids[t][u], y, heap, WrittenBy(t, u))
    BY <2>1, <2>4, <2>5 DEF Follows
  <2>7. Like(ids'[t][u], y, heap', WrittenBy(t, u)')
    BY <1>1, <2>6 DEF WrittenBy
  <2>8. CASE ids[t][u] # Gone
    <3>1. Behind(t, u)' = stage[t]
      BY <2>1, <2>3, <2>8 DEF Behind, Left
    <3> QED BY <2>4, <2>6, <2>7, <3>1 DEF Follows
  <2>9. CASE ids[t][u] = Gone
    <3>1. Behind(t, u)' = stage[t] + 1
      BY <2>1, <2>9 DEF Behind, Left
    <3>2. y = Gone
      BY <2>6, <2>9, RecordKept DEF Like, Alike
    <3>3. y \in A[stage[t] + 1]
      <4>1. PICK steps, k, own, tr : /\ steps = Steps(t) /\ k = stage[t] + 1 /\ own = OwnGroups
                                     /\ tr = steps[k]
        OBVIOUS
      <4>2. IsAlone(A, steps, OwnCopy(source.identities[u]), own)
        BY <4>1 DEF Track
      <4>3. k \in 1..Len(steps) /\ y \in A[k - 1] /\ y \in {Gone, Failed}
        BY <2>3, <2>6, <3>2, <4>1
      <4> QED BY <4>1, <4>2, <4>3, NextAlone
    <3> QED BY <2>4, <2>7, <3>1, <3>3 DEF Follows
  <2> QED BY <2>8, <2>9
<1> QED BY <1>2, <1>3, <1>4

\* The groups of an identity are all that its list of groups depends on.
LEMMA SameGroups ==
  ASSUME NEW tr, NEW id, NEW i, i.groups = id.groups, NEW groups
  PROVE  Resolved(tr, i, groups) = Resolved(tr, id, groups)
  BY DEF Resolved

\* The next mapping, or the end of the aggregation.
LEMMA BeginFollows ==
  ASSUME IInv, NEW t \in Targets, NEW u \in todo[t], NEW A, Track(A, t, u),
         Current(t).type = "groupAggregation",
         UNCHANGED <<manifest, source, stage, outcome, heap, writers>>,
         NEW id, ids'[t][u] = id, id.groups = ids[t][u].groups,
         NEW y \in A[stage[t] - 1], IsRecord(y), y.groups # <<>>,
         NEW F, IsMapping(F, y, Current(t), OwnGroups),
         NEW k \in Nat, k \in 1..(Len(Current(t).mappings) + 1),
         Alike(id, F[k - 1], heap, WrittenBy(t, u)), Begin(t, u, id, k)
  PROVE  Follows(A, t, u)'
<1>1. u \in Uids /\ stage[t] > 0 /\ stage[t] \in 1..Len(Steps(t))
  <2>1. stage[t] \in 0..Len(Steps(t)) /\ stage[t] > 0
    BY AtIsKept DEF IInv, Shape
  <2> QED BY <2>1, AtIsKept
<1>2. PICK hp, K, tr, groups, own :
        /\ hp = heap /\ K = WrittenBy(t, u) /\ tr = Current(t)
        /\ groups = source.groups /\ own = OwnGroups
  OBVIOUS
<1>3. hp = heap' /\ K = WrittenBy(t, u)' /\ tr = Current(t)' /\ own = OwnGroups'
  BY <1>2 DEF WrittenBy, Current, Steps, OwnGroups
<1>4. Ready(tr) /\ Twins(groups, own)
  <2>1. Listed(tr) /\ Named(tr) /\ (Creates(tr) \/ tr.type = "prefix")
    BY <1>1, <1>2, CurrentOf, NamedOf DEF IInv
  <2>2. Twins(groups, own)
    BY <1>2, SourceTwins DEF IInv
  <2> QED BY <1>2, <2>1, <2>2 DEF Ready
<1>5. Len(tr.mappings) \in Nat
  BY <1>4, ListDomain DEF Ready, Listed
<1>6. DOMAIN acc = Targets /\ todo \in [Targets -> SUBSET Uids]
  BY DEF IInv, Tables
<1>7. CASE k > Len(tr.mappings)
  <2>1. acc' = [acc EXCEPT ![t] = Idle] /\ todo' = [todo EXCEPT ![t] = Rest(t, u)]
    BY <1>2, <1>7 DEF Begin
  <2>2. acc'[t] = Idle /\ u \notin todo'[t]
    BY <1>6, <2>1 DEF Rest
  <2>3. k - 1 = Len(tr.mappings)
    BY <1>2, <1>5, <1>7
  <2>4. PICK z : z = F[k - 1]
    OBVIOUS
  <2>5. Alike(id, z, hp, K)
    BY <1>2, <2>4
  <2>6. z = AggregatedAlone(tr, y, own)
    <3>1. z = MappedAll(tr, y, own)
      BY <1>2, <2>3, <2>4 DEF IsMapping
    <3> QED BY <3>1, Zenon DEF AggregatedAlone, MappedAll
  <2>7. z \in A[stage[t]]
    <3>1. y \notin {Gone, Failed}
      BY RecordKept
    <3>2. PICK steps, j : steps = Steps(t) /\ j = stage[t]
      OBVIOUS
    <3>3. IsAlone(A, steps, OwnCopy(source.identities[u]), own)
      BY <1>2, <3>2 DEF Track
    <3>4. j \in 1..Len(steps) /\ tr = steps[j] /\ y \in A[j - 1] /\ tr.type = "groupAggregation"
      BY <1>1, <1>2, <3>2 DEF Current
    <3> QED BY <2>6, <3>1, <3>2, <3>3, <3>4, NextAlone
  <2>8. ~Busy(t, u)' /\ Behind(t, u)' = stage[t]
    BY <2>2 DEF Busy, Behind
  <2>9. Like(ids'[t][u], z, heap', WrittenBy(t, u)')
    BY <1>2, <1>3, <2>5 DEF Like
  <2> QED BY <2>7, <2>8, <2>9 DEF Follows
<1>8. CASE ~(k > Len(tr.mappings))
  <2>1. PICK m : m = tr.mappings[k]
    OBVIOUS
  <2>2. PICK rest, list :
          /\ rest = IF m.mode \in Appends THEN Having(m, GroupsFor(t, u), source.groups) ELSE <<>>
          /\ list = IF m.mode \in Appends THEN Start(id.attrs[m.source]) ELSE Private(<<>>)
    OBVIOUS
  <2>3. acc'[t] = [u |-> u, m |-> k, rest |-> rest, list |-> list] /\ todo' = todo
    BY <1>2, <1>6, <1>8, <2>1, <2>2 DEF Begin
  <2>4. PICK a : a = acc'[t]
    OBVIOUS
  <2>5. a.u = u /\ a.m = k /\ a.rest = rest /\ a.list = list
    BY <2>3, <2>4
  <2>6. k \in 1..Len(tr.mappings)
    BY <1>2, <1>5, <1>8
  <2>7. Busy(t, u)'
    <3>1. acc'[t] # Idle
      BY <2>4, <2>5, <2>6, IdleIs
    <3> QED BY <2>4, <2>5, <3>1 DEF Busy
  <2>8. UnderWay(a, id, y, tr, own, hp, K)
    <3>1. GroupsFor(t, u) = Resolved(tr, ids[t][u], groups)
      BY <1>2 DEF GroupsFor
    <3>2. Resolved(tr, id, groups) = Resolved(tr, ids[t][u], groups)
      BY SameGroups
    <3>3. a.rest = IF m.mode \in Appends THEN Having(m, Resolved(tr, id, groups), groups) ELSE <<>>
      BY <1>2, <2>2, <2>5, <3>1, <3>2
    <3>4. m.mode \in Appends => a.list = Start(id.attrs[m.source])
      BY <2>2, <2>5
    <3>5. IsMapping(F, y, tr, own) /\ Alike(id, F[k - 1], hp, K)
      BY <1>2
    <3> QED BY <1>4, <2>1, <2>5, <2>6, <3>3, <3>4, <3>5, BegunAlike
  <2>9. UnderWay(acc'[t], ids'[t][u], y, Current(t)', OwnGroups', heap', WrittenBy(t, u)')
    BY <1>2, <1>3, <2>4, <2>8
  <2> QED BY <2>7, <2>9 DEF Follows
<1> QED BY <1>7, <1>8

LEMMA AggregateFollows ==
  ASSUME IInv, HeapWritten, Next, NEW t \in Targets, NEW u \in Uids, NEW A, Track(A, t, u),
         Follows(A, t, u), NEW s \in Targets, NEW x \in Uids, Aggregate(s, x)
  PROVE  Follows(A, t, u)'
<1>1. UNCHANGED <<manifest, source, stage, outcome, heap, writers>>
  BY DEF Aggregate
<1>2. /\ x \in todo[s] /\ acc[s] = Idle /\ Current(s).type = "groupAggregation" /\ outcome[s] = "none"
  BY DEF Aggregate, At
<1>3. \/ /\ ids' = [ids EXCEPT ![s][x] = Defaulted(Current(s), ids[s][x])]
         /\ todo' = [todo EXCEPT ![s] = Rest(s, x)] /\ acc' = acc
         /\ ids[s][x].groups = <<>>
      \/ Begin(s, x, ids[s][x], 1) /\ ids' = ids /\ ids[s][x].groups # <<>>
  BY <1>2 DEF Aggregate, IInv, Tables, Shape
<1>4. \/ acc'[s] = Idle /\ todo' = [todo EXCEPT ![s] = Rest(s, x)]
      \/ acc'[s].u = x /\ todo' = todo
  <2>1. Begin(s, x, ids[s][x], 1) =>
          \/ acc'[s] = Idle /\ todo' = [todo EXCEPT ![s] = Rest(s, x)]
          \/ acc'[s].u = x /\ todo' = todo
    BY BeginDoes
  <2> QED BY <1>2, <1>3, <2>1
<1>5. CASE s # t
  <2>1. ids'[t] = ids[t] /\ todo'[t] = todo[t]
    BY <1>3, <1>4, <1>5 DEF IInv, Tables
  <2>2. acc'[t] = acc[t]
    BY <1>3, <1>5, BeginDoes
  <2> QED BY <1>1, <2>1, <2>2, OtherTarget
<1>6. CASE s = t /\ x # u
  <2>1. ids'[t][u] = ids[t][u] /\ (u \in todo'[t] <=> u \in todo[t])
    BY <1>3, <1>4, <1>6 DEF IInv, Tables, Shape, Rest
  <2>2. ~Busy(t, u) /\ ~Busy(t, u)'
    BY <1>2, <1>4, <1>6 DEF Busy
  <2> QED BY <1>1, <2>1, <2>2, OthersFollow
<1>7. CASE s = t /\ x = u
  <2> SUFFICES ASSUME ~Clobbered(t, u)' PROVE Follows(A, t, u)'
    BY DEF Follows
  <2>1. ~Clobbered(t, u)
    BY <1>1 DEF Clobbered
  <2>2. u \in todo[t] /\ ids[t][u] # Gone /\ stage[t] > 0
    BY <1>2, <1>7, AtIsKept
  <2>3. ~Busy(t, u) /\ Behind(t, u) = stage[t] - 1
    BY <1>2, <1>7 DEF Busy, Behind
  <2>4. PICK y \in A[stage[t] - 1] : Like(ids[t][u], y, heap, WrittenBy(t, u))
    BY <1>2, <1>7, <2>1, <2>2, <2>3 DEF Follows
  <2>5. PICK id, hp, K, tr, own :
          /\ id = ids[t][u] /\ hp = heap /\ K = WrittenBy(t, u) /\ tr = Current(t) /\ own = OwnGroups
    OBVIOUS
  <2>6. Alike(id, y, hp, K) /\ IsRecord(y) /\ y.groups = id.groups
    BY <2>2, <2>4, <2>5 DEF Like, Alike
  <2>7. tr.type = "groupAggregation" /\ Listed(tr) /\ Named(tr)
    BY <1>2, <1>7, <2>2, <2>5, CurrentOf, NamedOf DEF IInv
  <2>8. CASE id.groups = <<>>
    <3>1. PICK d, z : d = Defaulted(tr, id) /\ z = OwnCopy(Defaulted(tr, y))
      OBVIOUS
    <3>2. Alike(d, z, hp, K)
      BY <2>6, <2>7, <3>1, DefaultedAlike
    <3>3. /\ ids' = [ids EXCEPT ![t][u] = d] /\ todo' = [todo EXCEPT ![t] = Rest(t, u)] /\ acc' = acc
      BY <1>3, <1>7, <2>5, <2>8, <3>1
    <3>4. ids'[t][u] = d /\ u \notin todo'[t]
      BY <3>3 DEF IInv, Tables, Shape, Rest
    <3>5. ~Busy(t, u)' /\ Behind(t, u)' = stage[t]
      BY <1>1, <2>3, <3>3, <3>4 DEF Busy, Behind
    <3>6. z \in A[stage[t]]
      <4>1. y \notin {Gone, Failed}
        BY <2>6, RecordKept
      <4>2. z = AggregatedAlone(tr, y, own)
        BY <2>6, <2>8, <3>1, Zenon DEF AggregatedAlone
      <4>3. PICK steps, j : steps = Steps(t) /\ j = stage[t]
        OBVIOUS
      <4>4. IsAlone(A, steps, OwnCopy(source.identities[u]), own)
        BY <2>5, <4>3 DEF Track
      <4>5. stage[t] \in 1..Len(Steps(t))
        <5>1. stage[t] \in 0..Len(Steps(t))
          BY DEF IInv, Shape
        <5> QED BY <2>2, <5>1
      <4>6. j \in 1..Len(steps) /\ tr = steps[j] /\ y \in A[j - 1]
        BY <2>4, <2>5, <4>3, <4>5 DEF Current
      <4> QED BY <2>7, <4>1, <4>2, <4>3, <4>4, <4>6, NextAlone
    <3>7. Like(ids'[t][u], z, heap', WrittenBy(t, u)')
      BY <1>1, <2>5, <3>2, <3>4 DEF WrittenBy, Like
    <3> QED BY <1>1, <3>5, <3>6, <3>7 DEF Follows
  <2>9. CASE id.groups # <<>>
    <3>1. Begin(t, u, id, 1) /\ ids'[t][u] = id
      BY <1>3, <1>7, <2>5, <2>9
    <3>2. PICK F : IsMapping(F, y, tr, own)
      BY <2>7, MappingExists
    <3>3. Alike(id, F[1 - 1], heap, WrittenBy(t, u))
      BY <2>5, <2>6, <3>2 DEF IsMapping
    <3>4. 1 \in Nat /\ 1 \in 1..(Len(Current(t).mappings) + 1)
      <4>1. Len(tr.mappings) \in Nat
        BY <2>7, ListDomain DEF Listed
      <4> QED BY <2>5, <4>1
    <3>5. y.groups # <<>> /\ IsRecord(y) /\ Current(t).type = "groupAggregation"
          /\ id.groups = ids[t][u].groups /\ IsMapping(F, y, Current(t), OwnGroups)
      BY <2>5, <2>6, <2>7, <2>9, <3>2
    <3> QED BY <1>1, <2>2, <2>4, <3>1, <3>3, <3>4, <3>5, BeginFollows
  <2> QED BY <2>8, <2>9
<1> QED BY <1>5, <1>6, <1>7

\* The identity that an aggregation is about.
LEMMA AccIs ==
  ASSUME IInv, NEW t \in Targets, acc[t] # Idle
  PROVE  /\ acc[t].u \in todo[t] /\ acc[t].u \in Uids /\ stage[t] > 0
         /\ Current(t).type = "groupAggregation" /\ DOMAIN acc[t] = {"u", "m", "rest", "list"}
  BY DEF IInv, Shape, Tables

LEMMA AssignFollows ==
  ASSUME IInv, HeapWritten, Next, NEW t \in Targets, NEW u \in Uids, NEW A, Track(A, t, u),
         Follows(A, t, u), NEW s \in Targets, Assign(s)
  PROVE  Follows(A, t, u)'
<1>1. /\ UNCHANGED <<manifest, source, stage, outcome, heap, writers>>
      /\ acc[s] # Idle /\ acc[s].rest = <<>>
  BY DEF Assign
<1>2. PICK x : x = acc[s].u /\ x \in todo[s]
  BY <1>1, AccIs
<1>3. PICK m, v, i : /\ m = MappingOf(s)
                     /\ v = IF m.mode \in Appends THEN acc[s].list
                             ELSE Aggregated(m, Cloned(Src(s, x, m), heap), GroupsFor(s, x), source.groups)
                     /\ i = [ids[s][x] EXCEPT !.attrs[m.target] = OrDefault(m, v)]
                     /\ ids' = [ids EXCEPT ![s][x] = i] /\ Begin(s, x, i, acc[s].m + 1)
  BY <1>2, Zenon DEF Assign
<1>4. /\ \A r \in Targets : r # s => acc'[r] = acc[r]
      /\ \/ acc'[s] = Idle /\ todo' = [todo EXCEPT ![s] = Rest(s, x)]
         \/ acc'[s].u = x /\ todo' = todo
  BY <1>3, BeginDoes
<1>5. CASE s # t
  <2>1. ids'[t] = ids[t] /\ todo'[t] = todo[t] /\ acc'[t] = acc[t]
    BY <1>3, <1>4, <1>5 DEF IInv, Tables
  <2> QED BY <1>1, <2>1, OtherTarget
<1>6. CASE s = t /\ x # u
  <2>1. ids'[t][u] = ids[t][u] /\ (u \in todo'[t] <=> u \in todo[t])
    BY <1>3, <1>4, <1>6 DEF IInv, Tables, Shape, Rest
  <2>2. ~Busy(t, u) /\ ~Busy(t, u)'
    BY <1>2, <1>4, <1>6 DEF Busy
  <2> QED BY <1>1, <2>1, <2>2, OthersFollow
<1>7. CASE s = t /\ x = u
  <2> SUFFICES ASSUME ~Clobbered(t, u)', outcome[t] # "error" PROVE Follows(A, t, u)'
    BY <1>1 DEF Follows
  <2>1. ~Clobbered(t, u)
    BY <1>1 DEF Clobbered
  <2>2. /\ u \in todo[t] /\ stage[t] > 0 /\ Busy(t, u)
        /\ Current(t).type = "groupAggregation" /\ stage[t] # 0
    BY <1>1, <1>2, <1>7, AccIs DEF Busy
  <2>3. PICK id, hp, K, tr, groups, own, a :
          /\ id = ids[t][u] /\ hp = heap /\ K = WrittenBy(t, u) /\ tr = Current(t)
          /\ groups = source.groups /\ own = OwnGroups /\ a = acc[t]
    OBVIOUS
  <2>4. PICK y \in A[stage[t] - 1] : UnderWay(a, id, y, tr, own, hp, K)
    BY <2>1, <2>2, <2>3 DEF Follows
  <2>5. Ready(tr) /\ Twins(groups, own)
    <3>1. Listed(tr) /\ Named(tr) /\ (Creates(tr) \/ tr.type = "prefix")
      BY <2>2, <2>3, CurrentOf, NamedOf DEF IInv
    <3> QED BY <2>2, <2>3, <3>1, SourceTwins DEF Ready, IInv
  <2>6. a.rest = <<>> /\ m = tr.mappings[a.m]
    BY <1>1, <1>3, <1>7, <2>3 DEF MappingOf
  <2>7. v = IF m.mode \in Appends THEN a.list
            ELSE Aggregated(m, Cloned(id.attrs[m.source], hp), Resolved(tr, id, groups), groups)
    BY <1>3, <1>7, <2>3 DEF Src, GroupsFor
  <2>8. PICK F : IsMapping(F, y, tr, own) /\ Alike(Set(id, m.target, OrDefault(m, v)), F[a.m], hp, K)
    BY <2>4, <2>5, <2>6, <2>7, AssignedAlike
  <2>9. i = Set(id, m.target, OrDefault(m, v))
    BY <1>3, <1>7, <2>3 DEF Set
  <2>10. IsRecord(id) /\ a.m \in 1..Len(tr.mappings) /\ IsRecord(y) /\ y.groups # <<>>
    BY <2>4 DEF UnderWay, Alike
  <2>11. i.groups = id.groups
    BY <2>9, <2>10, RecordSet
  <2>12. PICK k : k = a.m + 1
    OBVIOUS
  <2>13. k \in Nat /\ k \in 1..(Len(Current(t).mappings) + 1) /\ k - 1 = a.m
    <3>1. Len(tr.mappings) \in Nat
      BY <2>5, ListDomain DEF Ready, Listed
    <3> QED BY <2>3, <2>10, <2>12, <3>1
  <2>14. ids'[t][u] = i /\ i.groups = ids[t][u].groups
    BY <1>3, <1>7, <2>3, <2>11 DEF IInv, Tables, Shape
  <2>15. Alike(i, F[k - 1], heap, WrittenBy(t, u)) /\ Begin(t, u, i, k)
         /\ IsMapping(F, y, Current(t), OwnGroups)
    BY <1>3, <1>7, <2>3, <2>8, <2>9, <2>12, <2>13
  <2> QED BY <1>1, <2>2, <2>4, <2>10, <2>13, <2>14, <2>15, BeginFollows
<1> QED BY <1>5, <1>6, <1>7

LEMMA ExtendFollows ==
  ASSUME IInv, HeapWritten, Next, NEW t \in Targets, NEW u \in Uids, NEW A, Track(A, t, u),
         Follows(A, t, u), NEW s \in Targets, Extend(s)
  PROVE  Follows(A, t, u)'
<1>1. /\ UNCHANGED <<manifest, source, stage, todo, ids, outcome>>
      /\ acc[s] # Idle /\ acc[s].rest # <<>>
  BY DEF Extend
<1>2. PICK x : x = acc[s].u /\ x \in todo[s]
  BY <1>1, AccIs
<1>3. PICK m, v, list :
        /\ m = MappingOf(s) /\ v = source.groups[Head(acc[s].rest)].attrs[m.source]
        /\ list = Extended(m, acc[s].list, v, heap)
        /\ acc' = [acc EXCEPT ![s].rest = Tail(acc[s].rest), ![s].list = list]
  BY DEF Extend
<1>4. /\ \A r \in Targets : r # s => acc'[r] = acc[r]
      /\ acc'[s].u = x /\ acc'[s].m = acc[s].m /\ acc'[s].rest = Tail(acc[s].rest)
      /\ acc'[s].list = list
  <2>1. DOMAIN acc[s] = {"u", "m", "rest", "list"}
    BY <1>1, AccIs
  <2> QED BY <1>2, <1>3, <2>1 DEF IInv, Tables
<1>5. CASE s # t
  <2>1. acc'[t] = acc[t]
    BY <1>4, <1>5
  <2> QED BY <1>1, <2>1, OtherTarget
<1>6. CASE s = t /\ x # u
  <2>1. ~Busy(t, u) /\ ~Busy(t, u)'
    BY <1>2, <1>4, <1>6 DEF Busy
  <2> QED BY <1>1, <2>1, OthersFollow
<1>7. CASE s = t /\ x = u
  <2> SUFFICES ASSUME ~Clobbered(t, u)', outcome[t] # "error" PROVE Follows(A, t, u)'
    BY <1>1 DEF Follows
  <2>1. /\ ~Clobbered(t, u) /\ WrittenBy(t, u) \subseteq WrittenBy(t, u)'
        /\ Agree(heap', heap, WrittenBy(t, u))
    BY HeapStays
  <2>2. /\ u \in todo[t] /\ stage[t] > 0 /\ Busy(t, u)
        /\ Current(t).type = "groupAggregation" /\ stage[t] # 0
    BY <1>1, <1>2, <1>7, AccIs DEF Busy
  <2>3. PICK id, hp, K, tr, groups, own, a, b, h, L :
          /\ id = ids[t][u] /\ hp = heap /\ K = WrittenBy(t, u) /\ tr = Current(t)
          /\ groups = source.groups /\ own = OwnGroups /\ a = acc[t]
          /\ b = acc'[t] /\ h = heap' /\ L = WrittenBy(t, u)'
    OBVIOUS
  <2>4. PICK y \in A[stage[t] - 1] : UnderWay(a, id, y, tr, own, hp, K)
    BY <2>1, <2>2, <2>3 DEF Follows
  <2>5. Ready(tr) /\ Twins(groups, own)
    <3>1. Listed(tr) /\ Named(tr) /\ (Creates(tr) \/ tr.type = "prefix")
      BY <2>2, <2>3, CurrentOf, NamedOf DEF IInv
    <3> QED BY <2>2, <2>3, <3>1, SourceTwins DEF Ready, IInv
  <2>6. m = tr.mappings[a.m]
    BY <1>3, <1>7, <2>3 DEF MappingOf
  <2>7. NextGroup(b, a, m, v, groups, hp)
    BY <1>1, <1>3, <1>4, <1>7, <2>3 DEF NextGroup
  <2>8. Holds(m, a.list, v, hp, h, L)
    <3> SUFFICES ASSUME WritesCell(m, a.list, v, hp) PROVE a.list.cell \in L /\ h[a.list.cell] = v
      BY DEF Holds
    <3>1. PICK c, w : c = a.list.cell /\ w = <<t, u, stage[t], a.m, v>>
      OBVIOUS
    <3>2. OneWrite(c, v, w)
      <4>1. OneWrite(acc[t].list.cell, v, <<t, acc[t].u, stage[t], acc[t].m, v>>)
        BY <1>3, <1>7, <2>3, ExtendWrites
      <4> QED BY <1>2, <1>7, <2>3, <3>1, <4>1
    <3>3. c \in Cells
      <4>1. m.mode \in Appends
        BY <2>4, <2>6, <2>7 DEF UnderWay, NextGroup
      <4>2. IsList(a.list, K)
        BY <2>4, <2>6, <4>1 DEF UnderWay, Extending
      <4>3. c # NoCell
        BY <3>1 DEF WritesCell, InPlace
      <4> QED BY <3>1, <4>2, <4>3 DEF IsList, Fits
    <3>4. w \in writers'[c] /\ w[1] = t /\ w[2] = u /\ heap'[c] = v
      BY <3>1, <3>2, <3>3 DEF OneWrite
    <3>5. c \in WrittenBy(t, u)'
      BY <3>3, <3>4 DEF WrittenBy
    <3> QED BY <2>3, <3>1, <3>4, <3>5
  <2>9. K \subseteq L /\ Agree(h, hp, K)
    BY <2>1, <2>3
  <2>10. UnderWay(b, id, y, tr, own, h, L)
    BY <2>4, <2>5, <2>6, <2>7, <2>8, <2>9, ExtendAlike
  <2>11. /\ Current(t)' = Current(t) /\ OwnGroups' = OwnGroups /\ ids' = ids /\ stage' = stage
    BY <1>1 DEF Current, Steps, OwnGroups
  <2>12. Busy(t, u)'
    <3>1. a.m \in 1..Len(tr.mappings) /\ b.m = a.m
      BY <1>4, <1>7, <2>3, <2>4 DEF UnderWay
    <3>2. b # Idle
      BY <3>1, IdleIs
    <3> QED BY <1>4, <1>7, <2>3, <3>2 DEF Busy
  <2> QED BY <2>3, <2>4, <2>10, <2>11, <2>12 DEF Follows
<1> QED BY <1>5, <1>6, <1>7

LEMMA SettledStays ==
  ASSUME IInv, Settled, [Next]_vars
  PROVE  Settled'
<1>1. HeapWritten'
  <2>1. CASE UNCHANGED <<heap, writers>>
    BY <2>1 DEF Settled, HeapWritten
  <2>2. CASE \E c, v, w : OneWrite(c, v, w)
    <3>1. PICK c, v, w : OneWrite(c, v, w)
      BY <2>2
    <3> SUFFICES ASSUME NEW d \in Cells, writers'[d] # {} PROVE \E x \in writers'[d] : heap'[d] = x[5]
      BY DEF HeapWritten
    <3>2. CASE d = c
      BY <3>1, <3>2 DEF OneWrite
    <3>3. CASE d # c
      <4>1. writers'[d] = writers[d] /\ heap'[d] = heap[d]
        BY <3>1, <3>3 DEF OneWrite
      <4> QED BY <4>1 DEF Settled, HeapWritten
    <3> QED BY <3>2, <3>3
  <2> QED BY <2>1, <2>2, StepWrites
<1>2. Done'
  <2> SUFFICES ASSUME NEW t \in Targets, outcome'[t] = "ok"
               PROVE  stage'[t] = Len(Steps(t)') /\ todo'[t] = {} /\ acc'[t] = Idle
    BY DEF Done
  <2>1. CASE outcome[t] = "ok"
    <3>1. stage[t] = Len(Steps(t)) /\ todo[t] = {} /\ acc[t] = Idle
      BY <2>1 DEF Settled, Done
    <3>2. stage'[t] = stage[t] /\ todo'[t] = todo[t] /\ acc'[t] = acc[t] /\ manifest' = manifest
      <4>1. ASSUME NEW s \in Targets, Extend(s) \/ Assign(s)
            PROVE  stage'[t] = stage[t] /\ todo'[t] = todo[t] /\ acc'[t] = acc[t] /\ manifest' = manifest
        <5>1. acc[s] # Idle /\ s # t
          BY <3>1, <4>1 DEF Extend, Assign
        <5>2. CASE Extend(s)
          <6>1. PICK rest, list : acc' = [acc EXCEPT ![s].rest = rest, ![s].list = list]
            BY <5>2 DEF Extend
          <6>2. acc'[t] = acc[t]
            BY <5>1, <6>1 DEF IInv, Tables
          <6> QED BY <5>2, <6>2 DEF Extend
        <5>3. CASE Assign(s)
          <6>1. PICK x, i, k : Begin(s, x, i, k)
            BY <5>3 DEF Assign
          <6>2. acc'[t] = acc[t] /\ todo'[t] = todo[t]
            BY <5>1, <6>1, BeginDoes DEF IInv, Tables
          <6> QED BY <5>3, <6>2 DEF Assign
        <5> QED BY <4>1, <5>2, <5>3
      <4>2. ASSUME NEW s \in Targets, NEW x \in Uids, Aggregate(s, x) \/ Transform(s, x)
            PROVE  stage'[t] = stage[t] /\ todo'[t] = todo[t] /\ acc'[t] = acc[t] /\ manifest' = manifest
        <5>1. x \in todo[s] /\ s # t
          BY <3>1, <4>2 DEF Aggregate, Transform, At
        <5>2. CASE Aggregate(s, x)
          <6>1. CASE ids[s][x].groups = <<>>
            BY <5>1, <5>2, <6>1 DEF Aggregate, IInv, Tables
          <6>2. CASE ids[s][x].groups # <<>>
            <7>1. Begin(s, x, ids[s][x], 1)
              BY <5>2, <6>2 DEF Aggregate
            <7>2. acc'[t] = acc[t] /\ todo'[t] = todo[t]
              BY <5>1, <7>1, BeginDoes DEF IInv, Tables
            <7> QED BY <5>2, <7>2 DEF Aggregate
          <6> QED BY <6>1, <6>2
        <5>3. CASE Transform(s, x)
          BY <5>1, <5>3 DEF Transform, IInv, Tables
        <5> QED BY <4>2, <5>2, <5>3
      <4>3. ASSUME NEW s \in Targets, Build(s) \/ Advance(s)
            PROVE  stage'[t] = stage[t] /\ todo'[t] = todo[t] /\ acc'[t] = acc[t] /\ manifest' = manifest
        <5>1. s # t
          BY <2>1, <4>3 DEF Build, Advance
        <5> QED BY <4>3, <5>1 DEF Build, Advance, IInv, Tables
      <4> QED BY <4>1, <4>2, <4>3 DEF Next, vars
    <3> QED BY <3>1, <3>2 DEF Steps
  <2>2. CASE outcome[t] # "ok"
    <3>1. outcome'[t] # outcome[t]
      BY <2>2
    <3>2. Advance(t)
      <4>1. ASSUME NEW s \in Targets, NEW x \in Uids, Transform(s, x) PROVE FALSE
        BY <2>2, <4>1 DEF Transform, IInv, Tables
      <4>2. ASSUME NEW s \in Targets, Build(s) PROVE FALSE
        BY <2>2, <4>2 DEF Build, IInv, Tables
      <4>3. ASSUME NEW s \in Targets, Advance(s) PROVE s = t
        BY <3>1, <4>3 DEF Advance, IInv, Tables
      <4> QED BY <3>1, <4>1, <4>2, <4>3 DEF Next, vars, Extend, Assign, Aggregate
    <3>3. LastStage(t)
      BY <3>1, <3>2 DEF Advance
    <3> QED BY <3>2, <3>3 DEF Advance, StageDone, LastStage, Steps
  <2> QED BY <2>1, <2>2
<1> QED BY <1>1, <1>2 DEF Settled

LEMMA SInvStarts == Init => SInv
<1> SUFFICES ASSUME Init PROVE SInv
  OBVIOUS
<1>1. IInv
  BY InitIs
<1>2. Settled
  BY DEF Init, Settled, HeapWritten, Done
<1>3. \A t \in Targets : stage[t] = 0
  BY DEF Init
<1> QED BY <1>1, <1>2, <1>3 DEF SInv, Follows

LEMMA SInvStays == SInv /\ [Next]_vars => SInv'
<1> SUFFICES ASSUME SInv, [Next]_vars PROVE SInv'
  OBVIOUS
<1>1. IInv' /\ Settled'
  BY NextKeeps, SettledStays DEF SInv
<1>2. UNCHANGED <<manifest, source>>
  BY DEF Next, vars, Build, Extend, Assign, Advance, Transform, Aggregate
<1>3. ASSUME NEW t \in Targets, NEW u \in Uids, NEW A, Track(A, t, u)' PROVE Follows(A, t, u)'
  <2>1. Track(A, t, u)
    BY <1>2, <1>3 DEF Track, Steps, OwnGroups
  <2>2. IInv /\ HeapWritten /\ Follows(A, t, u)
    BY <2>1 DEF SInv, Settled
  <2>3. CASE Next
    BY <2>1, <2>2, <2>3, BuildFollows, ExtendFollows, AssignFollows, AdvanceFollows,
       TransformFollows, AggregateFollows DEF Next
  <2>4. CASE UNCHANGED vars
    BY <2>2, <2>4, OthersFollow DEF vars
  <2> QED BY <2>3, <2>4
<1> QED BY <1>1, <1>3 DEF SInv

\* A target that is done has of every identity what the transformers make of it alone.
LEMMA AtTheEnd ==
  ASSUME SInv, NEW t \in Targets, outcome[t] = "ok", NEW u \in Uids, ~Clobbered(t, u)
  PROVE  \E y \in Alone(t, u) : Like(ids[t][u], y, heap, WrittenBy(t, u))
<1>1. PICK A : Track(A, t, u)
  BY TrackExists DEF SInv, IInv
<1>2. Follows(A, t, u)
  BY <1>1 DEF SInv
<1>3. stage[t] = Len(Steps(t)) /\ todo[t] = {} /\ acc[t] = Idle
  BY DEF SInv, Settled, Done
<1>4. stage[t] # 0 /\ ~Busy(t, u) /\ Behind(t, u) = Len(Steps(t))
  <2>1. Len(manifest[t].transformers) \in Nat /\ Len(Steps(t)) = Len(manifest[t].transformers) + 1
    BY StepsOf DEF SInv, IInv
  <2> QED BY <1>3, <2>1 DEF Busy, Behind
<1>5. A[Len(Steps(t))] = Alone(t, u)
  BY <1>1 DEF Track, IsAlone, Alone
<1> QED BY <1>2, <1>4, <1>5 DEF Follows

\* Every target is given what its own manifest makes of the source's identities,
\* whatever the pipelines of other targets do meanwhile, unless a cell that an identity
\* wrote holds what somebody else wrote: for every set of targets, identities and
\* manifests (Pipeline.Execute; the shared arrays of DeepCopy and append).
THEOREM IsolatedTargets == Spec => []Isolated
<1>1. SInv => Isolated
  <2> SUFFICES ASSUME SInv, NEW t \in Targets, outcome[t] = "ok", NEW u \in Uids, ~Clobbered(t, u)
               PROVE  Seen(ids[t][u]) \in Alone(t, u)
    BY DEF Isolated
  <2>1. PICK y \in Alone(t, u) : Like(ids[t][u], y, heap, WrittenBy(t, u))
    BY AtTheEnd
  <2>2. Seen(ids[t][u]) = y
    <3>1. PICK id, K : id = ids[t][u] /\ K = WrittenBy(t, u)
      OBVIOUS
    <3>2. CASE id = Gone
      <4>1. y = Gone
        BY <2>1, <3>1, <3>2, RecordKept DEF Like, Alike
      <4> QED BY <3>1, <3>2, <4>1 DEF Seen
    <3>3. CASE id # Gone
      <4>1. Alike(id, y, heap, K)
        BY <2>1, <3>1, <3>3 DEF Like
      <4>2. PICK at : at = [a \in Attrs |-> Cloned(id.attrs[a], heap)]
        OBVIOUS
      <4>3. PICK s : s = [id EXCEPT !.attrs = at]
        OBVIOUS
      <4>4. /\ IsRecord(s) /\ s.own = id.own /\ s.disabled = id.disabled
            /\ s.groups = id.groups /\ s.attrs = at
        <5>1. at = [a \in Attrs |-> at[a]] /\ IsRecord(id)
          BY <4>1, <4>2 DEF Alike
        <5> QED BY <4>3, <5>1, RecordAttrs
      <4>5. s = Seen(id)
        BY <3>3, <4>2, <4>3 DEF Seen
      <4>6. \A a \in Attrs : y.attrs[a] = s.attrs[a]
        BY <4>1, <4>2, <4>4 DEF Alike
      <4>7. y = s
        BY <4>1, <4>4, <4>6 DEF Alike, IsRecord
      <4> QED BY <3>1, <4>5, <4>7
    <3> QED BY <3>2, <3>3
  <2> QED BY <2>1, <2>2
<1> QED BY <1>1, SInvStarts, SInvStays, PTL DEF Spec

-----------------------------------------------------------------------------
(***************************************************************************)
(* The invariant behind AllOrNothing: a pipeline that is not built, or has *)
(* failed, has no identities, and a failure is one that its own manifest   *)
(* can make, which stays in the sets up to the last transformer.           *)
(***************************************************************************)
CanFail(t) == ~Known(t) \/ \E u \in Uids : Clobbered(t, u) \/ Failed \in Alone(t, u)
Empty(t) == \A u \in Uids : ids[t][u] = Gone
Refused(t) == (stage[t] = 0 => Empty(t)) /\ (outcome[t] = "error" => Empty(t) /\ CanFail(t))
FInv == SInv /\ \A t \in Targets : Refused(t)

\* A failure stays to the end.
LEMMA FailedStays ==
  ASSUME NEW A, NEW steps, NEW id, NEW own, IsAlone(A, steps, id, own), NEW n \in Nat, n = Len(steps),
         NEW i \in 0..n, Failed \in A[i]
  PROVE  Failed \in ResultsAlone(steps, id, own)
<1> DEFINE S == {k \in 0..n : k < i \/ Failed \in A[k]}
<1>1. 0 \in S
  <2>1. 0 \in 0..n /\ (0 < i \/ i = 0)
    OBVIOUS
  <2> QED BY <2>1
<1>2. ASSUME NEW k \in 1..n, k - 1 \in S PROVE k \in S
  <2>1. k \in 0..n /\ (k < i \/ k = i \/ ~(k - 1 < i))
    OBVIOUS
  <2>2. CASE Failed \in A[k - 1]
    <3>1. Failed \in A[k]
      <4>1. PICK tr : tr = steps[k]
        OBVIOUS
      <4>2. k \in 1..Len(steps) /\ Failed \in {Gone, Failed}
        OBVIOUS
      <4> QED BY <2>2, <4>1, <4>2, NextAlone
    <3> QED BY <2>1, <3>1
  <2> QED BY <1>2, <2>1, <2>2
<1>3. n \in S
  <2>1. n \in 0..n
    OBVIOUS
  <2> HIDE DEF S
  <2> QED BY <1>1, <1>2, <2>1, UpTo
<1>4. Failed \in A[n]
  BY <1>3
<1> QED BY <1>4 DEF IsAlone

\* What somebody wrote stays in the history, and the manifests do not change.
LEMMA CanFailStays ==
  ASSUME IInv, [Next]_vars, NEW t \in Targets, CanFail(t)
  PROVE  CanFail(t)'
<1>1. UNCHANGED <<manifest, source>>
  BY DEF Next, vars, Build, Extend, Assign, Advance, Transform, Aggregate
<1>2. Known(t)' = Known(t) /\ \A u \in Uids : Alone(t, u)' = Alone(t, u)
  BY <1>1 DEF Known, Alone, Steps, OwnGroups
<1>3. \A d \in Cells : writers[d] \subseteq writers'[d]
  <2>1. CASE UNCHANGED <<heap, writers>>
    BY <2>1
  <2>2. CASE \E c, v, w : OneWrite(c, v, w)
    BY <2>2 DEF OneWrite
  <2> QED BY <2>1, <2>2, StepWrites
<1>4. \A u \in Uids : Clobbered(t, u) => Clobbered(t, u)'
  BY <1>3 DEF Clobbered
<1> QED BY <1>2, <1>4 DEF CanFail

\* A transformer only fails when it can.
LEMMA FailureIsOwn ==
  ASSUME SInv, NEW t \in Targets, NEW u \in Uids, At(t, u), Current(t).type # "groupAggregation",
         Failed \in Results(Current(t), ids[t][u], source.groups)
  PROVE  CanFail(t)
<1>1. CASE Clobbered(t, u)
  BY <1>1 DEF CanFail
<1>2. CASE ~Clobbered(t, u)
  <2>1. PICK A : Track(A, t, u)
    BY TrackExists DEF SInv, IInv
  <2>2. IInv /\ Follows(A, t, u)
    BY <2>1 DEF SInv
  <2>3. PICK r : r = Failed
    OBVIOUS
  <2>4. /\ stage[t] \in 1..Len(Steps(t))
        /\ \E z \in A[stage[t]] : (r = Failed /\ z = Failed) \/ Like(r, z, heap, WrittenBy(t, u))
    BY <1>2, <2>1, <2>2, <2>3, ResultAlone
  <2>5. Failed \in A[stage[t]]
    <3>1. PICK z \in A[stage[t]] : (r = Failed /\ z = Failed) \/ Like(r, z, heap, WrittenBy(t, u))
      BY <2>4
    <3>2. r # Gone
      BY <2>3 DEF Failed, Gone
    <3>3. \A hp, K : ~Alike(r, z, hp, K)
      BY <2>3, RecordKept DEF Alike
    <3> QED BY <3>1, <3>2, <3>3 DEF Like
  <2>6. Failed \in Alone(t, u)
    <3>1. PICK steps, id, own, n, i :
            /\ steps = Steps(t) /\ id = OwnCopy(source.identities[u]) /\ own = OwnGroups
            /\ n = Len(steps) /\ i = stage[t]
      OBVIOUS
    <3>2. n \in Nat
      <4>1. Len(manifest[t].transformers) \in Nat
            /\ Len(Steps(t)) = Len(manifest[t].transformers) + 1
        BY <2>2, StepsOf DEF IInv
      <4> QED BY <3>1, <4>1
    <3>3. IsAlone(A, steps, id, own)
      BY <2>1, <3>1 DEF Track
    <3>4. i \in 0..n /\ Failed \in A[i]
      BY <2>4, <2>5, <3>1, <3>2
    <3>5. Failed \in ResultsAlone(steps, id, own)
      BY <3>1, <3>2, <3>3, <3>4, FailedStays
    <3> QED BY <3>1, <3>5 DEF Alone
  <2> QED BY <2>6 DEF CanFail
<1> QED BY <1>1, <1>2

LEMMA RefusedStays ==
  ASSUME FInv, [Next]_vars, NEW t \in Targets
  PROVE  Refused(t)'
<1>1. IInv /\ SInv /\ Refused(t) /\ Shape(t)
  BY DEF FInv, SInv, IInv
<1>2. CanFail(t) => CanFail(t)'
  BY <1>1, CanFailStays
<1>3. Empty(t) => todo[t] = {} /\ acc[t] = Idle
  BY <1>1 DEF Empty, Shape, Left
<1>4. ASSUME UNCHANGED <<stage, outcome>>, ids'[t] = ids[t]
      PROVE  Refused(t)'
  BY <1>1, <1>2, <1>4 DEF Refused, Empty
<1>5. CASE UNCHANGED vars
  BY <1>4, <1>5 DEF vars
<1>6. ASSUME NEW s \in Targets, Extend(s)
      PROVE  Refused(t)'
  BY <1>4, <1>6 DEF Extend
<1>7. ASSUME NEW s \in Targets, Assign(s)
      PROVE  Refused(t)'
  <2>1. UNCHANGED <<stage, outcome>> /\ acc[s] # Idle
    BY <1>7 DEF Assign
  <2>2. PICK id : ids' = [ids EXCEPT ![s][acc[s].u] = id]
    BY <1>7 DEF Assign
  <2>3. CASE s = t
    <3>1. ~Empty(t) /\ stage[t] # 0 /\ outcome[t] # "error"
      BY <1>1, <1>3, <2>1, <2>3 DEF Refused
    <3> QED BY <2>1, <3>1 DEF Refused
  <2>4. CASE s # t
    BY <1>1, <1>4, <2>1, <2>2, <2>4 DEF IInv, Tables
  <2> QED BY <2>3, <2>4
<1>8. ASSUME NEW s \in Targets, NEW x \in Uids, Aggregate(s, x)
      PROVE  Refused(t)'
  <2>1. UNCHANGED <<stage, outcome>> /\ x \in todo[s]
    BY <1>8 DEF Aggregate, At
  <2>2. PICK id : ids' = [ids EXCEPT ![s][x] = id] \/ ids' = ids
    BY <1>8 DEF Aggregate
  <2>3. CASE s = t
    <3>1. ~Empty(t) /\ stage[t] # 0 /\ outcome[t] # "error"
      BY <1>1, <1>3, <2>1, <2>3 DEF Refused
    <3> QED BY <2>1, <3>1 DEF Refused
  <2>4. CASE s # t
    BY <1>1, <1>4, <2>1, <2>2, <2>4 DEF IInv, Tables
  <2> QED BY <2>3, <2>4
<1>9. ASSUME NEW s \in Targets, Build(s)
      PROVE  Refused(t)'
  <2>1. CASE s # t
    <3>1. stage'[t] = stage[t] /\ outcome'[t] = outcome[t] /\ ids'[t] = ids[t]
      BY <1>1, <1>9, <2>1 DEF Build, IInv, Tables
    <3> QED BY <1>1, <1>2, <3>1 DEF Refused, Empty
  <2>2. CASE s = t /\ Known(t)
    <3>1. stage'[t] = 1 /\ outcome'[t] = "none"
      BY <1>1, <1>9, <2>2 DEF Build, IInv, Tables
    <3> QED BY <3>1 DEF Refused
  <2>3. CASE s = t /\ ~Known(t)
    <3>1. stage'[t] = 0 /\ stage[t] = 0 /\ ids'[t] = ids[t]
      BY <1>9, <2>3 DEF Build
    <3>2. CanFail(t)
      BY <2>3 DEF CanFail
    <3> QED BY <1>1, <1>2, <3>1, <3>2 DEF Refused, Empty
  <2> QED BY <2>1, <2>2, <2>3
<1>10. ASSUME NEW s \in Targets, Advance(s)
       PROVE  Refused(t)'
  <2>1. ids' = ids /\ stage[s] > 0
    BY <1>10 DEF Advance
  <2>2. CASE s # t
    <3>1. stage'[t] = stage[t] /\ outcome'[t] = outcome[t]
      BY <1>1, <1>10, <2>2 DEF Advance, IInv, Tables
    <3> QED BY <1>1, <1>2, <2>1, <3>1 DEF Refused, Empty
  <2>3. CASE s = t
    <3>1. outcome'[t] # "error"
      BY <1>1, <1>10, <2>3 DEF Advance, IInv, Tables
    <3>2. stage[t] \in Nat /\ (stage'[t] = stage[t] \/ stage'[t] = stage[t] + 1)
      BY <1>1, <1>10, <2>3 DEF Advance, IInv, Tables, Shape
    <3>3. stage'[t] # 0
      BY <2>1, <2>3, <3>2
    <3> QED BY <3>1, <3>3 DEF Refused
  <2> QED BY <2>2, <2>3
<1>11. ASSUME NEW s \in Targets, NEW x \in Uids, Transform(s, x)
       PROVE  Refused(t)'
  <2>1. UNCHANGED stage /\ x \in todo[s] /\ At(s, x) /\ Current(s).type # "groupAggregation"
    BY <1>11 DEF Transform, At
  <2>2. PICK r \in Results(Current(s), ids[s][x], source.groups) :
          IF r = Failed
          THEN /\ outcome' = [outcome EXCEPT ![s] = "error"]
               /\ ids' = [ids EXCEPT ![s] = [v \in Uids |-> Gone]]
          ELSE ids' = [ids EXCEPT ![s][x] = r] /\ UNCHANGED outcome
    BY <1>11 DEF Transform
  <2>3. CASE s # t
    <3>1. ids'[t] = ids[t] /\ outcome'[t] = outcome[t]
      BY <1>1, <2>2, <2>3 DEF IInv, Tables
    <3> QED BY <1>1, <1>2, <2>1, <3>1 DEF Refused, Empty
  <2>4. CASE s = t /\ r = Failed
    <3>1. Empty(t)'
      BY <1>1, <2>2, <2>4 DEF Empty, IInv, Tables
    <3>2. CanFail(t)
      BY <1>1, <2>1, <2>2, <2>4, FailureIsOwn
    <3> QED BY <1>2, <3>1, <3>2 DEF Refused
  <2>5. CASE s = t /\ r # Failed
    <3>1. ~Empty(t) /\ stage[t] # 0 /\ outcome[t] # "error"
      BY <1>1, <1>3, <2>1, <2>5 DEF Refused
    <3> QED BY <2>1, <2>2, <2>5, <3>1 DEF Refused
  <2> QED BY <2>3, <2>4, <2>5
<1> QED BY <1>5, <1>6, <1>7, <1>8, <1>9, <1>10, <1>11 DEF Next

\* A target that is given no identities has a manifest that is refused or an identity
\* that its manifest can fail on, and one that is given them has none that it must
\* fail on, unless a cell that the identity wrote holds what somebody else wrote: for
\* every set of targets, identities and manifests (Pipeline.Execute, NewPipeline).
THEOREM NothingOnFailure == Spec => []AllOrNothing
<1>1. Init => FInv
  <2>1. Init => \A t \in Targets : Refused(t)
    BY DEF Init, Refused, Empty
  <2> QED BY <2>1, SInvStarts DEF FInv
<1>2. FInv /\ [Next]_vars => FInv'
  BY RefusedStays, SInvStays DEF FInv
<1>3. FInv => AllOrNothing
  <2> SUFFICES ASSUME FInv, NEW t \in Targets
               PROVE  /\ outcome[t] = "error" => Empty(t) /\ CanFail(t)
                      /\ outcome[t] = "ok" =>
                           Known(t) /\ \A u \in Uids : Clobbered(t, u) \/ Alone(t, u) # {Failed}
    BY DEF AllOrNothing, Empty, CanFail
  <2>1. outcome[t] = "error" => Empty(t) /\ CanFail(t)
    BY DEF FInv, Refused
  <2>2. ASSUME outcome[t] = "ok" PROVE Known(t)
    <3>1. Len(manifest[t].transformers) \in Nat /\ Len(Steps(t)) = Len(manifest[t].transformers) + 1
      BY StepsOf DEF FInv, SInv, IInv
    <3>2. stage[t] = Len(Steps(t)) /\ Shape(t)
      BY <2>2 DEF FInv, SInv, IInv, Settled, Done
    <3>3. stage[t] > 0
      BY <3>1, <3>2
    <3> QED BY <3>2, <3>3 DEF Shape, Known
  <2>3. ASSUME outcome[t] = "ok", NEW u \in Uids, ~Clobbered(t, u) PROVE Alone(t, u) # {Failed}
    <3>1. PICK y \in Alone(t, u) : Like(ids[t][u], y, heap, WrittenBy(t, u))
      BY <2>3, AtTheEnd DEF FInv
    <3>2. y # Failed
      <4>1. Gone # Failed
        BY DEF Gone, Failed
      <4> QED BY <3>1, <4>1, RecordKept DEF Like, Alike
    <3> QED BY <3>1, <3>2
  <2> QED BY <2>1, <2>2, <2>3
<1> QED BY <1>1, <1>2, <1>3, PTL DEF Spec

-----------------------------------------------------------------------------
(***************************************************************************)
(* The orders of maps.  An expression replaces the placeholders of the     *)
(* attributes one after the other, over sets of texts that this model      *)
(* knows nothing of: it is in order when, wherever it comes to, any two of *)
(* the replacements give the same one after the other both ways.  Then     *)
(* what it makes of a set of attributes does not depend on which was the   *)
(* last, so every transformer makes one thing of an identity, and by       *)
(* induction over the transformers there is one that all of them make.     *)
(***************************************************************************)
Orderly(id, start) ==
  \E T : /\ start \in T
         /\ \A t \in T : \A a, b \in TextsIn(id) :
              LET Put(e, f) == Replaced(e, f, id.attrs[f])
              IN Put(t, a) \in T /\ Put(Put(t, a), b) = Put(Put(t, b), a)

\* Whichever attribute of a set comes last, the text is the same.
AnyIsLast(g, n, id, o) ==
  \A s \in SUBSET (1..n) : \A i \in s : g[s] = Replaced(g[s \ {i}], o[i], id.attrs[o[i]])
LEMMA LastIsAny ==
  ASSUME NEW id, NEW start, NEW n \in Nat, NEW o \in [1..n -> TextsIn(id)], Orderly(id, start),
         NEW c, c = [fold |-> "replaced", id |-> id, order |-> o], NEW g, IsFold(g, n, start, c)
  PROVE  AnyIsLast(g, n, id, o)
<1> DEFINE Put(e, i) == Replaced(e, o[i], id.attrs[o[i]])
<1>1. \A x, i : StepOf(c, x, i) = Put(x, i)
  BY DEF StepOf
<1>2. PICK T : /\ start \in T
               /\ \A t \in T : \A a, b \in TextsIn(id) :
                    /\ Replaced(t, a, id.attrs[a]) \in T
                    /\ Replaced(Replaced(t, a, id.attrs[a]), b, id.attrs[b])
                         = Replaced(Replaced(t, b, id.attrs[b]), a, id.attrs[a])
  BY Zenon DEF Orderly
<1>2a. ASSUME NEW t \in T, NEW i \in 1..n, NEW j \in 1..n
       PROVE  Put(t, i) \in T /\ Put(Put(t, i), j) = Put(Put(t, j), i)
  <2>1. o[i] \in TextsIn(id) /\ o[j] \in TextsIn(id)
    OBVIOUS
  <2> QED BY <1>2, <2>1
<1> HIDE DEF Put
<1>3. \A s \in SUBSET (1..n) : g[s] = IF s = {} THEN start ELSE Put(g[s \ {Max(s)}], Max(s))
  BY <1>1 DEF IsFold
<1> DEFINE Good(s) == g[s] \in T /\ \A i \in s : g[s] = Put(g[s \ {i}], i)
           S == {k \in 0..n : \A s \in SUBSET (1..k) : Good(s)}
<1>4. 0 \in S
  <2>1. \A s \in SUBSET (1..0) : s = {}
    OBVIOUS
  <2>2. 0 \in 0..n /\ {} \in SUBSET (1..n)
    OBVIOUS
  <2>3. Good({})
    BY <1>2, <1>3, <2>2
  <2> HIDE DEF Good
  <2> QED BY <2>1, <2>2, <2>3
<1>5. ASSUME NEW k \in 1..n, k - 1 \in S PROVE k \in S
  <2>1. k \in 0..n /\ k \in Nat /\ k > 0 /\ 1..k \subseteq 1..n
    OBVIOUS
  <2>2. ASSUME NEW s \in SUBSET (1..k) PROVE Good(s)
    <3>1. CASE k \notin s
      <4>1. s \in SUBSET (1..(k - 1))
        BY <2>1, <2>2, <3>1
      <4> HIDE DEF Good
      <4> QED BY <1>5, <4>1
    <3>2. CASE k \in s
      <4>1. Max(s) = k
        <5>1. s \in SUBSET Int /\ k \in s /\ \A y \in s : y <= k
          BY <2>2, <3>2
        <5> QED BY <5>1, MaxIs
      <4>2. PICK p : p = s \ {k}
        OBVIOUS
      <4>3. s \in SUBSET (1..n) /\ p \in SUBSET (1..(k - 1)) /\ s # {}
        BY <2>1, <3>2, <4>2
      <4>4. g[s] = Put(g[p], k)
        BY <1>3, <4>1, <4>2, <4>3
      <4>5. g[p] \in T /\ \A i \in p : g[p] = Put(g[p \ {i}], i)
        BY <1>5, <4>3
      <4>6. g[s] \in T
        BY <1>2a, <2>1, <4>4, <4>5
      <4>7. ASSUME NEW i \in p PROVE g[s] = Put(g[s \ {i}], i)
        <5>1. PICK q : q = p \ {i}
          OBVIOUS
        <5>2. /\ i \in 1..n /\ k \in 1..n /\ i # k /\ q \in SUBSET (1..(k - 1))
              /\ s \ {i} \in SUBSET (1..n) /\ k \in s \ {i} /\ (s \ {i}) \ {k} = q
              /\ s \ {i} \in SUBSET Int /\ \A y \in s \ {i} : y <= k
          BY <2>1, <2>2, <3>2, <4>2, <4>3, <4>7, <5>1
        <5>3. Max(s \ {i}) = k
          BY <5>2, MaxIs
        <5>4. g[s \ {i}] = Put(g[q], k)
          BY <1>3, <5>2, <5>3
        <5>5. g[q] \in T
          BY <1>5, <5>2
        <5>6. g[p] = Put(g[q], i)
          BY <4>5, <4>7, <5>1
        <5>7. Put(Put(g[q], i), k) = Put(Put(g[q], k), i)
          BY <1>2a, <5>2, <5>5
        <5> QED BY <4>4, <5>4, <5>6, <5>7
      <4> QED BY <4>2, <4>4, <4>6, <4>7
    <3> QED BY <3>1, <3>2
  <2> HIDE DEF Good
  <2> QED BY <2>1, <2>2
<1>6. n \in S
  <2>1. n \in 0..n
    OBVIOUS
  <2> HIDE DEF S
  <2> QED BY <1>4, <1>5, <2>1, UpTo
<1> QED BY <1>6 DEF Put, AnyIsLast

\* All orders come to what one of them comes to.
LEMMA OrdersAgree ==
  ASSUME NEW id, NEW start, Orderly(id, start), NEW o \in SetToSeqs(TextsIn(id)),
         NEW q \in SetToSeqs(TextsIn(id)), NEW n, n = Cardinality(TextsIn(id)),
         NEW g, IsFold(g, n, start, [fold |-> "replaced", id |-> id, order |-> o])
  PROVE  ReplacedAll(id, start, q) = g[1..n]
<1>1. IsFiniteSet(TextsIn(id))
  <2>1. TextsIn(id) \subseteq Attrs
    BY DEF TextsIn
  <2>2. IsFiniteSet(Attrs)
    BY SourceAssumption, Zenon DEF SourceAssumption
  <2> QED BY <2>1, <2>2, FS_Subset
<1>2. /\ n \in Nat /\ o \in [1..n -> TextsIn(id)] /\ \A x \in TextsIn(id) : \E i \in 1..n : o[i] = x
      /\ \A i, j \in 1..n : i # j => o[i] # o[j]
  BY <1>1, OrdersAreComplete
<1>3. /\ q \in [1..n -> TextsIn(id)] /\ \A x \in TextsIn(id) : \E i \in 1..n : q[i] = x
      /\ \A i, j \in 1..n : i # j => q[i] # q[j]
  BY <1>1, OrdersAreComplete
<1> DEFINE d == [fold |-> "replaced", id |-> id, order |-> q]
           Past(k) == {i \in 1..n : \E j \in 1..k : o[i] = q[j]}
<1>4. PICK w : Runs(w, n, start, d) /\ w[n] = ReplacedAll(id, start, q)
  <2>1. DOMAIN q = 1..n
    BY <1>3
  <2> QED BY <1>2, <2>1, ReplacedRuns
<1>5. \A x, k : StepOf(d, x, k) = Replaced(x, q[k], id.attrs[q[k]])
  BY DEF StepOf
<1> HIDE DEF d
<1>6. \A s \in SUBSET (1..n) : \A i \in s : g[s] = Replaced(g[s \ {i}], o[i], id.attrs[o[i]])
  <2>1. n \in Nat /\ o \in [1..n -> TextsIn(id)]
    BY <1>2
  <2>2. PICK c : c = [fold |-> "replaced", id |-> id, order |-> o]
    OBVIOUS
  <2>3. IsFold(g, n, start, c)
    BY <2>2
  <2>4. AnyIsLast(g, n, id, o)
    BY <2>1, <2>2, <2>3, LastIsAny
  <2> QED BY <2>4, Zenon DEF AnyIsLast
<1> DEFINE R == {k \in 0..n : w[k] = g[Past(k)]}
<1>7. 0 \in R
  <2>1. Past(0) = {} /\ {} \in SUBSET (1..n) /\ 0 \in 0..n
    BY <1>2
  <2>2. w[0] = start
    BY <1>4 DEF Runs
  <2>3. g[{}] = start
    BY <2>1 DEF IsFold
  <2> QED BY <2>1, <2>2, <2>3
<1>8. ASSUME NEW k \in 1..n, k - 1 \in R PROVE k \in R
  <2>1. k \in 0..n /\ 1..k = 1..(k - 1) \cup {k} /\ k \notin 1..(k - 1) /\ 1..(k - 1) \subseteq 1..n
    BY <1>2
  <2>2. PICK i \in 1..n : o[i] = q[k]
    BY <1>2, <1>3
  <2>3. Past(k) = Past(k - 1) \cup {i}
    BY <1>2, <2>1, <2>2
  <2>4. i \notin Past(k - 1)
    BY <1>3, <2>1, <2>2
  <2>5. i \in Past(k) /\ Past(k) \ {i} = Past(k - 1) /\ Past(k) \in SUBSET (1..n)
    BY <2>2, <2>3, <2>4
  <2>6. g[Past(k)] = Replaced(g[Past(k - 1)], o[i], id.attrs[o[i]])
    BY <1>6, <2>5
  <2>7. w[k] = Replaced(w[k - 1], q[k], id.attrs[q[k]])
    BY <1>4, <1>5 DEF Runs
  <2> HIDE DEF Past
  <2> QED BY <1>8, <2>1, <2>2, <2>6, <2>7
<1>9. n \in R
  <2>1. n \in 0..n
    BY <1>2
  <2> HIDE DEF R
  <2> QED BY <1>2, <1>7, <1>8, <2>1, UpTo
<1>10. Past(n) = 1..n
  BY <1>2, <1>3
<1> QED BY <1>4, <1>9, <1>10

LEMMA ComputedIsOne ==
  ASSUME NEW s, NEW id, Orderly(id, OwnReplaced(s, id))
  PROVE  \E r : Computed(s, id) = {r}
<1>1. PICK start, n : start = OwnReplaced(s, id) /\ n = Cardinality(TextsIn(id))
  OBVIOUS
<1>2. IsFiniteSet(TextsIn(id))
  <2>1. TextsIn(id) \subseteq Attrs
    BY DEF TextsIn
  <2>2. IsFiniteSet(Attrs)
    BY SourceAssumption, Zenon DEF SourceAssumption
  <2> QED BY <2>1, <2>2, FS_Subset
<1>3. n \in Nat
  BY <1>1, <1>2, FS_CardinalityType
<1>4. PICK o : o \in SetToSeqs(TextsIn(id))
  BY <1>2, OrdersExist
<1>5. PICK g : IsFold(g, n, start, [fold |-> "replaced", id |-> id, order |-> o])
  BY <1>3, FoldExists
<1>6. PICK all : all = g[1..n]
  OBVIOUS
<1>7. \A order \in SetToSeqs(TextsIn(id)) : ReplacedAll(id, start, order) = all
  BY <1>1, <1>4, <1>5, <1>6, OrdersAgree
<1>8. PICK r : r = [id EXCEPT !.attrs[s.target] = Text(all)]
  OBVIOUS
<1>9. \A y : y \in Computed(s, id) <=>
        \E order \in SetToSeqs(TextsIn(id)) : y = [id EXCEPT !.attrs[s.target] = Text(ReplacedAll(id, start, order))]
  BY <1>1, Zenon DEF Computed
<1>10. \A y : y \in Computed(s, id) <=> y = r
  BY <1>4, <1>7, <1>8, <1>9
<1>11. Computed(s, id) = {r}
  BY <1>10
<1> QED BY <1>11

\* A prefix of a list has the items of the list.
LEMMA PrefixIs ==
  ASSUME NEW T, NEW s \in Seq(T), NEW k \in 0..Len(s), NEW p, p = SubSeq(s, 1, k)
  PROVE  DOMAIN p = 1..k /\ \A i \in 1..k : p[i] = s[i]
<1>1. Len(s) \in Nat /\ k \in Nat /\ \A i \in 1..k : s[i] \in T
  OBVIOUS
<1>2. /\ p \in Seq(T) /\ Len(p) = (IF 1 <= k THEN k - 1 + 1 ELSE 0)
      /\ \A i \in 1..(k - 1 + 1) : p[i] = s[1 + i - 1]
  BY <1>1, SubSeqProperties
<1>3. Len(p) = k /\ 1..(k - 1 + 1) = 1..k /\ \A i \in 1..k : 1 + i - 1 = i
  BY <1>1, <1>2
<1>4. DOMAIN p = 1..Len(p)
  BY <1>2
<1> QED BY <1>2, <1>3, <1>4

\* A run of the first steps is the start of a run of all of them.
SanitizedEach(z, s) == UNION {IF r = Failed THEN {r} ELSE SanitizedBy(s, r) : r \in z}

SanitizesWith(c, list) == \A x, i : StepOf(c, x, i) = SanitizedEach(x, list[i])

LEMMA SanitizedUpTo ==
  ASSUME NEW T, NEW list \in Seq(T), NEW id, NEW w, NEW c, SanitizesWith(c, list),
         Runs(w, Len(list), {id}, c), NEW k \in 0..Len(list)
  PROVE  Sanitized([sanitizers |-> SubSeq(list, 1, k)], id) = w[k]
<1>1. PICK p : p = SubSeq(list, 1, k)
  OBVIOUS
<1>2. PICK q, d : q = [sanitizers |-> p] /\ d = [fold |-> "sanitized", tr |-> q]
  OBVIOUS
<1>3. k \in Nat /\ DOMAIN p = 1..k /\ \A i \in 1..k : p[i] = list[i]
  BY <1>1, PrefixIs
<1>4. q.sanitizers = p
  BY <1>2
<1>5. PICK v : Runs(v, k, {id}, d) /\ v[k] = Sanitized(q, id)
  BY <1>2, <1>3, <1>4, SanitizedRuns
<1>6. SanitizesWith(d, p)
  BY <1>2, <1>4 DEF SanitizesWith, StepOf, SanitizedEach
<1>7. \A i \in 1..k : \A x : StepOf(c, x, i) = StepOf(d, x, i)
  BY <1>3, <1>6 DEF SanitizesWith
<1>8. Runs(w, k, {id}, c)
  <2>1. 1..k \subseteq 1..Len(list)
    OBVIOUS
  <2> QED BY <2>1 DEF Runs
<1>9. k \in 0..k
  BY <1>3
<1>10. \A i \in 0..k : w[i] = v[i]
  BY <1>3, <1>5, <1>7, <1>8, SameRuns
<1> QED BY <1>1, <1>2, <1>5, <1>9, <1>10

LEMMA AloneUpTo ==
  ASSUME NEW T, NEW steps \in Seq(T), NEW id, NEW own, NEW w,
         Runs(w, Len(steps), {id}, [fold |-> "alone", steps |-> steps, groups |-> own]),
         NEW k \in 0..Len(steps)
  PROVE  ResultsAlone(SubSeq(steps, 1, k), id, own) = w[k]
<1>1. PICK p : p = SubSeq(steps, 1, k)
  OBVIOUS
<1>2. k \in Nat /\ DOMAIN p = 1..k /\ \A i \in 1..k : p[i] = steps[i]
  BY <1>1, PrefixIs
<1> DEFINE c == [fold |-> "alone", steps |-> steps, groups |-> own]
           d == [fold |-> "alone", steps |-> p, groups |-> own]
<1>3. PICK v : Runs(v, k, {id}, d) /\ v[k] = ResultsAlone(p, id, own)
  BY <1>2, AloneRuns
<1>4. \A i \in 1..k : \A x : StepOf(c, x, i) = StepOf(d, x, i)
  <2>1. /\ \A x, i : StepOf(c, x, i) = StepAlone(x, steps[i], own)
        /\ \A x, i : StepOf(d, x, i) = StepAlone(x, p[i], own)
    BY DEF StepOf
  <2> HIDE DEF c, d
  <2> QED BY <1>2, <2>1
<1>5. Runs(w, k, {id}, c)
  <2>1. 1..k \subseteq 1..Len(steps)
    OBVIOUS
  <2> QED BY <2>1 DEF Runs
<1>6. k \in 0..k
  BY <1>2
<1> HIDE DEF c, d
<1>7. \A i \in 0..k : v[i] = w[i]
  BY <1>2, <1>3, <1>4, <1>5, SameRuns
<1> QED BY <1>1, <1>3, <1>6, <1>7

\* An expression of the transformer is out of order on the way of an identity.
Tangles(tr, id) ==
  /\ tr.type = "sanitizer"
  /\ \E k \in DOMAIN tr.sanitizers :
       /\ tr.sanitizers[k].type = "compute"
       /\ \E i \in Sanitized([sanitizers |-> SubSeq(tr.sanitizers, 1, k - 1)], id) :
            i # Failed /\ ~Orderly(i, OwnReplaced(tr.sanitizers[k], i))
TangledAlone(t, u) ==
  \E k \in DOMAIN Steps(t) :
    \E id \in ResultsAlone(SubSeq(Steps(t), 1, k - 1), OwnCopy(source.identities[u]), OwnGroups) :
      id \notin {Gone, Failed} /\ Tangles(Steps(t)[k], id)

\* A sanitizer that tangles nothing makes one thing of an identity.
LEMMA SanitizedByIsOne ==
  ASSUME NEW s, s.type \in {"rewrite", "compute"}, NEW id, IsRecord(id),
         s.type = "compute" => Orderly(id, OwnReplaced(s, id))
  PROVE  \E r : SanitizedBy(s, id) = {r} /\ (r = Failed \/ IsRecord(r))
<1>1. \E r : SanitizedBy(s, id) = {r}
  <2>1. CASE s.type = "rewrite"
    BY <2>1 DEF SanitizedBy
  <2>2. CASE s.type = "compute"
    BY <2>2, ComputedIsOne DEF SanitizedBy
  <2> QED BY <2>1, <2>2
<1>2. PICK r : SanitizedBy(s, id) = {r}
  BY <1>1
<1>3. r = Failed \/ IsRecord(r)
  BY <1>2, SanitizedByKeeps
<1> QED BY <1>2, <1>3

LEMMA SanitizedIsOne ==
  ASSUME NEW tr, tr.type = "sanitizer", Listed(tr), Creates(tr), NEW id, IsRecord(id), ~Tangles(tr, id)
  PROVE  \E r : Sanitized(tr, id) = {r} /\ (r = Failed \/ IsRecord(r))
<1> DEFINE n == Len(tr.sanitizers)
           c == [fold |-> "sanitized", tr |-> tr]
           One(z) == \E r : z = {r} /\ (r = Failed \/ IsRecord(r))
<1>1. /\ tr.sanitizers \in Seq(ToSet(tr.sanitizers)) /\ n \in Nat /\ DOMAIN tr.sanitizers = 1..n
      /\ \A k \in 1..n : tr.sanitizers[k] \in ToSet(tr.sanitizers)
  BY ListDomain DEF Listed
<1>2. PICK w : Runs(w, n, {id}, c) /\ w[n] = Sanitized(tr, id)
  <2> HIDE DEF n
  <2> QED BY <1>1, SanitizedRuns
<1>3. \A k \in 0..n : Sanitized([sanitizers |-> SubSeq(tr.sanitizers, 1, k)], id) = w[k]
  <2>1. PICK T, list, d : list = tr.sanitizers /\ list \in Seq(T) /\ d = c
    BY <1>1
  <2>2. ASSUME NEW k \in 0..n PROVE Sanitized([sanitizers |-> SubSeq(list, 1, k)], id) = w[k]
    <3>1. Runs(w, Len(list), {id}, d) /\ k \in 0..Len(list)
      BY <1>2, <2>1
    <3>2. SanitizesWith(d, list)
      BY <2>1 DEF SanitizesWith, StepOf, SanitizedEach
    <3> QED BY <2>1, <3>1, <3>2, SanitizedUpTo
  <2> QED BY <2>1, <2>2
<1>4. \A x, k : StepOf(c, x, k)
                  = UNION {IF r = Failed THEN {r} ELSE SanitizedBy(tr.sanitizers[k], r) : r \in x}
  BY DEF StepOf
<1> HIDE DEF n, c
<1> DEFINE S == {k \in 0..n : One(w[k])}
<1>5. 0 \in S
  <2>1. w[0] = {id} /\ 0 \in 0..n
    BY <1>1, <1>2 DEF Runs
  <2> QED BY <2>1
<1>6. ASSUME NEW k \in 1..n, k - 1 \in S PROVE k \in S
  <2>1. k \in 0..n /\ k - 1 \in 0..n
    BY <1>1
  <2>2. PICK s : s = tr.sanitizers[k]
    OBVIOUS
  <2>3. PICK r : w[k - 1] = {r} /\ (r = Failed \/ IsRecord(r))
    BY <1>6
  <2>4. w[k] = IF r = Failed THEN {r} ELSE SanitizedBy(s, r)
    <3>1. w[k] = UNION {IF i = Failed THEN {i} ELSE SanitizedBy(s, i) : i \in {r}}
      BY <1>2, <1>4, <2>2, <2>3 DEF Runs
    <3> QED BY <3>1
  <2>5. CASE r = Failed
    BY <2>1, <2>4, <2>5
  <2>6. CASE r # Failed
    <3>1. s.type \in {"rewrite", "compute"}
      BY <1>1, <2>2 DEF Creates, ParsesSanitizers
    <3>2. s.type = "compute" => Orderly(r, OwnReplaced(s, r))
      <4>1. r \in Sanitized([sanitizers |-> SubSeq(tr.sanitizers, 1, k - 1)], id)
        BY <1>3, <2>1, <2>3
      <4>2. k \in DOMAIN tr.sanitizers
        BY <1>1
      <4> QED BY <2>2, <2>6, <4>1, <4>2 DEF Tangles
    <3>3. One(SanitizedBy(s, r))
      BY <2>3, <2>6, <3>1, <3>2, SanitizedByIsOne
    <3> QED BY <2>1, <2>4, <2>6, <3>3
  <2> QED BY <2>5, <2>6
<1>7. n \in S
  <2>1. n \in 0..n
    BY <1>1
  <2> HIDE DEF S
  <2> QED BY <1>1, <1>5, <1>6, <2>1, UpTo
<1> QED BY <1>2, <1>7

\* An aggregation of an identity is an identity.
LEMMA AggregatedAloneKeeps ==
  ASSUME NEW tr, tr.type = "groupAggregation", Listed(tr), NEW id, IsRecord(id), NEW own
  PROVE  IsRecord(AggregatedAlone(tr, id, own))
<1> DEFINE n == Len(tr.mappings)
<1>1. n \in Nat /\ DOMAIN tr.mappings = 1..n
  BY ListDomain DEF Listed
<1> HIDE DEF n
<1>2. CASE id.groups = <<>>
  <2>1. PICK d, r : d = Defaulted(tr, id) /\ r = OwnCopy(d)
    OBVIOUS
  <2>2. IsRecord(d)
    BY <1>1, <2>1, DefaultedKeeps
  <2>3. PICK at : at = [a \in Attrs |-> AsValue(d.attrs[a])]
    OBVIOUS
  <2>4. r = [d EXCEPT !.attrs = at] /\ at = [a \in Attrs |-> at[a]]
    BY <2>1, <2>3 DEF OwnCopy
  <2>5. IsRecord(r)
    BY <2>2, <2>4, RecordAttrs
  <2> QED BY <1>2, <2>1, <2>5 DEF AggregatedAlone
<1>3. CASE id.groups # <<>>
  <2>1. PICK F : IsMapping(F, id, tr, own)
    BY MappingExists
  <2>2. ASSUME NEW r, IsRecord(r), NEW m PROVE IsRecord(MappedAlone(tr, r, m, own))
    <3>1. PICK f, x : f = m.target /\ x = AsValue(OrDefault(m, IF m.mode \in Appends
            THEN ExtendedAlone(m, Start(r.attrs[m.source]), Having(m, Resolved(tr, r, own), own), own)
            ELSE Aggregated(m, r.attrs[m.source], Resolved(tr, r, own), own)))
      OBVIOUS
    <3>2. PICK s : s = MappedAlone(tr, r, m, own)
      OBVIOUS
    <3>3. s = Set(r, f, x)
      BY <3>1, <3>2, MappedAloneIs
    <3> QED BY <2>2, <3>2, <3>3, RecordSet
  <2> DEFINE S == {k \in 0..n : IsRecord(F[k])}
  <2>3. 0 \in S
    <3>1. F[0] = id /\ 0 \in 0..n
      BY <1>1, <2>1 DEF IsMapping
    <3> QED BY <3>1
  <2>4. ASSUME NEW k \in 1..n, k - 1 \in S PROVE k \in S
    <3>1. F[k] = MappedAlone(tr, F[k - 1], tr.mappings[k], own)
      BY <2>1 DEF IsMapping, n
    <3>2. k \in 0..n /\ IsRecord(F[k - 1])
      BY <1>1, <2>4
    <3> QED BY <2>2, <3>1, <3>2
  <2>5. n \in S
    <3>1. n \in 0..n
      BY <1>1
    <3> HIDE DEF S
    <3> QED BY <1>1, <2>3, <2>4, <3>1, UpTo
  <2>6. F[n] = AggregatedAlone(tr, id, own)
    BY <1>3, <2>1, Zenon DEF IsMapping, n, MappedAll, AggregatedAlone
  <2> QED BY <2>5, <2>6
<1> QED BY <1>2, <1>3

\* One transformer makes one thing of one thing.
IsOne(z) == \E r : z = {r} /\ (r \in {Gone, Failed} \/ IsRecord(r))
LEMMA StepIsOne ==
  ASSUME NEW tr, Listed(tr), Creates(tr) \/ tr.type = "prefix", NEW own,
         NEW r, r \in {Gone, Failed} \/ IsRecord(r), r \notin {Gone, Failed} => ~Tangles(tr, r)
  PROVE  IsOne(StepAlone({r}, tr, own))
<1>1. CASE r \in {Gone, Failed}
  <2>1. StepAlone({r}, tr, own) = {r}
    BY <1>1 DEF StepAlone
  <2> QED BY <1>1, <2>1 DEF IsOne
<1>2. CASE r \notin {Gone, Failed} /\ tr.type = "groupAggregation"
  <2>1. StepAlone({r}, tr, own) = {AggregatedAlone(tr, r, own)}
    BY <1>2 DEF StepAlone
  <2>2. IsRecord(AggregatedAlone(tr, r, own))
    BY <1>2, AggregatedAloneKeeps
  <2> QED BY <2>1, <2>2 DEF IsOne
<1>3. CASE r \notin {Gone, Failed} /\ tr.type # "groupAggregation"
  <2>1. StepAlone({r}, tr, own) = Results(tr, r, own)
    BY <1>3 DEF StepAlone
  <2>2. \E z : Results(tr, r, own) = {z}
    <3>1. CASE tr.type = "selector"
      BY <3>1 DEF Results
    <3>2. CASE tr.type = "sanitizer"
      <4>1. Results(tr, r, own) = Sanitized(tr, r) /\ Creates(tr)
        BY <3>2 DEF Results
      <4> QED BY <1>3, <3>2, <4>1, SanitizedIsOne
    <3>3. CASE tr.type = "template"
      <4>1. Results(tr, r, own) = Templated(tr, r)
        BY <3>3 DEF Results
      <4> QED BY <1>3, <3>3, <4>1, TemplatedIsOne DEF Listed
    <3>4. CASE tr.type = "prefix"
      BY <3>4 DEF Results
    <3> QED BY <1>3, <3>1, <3>2, <3>3, <3>4 DEF Creates, Types
  <2>3. PICK z : Results(tr, r, own) = {z}
    BY <2>2
  <2>4. z \in {Gone, Failed} \/ IsRecord(z)
    BY <1>3, <2>3, ResultsKeep
  <2> QED BY <2>1, <2>3, <2>4 DEF IsOne
<1> QED BY <1>1, <1>2, <1>3

\* Whatever the orders in which Go ranges over the attributes and the templates, a
\* manifest of known transformers makes one thing of an identity, unless on the way two
\* replacements of an expression give different texts one after the other: for every
\* manifest, all that a batch may fetch and any texts (evaluateExpression, the loop over
\* the templates).
OneOutcome ==
  \A t \in Targets : Known(t) => \A u \in Uids : TangledAlone(t, u) \/ Cardinality(Alone(t, u)) = 1
THEOREM OrderIsFree == Spec => []OneOutcome
<1>1. Given => OneOutcome
  <2> SUFFICES ASSUME Given, NEW t \in Targets, Known(t), NEW u \in Uids, ~TangledAlone(t, u)
               PROVE  Cardinality(Alone(t, u)) = 1
    BY DEF OneOutcome
  <2>1. PICK steps, id, own, n : /\ steps = Steps(t) /\ id = OwnCopy(source.identities[u])
                                 /\ own = OwnGroups /\ n = Len(steps)
    OBVIOUS
  <2>2. \E T : steps \in Seq(T)
    <3>1. PICK s, last : s = manifest[t].transformers /\ last = PrefixStep(manifest[t].prefix)
      OBVIOUS
    <3>2. s \in Seq(ToSet(s))
      <4>1. manifest[t] \in Manifests
        BY DEF Given
      <4> QED BY <3>1, <4>1, ManifestsAssumption, Zenon DEF ManifestsAssumption
    <3>3. steps = s \o <<last>>
      BY <2>1, <3>1, Zenon DEF Steps
    <3>4. s \in Seq(ToSet(s) \cup {last})
      <4>1. ToSet(s) \subseteq ToSet(s) \cup {last}
        OBVIOUS
      <4> QED BY <3>2, <4>1, SeqMonotonic
    <3>5. <<last>> \in Seq(ToSet(s) \cup {last})
      OBVIOUS
    <3> QED BY <3>3, <3>4, <3>5, ConcatProperties
  <2>3. n \in Nat /\ DOMAIN steps = 1..n
    BY <2>1, <2>2
  <2>4. \A k \in 1..n : Listed(steps[k]) /\ (Creates(steps[k]) \/ steps[k].type = "prefix")
    <3> DEFINE m == Len(manifest[t].transformers)
    <3>1. /\ m \in Nat /\ n = m + 1
          /\ \A k \in 1..m : steps[k] \in ToSet(manifest[t].transformers) /\ Listed(steps[k])
          /\ steps[m + 1].type = "prefix" /\ Listed(steps[m + 1])
      BY <2>1, StepsOf
    <3> HIDE DEF m
    <3>2. \A k \in 1..n : k \in 1..m \/ k = m + 1
      BY <3>1
    <3> QED BY <3>1, <3>2 DEF Known
  <2> DEFINE c == [fold |-> "alone", steps |-> steps, groups |-> own]
  <2>5. PICK w : Runs(w, n, {id}, c) /\ w[n] = ResultsAlone(steps, id, own)
    BY <2>3, AloneRuns
  <2>6. \A k \in 0..n : ResultsAlone(SubSeq(steps, 1, k), id, own) = w[k]
    BY <2>1, <2>2, <2>5, AloneUpTo
  <2>7. \A x, k : StepOf(c, x, k) = StepAlone(x, steps[k], own)
    BY DEF StepOf
  <2> HIDE DEF c
  <2>8. IsRecord(id)
    <3>1. PICK i : i = source.identities[u]
      OBVIOUS
    <3>2. PICK at : at = [a \in Attrs |-> AsValue(i.attrs[a])]
      OBVIOUS
    <3>3. id = [i EXCEPT !.attrs = at] /\ at = [a \in Attrs |-> at[a]]
      BY <2>1, <3>1, <3>2 DEF OwnCopy
    <3>4. IsRecord(i)
      BY <3>1, FetchedAre
    <3> QED BY <3>3, <3>4, RecordAttrs
  <2> DEFINE S == {k \in 0..n : IsOne(w[k])}
  <2>9. 0 \in S
    <3>1. w[0] = {id} /\ 0 \in 0..n
      BY <2>3, <2>5 DEF Runs
    <3> QED BY <2>8, <3>1 DEF IsOne
  <2>10. ASSUME NEW k \in 1..n, k - 1 \in S PROVE k \in S
    <3>1. k \in 0..n /\ k - 1 \in 0..n
      BY <2>3
    <3>2. PICK r : w[k - 1] = {r} /\ (r \in {Gone, Failed} \/ IsRecord(r))
      BY <2>10 DEF IsOne
    <3>3. w[k] = StepAlone({r}, steps[k], own)
      BY <2>5, <2>7, <3>2 DEF Runs
    <3>4. r \notin {Gone, Failed} => ~Tangles(steps[k], r)
      <4>1. r \in ResultsAlone(SubSeq(steps, 1, k - 1), id, own)
        BY <2>6, <3>1, <3>2
      <4>2. k \in DOMAIN steps
        BY <2>3
      <4> QED BY <2>1, <4>1, <4>2 DEF TangledAlone
    <3>5. IsOne(w[k])
      <4>1. PICK tr : tr = steps[k]
        OBVIOUS
      <4>2. Listed(tr) /\ (Creates(tr) \/ tr.type = "prefix")
        BY <2>4, <4>1
      <4> QED BY <3>2, <3>3, <3>4, <4>1, <4>2, StepIsOne
    <3> QED BY <3>1, <3>5
  <2>11. n \in S
    <3>1. n \in 0..n
      BY <2>3
    <3> HIDE DEF S
    <3> QED BY <2>3, <2>9, <2>10, <3>1, UpTo
  <2>12. PICK r : Alone(t, u) = {r}
    BY <2>1, <2>5, <2>11 DEF Alone, IsOne
  <2> QED BY <2>12, FS_Singleton
<1> QED BY <1>1, GivenKept, PTL
===============================================================================
