-------------------------- MODULE BudgetSharesProofs -------------------------
(* Totals, ranks, and the fan-out of BudgetShares: whatever turns and money it *)
(* divides among whatever number of requests, it divides fairly.               *)
EXTENDS BudgetShares, FiniteSetTheorems, TLAPS

------------------------------------------------------------------------------
(* Totals.                                                                    *)

Sums(g, f, S) ==
    g = [s \in SUBSET S |->
           IF s = {} THEN 0
           ELSE f[CHOOSE x \in s : TRUE] + g[s \ {CHOOSE x \in s : TRUE}]]

\* A total is a recursive function on the subsets of the domain.
LEMMA TotalDef ==
    ASSUME NEW f
    PROVE  Total(f) = (CHOOSE g : Sums(g, f, DOMAIN f))[DOMAIN f]
BY DEF Total, FoldFunction, FoldFunctionOnSet, MapThenFoldSet, Sums

\* Among subsets of a finite set there is one with none below it.
LEMMA Smallest ==
    ASSUME NEW S, IsFiniteSet(S), NEW B, B \subseteq SUBSET S, B # {}
    PROVE  \E T \in B : \A U \in B : U \subseteq T => U = T
<1>1. B \subseteq FiniteSubsetsOf(S)
  BY FS_FiniteSubsetsOfFinite
<1>2. PICK T \in B : \A U \in B : <<U, T>> \notin StrictSubsetOrdering(S)
  BY <1>1, WFMin, FS_StrictSubsetOrderingWellFounded
<1>3. \A U \in B : U \subseteq T => U = T
  BY <1>2 DEF StrictSubsetOrdering
<1> QED BY <1>3

\* A sum is one of its addends and the sum of the others.
LEMMA SumStep ==
    ASSUME NEW S, NEW f, NEW g, Sums(g, f, S), NEW T \in SUBSET S, T # {}
    PROVE  \E x \in T : /\ x = CHOOSE y \in T : TRUE
                        /\ T \ {x} \in SUBSET S
                        /\ g[T] = f[x] + g[T \ {x}]
<1> DEFINE x == CHOOSE y \in T : TRUE
<1>1. x \in T OBVIOUS
<1>2. g[T] = f[x] + g[T \ {x}] BY DEF Sums
<1> QED BY <1>1, <1>2

\* The empty sum is 0.
LEMMA SumEmpty == ASSUME NEW S, NEW f, NEW g, Sums(g, f, S) PROVE g[{}] = 0
BY DEF Sums

\* Sums of the same numbers agree, whatever else they range over.
LEMMA SumsAgree ==
    ASSUME NEW S, IsFiniteSet(S), NEW f, NEW g, Sums(g, f, S), NEW T \in SUBSET S,
           NEW e, \A x \in T : e[x] = f[x], NEW h, Sums(h, e, T), NEW V \in SUBSET T
    PROVE  g[V] = h[V]
<1>1. SUFFICES ASSUME NEW B, B = {U \in SUBSET T : g[U] # h[U]}, B # {} PROVE FALSE
  <2>1. g[V] # h[V] => V \in {U \in SUBSET T : g[U] # h[U]} OBVIOUS
  <2> QED BY <1>1, <2>1
<1>2. IsFiniteSet(T) BY FS_Subset
<1>3. PICK U \in B : \A W \in B : W \subseteq U => W = U
  BY <1>1, <1>2, Smallest
<1>4. U # {} /\ U \in SUBSET T /\ g[U] # h[U] BY <1>1, SumEmpty
<1>5. PICK x \in U : x = (CHOOSE y \in U : TRUE) /\ g[U] = f[x] + g[U \ {x}]
  BY <1>4, SumStep
<1>6. h[U] = e[x] + h[U \ {x}] /\ e[x] = f[x]
  BY <1>4, <1>5 DEF Sums
<1>7. g[U \ {x}] = h[U \ {x}]
  <2>1. U \ {x} \in SUBSET T /\ U \ {x} \subseteq U /\ U \ {x} # U BY <1>4
  <2> QED BY <1>1, <1>3, <2>1
<1> QED BY <1>4, <1>5, <1>6, <1>7

\* Over a finite set there is such a function.
LEMMA SumExists ==
    ASSUME NEW S, IsFiniteSet(S), NEW f
    PROVE  \E g : Sums(g, f, S)
<1>1. SUFFICES ASSUME NEW B, B = {T \in SUBSET S : ~\E g : Sums(g, f, T)}, S \in B PROVE FALSE
  OBVIOUS
<1>2. PICK T \in B : \A U \in B : U \subseteq T => U = T
  <2>1. B \subseteq SUBSET S /\ B # {} BY <1>1
  <2> QED BY <2>1, Smallest
<1> DEFINE G(U) == CHOOSE g : Sums(g, f, U)
           first(s) == CHOOSE y \in s : TRUE
           rest(s) == s \ {first(s)}
           h == [s \in SUBSET T |-> IF s = {} THEN 0 ELSE f[first(s)] + G(rest(s))[rest(s)]]
<1>3. ASSUME NEW s \in SUBSET T, s # {}
      PROVE  first(s) \in s /\ rest(s) \in SUBSET s /\ rest(s) \in SUBSET T /\ rest(s) # T
  BY <1>3
<1>4. ASSUME NEW U \in SUBSET T, U # T PROVE Sums(G(U), f, U)
  <2>1. U \in SUBSET S /\ U \notin B BY <1>1, <1>2, <1>4
  <2>2. \E g : Sums(g, f, U) BY <1>1, <2>1
  <2> QED BY <2>2
<1>5. ASSUME NEW U \in SUBSET T, U # T PROVE h[U] = G(U)[U]
  <2>1. Sums(G(U), f, U) BY <1>4, <1>5
  <2>2. CASE U = {} BY <2>1, <2>2, SumEmpty
  <2>3. CASE U # {}
    <3>1. h[U] = f[first(U)] + G(rest(U))[rest(U)] BY <2>3
    <3>2. G(U)[U] = f[first(U)] + G(U)[rest(U)]
      <4> HIDE DEF G
      <4> QED BY <2>1, <2>3 DEF Sums
    <3>3. rest(U) \in SUBSET U /\ rest(U) # T /\ rest(U) \in SUBSET T
      BY <1>3, <2>3
    <3>4. Sums(G(rest(U)), f, rest(U)) BY <1>4, <3>3
    <3>5. IsFiniteSet(U)
      <4>1. U \in SUBSET S BY <1>1, <1>5
      <4> QED BY <4>1, FS_Subset
    <3>6. ASSUME NEW g, NEW k, NEW W, Sums(g, f, U), W \in SUBSET U, Sums(k, f, W)
          PROVE  g[W] = k[W]
      BY <3>5, <3>6, SumsAgree
    <3>7. G(U)[rest(U)] = G(rest(U))[rest(U)]
      <4> HIDE DEF G, rest
      <4> QED BY <2>1, <3>3, <3>4, <3>6
    <3> HIDE DEF h, G, rest, first
    <3> QED BY <3>1, <3>2, <3>7
  <2> QED BY <2>2, <2>3
<1>6. Sums(h, f, T)
  <2>1. ASSUME NEW s \in SUBSET T, s # {} PROVE G(rest(s))[rest(s)] = h[rest(s)]
    <3>1. rest(s) \in SUBSET T /\ rest(s) # T BY <1>3, <2>1
    <3> HIDE DEF h, G, rest
    <3> QED BY <1>5, <3>1
  <2>2. h = [s \in SUBSET T |-> IF s = {} THEN 0 ELSE f[first(s)] + h[rest(s)]]
    <3>1. \A s \in SUBSET T : h[s] = IF s = {} THEN 0 ELSE f[first(s)] + G(rest(s))[rest(s)]
      OBVIOUS
    <3>2. \A s \in SUBSET T : h[s] = IF s = {} THEN 0 ELSE f[first(s)] + h[rest(s)]
      <4> HIDE DEF G, h, first, rest
      <4> QED BY <2>1, <3>1
    <3>3. h = [s \in SUBSET T |-> h[s]] OBVIOUS
    <3> HIDE DEF G, h, first, rest
    <3> QED BY <3>2, <3>3
  <2> QED BY <2>2 DEF Sums
<1>7. T \in B /\ ~\E g : Sums(g, f, T) BY <1>1
<1> HIDE DEF h
<1> QED BY <1>6, <1>7

\* A sum of natural numbers is one.
LEMMA SumType ==
    ASSUME NEW S, IsFiniteSet(S), NEW f, \A x \in S : f[x] \in Nat, NEW g, Sums(g, f, S),
           NEW V \in SUBSET S
    PROVE  g[V] \in Nat
<1>1. SUFFICES ASSUME NEW B, B = {U \in SUBSET S : g[U] \notin Nat}, B # {} PROVE FALSE
  OBVIOUS
<1>2. PICK U \in B : \A W \in B : W \subseteq U => W = U
  <2>1. B \subseteq SUBSET S BY <1>1
  <2> QED BY <1>1, <2>1, Smallest
<1>3. U # {} /\ U \in SUBSET S
  <2>1. g[{}] = 0 BY SumEmpty
  <2> QED BY <1>1, <2>1
<1>4. PICK x \in U : g[U] = f[x] + g[U \ {x}]
  BY <1>3, SumStep
<1>5. g[U \ {x}] \in Nat
  <2>1. U \ {x} \in SUBSET S /\ U \ {x} \subseteq U /\ U \ {x} # U BY <1>3
  <2> QED BY <1>1, <1>2, <2>1
<1> QED BY <1>1, <1>3, <1>4, <1>5

\* Any addend can be taken off first.
LEMMA SumAny ==
    ASSUME NEW S, IsFiniteSet(S), NEW f, \A x \in S : f[x] \in Nat, NEW g, Sums(g, f, S),
           NEW V \in SUBSET S, NEW k \in V
    PROVE  g[V] = f[k] + g[V \ {k}]
<1>1. SUFFICES ASSUME NEW B, B = {U \in SUBSET S : \E x \in U : g[U] # f[x] + g[U \ {x}]}, B # {}
               PROVE  FALSE
  <2>1. SUFFICES ASSUME g[V] # f[k] + g[V \ {k}] PROVE FALSE OBVIOUS
  <2>2. V \in {U \in SUBSET S : \E x \in U : g[U] # f[x] + g[U \ {x}]} BY <2>1
  <2> QED BY <1>1, <2>2
<1>2. PICK U \in B : \A W \in B : W \subseteq U => W = U
  <2>1. B \subseteq SUBSET S /\ B # {} BY <1>1
  <2> QED BY <2>1, Smallest
<1>3. PICK x \in U : g[U] # f[x] + g[U \ {x}] BY <1>1
<1>4. U \in SUBSET S /\ U # {} BY <1>1, <1>3
<1>5. PICK y \in U : g[U] = f[y] + g[U \ {y}] BY <1>4, SumStep
<1>6. x # y BY <1>3, <1>5
<1>7. ASSUME NEW z \in U, NEW w \in U, z # w PROVE g[U \ {z}] = f[w] + g[(U \ {z}) \ {w}]
  <2>1. U \ {z} \in SUBSET S /\ U \ {z} \subseteq U /\ U \ {z} # U /\ w \in U \ {z} BY <1>4, <1>7
  <2>2. U \ {z} \notin B BY <1>2, <2>1
  <2> QED BY <1>1, <2>1, <2>2
<1>8. (U \ {y}) \ {x} = (U \ {x}) \ {y} OBVIOUS
<1>9. f[x] \in Nat /\ f[y] \in Nat /\ g[(U \ {x}) \ {y}] \in Nat
  BY <1>4, SumType
<1>10. g[U \ {x}] = f[y] + g[(U \ {x}) \ {y}] /\ g[U \ {y}] = f[x] + g[(U \ {x}) \ {y}]
  BY <1>6, <1>7, <1>8
<1> QED BY <1>3, <1>5, <1>9, <1>10

\* A total over a finite domain is a sum.
LEMMA TotalIs ==
    ASSUME NEW D, IsFiniteSet(D), NEW f, DOMAIN f = D
    PROVE  \E g : Sums(g, f, D) /\ Total(f) = g[D]
BY TotalDef, SumExists

\* A total of natural numbers is one.
LEMMA TotalType ==
    ASSUME NEW D, IsFiniteSet(D), NEW f \in [D -> Nat]
    PROVE  Total(f) \in Nat
BY TotalIs, SumType

\* Any number can be split off a total.
LEMMA TotalSplit ==
    ASSUME NEW D, IsFiniteSet(D), NEW f \in [D -> Nat], NEW k \in D
    PROVE  Total(f) = f[k] + Total([d \in D \ {k} |-> f[d]])
<1> DEFINE E == D \ {k}
           e == [d \in E |-> f[d]]
<1>1. PICK g : Sums(g, f, D) /\ Total(f) = g[D] BY TotalIs
<1>2. IsFiniteSet(E) BY FS_RemoveElement
<1>3. DOMAIN e = E /\ E \in SUBSET D /\ \A x \in E : e[x] = f[x] OBVIOUS
<1> HIDE DEF e
<1>4. PICK h : Sums(h, e, E) /\ Total(e) = h[E] BY <1>2, <1>3, TotalIs
<1>5. g[D] = f[k] + g[E] BY <1>1, SumAny
<1>6. g[E] = h[E]
  <2> HIDE DEF E
  <2> QED BY <1>1, <1>3, <1>4, SumsAgree
<1> QED BY <1>1, <1>4, <1>5, <1>6 DEF e

\* A total grows with its numbers and their places, and zeros add nothing.
LEMMA TotalMono ==
    ASSUME NEW D, IsFiniteSet(D), NEW f \in [D -> Nat], NEW E \in SUBSET D, NEW e \in [E -> Nat],
           \A x \in E : e[x] <= f[x]
    PROVE  /\ Total(e) <= Total(f)
           /\ (\A x \in E : e[x] = f[x]) /\ (\A x \in D \ E : f[x] = 0) => Total(e) = Total(f)
<1>1. PICK g : Sums(g, f, D) /\ Total(f) = g[D] BY TotalIs
<1>2. IsFiniteSet(E) BY FS_Subset
<1>3. PICK h : Sums(h, e, E) /\ Total(e) = h[E] BY <1>2, TotalIs
<1> DEFINE Exact == (\A x \in E : e[x] = f[x]) /\ (\A x \in D \ E : f[x] = 0)
           Fits(V) == h[V \cap E] <= g[V] /\ (Exact => h[V \cap E] = g[V])
<1>4. ASSUME NEW B, B = {V \in SUBSET D : ~Fits(V)}, B # {} PROVE FALSE
  <2>1. PICK V \in B : \A W \in B : W \subseteq V => W = V
    <3>1. B \subseteq SUBSET D /\ B # {} BY <1>4
    <3> QED BY <3>1, Smallest
  <2>2. V \in SUBSET D /\ V \cap E \in SUBSET E /\ ~Fits(V)
    <3> HIDE DEF Fits
    <3> QED BY <1>4
  <2>3. Fits({})
    <3>1. g[{}] = 0 /\ h[{}] = 0 BY <1>1, <1>3, SumEmpty
    <3>2. {} \cap E = {} OBVIOUS
    <3> QED BY <3>1, <3>2
  <2>4. PICK x : x \in V
    <3> HIDE DEF Fits
    <3> QED BY <2>2, <2>3
  <2>5. Fits(V \ {x})
    <3>1. V \ {x} \in SUBSET D /\ V \ {x} \subseteq V /\ V \ {x} # V BY <2>2, <2>4
    <3> HIDE DEF Fits
    <3> QED BY <1>4, <2>1, <3>1
  <2>6. g[V] = f[x] + g[V \ {x}] BY <1>1, <2>2, <2>4, SumAny
  <2>7. g[V \ {x}] \in Nat /\ f[x] \in Nat BY <1>1, <2>2, <2>4, SumType
  <2>8. h[(V \ {x}) \cap E] \in Nat BY <1>2, <1>3, SumType
  <2>9. CASE x \in E
    <3>1. h[V \cap E] = e[x] + h[(V \cap E) \ {x}]
      <4>1. x \in V \cap E /\ (\A y \in E : e[y] \in Nat) /\ V \cap E \in SUBSET E
        BY <2>2, <2>4, <2>9
      <4> QED BY <1>2, <1>3, <4>1, SumAny
    <3>2. (V \cap E) \ {x} = (V \ {x}) \cap E OBVIOUS
    <3>3. e[x] \in Nat /\ e[x] <= f[x] /\ (Exact => e[x] = f[x]) BY <2>9
    <3>4. h[(V \ {x}) \cap E] <= g[V \ {x}] /\ (Exact => h[(V \ {x}) \cap E] = g[V \ {x}])
      BY <2>5
    <3>5. h[V \cap E] = e[x] + h[(V \ {x}) \cap E] BY <3>1, <3>2
    <3> HIDE DEF Exact
    <3>6. h[V \cap E] <= g[V] BY <2>6, <2>7, <2>8, <3>3, <3>4, <3>5
    <3>7. Exact => h[V \cap E] = g[V] BY <2>6, <3>3, <3>4, <3>5
    <3> QED BY <2>2, <3>6, <3>7
  <2>10. CASE x \notin E
    <3>1. V \cap E = (V \ {x}) \cap E BY <2>10
    <3>2. Exact => f[x] = 0 BY <2>2, <2>4, <2>10
    <3> HIDE DEF Exact
    <3> QED BY <2>2, <2>5, <2>6, <2>7, <2>8, <3>1, <3>2
  <2> QED BY <2>9, <2>10
<1>5. Fits(D)
  <2> HIDE DEF Fits
  <2>1. {V \in SUBSET D : ~Fits(V)} = {} BY <1>4
  <2> QED BY <2>1
<1>6. D \cap E = E OBVIOUS
<1> QED BY <1>1, <1>3, <1>5, <1>6

\* A total of zeros is 0.
LEMMA TotalZero ==
    ASSUME NEW D, IsFiniteSet(D), NEW f \in [D -> Nat], \A x \in D : f[x] = 0
    PROVE  Total(f) = 0
<1> DEFINE e == [x \in {} |-> 0]
<1>1. e \in [{} -> Nat] /\ {} \in SUBSET D OBVIOUS
<1>2. Total(e) = 0
  <2>1. IsFiniteSet({}) BY FS_EmptySet
  <2>2. PICK g : Sums(g, e, {}) /\ Total(e) = g[{}] BY <2>1, TotalIs
  <2> QED BY <2>2, SumEmpty
<1>3. Total(e) = Total(f)
  <2>1. ASSUME NEW E, E = {}, NEW a \in [E -> Nat] PROVE Total(a) = Total(f)
    <3>1. E \in SUBSET D /\ \A x \in E : a[x] <= f[x] /\ a[x] = f[x] BY <2>1
    <3>2. \A x \in D \ E : f[x] = 0 OBVIOUS
    <3> QED BY <3>1, <3>2, TotalMono
  <2> HIDE DEF e
  <2> QED BY <1>1, <2>1
<1> QED BY <1>2, <1>3

\* When one number changes, the total changes by as much.
LEMMA TotalExcept ==
    ASSUME NEW D, IsFiniteSet(D), NEW f \in [D -> Nat], NEW h \in [D -> Nat], NEW k \in D,
           \A x \in D \ {k} : h[x] = f[x]
    PROVE  Total(h) + f[k] = Total(f) + h[k]
<1> DEFINE e == [d \in D \ {k} |-> f[d]]
<1>1. Total(f) = f[k] + Total(e) BY TotalSplit
<1>2. Total(h) = h[k] + Total([d \in D \ {k} |-> h[d]]) BY TotalSplit
<1>3. [d \in D \ {k} |-> h[d]] = e OBVIOUS
<1>4. Total(e) \in Nat
  <2>1. IsFiniteSet(D \ {k}) /\ e \in [D \ {k} -> Nat] BY FS_RemoveElement
  <2> QED BY <2>1, TotalType
<1> QED BY <1>1, <1>2, <1>3, <1>4
------------------------------------------------------------------------------
(* Ranks.                                                                     *)

Below(S, R, x) == {y \in S : <<y, x>> \in R}

\* R puts the members of S in a line.
InLine(S, R) ==
    /\ \A x \in S : <<x, x>> \notin R
    /\ \A x, y \in S : x # y => <<x, y>> \in R \/ <<y, x>> \in R
    /\ \A x, y, z \in S : <<x, y>> \in R /\ <<y, z>> \in R => <<x, z>> \in R

\* In a line every place is taken, by one member.
LEMMA Ranked ==
    ASSUME NEW S, IsFiniteSet(S), NEW R, InLine(S, R)
    PROVE  /\ \A x \in S : Cardinality(Below(S, R, x)) \in 0 .. Cardinality(S) - 1
           /\ \A x, y \in S : <<x, y>> \in R
                                => Cardinality(Below(S, R, x)) < Cardinality(Below(S, R, y))
           /\ \A n \in 0 .. Cardinality(S) - 1 :
                 \E x \in S : Cardinality(Below(S, R, x)) = n
<1> DEFINE N == Cardinality(S)
           rank == [x \in S |-> Cardinality(Below(S, R, x))]
<1>1. N \in Nat BY FS_CardinalityType
<1>2. ASSUME NEW x \in S
      PROVE  /\ IsFiniteSet(Below(S, R, x)) /\ Cardinality(Below(S, R, x)) \in Nat
             /\ Cardinality(Below(S, R, x)) < N
  <2>1. Below(S, R, x) \in SUBSET S /\ x \notin Below(S, R, x) BY DEF Below, InLine
  <2>2. IsFiniteSet(Below(S, R, x)) /\ Cardinality(Below(S, R, x)) <= N
        /\ (N = Cardinality(Below(S, R, x)) => S = Below(S, R, x))
    BY <2>1, FS_Subset
  <2>3. Cardinality(Below(S, R, x)) \in Nat BY <2>2, FS_CardinalityType
  <2> QED BY <1>1, <2>1, <2>2, <2>3
<1>3. ASSUME NEW x \in S, NEW y \in S, <<x, y>> \in R
      PROVE  Cardinality(Below(S, R, x)) < Cardinality(Below(S, R, y))
  <2>1. Below(S, R, x) \in SUBSET Below(S, R, y) BY <1>3 DEF Below, InLine
  <2>2. x \in Below(S, R, y) /\ x \notin Below(S, R, x) BY <1>3 DEF Below, InLine
  <2>3. /\ Cardinality(Below(S, R, x)) <= Cardinality(Below(S, R, y))
        /\ (Cardinality(Below(S, R, y)) = Cardinality(Below(S, R, x))
              => Below(S, R, y) = Below(S, R, x))
    BY <1>2, <2>1, FS_Subset
  <2> QED BY <1>2, <2>2, <2>3
<1>4. IsFiniteSet(0 .. N - 1) /\ Cardinality(0 .. N - 1) = N BY <1>1, FS_Interval
<1>5. rank \in Injection(S, 0 .. N - 1)
  <2>1. rank \in [S -> 0 .. N - 1] BY <1>1, <1>2
  <2>2. ASSUME NEW x \in S, NEW y \in S, rank[x] = rank[y] PROVE x = y
    <3>1. ASSUME x # y PROVE FALSE
      <4>1. <<x, y>> \in R \/ <<y, x>> \in R BY <3>1 DEF InLine
      <4>2. rank[x] < rank[y] \/ rank[y] < rank[x] BY <1>3, <4>1
      <4>3. rank[x] \in Nat /\ rank[y] \in Nat BY <1>2
      <4> HIDE DEF rank
      <4> QED BY <2>2, <4>2, <4>3
    <3> QED BY <3>1
  <2> HIDE DEF rank
  <2> QED BY <2>1, <2>2 DEF Injection, IsInjective
<1>6. rank \in Surjection(S, 0 .. N - 1)
  <2> HIDE DEF rank
  <2> QED BY <1>4, <1>5, FS_Injection
<1>7. \A n \in 0 .. N - 1 : \E x \in S : rank[x] = n
  <2> HIDE DEF rank
  <2> QED BY <1>6 DEF Surjection
<1> QED BY <1>1, <1>2, <1>3, <1>7

------------------------------------------------------------------------------
(* Grants.                                                                    *)

\* The product of two numbers is a number.
LEMMA Products == ASSUME NEW a \in Nat, NEW b \in Nat PROVE a * b \in Nat
OBVIOUS

\* The quotient of two numbers is a number.
LEMMA Quotients == ASSUME NEW a \in Nat, NEW b \in Nat \ {0} PROVE a \div b \in Nat
OBVIOUS

\* Every grant is a number of turns.
LEMMA GrantsTyped ==
    ASSUME NEW s \in Seq(Nat \ {0}), NEW A \in Nat
    PROVE  ClampTurns(s, A) \in [DOMAIN s -> Nat]
<1> DEFINE T == Total(s)
           r == Len(s)
           floor(i) == 1 + ((s[i] - 1) * (A - r)) \div (T - r)
           floors == [i \in DOMAIN s |-> floor(i)]
           extra == OneEach(s, A - Total(floors))
<1>1. s \in [DOMAIN s -> Nat] /\ DOMAIN s = 1 .. r /\ r \in Nat /\ IsFiniteSet(DOMAIN s)
  <2>1. DOMAIN s = 1 .. r /\ r \in Nat OBVIOUS
  <2>2. s \in [DOMAIN s -> Nat] OBVIOUS
  <2>3. IsFiniteSet(1 .. r) BY <2>1, FS_Interval
  <2> QED BY <2>1, <2>2, <2>3
<1>2. T \in Nat BY <1>1, TotalType
<1>3. \A n : OneEach(s, n) \in [DOMAIN s -> Nat] BY DEF OneEach
<1>4. CASE T <= A
  <2>1. ClampTurns(s, A) = s BY <1>2, <1>4 DEF ClampTurns
  <2> QED BY <1>1, <2>1
<1>5. CASE T > A /\ r > A
  <2>1. ClampTurns(s, A) = OneEach(s, A) BY <1>1, <1>2, <1>5 DEF ClampTurns
  <2> QED BY <1>3, <2>1
<1>6. CASE T > A /\ r <= A
  <2>1. ClampTurns(s, A) = [i \in DOMAIN s |-> floors[i] + extra[i]]
    BY <1>1, <1>2, <1>6 DEF ClampTurns
  <2>2. ASSUME NEW i \in DOMAIN s PROVE floor(i) \in Nat
    <3>1. s[i] - 1 \in Nat /\ A - r \in Nat /\ T - r \in Nat \ {0} BY <1>1, <1>2, <1>6
    <3>2. (s[i] - 1) * (A - r) \in Nat BY <3>1, Products
    <3>3. ((s[i] - 1) * (A - r)) \div (T - r) \in Nat
      <4> HIDE DEF T, r
      <4> QED BY <3>1, <3>2, Quotients
    <3> QED BY <3>3
  <2>3. extra \in [DOMAIN s -> Nat] BY <1>3
  <2> HIDE DEF floor, extra
  <2> QED BY <2>1, <2>2, <2>3
<1> QED BY <1>1, <1>2, <1>4, <1>5, <1>6

\* Every share of a fan-out is a lease.
LEMMA SharesTyped ==
    ASSUME NEW s \in Seq(Nat \ {0}), NEW A \in Nat, NEW usd \in Nat, NEW i \in DOMAIN s
    PROVE  QuoteShares(s, A, usd)[i] \in [turns : Nat, usd : Nat]
<1> DEFINE g == ClampTurns(s, A)
           T == Total(g)
<1>1. g \in [DOMAIN s -> Nat] BY GrantsTyped
<1>2. IsFiniteSet(DOMAIN s)
  <2>1. DOMAIN s = 1 .. Len(s) /\ Len(s) \in Int OBVIOUS
  <2> QED BY <2>1, FS_Interval
<1>3. T \in Nat BY <1>1, <1>2, TotalType
<1>4. QuoteShares(s, A, usd)[i]
        = Lease(g[i], IF T = 0 THEN 0 ELSE (usd * g[i]) \div T)
  BY DEF QuoteShares
<1>5. g[i] \in Nat BY <1>1
<1> HIDE DEF g, T
<1>6. T # 0 => (usd * g[i]) \div T \in Nat BY <1>3, <1>5, Products, Quotients
<1> QED BY <1>4, <1>5, <1>6 DEF Lease

------------------------------------------------------------------------------
(* More about totals: of sums, of multiples, and under other names.           *)

\* What holds of no numbers, and of one more, holds of all.
LEMMA SubsetsGrow ==
    ASSUME NEW D, IsFiniteSet(D), NEW P, {} \in P,
           \A V \in SUBSET D : \A x \in V : V \ {x} \in P => V \in P
    PROVE  D \in P
<1>1. SUFFICES ASSUME NEW B, B = (SUBSET D) \ P, B # {} PROVE FALSE
  <2>1. D \notin P => D \in (SUBSET D) \ P OBVIOUS
  <2> QED BY <1>1, <2>1
<1>2. PICK V \in B : \A W \in B : W \subseteq V => W = V
  <2>1. B \subseteq SUBSET D BY <1>1
  <2> QED BY <1>1, <2>1, Smallest
<1>3. V \in SUBSET D /\ V \notin P BY <1>1, <1>2
<1>4. PICK x : x \in V BY <1>3
<1>5. V \ {x} \in SUBSET D /\ V \ {x} \subseteq V /\ V \ {x} # V BY <1>3, <1>4
<1>6. V \ {x} \in P BY <1>1, <1>2, <1>5
<1> QED BY <1>3, <1>4, <1>6

\* The total of sums is the sum of the totals.
LEMMA TotalPlus ==
    ASSUME NEW D, IsFiniteSet(D), NEW f \in [D -> Nat], NEW h \in [D -> Nat], NEW e \in [D -> Nat],
           \A x \in D : e[x] = f[x] + h[x]
    PROVE  Total(e) = Total(f) + Total(h)
<1>1. PICK a : Sums(a, f, D) /\ Total(f) = a[D] BY TotalIs
<1>2. PICK b : Sums(b, h, D) /\ Total(h) = b[D] BY TotalIs
<1>3. PICK c : Sums(c, e, D) /\ Total(e) = c[D] BY TotalIs
<1>4. PICK P : P = {V \in SUBSET D : c[V] = a[V] + b[V]} OBVIOUS
<1>5. {} \in P
  <2>1. a[{}] = 0 /\ b[{}] = 0 /\ c[{}] = 0 BY <1>1, <1>2, <1>3, SumEmpty
  <2> QED BY <1>4, <2>1
<1>6. ASSUME NEW V \in SUBSET D, NEW x \in V, V \ {x} \in P PROVE V \in P
  <2>1. a[V] = f[x] + a[V \ {x}] /\ b[V] = h[x] + b[V \ {x}] /\ c[V] = e[x] + c[V \ {x}]
    <3>1. a[V] = f[x] + a[V \ {x}] BY <1>1, SumAny
    <3>2. b[V] = h[x] + b[V \ {x}] BY <1>2, SumAny
    <3>3. c[V] = e[x] + c[V \ {x}] BY <1>3, SumAny
    <3> QED BY <3>1, <3>2, <3>3
  <2>2. a[V \ {x}] \in Nat /\ b[V \ {x}] \in Nat /\ c[V \ {x}] \in Nat
    <3>1. V \ {x} \in SUBSET D OBVIOUS
    <3> QED BY <1>1, <1>2, <1>3, <3>1, SumType
  <2>3. c[V \ {x}] = a[V \ {x}] + b[V \ {x}] BY <1>4, <1>6
  <2>4. f[x] \in Nat /\ h[x] \in Nat /\ e[x] = f[x] + h[x] OBVIOUS
  <2>5. c[V] = a[V] + b[V] BY <2>1, <2>2, <2>3, <2>4
  <2> QED BY <1>4, <2>5
<1>7. D \in P BY <1>5, <1>6, SubsetsGrow
<1> QED BY <1>1, <1>2, <1>3, <1>4, <1>7

\* A product distributes over a sum.
LEMMA Distributes ==
    ASSUME NEW n \in Nat, NEW a \in Nat, NEW b \in Nat
    PROVE  n * (a + b) = n * a + n * b
OBVIOUS

\* The total of multiples is the multiple of the total.
LEMMA TotalTimes ==
    ASSUME NEW D, IsFiniteSet(D), NEW n \in Nat, NEW f \in [D -> Nat], NEW e \in [D -> Nat],
           \A x \in D : e[x] = n * f[x]
    PROVE  Total(e) = n * Total(f)
<1>1. PICK a : Sums(a, f, D) /\ Total(f) = a[D] BY TotalIs
<1>2. PICK c : Sums(c, e, D) /\ Total(e) = c[D] BY TotalIs
<1>3. PICK P : P = {V \in SUBSET D : c[V] = n * a[V]} OBVIOUS
<1>4. {} \in P
  <2>1. a[{}] = 0 /\ c[{}] = 0 BY <1>1, <1>2, SumEmpty
  <2> QED BY <1>3, <2>1
<1>5. ASSUME NEW V \in SUBSET D, NEW x \in V, V \ {x} \in P PROVE V \in P
  <2>1. a[V] = f[x] + a[V \ {x}] /\ c[V] = e[x] + c[V \ {x}]
    BY <1>1, <1>2, SumAny
  <2>2. a[V \ {x}] \in Nat
    <3>1. V \ {x} \in SUBSET D OBVIOUS
    <3> QED BY <1>1, <3>1, SumType
  <2>3. c[V \ {x}] = n * a[V \ {x}] BY <1>3, <1>5
  <2>4. f[x] \in Nat /\ e[x] = n * f[x] OBVIOUS
  <2>5. c[V] = n * a[V] BY <2>1, <2>2, <2>3, <2>4, Distributes
  <2> QED BY <1>3, <2>5
<1>6. D \in P BY <1>4, <1>5, SubsetsGrow
<1> QED BY <1>1, <1>2, <1>3, <1>6

\* A total of ones and zeros counts the ones.
LEMMA TotalCounts ==
    ASSUME NEW D, IsFiniteSet(D), NEW f \in [D -> {0, 1}]
    PROVE  Total(f) = Cardinality({x \in D : f[x] = 1})
<1>1. f \in [D -> Nat] OBVIOUS
<1>2. PICK a : Sums(a, f, D) /\ Total(f) = a[D] BY <1>1, TotalIs
<1>3. PICK P : P = {V \in SUBSET D : a[V] = Cardinality({x \in V : f[x] = 1})} OBVIOUS
<1>4. {} \in P
  <2>1. a[{}] = 0 BY <1>2, SumEmpty
  <2>2. {x \in {} : f[x] = 1} = {} /\ Cardinality({}) = 0 BY FS_EmptySet
  <2> QED BY <1>3, <2>1, <2>2
<1>5. ASSUME NEW V \in SUBSET D, NEW x \in V, V \ {x} \in P PROVE V \in P
  <2> DEFINE W == V \ {x}
             S == {y \in V : f[y] = 1}
             T == {y \in W : f[y] = 1}
  <2>1. a[V] = f[x] + a[W] BY <1>1, <1>2, SumAny
  <2>2. a[W] = Cardinality(T) BY <1>3, <1>5
  <2>3. IsFiniteSet(T)
    <3>1. T \in SUBSET D OBVIOUS
    <3> QED BY <3>1, FS_Subset
  <2>4. x \notin T /\ S = IF f[x] = 1 THEN T \cup {x} ELSE T BY <1>5
  <2>5. Cardinality(T) \in Nat BY <2>3, FS_CardinalityType
  <2>6. Cardinality(T \cup {x}) = Cardinality(T) + 1 BY <2>3, <2>4, FS_AddElement
  <2>7. f[x] \in {0, 1} OBVIOUS
  <2> HIDE DEF S, T, W
  <2>8. a[V] = Cardinality(S) BY <2>1, <2>2, <2>4, <2>5, <2>6, <2>7
  <2> QED BY <1>3, <2>8 DEF S
<1>6. D \in P BY <1>4, <1>5, SubsetsGrow
<1> QED BY <1>2, <1>3, <1>6

\* A total does not depend on what the numbers are found by.
LEMMA TotalRenamed ==
    ASSUME NEW D, IsFiniteSet(D), NEW f \in [D -> Nat], NEW E, NEW p \in Bijection(E, D),
           NEW e \in [E -> Nat], \A x \in E : e[x] = f[p[x]]
    PROVE  Total(e) = Total(f)
<1>0. p \in [E -> D] /\ (\A x, y \in E : p[x] = p[y] => x = y) /\ \A d \in D : \E x \in E : p[x] = d
  BY DEF Bijection, Injection, Surjection, IsInjective
<1>1. IsFiniteSet(E)
  <2>1. p \in Injection(E, D) BY DEF Bijection
  <2> QED BY <2>1, FS_Injection
<1>2. PICK a : Sums(a, f, D) /\ Total(f) = a[D] BY TotalIs
<1>3. PICK c : Sums(c, e, E) /\ Total(e) = c[E] BY <1>1, TotalIs
<1>4. PICK P : P = {V \in SUBSET E : c[V] = a[{p[x] : x \in V}]} OBVIOUS
<1>5. {} \in P
  <2>1. a[{}] = 0 /\ c[{}] = 0 BY <1>2, <1>3, SumEmpty
  <2>2. {p[x] : x \in {}} = {} OBVIOUS
  <2> QED BY <1>4, <2>1, <2>2
<1>6. ASSUME NEW V \in SUBSET E, NEW x \in V, V \ {x} \in P PROVE V \in P
  <2>1. PICK W : W = {p[y] : y \in V} OBVIOUS
  <2>2. W \in SUBSET D /\ p[x] \in W /\ {p[y] : y \in V \ {x}} = W \ {p[x]}
    BY <1>0, <1>6, <2>1
  <2>3. c[V] = e[x] + c[V \ {x}] BY <1>1, <1>3, SumAny
  <2>4. a[W] = f[p[x]] + a[W \ {p[x]}] BY <1>2, <2>2, SumAny
  <2>5. c[V \ {x}] = a[W \ {p[x]}] BY <1>4, <1>6, <2>2
  <2>6. e[x] = f[p[x]] OBVIOUS
  <2> QED BY <1>4, <2>1, <2>3, <2>4, <2>5, <2>6
<1>7. E \in P BY <1>1, <1>5, <1>6, SubsetsGrow
<1>8. {p[x] : x \in E} = D BY <1>0
<1> QED BY <1>2, <1>3, <1>4, <1>7, <1>8

\* e is f with its domain renamed by p.
Renamed(D, f, E, p, e) ==
    /\ IsFiniteSet(D) /\ f \in [D -> Nat] /\ p \in Bijection(E, D) /\ e \in [E -> Nat]
    /\ \A x \in E : e[x] = f[p[x]]

\* The total of what is renamed, under one name for its hypotheses.
LEMMA RenamedTotal ==
    ASSUME NEW D, NEW f, NEW E, NEW p, NEW e, Renamed(D, f, E, p, e)
    PROVE  Total(e) = Total(f)
BY TotalRenamed DEF Renamed

------------------------------------------------------------------------------
(* The first in line.                                                         *)

\* The first m of a line are m.
LEMMA Firsts ==
    ASSUME NEW S, IsFiniteSet(S), NEW R, InLine(S, R), NEW m \in 0 .. Cardinality(S)
    PROVE  Cardinality({x \in S : Cardinality(Below(S, R, x)) < m}) = m
<1> DEFINE F == {x \in S : Cardinality(Below(S, R, x)) < m}
           rank == [x \in F |-> Cardinality(Below(S, R, x))]
<1>1. Cardinality(S) \in Nat /\ m \in Nat BY FS_CardinalityType
<1>2. \A x \in S : Cardinality(Below(S, R, x)) \in 0 .. Cardinality(S) - 1 BY Ranked
<1>3. rank \in [F -> 0 .. m - 1] BY <1>1, <1>2
<1>4. ASSUME NEW x \in F, NEW y \in F, rank[x] = rank[y] PROVE x = y
  <2>1. ASSUME x # y PROVE FALSE
    <3>1. <<x, y>> \in R \/ <<y, x>> \in R BY <2>1 DEF InLine
    <3>2. rank[x] < rank[y] \/ rank[y] < rank[x] BY <3>1, Ranked
    <3>3. rank[x] \in Int /\ rank[y] \in Int BY <1>3
    <3> HIDE DEF rank
    <3> QED BY <1>4, <3>2, <3>3
  <2> QED BY <2>1
<1>5. ASSUME NEW n \in 0 .. m - 1 PROVE \E x \in F : rank[x] = n
  <2>1. n \in 0 .. Cardinality(S) - 1 BY <1>1
  <2>2. PICK x \in S : Cardinality(Below(S, R, x)) = n BY <2>1, Ranked
  <2>3. x \in F BY <1>1, <2>2
  <2> QED BY <2>2, <2>3
<1> HIDE DEF rank
<1>6. rank \in Bijection(F, 0 .. m - 1)
  BY <1>3, <1>4, <1>5 DEF Bijection, Injection, Surjection, IsInjective
<1>7. IsFiniteSet(F)
  <2>1. F \in SUBSET S OBVIOUS
  <2> QED BY <2>1, FS_Subset
<1>8. Cardinality(0 .. m - 1) = Cardinality(F)
  <2>1. ExistsBijection(F, 0 .. m - 1) BY <1>6 DEF ExistsBijection
  <2> HIDE DEF F
  <2> QED BY <1>7, <2>1, FS_Bijection
<1>9. Cardinality(0 .. m - 1) = m BY <1>1, FS_Interval
<1> QED BY <1>8, <1>9

\* The larger request first, the earlier of two equal ones.
Larger(s) ==
    {p \in (DOMAIN s) \X (DOMAIN s) :
        \/ s[p[1]] > s[p[2]]
        \/ s[p[1]] = s[p[2]] /\ p[1] < p[2]}

\* Requests stand in a line, where Rank counts those before.
LEMMA RequestsInLine ==
    ASSUME NEW s \in Seq(Nat)
    PROVE  /\ IsFiniteSet(DOMAIN s) /\ Cardinality(DOMAIN s) = Len(s) /\ DOMAIN s = 1 .. Len(s)
           /\ Len(s) \in Nat
           /\ InLine(DOMAIN s, Larger(s))
           /\ \A i \in DOMAIN s : Rank(s, i) = Cardinality(Below(DOMAIN s, Larger(s), i))
           /\ \A i, j \in DOMAIN s : s[i] > s[j] => <<i, j>> \in Larger(s)
<1>1. DOMAIN s = 1 .. Len(s) /\ Len(s) \in Nat /\ \A i \in DOMAIN s : i \in Nat /\ s[i] \in Nat
  <2>1. DOMAIN s = 1 .. Len(s) /\ Len(s) \in Nat OBVIOUS
  <2>2. s \in [1 .. Len(s) -> Nat] OBVIOUS
  <2> QED BY <2>1, <2>2
<1>2. IsFiniteSet(1 .. Len(s)) /\ Cardinality(1 .. Len(s)) = Len(s)
  <2>1. \A n \in Nat : IsFiniteSet(1 .. n) /\ Cardinality(1 .. n) = n
    <3>1. \A n \in Nat : 1 \in Int /\ n \in Int OBVIOUS
    <3>2. \A n \in Nat : IsFiniteSet(1 .. n) /\ Cardinality(1 .. n) = IF 1 > n THEN 0 ELSE n - 1 + 1
      BY <3>1, FS_Interval
    <3> QED BY <3>2
  <2> QED BY <1>1, <2>1
<1>3. \A i, j \in DOMAIN s :
         <<i, j>> \in Larger(s) <=> s[i] > s[j] \/ (s[i] = s[j] /\ i < j)
  <2> SUFFICES ASSUME NEW i \in DOMAIN s, NEW j \in DOMAIN s
               PROVE  <<i, j>> \in Larger(s) <=> s[i] > s[j] \/ (s[i] = s[j] /\ i < j)
    OBVIOUS
  <2>1. PICK p : p = <<i, j>> OBVIOUS
  <2>2. p \in (DOMAIN s) \X (DOMAIN s) /\ p[1] = i /\ p[2] = j BY <2>1
  <2>3. p \in Larger(s) <=> s[p[1]] > s[p[2]] \/ (s[p[1]] = s[p[2]] /\ p[1] < p[2])
    BY <2>2 DEF Larger
  <2> QED BY <2>1, <2>2, <2>3
<1>4. InLine(DOMAIN s, Larger(s))
  <2>2. \A i \in DOMAIN s : <<i, i>> \notin Larger(s) BY <1>1, <1>3
  <2>3. \A i, j \in DOMAIN s : i # j => <<i, j>> \in Larger(s) \/ <<j, i>> \in Larger(s)
    BY <1>1, <1>3
  <2>4. \A i, j, k \in DOMAIN s : <<i, j>> \in Larger(s) /\ <<j, k>> \in Larger(s)
                                    => <<i, k>> \in Larger(s)
    BY <1>1, <1>3
  <2> QED BY <2>2, <2>3, <2>4 DEF InLine
<1>5. ASSUME NEW i \in DOMAIN s PROVE Rank(s, i) = Cardinality(Below(DOMAIN s, Larger(s), i))
  <2>1. Below(DOMAIN s, Larger(s), i)
          = {j \in DOMAIN s : s[j] > s[i] \/ (s[j] = s[i] /\ j < i)}
    BY <1>3 DEF Below
  <2> QED BY <2>1 DEF Rank
<1> QED BY <1>1, <1>2, <1>3, <1>4, <1>5

\* One turn each goes to n of the requests, and to the larger of two first.
LEMMA OneEachFair ==
    ASSUME NEW s \in Seq(Nat), NEW n \in 0 .. Len(s)
    PROVE  /\ OneEach(s, n) \in [DOMAIN s -> {0, 1}]
           /\ Total(OneEach(s, n)) = n
           /\ \A i, j \in DOMAIN s : s[i] > s[j] => OneEach(s, n)[i] >= OneEach(s, n)[j]
<1> DEFINE D == DOMAIN s
           o == OneEach(s, n)
<1>1. /\ IsFiniteSet(D) /\ Cardinality(D) = Len(s) /\ InLine(D, Larger(s))
      /\ \A i \in D : Rank(s, i) = Cardinality(Below(D, Larger(s), i))
  BY RequestsInLine
<1>2. /\ o \in [D -> {0, 1}] /\ \A i \in D : o[i] = IF Rank(s, i) < n THEN 1 ELSE 0
  BY DEF OneEach
<1>3. Total(o) = n
  <2> HIDE DEF o
  <2>1. Total(o) = Cardinality({i \in D : o[i] = 1}) BY <1>1, <1>2, TotalCounts
  <2>2. {i \in D : o[i] = 1} = {i \in D : Cardinality(Below(D, Larger(s), i)) < n}
    BY <1>1, <1>2
  <2>3. n \in 0 .. Cardinality(D) BY <1>1
  <2>4. Cardinality({i \in D : Cardinality(Below(D, Larger(s), i)) < n}) = n
    BY <1>1, <2>3, Firsts
  <2> QED BY <2>1, <2>2, <2>4
<1>4. ASSUME NEW i \in D, NEW j \in D, s[i] > s[j] PROVE o[i] >= o[j]
  <2>1. <<i, j>> \in Larger(s) BY <1>4, RequestsInLine
  <2>2. /\ Cardinality(Below(D, Larger(s), i)) < Cardinality(Below(D, Larger(s), j))
        /\ Cardinality(Below(D, Larger(s), i)) \in 0 .. Cardinality(D) - 1
        /\ Cardinality(Below(D, Larger(s), j)) \in 0 .. Cardinality(D) - 1
    BY <1>1, <2>1, Ranked
  <2>3. Rank(s, i) < Rank(s, j) /\ Rank(s, i) \in Int /\ Rank(s, j) \in Int /\ n \in Int
    BY <1>1, <2>2
  <2> HIDE DEF o
  <2> QED BY <1>2, <2>3
<1> QED BY <1>2, <1>3, <1>4

------------------------------------------------------------------------------
(* Proportions and their floors.                                              *)

\* A division leaves less than its divisor.
LEMMA Divides ==
    ASSUME NEW a \in Nat, NEW b \in Nat \ {0}
    PROVE  a = b * (a \div b) + (a % b) /\ a % b \in 0 .. b - 1 /\ a \div b \in Nat
<1>1. a = b * (a \div b) + (a % b) OBVIOUS
<1>2. a % b \in 0 .. b - 1 OBVIOUS
<1> QED BY <1>1, <1>2, Quotients

\* A product of positive numbers grows with either.
LEMMA Cancels ==
    ASSUME NEW n \in Nat \ {0}, NEW a \in Nat, NEW b \in Nat
    PROVE  /\ n * a <= n * b => a <= b
           /\ n * a < n * b => a < b
           /\ a <= b => n * a <= n * b
           /\ a < b => n * a < n * b
<1>1. CASE a <= b
  <2>1. PICK d \in Nat : b = a + d
    <3>1. b - a \in Nat /\ b = a + (b - a) BY <1>1
    <3> QED BY <3>1
  <2>2. n * b = n * a + n * d /\ n * d \in Nat /\ n * a \in Nat BY <2>1, Distributes, Products
  <2>3. d # 0 => n * d # 0 OBVIOUS
  <2>4. d = 0 => n * d = 0 OBVIOUS
  <2> QED BY <2>1, <2>2, <2>3, <2>4
<1>2. CASE a > b
  <2>1. PICK d \in Nat \ {0} : a = b + d
    <3>1. a - b \in Nat \ {0} /\ a = b + (a - b) BY <1>2
    <3> QED BY <3>1
  <2>2. n * a = n * b + n * d /\ n * d \in Nat /\ n * b \in Nat BY <2>1, Distributes, Products
  <2>3. n * d # 0 OBVIOUS
  <2> QED BY <2>1, <2>2, <2>3
<1> QED BY <1>1, <1>2

\* A larger number has no smaller quotient.
LEMMA DividesMore ==
    ASSUME NEW a \in Nat, NEW c \in Nat, a <= c, NEW b \in Nat \ {0}
    PROVE  a \div b <= c \div b
<1>1. PICK q \in Nat, r \in 0 .. b - 1 : q = a \div b /\ a = b * q + r BY Divides
<1>2. PICK p \in Nat, t \in 0 .. b - 1 : p = c \div b /\ c = b * p + t BY Divides
<1>3. b * (p + 1) = b * p + b BY <1>2
<1>4. b * q \in Nat /\ b * (p + 1) \in Nat /\ p + 1 \in Nat BY <1>1, <1>2, Products
<1>5. b * q < b * (p + 1) BY <1>1, <1>2, <1>3, <1>4
<1>6. q < p + 1 BY <1>1, <1>4, <1>5, Cancels
<1> QED BY <1>1, <1>2, <1>6

\* What each of D wants, and the floor of its proportion of B for T wanted in all.
Floored(D, s, n, B, T, q) ==
    /\ IsFiniteSet(D) /\ n = Cardinality(D) /\ B < T /\ Total(s) = n + T
    /\ q = [i \in D |-> ((s[i] - 1) * B) \div T]

\* The floors of the requests in proportion: what is left for a further turn each is less
\* than the number of those that want more than one.
LEMMA FloorsLeave ==
    ASSUME NEW D, NEW s \in [D -> Nat \ {0}], NEW n \in Nat, NEW B \in Nat, NEW T \in Nat \ {0},
           NEW q, Floored(D, s, n, B, T, q)
    PROVE  /\ q \in [D -> Nat] /\ Total(q) \in Nat /\ Total(q) <= B
           /\ B - Total(q) < Cardinality({i \in D : s[i] > 1})
           /\ \A i \in D : q[i] <= s[i] - 1 /\ (s[i] > 1 => q[i] < s[i] - 1)
           /\ \A i, j \in D : s[i] > s[j] => q[i] >= q[j]
<1>a. /\ IsFiniteSet(D) /\ n = Cardinality(D) /\ B < T /\ Total(s) = n + T
      /\ q = [i \in D |-> ((s[i] - 1) * B) \div T]
  BY DEF Floored
<1> USE <1>a
<1>1. PICK d : d = [i \in D |-> s[i] - 1] OBVIOUS
<1>2. PICK p : p = [i \in D |-> B * d[i]] OBVIOUS
<1>3. PICK w : w = [i \in D |-> T * q[i]] OBVIOUS
<1>4. PICK r : r = [i \in D |-> p[i] % T] OBVIOUS
<1>5. PICK b : b = [i \in D |-> IF s[i] > 1 THEN 1 ELSE 0] OBVIOUS
<1>6. PICK m : m = [i \in D |-> (T - 1) * b[i]] OBVIOUS
<1>7. PICK o : o = [i \in D |-> 1] OBVIOUS
<1>8. \A i \in D : /\ s[i] \in Nat \ {0} /\ d[i] = s[i] - 1 /\ d[i] \in Nat
                   /\ p[i] = B * d[i] /\ p[i] \in Nat
                   /\ q[i] = p[i] \div T /\ q[i] \in Nat
                   /\ r[i] \in 0 .. T - 1
                   /\ w[i] = T * q[i] /\ w[i] \in Nat
                   /\ p[i] = w[i] + r[i]
                   /\ b[i] \in {0, 1} /\ m[i] = (T - 1) * b[i] /\ m[i] \in Nat
                   /\ o[i] = 1
  <2> SUFFICES ASSUME NEW i \in D
               PROVE  /\ s[i] \in Nat \ {0} /\ d[i] = s[i] - 1 /\ d[i] \in Nat
                      /\ p[i] = B * d[i] /\ p[i] \in Nat
                      /\ q[i] = p[i] \div T /\ q[i] \in Nat
                      /\ r[i] \in 0 .. T - 1
                      /\ w[i] = T * q[i] /\ w[i] \in Nat
                      /\ p[i] = w[i] + r[i]
                      /\ b[i] \in {0, 1} /\ m[i] = (T - 1) * b[i] /\ m[i] \in Nat
                      /\ o[i] = 1
    OBVIOUS
  <2>0. s[i] \in Nat \ {0} /\ d[i] = s[i] - 1 BY <1>1
  <2>1. s[i] \in Nat \ {0} /\ d[i] = s[i] - 1 /\ d[i] \in Nat
    <3>1. ASSUME NEW a \in Nat \ {0} PROVE a - 1 \in Nat OBVIOUS
    <3> QED BY <2>0, <3>1
  <2>2. p[i] = B * d[i] /\ p[i] \in Nat BY <1>2, <2>1, Products
  <2>3. q[i] = p[i] \div T
    <3>1. (s[i] - 1) * B = p[i] BY <2>1, <2>2
    <3> QED BY <3>1
  <2>4. q[i] \in Nat /\ p[i] = T * q[i] + (p[i] % T) /\ p[i] % T \in 0 .. T - 1
    BY <2>2, <2>3, Divides
  <2>5. r[i] = p[i] % T /\ w[i] = T * q[i] /\ w[i] \in Nat BY <1>3, <1>4, <2>4, Products
  <2>6. b[i] \in {0, 1} BY <1>5
  <2>7. m[i] = (T - 1) * b[i] /\ m[i] \in Nat
    <3>1. T - 1 \in Nat /\ b[i] \in Nat BY <2>6
    <3> QED BY <1>6, <3>1, Products
  <2>8. p[i] = w[i] + r[i] /\ r[i] \in 0 .. T - 1 BY <2>4, <2>5
  <2>9. o[i] = 1 BY <1>7
  <2> QED BY <2>1, <2>2, <2>3, <2>4, <2>5, <2>6, <2>7, <2>8, <2>9
<1>9. /\ d \in [D -> Nat] /\ p \in [D -> Nat] /\ q \in [D -> Nat] /\ r \in [D -> Nat]
      /\ w \in [D -> Nat] /\ b \in [D -> {0, 1}] /\ b \in [D -> Nat] /\ m \in [D -> Nat]
      /\ o \in [D -> {0, 1}] /\ o \in [D -> Nat] /\ s \in [D -> Nat]
  <2>1. \A i \in D : r[i] \in Nat /\ b[i] \in Nat /\ o[i] \in {0, 1} BY <1>8
  <2>2. d \in [D -> Nat] BY <1>1, <1>8
  <2>3. p \in [D -> Nat] BY <1>2, <1>8
  <2>4. q \in [D -> Nat] BY <1>8
  <2>5. r \in [D -> Nat] BY <1>4, <2>1
  <2>6. w \in [D -> Nat] BY <1>3, <1>8
  <2>7. b \in [D -> {0, 1}] /\ b \in [D -> Nat] BY <1>5, <1>8, <2>1
  <2>8. m \in [D -> Nat] BY <1>6, <1>8
  <2>9. o \in [D -> {0, 1}] /\ o \in [D -> Nat] BY <1>7, <2>1
  <2> QED BY <2>2, <2>3, <2>4, <2>5, <2>6, <2>7, <2>8, <2>9
<1>10. Total(o) = n
  <2>1. {i \in D : o[i] = 1} = D BY <1>8
  <2> QED BY <1>9, <2>1, TotalCounts
<1>11. Total(d) = T
  <2>1. \A i \in D : s[i] = d[i] + o[i] BY <1>8
  <2>2. s \in [D -> Nat] /\ d \in [D -> Nat] /\ o \in [D -> Nat] BY <1>9
  <2>3. Total(s) = Total(d) + Total(o) BY <2>1, <2>2, TotalPlus
  <2>4. Total(d) \in Nat BY <2>2, TotalType
  <2> QED BY <1>10, <2>3, <2>4
<1>12. B * T = T * Total(q) + Total(r)
  <2>1. Total(p) = B * Total(d)
    <3>1. d \in [D -> Nat] /\ p \in [D -> Nat] BY <1>9
    <3>2. \A i \in D : p[i] = B * d[i] BY <1>8
    <3> QED BY <3>1, <3>2, TotalTimes
  <2>2. Total(p) = Total(w) + Total(r)
    <3>1. w \in [D -> Nat] /\ r \in [D -> Nat] /\ p \in [D -> Nat] BY <1>9
    <3>2. \A i \in D : p[i] = w[i] + r[i] BY <1>8
    <3> QED BY <3>1, <3>2, TotalPlus
  <2>3. Total(w) = T * Total(q)
    <3>1. T \in Nat /\ q \in [D -> Nat] /\ w \in [D -> Nat] BY <1>9
    <3>2. \A i \in D : w[i] = T * q[i] BY <1>8
    <3> QED BY <3>1, <3>2, TotalTimes
  <2> QED BY <1>11, <2>1, <2>2, <2>3
<1>13. Total(q) \in Nat /\ Total(r) \in Nat BY <1>9, TotalType
<1>14. Total(q) <= B
  <2>1. T * Total(q) <= T * B
    <3>1. T * Total(q) \in Nat BY <1>13, Products
    <3>2. T * B = B * T OBVIOUS
    <3> QED BY <1>12, <1>13, <3>1, <3>2
  <2> QED BY <1>13, <2>1, Cancels
<1>0. PICK M : M = {i \in D : s[i] > 1} OBVIOUS
<1> DEFINE K == Cardinality(M)
<1>15. K \in Nat /\ K # 0
  <2>1. IsFiniteSet(M)
    <3>1. M \in SUBSET D BY <1>0
    <3> QED BY <3>1, FS_Subset
  <2>2. K \in Nat BY <2>1, FS_CardinalityType
  <2>3. K # 0
    <3>1. SUFFICES ASSUME M = {} PROVE FALSE BY <2>1, FS_EmptySet
    <3>2. \A i \in D : d[i] = 0
      <4>1. \A i \in D : ~(s[i] > 1) BY <1>0, <3>1
      <4>2. ASSUME NEW i \in D PROVE d[i] = 0
        <5>1. s[i] \in Nat \ {0} /\ d[i] = s[i] - 1 BY <1>8
        <5>2. ~(s[i] > 1) BY <4>1
        <5> QED BY <5>1, <5>2
      <4> QED BY <4>2
    <3>3. d \in [D -> Nat] BY <1>9
    <3>4. Total(d) = 0 BY <3>2, <3>3, TotalZero
    <3> QED BY <1>11, <3>4
  <2> QED BY <2>2, <2>3
<1>16. Total(r) <= (T - 1) * K
  <2>1. \A i \in D : r[i] <= m[i]
    <3> SUFFICES ASSUME NEW i \in D PROVE r[i] <= m[i] OBVIOUS
    <3>1. CASE s[i] > 1
      <4>1. b[i] = 1 BY <1>5, <3>1
      <4>2. m[i] = T - 1 BY <1>8, <4>1
      <4> QED BY <1>8, <4>2
    <3>2. CASE ~(s[i] > 1)
      <4>0. s[i] \in Nat \ {0} /\ d[i] = s[i] - 1 /\ p[i] = B * d[i] BY <1>8
      <4>1. d[i] = 0 BY <3>2, <4>0
      <4>2. p[i] = 0 BY <4>0, <4>1
      <4>3. r[i] = 0
        <5>1. p[i] = w[i] + r[i] /\ w[i] \in Nat /\ r[i] \in 0 .. T - 1 BY <1>8
        <5> QED BY <4>2, <5>1
      <4> QED BY <1>8, <4>3
    <3> QED BY <3>1, <3>2
  <2>2. Total(r) <= Total(m)
    <3>1. D \in SUBSET D OBVIOUS
    <3> QED BY <1>9, <2>1, <3>1, TotalMono
  <2>3. Total(m) = (T - 1) * Total(b)
    <3>1. T - 1 \in Nat /\ b \in [D -> Nat] /\ m \in [D -> Nat] BY <1>9
    <3>2. \A i \in D : m[i] = (T - 1) * b[i] BY <1>8
    <3>3. PICK t \in Nat : t = T - 1 BY <3>1
    <3>4. Total(m) = t * Total(b) BY <3>1, <3>2, <3>3, TotalTimes
    <3> QED BY <3>3, <3>4
  <2>4. Total(b) = K
    <3>1. {i \in D : b[i] = 1} = M BY <1>0, <1>5
    <3> QED BY <1>9, <3>1, TotalCounts
  <2> QED BY <2>2, <2>3, <2>4
<1>17. B - Total(q) < K
  <2> HIDE DEF K
  <2>1. PICK x \in Nat : B = Total(q) + x
    <3>1. B - Total(q) \in Nat /\ B = Total(q) + (B - Total(q)) BY <1>13, <1>14
    <3> QED BY <3>1
  <2>2. T * B = T * Total(q) + T * x BY <1>13, <2>1, Distributes
  <2>3. T * x = Total(r)
    <3>1. T * B = B * T /\ T * Total(q) \in Nat /\ T * x \in Nat BY <1>13, <2>1, Products
    <3> QED BY <1>12, <1>13, <2>2, <3>1
  <2>4. (T - 1) * K < T * K
    <3>1. PICK t \in Nat : T = t + 1
      <4>1. T - 1 \in Nat /\ T = (T - 1) + 1 OBVIOUS
      <4> QED BY <4>1
    <3>2. K * (t + 1) = K * t + K * 1 BY <1>15, <3>1, Distributes
    <3>3. T * K = K * (t + 1) /\ (T - 1) * K = K * t /\ K * 1 = K /\ K * t \in Nat
      BY <1>15, <3>1, Products
    <3> QED BY <1>15, <3>2, <3>3
  <2>5. T * x < T * K
    <3>1. T * x \in Nat /\ T * K \in Nat /\ (T - 1) * K \in Nat
      <4>1. T - 1 \in Nat OBVIOUS
      <4> QED BY <1>15, <2>1, <4>1, Products
    <3> QED BY <1>16, <2>3, <2>4, <3>1
  <2>6. x < K BY <1>15, <2>1, <2>5, Cancels
  <2> QED BY <1>13, <2>1, <2>6
<1>18. ASSUME NEW i \in D PROVE q[i] <= s[i] - 1 /\ (s[i] > 1 => q[i] < s[i] - 1)
  <2>1. CASE d[i] = 0
    <3>0. p[i] = B * d[i] BY <1>8
    <3>1. p[i] = 0 BY <2>1, <3>0
    <3>2. T * q[i] = T * 0 BY <1>8, <3>1
    <3>3. q[i] <= 0 BY <1>8, <3>2, Cancels
    <3> QED BY <1>8, <2>1, <3>3
  <2>2. CASE d[i] # 0
    <3>1. d[i] * B < d[i] * T BY <1>8, <2>2, Cancels
    <3>2. T * q[i] < T * d[i]
      <4>1. T * q[i] <= p[i] BY <1>8
      <4>2. p[i] = d[i] * B /\ T * d[i] = d[i] * T BY <1>8
      <4>3. d[i] * B \in Nat /\ d[i] * T \in Nat /\ T * q[i] \in Nat BY <1>8, Products
      <4> QED BY <3>1, <4>1, <4>2, <4>3
    <3>3. q[i] < d[i] BY <1>8, <3>2, Cancels
    <3> QED BY <1>8, <3>3
  <2> QED BY <2>1, <2>2
<1>19. ASSUME NEW i \in D, NEW j \in D, s[i] > s[j] PROVE q[i] >= q[j]
  <2>1. d[j] <= d[i] BY <1>8, <1>19
  <2>2. p[j] <= p[i]
    <3>1. CASE B = 0
      <4>0. p[i] = B * d[i] /\ p[j] = B * d[j] /\ d[i] \in Nat /\ d[j] \in Nat BY <1>8
      <4>1. p[i] = 0 /\ p[j] = 0 BY <3>1, <4>0
      <4> QED BY <4>1
    <3>2. CASE B # 0
      <4>1. p[i] = B * d[i] /\ p[j] = B * d[j] /\ d[i] \in Nat /\ d[j] \in Nat BY <1>8
      <4> QED BY <2>1, <3>2, <4>1, Cancels
    <3> QED BY <3>1, <3>2
  <2>3. p[j] \div T <= p[i] \div T BY <1>8, <2>2, DividesMore
  <2> QED BY <1>8, <2>3
<1> QED BY <1>0, <1>9, <1>13, <1>14, <1>17, <1>18, <1>19

------------------------------------------------------------------------------
(* The fan-out is fair.                                                       *)

\* Turns handed out fairly: all that were asked for and are there, no more to anyone than
\* he asked for, one to each when there are enough, and no more to the smaller request.
Fair(s, A, g) ==
    /\ g \in [DOMAIN s -> Nat]
    /\ Total(g) = AtMost(Total(s), A)
    /\ \A i \in DOMAIN s : g[i] <= s[i]
    /\ Len(s) <= A => \A i \in DOMAIN s : g[i] > 0
    /\ \A i, j \in DOMAIN s : s[i] > s[j] => g[i] >= g[j]

\* e is f and h together.
Added(D, e, f, h) ==
    /\ IsFiniteSet(D) /\ e \in [D -> Nat] /\ f \in [D -> Nat] /\ h \in [D -> Nat]
    /\ \A x \in D : e[x] = f[x] + h[x]

\* Totals of sums, and the floors of requests, under one name for their hypotheses.
LEMMA TotalAdded ==
    ASSUME NEW D, NEW e, NEW f, NEW h, Added(D, e, f, h)
    PROVE  Total(e) = Total(f) + Total(h)
BY TotalPlus DEF Added

\* One turn each, the rest in proportion, and what that leaves one each again.
Proportional(s, A, q, floors, extra, g) ==
    /\ Total(s) > A /\ Len(s) <= A
    /\ q = [i \in DOMAIN s |-> ((s[i] - 1) * (A - Len(s))) \div (Total(s) - Len(s))]
    /\ floors = [i \in DOMAIN s |-> 1 + q[i]]
    /\ extra = OneEach(s, A - Total(floors))
    /\ g = [i \in DOMAIN s |-> floors[i] + extra[i]]

\* Proportions are fair.
LEMMA ProportionsAreFair ==
    ASSUME NEW s \in Seq(Nat \ {0}), NEW A \in Nat, NEW q, NEW f, NEW h, NEW e
    PROVE  Proportional(s, A, q, f, h, e) => Fair(s, A, e)
<1>p. SUFFICES ASSUME Proportional(s, A, q, f, h, e) PROVE Fair(s, A, e)
  OBVIOUS
<1>0. /\ Total(s) > A /\ Len(s) <= A
      /\ q = [i \in DOMAIN s |-> ((s[i] - 1) * (A - Len(s))) \div (Total(s) - Len(s))]
      /\ f = [i \in DOMAIN s |-> 1 + q[i]]
      /\ h = OneEach(s, A - Total(f))
      /\ e = [i \in DOMAIN s |-> f[i] + h[i]]
  BY <1>p DEF Proportional
<1>a. PICK D : D = DOMAIN s OBVIOUS
<1>b. PICK n : n = Len(s) OBVIOUS
<1>1. s \in Seq(Nat) /\ s \in [D -> Nat \ {0}] /\ s \in [D -> Nat]
  <2>1. D = 1 .. n /\ n \in Nat BY <1>a, <1>b
  <2>2. s \in [D -> Nat \ {0}] BY <1>a
  <2>3. s \in Seq(Nat) OBVIOUS
  <2> QED BY <2>2, <2>3
<1>2. /\ IsFiniteSet(D) /\ Cardinality(D) = n /\ n \in Nat /\ InLine(D, Larger(s))
      /\ \A i \in D : Rank(s, i) = Cardinality(Below(D, Larger(s), i))
  BY <1>a, <1>b, <1>1, RequestsInLine
<1>3. Total(s) \in Nat BY <1>1, <1>2, TotalType
<1>4. PICK B \in Nat, T \in Nat \ {0} : B = A - n /\ T = Total(s) - n /\ B < T
  <2>1. A - n \in Nat /\ Total(s) - n \in Nat \ {0} /\ A - n < Total(s) - n
    BY <1>0, <1>b, <1>2, <1>3
  <2> QED BY <2>1
<1>5. q = [i \in D |-> ((s[i] - 1) * B) \div T] BY <1>0, <1>a, <1>b, <1>4
<1>6. Total(s) = n + T BY <1>2, <1>3, <1>4
<1>7. /\ q \in [D -> Nat] /\ Total(q) \in Nat /\ Total(q) <= B
      /\ B - Total(q) < Cardinality({i \in D : s[i] > 1})
      /\ \A i \in D : q[i] <= s[i] - 1 /\ (s[i] > 1 => q[i] < s[i] - 1)
      /\ \A i, j \in D : s[i] > s[j] => q[i] >= q[j]
  <2>1. IsFiniteSet(D) /\ s \in [D -> Nat \ {0}] /\ n \in Nat /\ n = Cardinality(D) BY <1>1, <1>2
  <2>2. B < T BY <1>4
  <2>3. Floored(D, s, n, B, T, q) BY <1>4, <1>5, <1>6, <2>1, <2>2 DEF Floored
  <2> QED BY <2>1, <2>3, FloorsLeave
<1>8. PICK o : o = [i \in D |-> 1] OBVIOUS
<1>9. f \in [D -> Nat] /\ Total(f) = n + Total(q)
  <2>1. o \in [D -> {0, 1}] /\ o \in [D -> Nat] /\ {i \in D : o[i] = 1} = D BY <1>8
  <2>2. Total(o) = n BY <1>2, <2>1, TotalCounts
  <2>3. f \in [D -> Nat]
    <3>1. \A i \in D : 1 + q[i] \in Nat BY <1>7
    <3> QED BY <1>0, <1>a, <3>1
  <2>4. \A i \in D : f[i] = o[i] + q[i] BY <1>0, <1>a, <1>8
  <2>5. Total(f) = Total(o) + Total(q)
    <3>1. IsFiniteSet(D) /\ o \in [D -> Nat] /\ q \in [D -> Nat] BY <1>2, <1>7, <2>1
    <3>2. Added(D, f, o, q) BY <2>3, <2>4, <3>1 DEF Added
    <3> QED BY <3>2, TotalAdded
  <2> QED BY <2>2, <2>3, <2>5
<1>10. PICK m \in Nat : m = A - Total(f) /\ m = B - Total(q)
  <2>1. A - Total(f) = B - Total(q) /\ B - Total(q) \in Nat BY <1>2, <1>4, <1>7, <1>9
  <2> QED BY <2>1
<1>11. PICK M : M = {i \in D : s[i] > 1} OBVIOUS
<1>12. M \in SUBSET D /\ Cardinality(M) \in Nat /\ Cardinality(M) <= n /\ m < Cardinality(M)
  <2>1. M \in SUBSET D BY <1>11
  <2>2. IsFiniteSet(M) /\ Cardinality(M) <= n BY <1>2, <2>1, FS_Subset
  <2>3. Cardinality(M) \in Nat BY <2>2, FS_CardinalityType
  <2> QED BY <1>7, <1>10, <1>11, <2>1, <2>2, <2>3
<1>13. m \in 0 .. n BY <1>2, <1>12
<1>14. /\ h \in [D -> {0, 1}] /\ Total(h) = m
       /\ \A i, j \in D : s[i] > s[j] => h[i] >= h[j]
  <2>1. h = OneEach(s, m) BY <1>0, <1>10
  <2>2. /\ OneEach(s, m) \in [D -> {0, 1}] /\ Total(OneEach(s, m)) = m
        /\ \A i, j \in D : s[i] > s[j] => OneEach(s, m)[i] >= OneEach(s, m)[j]
    BY <1>a, <1>b, <1>1, <1>13, OneEachFair
  <2> QED BY <2>1, <2>2
<1>15. \A i \in D : /\ s[i] \in Nat \ {0} /\ q[i] \in Nat /\ f[i] = 1 + q[i]
                    /\ h[i] \in {0, 1} /\ e[i] = f[i] + h[i] /\ e[i] \in Nat
  <2> SUFFICES ASSUME NEW i \in D
               PROVE  /\ s[i] \in Nat \ {0} /\ q[i] \in Nat /\ f[i] = 1 + q[i]
                      /\ h[i] \in {0, 1} /\ e[i] = f[i] + h[i] /\ e[i] \in Nat
    OBVIOUS
  <2>1. s[i] \in Nat \ {0} BY <1>1
  <2>2. q[i] \in Nat BY <1>7
  <2>3. f[i] = 1 + q[i] BY <1>0, <1>a
  <2>4. h[i] \in {0, 1} BY <1>14
  <2>5. e[i] = f[i] + h[i] BY <1>0, <1>a
  <2> QED BY <2>1, <2>2, <2>3, <2>4, <2>5
<1>16. e \in [D -> Nat] BY <1>0, <1>a, <1>15
<1>17. Total(e) = AtMost(Total(s), A)
  <2>1. h \in [D -> Nat]
    <3>1. h \in [D -> {0, 1}] BY <1>14
    <3> QED BY <3>1
  <2>2. \A i \in D : e[i] = f[i] + h[i] BY <1>15
  <2>3. Total(e) = Total(f) + Total(h)
    <3>1. IsFiniteSet(D) /\ f \in [D -> Nat] BY <1>2, <1>9
    <3>2. Added(D, e, f, h) BY <1>16, <2>1, <2>2, <3>1 DEF Added
    <3> QED BY <3>2, TotalAdded
  <2>4. Total(e) = A BY <1>2, <1>4, <1>7, <1>9, <1>10, <1>14, <2>3
  <2> QED BY <1>0, <1>3, <2>4 DEF AtMost
<1>18. ASSUME NEW i \in D PROVE e[i] <= s[i]
  <2>0. /\ s[i] \in Nat \ {0} /\ q[i] \in Nat /\ h[i] \in {0, 1}
        /\ e[i] = 1 + q[i] + h[i]
    BY <1>15
  <2>1. q[i] <= s[i] - 1 /\ (s[i] > 1 => q[i] < s[i] - 1) BY <1>7
  <2>2. CASE s[i] > 1 BY <2>0, <2>1, <2>2
  <2>3. CASE ~(s[i] > 1)
    <3>1. s[i] = 1 BY <2>0, <2>3
    <3>2. M \in SUBSET Below(D, Larger(s), i)
      <4>1. \A j \in M : j \in D /\ s[j] > s[i] BY <1>11, <3>1
      <4> QED BY <1>a, <1>1, <4>1, RequestsInLine DEF Below
    <3>3. Cardinality(M) <= Rank(s, i)
      <4>1. Below(D, Larger(s), i) \in SUBSET D BY DEF Below
      <4>2. IsFiniteSet(Below(D, Larger(s), i)) BY <1>2, <4>1, FS_Subset
      <4>3. Cardinality(M) <= Cardinality(Below(D, Larger(s), i)) BY <3>2, <4>2, FS_Subset
      <4> QED BY <1>2, <4>3
    <3>4. Rank(s, i) \in Nat
      <4>1. Cardinality(Below(D, Larger(s), i)) \in 0 .. Cardinality(D) - 1 BY <1>2, Ranked
      <4> QED BY <1>2, <4>1
    <3>5. ~(Rank(s, i) < m) BY <1>12, <3>3, <3>4
    <3>6. h[i] = 0
      <4>1. h = OneEach(s, m) BY <1>0, <1>10
      <4> QED BY <1>a, <3>5, <4>1 DEF OneEach
    <3> QED BY <2>0, <2>1, <3>6
  <2> QED BY <2>2, <2>3
<1>19. ASSUME NEW i \in D PROVE e[i] > 0
  <2>1. q[i] \in Nat /\ h[i] \in {0, 1} /\ e[i] = 1 + q[i] + h[i] BY <1>15
  <2> QED BY <2>1
<1>20. ASSUME NEW i \in D, NEW j \in D, s[i] > s[j] PROVE e[i] >= e[j]
  <2>1. q[i] >= q[j] /\ h[i] >= h[j] BY <1>7, <1>14, <1>20
  <2>2. /\ q[i] \in Nat /\ h[i] \in {0, 1} /\ e[i] = 1 + q[i] + h[i]
        /\ q[j] \in Nat /\ h[j] \in {0, 1} /\ e[j] = 1 + q[j] + h[j]
    BY <1>15
  <2> QED BY <2>1, <2>2
<1> QED BY <1>0, <1>a, <1>b, <1>2, <1>16, <1>17, <1>18, <1>19, <1>20 DEF Fair

\* However the requests and the turns stand to each other, the turns are handed out fairly.
LEMMA GrantsAreFair ==
    ASSUME NEW s \in Seq(Nat \ {0}), NEW A \in Nat
    PROVE  Fair(s, A, ClampTurns(s, A))
<1> DEFINE D == DOMAIN s
           n == Len(s)
<1>1. s \in Seq(Nat) /\ s \in [D -> Nat] /\ \A i \in D : s[i] \in Nat \ {0}
  <2>1. D = 1 .. n /\ n \in Nat OBVIOUS
  <2>2. s \in [D -> Nat \ {0}] OBVIOUS
  <2>3. s \in Seq(Nat) OBVIOUS
  <2> QED BY <2>2, <2>3
<1>2. IsFiniteSet(D) /\ n \in Nat BY <1>1, RequestsInLine
<1>3. Total(s) \in Nat BY <1>1, <1>2, TotalType
<1>4. CASE Total(s) <= A
  <2>1. ClampTurns(s, A) = s BY <1>3, <1>4 DEF ClampTurns
  <2>2. AtMost(Total(s), A) = Total(s) BY <1>3, <1>4 DEF AtMost
  <2>3. \A i \in D : s[i] <= s[i] /\ s[i] > 0 BY <1>1
  <2>4. \A i, j \in D : s[i] > s[j] => s[i] >= s[j] BY <1>1
  <2>5. Fair(s, A, s) BY <1>1, <2>2, <2>3, <2>4 DEF Fair
  <2> QED BY <2>1, <2>5
<1>5. CASE Total(s) > A /\ n > A
  <2>1. ClampTurns(s, A) = OneEach(s, A) BY <1>2, <1>3, <1>5 DEF ClampTurns
  <2>2. PICK o : o = OneEach(s, A) OBVIOUS
  <2>3. A \in 0 .. n BY <1>2, <1>5
  <2>4. /\ o \in [D -> {0, 1}] /\ Total(o) = A
        /\ \A i, j \in D : s[i] > s[j] => o[i] >= o[j]
    BY <1>1, <2>2, <2>3, OneEachFair
  <2>5. AtMost(Total(s), A) = A BY <1>3, <1>5 DEF AtMost
  <2>6. o \in [D -> Nat] /\ \A i \in D : o[i] <= s[i] BY <1>1, <2>4
  <2>7. ~(n <= A) BY <1>2, <1>5
  <2>8. Fair(s, A, o) BY <2>4, <2>5, <2>6, <2>7 DEF Fair
  <2> QED BY <2>1, <2>2, <2>8
<1>6. CASE Total(s) > A /\ n <= A
  <2>1. PICK q : q = [i \in D |-> ((s[i] - 1) * (A - n)) \div (Total(s) - n)] OBVIOUS
  <2>2. PICK floors : floors = [i \in D |-> 1 + q[i]] OBVIOUS
  <2>3. PICK extra : extra = OneEach(s, A - Total(floors)) OBVIOUS
  <2>4. PICK g : g = [i \in D |-> floors[i] + extra[i]] OBVIOUS
  <2>5. floors = [i \in D |-> 1 + ((s[i] - 1) * (A - n)) \div (Total(s) - n)] BY <2>1, <2>2
  <2>6. ClampTurns(s, A) = g
    <3>1. ~(Total(s) <= A) /\ ~(n > A) BY <1>2, <1>3, <1>6
    <3> QED BY <2>3, <2>4, <2>5, <3>1 DEF ClampTurns
  <2>7. Fair(s, A, g)
    <3>1. Proportional(s, A, q, floors, extra, g)
      BY <1>6, <2>1, <2>2, <2>3, <2>4 DEF Proportional
    <3> QED BY <3>1, ProportionsAreFair
  <2> QED BY <2>6, <2>7
<1> QED BY <1>2, <1>3, <1>4, <1>5, <1>6

\* A fan-out leases no more money than there is, and turns fairly.
LEMMA SharesAreFair ==
    ASSUME NEW s \in Seq(Nat \ {0}), NEW A \in Nat, NEW usd \in Nat
    PROVE  \E g, u : /\ Fair(s, A, g) /\ u \in [DOMAIN s -> Nat] /\ Total(u) <= usd
                     /\ \A i \in DOMAIN s : QuoteShares(s, A, usd)[i] = Lease(g[i], u[i])
<1> DEFINE D == DOMAIN s
<1>1. PICK g : g = ClampTurns(s, A) OBVIOUS
<1>2. Fair(s, A, g) /\ g \in [D -> Nat] BY <1>1, GrantsAreFair DEF Fair
<1>3. IsFiniteSet(D)
  <2>1. s \in Seq(Nat) OBVIOUS
  <2> QED BY <2>1, RequestsInLine
<1>4. PICK T : T = Total(g) OBVIOUS
<1>5. T \in Nat BY <1>2, <1>3, <1>4, TotalType
<1>6. PICK u : u = [i \in D |-> IF T = 0 THEN 0 ELSE (usd * g[i]) \div T] OBVIOUS
<1>7. \A i \in D : QuoteShares(s, A, usd)[i] = Lease(g[i], u[i])
  BY <1>1, <1>4, <1>6 DEF QuoteShares
<1>8. u \in [D -> Nat] /\ (T # 0 => \A i \in D : T * u[i] <= usd * g[i])
  <2>1. ASSUME NEW i \in D PROVE u[i] \in Nat /\ (T # 0 => T * u[i] <= usd * g[i])
    <3>1. g[i] \in Nat /\ usd * g[i] \in Nat BY <1>2, Products
    <3>2. CASE T = 0 BY <1>6, <3>2
    <3>3. CASE T # 0
      <4>1. u[i] = (usd * g[i]) \div T BY <1>6, <3>3
      <4>2. PICK a \in Nat : a = usd * g[i] BY <3>1
      <4>3. a = T * (a \div T) + (a % T) /\ a % T \in 0 .. T - 1 /\ a \div T \in Nat
        BY <1>5, <3>3, Divides
      <4>4. T * (a \div T) \in Nat BY <1>5, <4>3, Products
      <4> QED BY <4>1, <4>2, <4>3, <4>4
    <3> QED BY <3>2, <3>3
  <2> QED BY <1>6, <2>1
<1>9. Total(u) <= usd
  <2>1. CASE T = 0
    <3>1. \A i \in D : u[i] = 0 BY <1>6, <2>1
    <3>2. Total(u) = 0 BY <1>3, <1>8, <3>1, TotalZero
    <3> QED BY <3>2
  <2>2. CASE T # 0
    <3>1. PICK v : v = [i \in D |-> T * u[i]] OBVIOUS
    <3>2. PICK w : w = [i \in D |-> usd * g[i]] OBVIOUS
    <3>3. /\ \A i \in D : v[i] = T * u[i] /\ v[i] \in Nat
          /\ \A i \in D : w[i] = usd * g[i] /\ w[i] \in Nat
          /\ \A i \in D : v[i] <= w[i]
      <4> SUFFICES ASSUME NEW i \in D
                   PROVE  /\ v[i] = T * u[i] /\ v[i] \in Nat /\ w[i] = usd * g[i] /\ w[i] \in Nat
                          /\ v[i] <= w[i]
        OBVIOUS
      <4>1. v[i] = T * u[i] /\ w[i] = usd * g[i] BY <3>1, <3>2
      <4>2. u[i] \in Nat /\ g[i] \in Nat BY <1>2, <1>8
      <4>3. T * u[i] \in Nat /\ usd * g[i] \in Nat BY <1>5, <4>2, Products
      <4>4. T * u[i] <= usd * g[i] BY <1>8, <2>2
      <4> QED BY <4>1, <4>3, <4>4
    <3>4. v \in [D -> Nat] /\ w \in [D -> Nat] BY <3>1, <3>2, <3>3
    <3>5. Total(v) = T * Total(u)
      <4>1. u \in [D -> Nat] /\ v \in [D -> Nat] BY <1>8, <3>4
      <4>2. \A i \in D : v[i] = T * u[i] BY <3>3
      <4> HIDE DEF D
      <4> QED BY <1>3, <1>5, <4>1, <4>2, TotalTimes
    <3>6. Total(w) = usd * Total(g)
      <4>1. g \in [D -> Nat] /\ w \in [D -> Nat] BY <1>2, <3>4
      <4>2. \A i \in D : w[i] = usd * g[i] BY <3>3
      <4> HIDE DEF D
      <4> QED BY <1>3, <4>1, <4>2, TotalTimes
    <3>7. Total(v) <= Total(w)
      <4>1. D \in SUBSET D OBVIOUS
      <4> QED BY <1>3, <3>3, <3>4, <4>1, TotalMono
    <3>8. Total(u) \in Nat BY <1>3, <1>8, TotalType
    <3>9. T * Total(u) <= T * usd
      <4>1. usd * T = T * usd BY <1>5
      <4> QED BY <1>4, <3>5, <3>6, <3>7, <4>1
    <3> QED BY <1>5, <2>2, <3>8, <3>9, Cancels
  <2> QED BY <2>1, <2>2
<1> QED BY <1>2, <1>7, <1>8, <1>9
==============================================================================
