--------------------------- MODULE QuestionsProofs --------------------------
(***************************************************************************)
(* What is computed.                                                       *)
(*                                                                         *)
(* Costs, for every rota, every rates and caps and any number of calls: a  *)
(* verdict given with a rate missing does not depend on that rate.         *)
(*                                                                         *)
(* Questions, for every question: the row scopes fit together, a ranking   *)
(* is sound, and the agent keeps the planning rules and learns what it is  *)
(* told.                                                                   *)
(***************************************************************************)
EXTENDS Costs, Questions, FiniteSetTheorems, WellFoundedInduction, TLAPS

(***************************************************************************)
(* Sums over finite sets.  MapThenSumSet adds the elements up in the order *)
(* in which CHOOSE takes them; the lemmas show that the order is of no     *)
(* importance and that a part sums up to no more than the whole.           *)
(***************************************************************************)
Elem(S) == CHOOSE x \in S : TRUE

\* g[U] is the sum of w over U, for every U \subseteq S.
Summing(g, w, S) ==
  g = [U \in SUBSET S |-> IF U = {} THEN 0 ELSE w[Elem(U)] + g[U \ {Elem(U)}]]

SumOf(w, S) == (CHOOSE g : Summing(g, w, S))[S]

LEMMA ElemIn == ASSUME NEW S, S # {} PROVE Elem(S) \in S
  BY DEF Elem

\* A family of subsets of a finite set has a member that leaves it with each
\* element taken away.
LEMMA LeastSubset ==
  ASSUME NEW S, IsFiniteSet(S), NEW B \in SUBSET SUBSET S, B # {}
  PROVE  \E U \in B : \A x \in U : U \ {x} \notin B
  <1>1. PICK F : F = FiniteSubsetsOf(S)
    OBVIOUS
  <1>2. PICK R : R = StrictSubsetOrdering(S)
    OBVIOUS
  <1>3. IsWellFoundedOn(R, F)
    BY <1>1, <1>2, FS_StrictSubsetOrderingWellFounded
  <1>4. B \subseteq F
    BY <1>1, FS_Subset DEF FiniteSubsetsOf
  <1>5. PICK U \in B : \A V \in B : <<V, U>> \notin R
    BY <1>3, <1>4, WFMin
  <1>6. \A x \in U : <<U \ {x}, U>> \in R
    BY <1>2, <1>5 DEF StrictSubsetOrdering
  <1> QED
    BY <1>5, <1>6

LEMMA SumsAgree ==
  ASSUME NEW S, NEW T, IsFiniteSet(S), NEW w, NEW g, NEW h,
         Summing(g, w, S), Summing(h, w, T),
         NEW V, V \subseteq S, V \subseteq T
  PROVE  g[V] = h[V]
  <1> DEFINE B == {U \in SUBSET V : g[U] # h[U]}
  <1>1. SUFFICES ASSUME B # {} PROVE FALSE
    OBVIOUS
  <1>2. IsFiniteSet(V)
    BY FS_Subset
  <1>3. PICK U \in B : \A x \in U : U \ {x} \notin B
    <2> HIDE DEF B
    <2>1. B \in SUBSET SUBSET V
      BY DEF B
    <2> QED
      BY <1>1, <1>2, <2>1, LeastSubset
  <1>4. U \in SUBSET S /\ U \in SUBSET T /\ U \in SUBSET V /\ g[U] # h[U]
    BY <1>3
  <1>5. U # {}
    BY <1>4 DEF Summing
  <1>6. PICK x \in U : x = Elem(U)
    BY <1>5, ElemIn
  <1>7. g[U \ {x}] = h[U \ {x}]
    BY <1>3, <1>4
  <1>8. g[U] = w[x] + g[U \ {x}]
    BY <1>4, <1>5, <1>6 DEF Summing
  <1>9. h[U] = w[x] + h[U \ {x}]
    BY <1>4, <1>5, <1>6 DEF Summing
  <1> QED
    BY <1>4, <1>7, <1>8, <1>9

LEMMA SumExists ==
  ASSUME NEW S, IsFiniteSet(S), NEW w
  PROVE  \E g : Summing(g, w, S)
  <1> DEFINE B == {U \in SUBSET S : ~\E g : Summing(g, w, U)}
  <1>1. SUFFICES ASSUME B # {} PROVE FALSE
    OBVIOUS
  <1>2. PICK U \in B : \A x \in U : U \ {x} \notin B
    <2> HIDE DEF B
    <2>1. B \in SUBSET SUBSET S
      BY DEF B
    <2> QED
      BY <1>1, <2>1, LeastSubset
  <1>3. U \in SUBSET S /\ IsFiniteSet(U) /\ ~\E g : Summing(g, w, U)
    BY <1>2, FS_Subset
  <1>4. \A x \in U : \E g : Summing(g, w, U \ {x})
    BY <1>2, <1>3
  <1> DEFINE Sub(x) == CHOOSE g : Summing(g, w, U \ {x})
  <1>5. \A x \in U : Summing(Sub(x), w, U \ {x})
    BY <1>4
  <1> DEFINE H(V) == Sub(Elem(U \ V))[V]
  <1> HIDE DEF Sub
  <1>6. ASSUME NEW V \in SUBSET U, V # U, V # {}
        PROVE  H(V) = w[Elem(V)] + H(V \ {Elem(V)})
    <2>1. PICK x \in U \ V : x = Elem(U \ V)
      BY <1>6, ElemIn
    <2>2. PICK z \in V : z = Elem(V)
      BY <1>6, ElemIn
    <2>3. PICK y \in U \ (V \ {z}) : y = Elem(U \ (V \ {z}))
      BY <2>2, ElemIn
    <2>4. Summing(Sub(x), w, U \ {x}) /\ Summing(Sub(y), w, U \ {y})
      BY <1>5
    <2>5. V \in SUBSET (U \ {x}) /\ V \ {z} \subseteq U \ {x} /\ V \ {z} \subseteq U \ {y}
      BY <2>1, <2>2, <2>3
    <2>6. Sub(x)[V] = w[z] + Sub(x)[V \ {z}]
      BY <1>6, <2>2, <2>4, <2>5 DEF Summing
    <2>7. IsFiniteSet(U \ {x})
      BY <1>3, FS_Subset
    <2>8. Sub(x)[V \ {z}] = Sub(y)[V \ {z}]
      BY <2>4, <2>5, <2>7, SumsAgree
    <2> QED
      BY <2>1, <2>2, <2>3, <2>6, <2>8
  <1>7. ASSUME NEW V, V = {}, V # U PROVE H(V) = 0
    <2>1. PICK x \in U \ V : x = Elem(U \ V)
      BY <1>7, ElemIn
    <2>2. Summing(Sub(x), w, U \ {x}) /\ V \in SUBSET (U \ {x})
      BY <1>5, <1>7
    <2> QED
      BY <1>7, <2>1, <2>2 DEF Summing
  <1> HIDE DEF H
  <1> DEFINE G == [V \in SUBSET U |-> IF V = {} THEN 0
                                      ELSE IF V = U THEN w[Elem(V)] + H(V \ {Elem(V)}) ELSE H(V)]
  <1>8. ASSUME NEW V \in SUBSET U
        PROVE  G[V] = IF V = {} THEN 0 ELSE w[Elem(V)] + G[V \ {Elem(V)}]
    <2>1. CASE V = {}
      BY <2>1
    <2>2. CASE V # {}
      <3>1. PICK z \in V : z = Elem(V)
        BY <2>2, ElemIn
      <3>2. V \ {z} \in SUBSET U /\ V \ {z} # U
        BY <3>1
      <3>3. G[V \ {z}] = H(V \ {z})
        BY <1>7, <3>2
      <3>4. G[V] = w[z] + H(V \ {z})
        BY <1>6, <2>2, <3>1
      <3> QED
        BY <2>2, <3>1, <3>3, <3>4
    <2> QED
      BY <2>1, <2>2
  <1>9. Summing(G, w, U)
    <2> DEFINE K == [V \in SUBSET U |-> IF V = {} THEN 0 ELSE w[Elem(V)] + G[V \ {Elem(V)}]]
    <2>1. DOMAIN G = SUBSET U /\ G = [V \in SUBSET U |-> G[V]]
      OBVIOUS
    <2> HIDE DEF G
    <2>2. G = K
      BY <1>8, <2>1
    <2> QED
      BY <2>2 DEF Summing
  <1> QED
    BY <1>3, <1>9

\* Whatever function sums w up, it gives the sum.
LEMMA SumIs ==
  ASSUME NEW S, IsFiniteSet(S), NEW w, NEW g, Summing(g, w, S), NEW U \in SUBSET S
  PROVE  g[U] = SumOf(w, U)
  <1> DEFINE h == CHOOSE f : Summing(f, w, U)
  <1>1. Summing(h, w, U)
    BY SumExists, FS_Subset
  <1> HIDE DEF h
  <1>2. g[U] = h[U]
    BY <1>1, SumsAgree
  <1> QED
    BY <1>2 DEF SumOf, h

LEMMA SumStep ==
  ASSUME NEW S, IsFiniteSet(S), S # {}, NEW w
  PROVE  SumOf(w, S) = w[Elem(S)] + SumOf(w, S \ {Elem(S)})
  <1>1. PICK g : Summing(g, w, S)
    BY SumExists
  <1>2. g[S] = w[Elem(S)] + g[S \ {Elem(S)}]
    BY <1>1 DEF Summing
  <1>3. g[S] = SumOf(w, S) /\ g[S \ {Elem(S)}] = SumOf(w, S \ {Elem(S)})
    BY <1>1, SumIs
  <1> QED
    BY <1>2, <1>3

LEMMA SumEmpty == ASSUME NEW w PROVE SumOf(w, {}) = 0
  <1>1. IsFiniteSet({})
    BY FS_EmptySet
  <1>2. PICK g : Summing(g, w, {})
    BY <1>1, SumExists
  <1>3. g[{}] = 0
    BY <1>2 DEF Summing
  <1> QED
    BY <1>1, <1>2, <1>3, SumIs

LEMMA SumNat ==
  ASSUME NEW S, IsFiniteSet(S), NEW w, \A x \in S : w[x] \in Nat
  PROVE  SumOf(w, S) \in Nat
  <1> DEFINE B == {U \in SUBSET S : SumOf(w, U) \notin Nat}
  <1>1. SUFFICES ASSUME B # {} PROVE FALSE
    OBVIOUS
  <1>2. PICK U \in B : \A x \in U : U \ {x} \notin B
    <2> HIDE DEF B
    <2>1. B \in SUBSET SUBSET S
      BY DEF B
    <2> QED
      BY <1>1, <2>1, LeastSubset
  <1>3. U # {}
    BY <1>2, SumEmpty
  <1>4. PICK x \in U : x = Elem(U)
    BY <1>3, ElemIn
  <1>5. IsFiniteSet(U)
    BY <1>2, FS_Subset
  <1>6. SumOf(w, U) = w[x] + SumOf(w, U \ {x})
    BY <1>3, <1>4, <1>5, SumStep
  <1>7. SumOf(w, U \ {x}) \in Nat /\ w[x] \in Nat
    BY <1>2
  <1> QED
    BY <1>2, <1>6, <1>7

\* Any element may be taken out first.
LEMMA SumWithout ==
  ASSUME NEW S, IsFiniteSet(S), NEW w, \A x \in S : w[x] \in Nat, NEW x \in S
  PROVE  SumOf(w, S) = w[x] + SumOf(w, S \ {x})
  <1> DEFINE Fits(U, y) == SumOf(w, U) = w[y] + SumOf(w, U \ {y})
             B == {U \in SUBSET S : \E y \in U : ~Fits(U, y)}
  <1>1. SUFFICES ASSUME B # {} PROVE FALSE
    OBVIOUS
  <1>2. PICK U \in B : \A y \in U : U \ {y} \notin B
    <2> HIDE DEF B
    <2>1. B \in SUBSET SUBSET S
      BY DEF B
    <2> QED
      BY <1>1, <2>1, LeastSubset
  <1>3. PICK y \in U : ~Fits(U, y)
    BY <1>2
  <1>4. \A V \in SUBSET S : IsFiniteSet(V) /\ SumOf(w, V) \in Nat
    BY FS_Subset, SumNat
  <1>5. U \in SUBSET S /\ U \ {y} \in SUBSET S
    BY <1>2
  <1>6. PICK z \in U : z = Elem(U)
    BY <1>3, ElemIn
  <1>7. SumOf(w, U) = w[z] + SumOf(w, U \ {z})
    BY <1>3, <1>4, <1>5, <1>6, SumStep
  <1>8. y # z
    BY <1>3, <1>7
  <1>9. Fits(U \ {z}, y) /\ Fits(U \ {y}, z)
    BY <1>2, <1>3, <1>6, <1>8
  <1>10. (U \ {z}) \ {y} = (U \ {y}) \ {z}
    OBVIOUS
  <1>11. /\ SumOf(w, U \ {z}) = w[y] + SumOf(w, (U \ {y}) \ {z})
         /\ SumOf(w, U \ {y}) = w[z] + SumOf(w, (U \ {y}) \ {z})
    BY <1>9, <1>10
  <1>12. /\ SumOf(w, U) \in Nat /\ SumOf(w, U \ {z}) \in Nat /\ SumOf(w, U \ {y}) \in Nat
         /\ SumOf(w, (U \ {y}) \ {z}) \in Nat /\ w[y] \in Nat /\ w[z] \in Nat
    BY <1>4, <1>5
  <1> QED
    BY <1>3, <1>7, <1>11, <1>12

LEMMA SumOfPart ==
  ASSUME NEW S, IsFiniteSet(S), NEW w, \A x \in S : w[x] \in Nat, NEW A \in SUBSET S
  PROVE  SumOf(w, A) <= SumOf(w, S)
  <1> DEFINE B == {U \in SUBSET S : A \subseteq U /\ ~(SumOf(w, A) <= SumOf(w, U))}
  <1>1. SUFFICES ASSUME B # {} PROVE FALSE
    OBVIOUS
  <1>2. PICK U \in B : \A y \in U : U \ {y} \notin B
    <2> HIDE DEF B
    <2>1. B \in SUBSET SUBSET S
      BY DEF B
    <2> QED
      BY <1>1, <2>1, LeastSubset
  <1>3. \A V \in SUBSET S : IsFiniteSet(V) /\ SumOf(w, V) \in Nat
    BY FS_Subset, SumNat
  <1>4. U # A
    BY <1>2, <1>3
  <1>5. PICK y \in U : y \notin A
    BY <1>2, <1>4
  <1>6. SumOf(w, A) <= SumOf(w, U \ {y})
    BY <1>2, <1>5
  <1>7. SumOf(w, U) = w[y] + SumOf(w, U \ {y})
    BY <1>2, <1>3, SumWithout
  <1>8. SumOf(w, U) \in Nat /\ SumOf(w, U \ {y}) \in Nat /\ SumOf(w, A) \in Nat /\ w[y] \in Nat
    BY <1>2, <1>3
  <1> QED
    BY <1>2, <1>6, <1>7, <1>8

LEMMA SumOfSame ==
  ASSUME NEW S, IsFiniteSet(S), NEW w, NEW v, \A x \in S : w[x] = v[x]
  PROVE  SumOf(w, S) = SumOf(v, S)
  <1>1. PICK g : Summing(g, w, S)
    BY SumExists
  <1>2. ASSUME NEW U \in SUBSET S
        PROVE  (IF U = {} THEN 0 ELSE w[Elem(U)] + g[U \ {Elem(U)}])
                 = (IF U = {} THEN 0 ELSE v[Elem(U)] + g[U \ {Elem(U)}])
    BY ElemIn
  <1>3. Summing(g, v, S)
    BY <1>1, <1>2 DEF Summing
  <1> QED
    BY <1>1, <1>3, SumIs

(***************************************************************************)
(* The labour cost of a week and its budget.                               *)
(***************************************************************************)
LEMMA CostBounds ==
  /\ NoCap \notin Int /\ Caps \subseteq Nat \cup {NoCap}
  /\ \A s \in Rota : s.grade \in Grades /\ s.hours \in Nat
  /\ \A r \in Rates : r.hourly \in Nat
  BY CostsAssumption

\* What a shift costs under rates for every grade.
Priceable(week, price) == [s \in week |-> s.hours * price[s.grade].hourly]

LEMMA CostUnderIs ==
  ASSUME NEW week, IsFiniteSet(week), NEW price
  PROVE  CostUnder(week, price) = SumOf(Priceable(week, price), week)
  <1> DEFINE w == Priceable(week, price)
             Adds(it) == it = [s \in SUBSET week |->
               IF s = {} THEN 0
               ELSE (CHOOSE x \in s : TRUE).hours * price[(CHOOSE x \in s : TRUE).grade].hourly
                      + it[s \ {CHOOSE x \in s : TRUE}]]
             g == CHOOSE it : Adds(it)
  <1>1. ASSUME NEW s \in SUBSET week, s # {}
        PROVE  w[Elem(s)] = Elem(s).hours * price[Elem(s).grade].hourly
    <2>1. Elem(s) \in week
      BY <1>1, ElemIn
    <2> QED
      BY <2>1 DEF Priceable
  <1> HIDE DEF w
  <1>2. ASSUME NEW it PROVE Summing(it, w, week) <=> Adds(it)
    <2>1. [s \in SUBSET week |-> IF s = {} THEN 0 ELSE w[Elem(s)] + it[s \ {Elem(s)}]]
            = [s \in SUBSET week |->
                IF s = {} THEN 0 ELSE Elem(s).hours * price[Elem(s).grade].hourly + it[s \ {Elem(s)}]]
      BY <1>1
    <2> QED
      BY <2>1 DEF Summing, Elem
  <1>4. CostUnder(week, price) = g[week]
    BY DEF CostUnder, MapThenSumSet, MapThenFoldSet
  <1> HIDE DEF Adds
  <1>5. \E it : Adds(it)
    BY <1>2, SumExists
  <1>6. Adds(g)
    BY <1>5
  <1> HIDE DEF g
  <1> QED
    BY <1>2, <1>4, <1>6, SumIs DEF w

\* What the shifts cost whose rate is known.
Known(week, rates) == [s \in Priced(week, rates) |-> s.hours * RateOf(rates, s.grade).hourly]

LEMMA KnownCostIs ==
  ASSUME NEW week, IsFiniteSet(week), NEW rates
  PROVE  KnownCost(week, rates) = SumOf(Known(week, rates), Priced(week, rates))
  <1> DEFINE w == Known(week, rates)
             Adds(it) == it = [s \in SUBSET Priced(week, rates) |->
               IF s = {} THEN 0
               ELSE (CHOOSE x \in s : TRUE).hours * RateOf(rates, (CHOOSE x \in s : TRUE).grade).hourly
                      + it[s \ {CHOOSE x \in s : TRUE}]]
             g == CHOOSE it : Adds(it)
  <1>1. ASSUME NEW s \in SUBSET Priced(week, rates), s # {}
        PROVE  w[Elem(s)] = Elem(s).hours * RateOf(rates, Elem(s).grade).hourly
    <2>1. Elem(s) \in Priced(week, rates)
      BY <1>1, ElemIn
    <2> QED
      BY <2>1 DEF Known
  <1> HIDE DEF w
  <1>2. ASSUME NEW it PROVE Summing(it, w, Priced(week, rates)) <=> Adds(it)
    <2>1. [s \in SUBSET Priced(week, rates) |-> IF s = {} THEN 0 ELSE w[Elem(s)] + it[s \ {Elem(s)}]]
            = [s \in SUBSET Priced(week, rates) |->
                IF s = {} THEN 0 ELSE Elem(s).hours * RateOf(rates, Elem(s).grade).hourly + it[s \ {Elem(s)}]]
      BY <1>1
    <2> QED
      BY <2>1 DEF Summing, Elem
  <1>3. IsFiniteSet(Priced(week, rates))
    BY FS_Subset DEF Priced
  <1>4. KnownCost(week, rates) = g[Priced(week, rates)]
    BY DEF KnownCost, MapThenSumSet, MapThenFoldSet
  <1> HIDE DEF Adds
  <1>5. \E it : Adds(it)
    BY <1>3, <1>2, SumExists
  <1>6. Adds(g)
    BY <1>5
  <1> HIDE DEF g
  <1> QED
    BY <1>3, <1>2, <1>4, <1>6, SumIs DEF w

LEMMA KnownCostBounds ==
  ASSUME NEW week \in SUBSET Rota, IsFiniteSet(week), NEW rates, AreRates(rates),
         NEW f \in Completions(rates)
  PROVE  /\ KnownCost(week, rates) \in Nat /\ CostUnder(week, f) \in Nat
         /\ KnownCost(week, rates) <= CostUnder(week, f)
         /\ Priced(week, rates) = week => KnownCost(week, rates) = CostUnder(week, f)
  <1> DEFINE P == Priced(week, rates)
             w == Priceable(week, f)
  <1>1. P \subseteq week /\ IsFiniteSet(P)
    BY FS_Subset DEF Priced
  <1>2. ASSUME NEW s \in week
        PROVE  s.grade \in Grades /\ s.hours \in Nat /\ f[s.grade].hourly \in Nat
    BY CostBounds DEF Completions
  <1>3. \A s \in week : w[s] \in Nat
    BY <1>2 DEF Priceable
  <1>4. ASSUME NEW s \in P PROVE w[s] = Known(week, rates)[s]
    <2>1. s \in week /\ s.grade \in Grades /\ rates[s.grade] # {}
      BY <1>2 DEF Priced
    <2>2. PICK r : rates[s.grade] = {r}
      BY <2>1 DEF AreRates, AtMostOne
    <2>3. RateOf(rates, s.grade) = r
      BY <2>2 DEF RateOf
    <2>4. f[s.grade] = r
      BY <2>1, <2>2 DEF Completions
    <2> QED
      BY <2>1, <2>3, <2>4 DEF Priceable, Known
  <1>5. KnownCost(week, rates) = SumOf(w, P)
    BY <1>1, <1>4, KnownCostIs, SumOfSame
  <1>6. CostUnder(week, f) = SumOf(w, week)
    BY CostUnderIs
  <1>7. SumOf(w, P) <= SumOf(w, week) /\ SumOf(w, P) \in Nat /\ SumOf(w, week) \in Nat
    BY <1>1, <1>3, SumOfPart, SumNat
  <1> HIDE DEF w
  <1> QED
    BY <1>5, <1>6, <1>7

\* The cap that applies, read from the rows as the property reads them.
CapRowFor(u) == IF u # "ALL" /\ capRow[u] \ {NoCap} # {} THEN capRow[u] ELSE capRow["ALL"]

LEMMA CapApplies ==
  ASSUME CostInv, NEW u \in CapUnits \cup {"ALL"}
  PROVE  CapRowFor(u) \ {NoCap} = {EffectiveCap(u)} \ {NoCap} /\ EffectiveCap(u) \in Nat \cup {NoCap}
  <1>1. /\ capRow[u] = {} \/ \E x \in Caps : capRow[u] = {x}
        /\ capRow["ALL"] = {} \/ \E x \in Caps : capRow["ALL"] = {x}
    BY DEF CostInv, AtMostOne
  <1> DEFINE rows == {x \in {u, "ALL"} : capRow[x] \ {NoCap} # {}}
  <1>2. CASE rows = {}
    <2>1. EffectiveCap(u) = NoCap
      BY <1>2 DEF EffectiveCap
    <2>2. CapRowFor(u) = capRow["ALL"] /\ capRow["ALL"] \ {NoCap} = {}
      BY <1>2 DEF CapRowFor
    <2> QED
      BY <2>1, <2>2
  <1>3. CASE rows # {}
    <2> DEFINE row == capRow[IF u \in rows THEN u ELSE "ALL"]
    <2>1. EffectiveCap(u) = CHOOSE c \in row : TRUE
      BY <1>3 DEF EffectiveCap
    <2>2. row \ {NoCap} # {} /\ CapRowFor(u) = row
      BY <1>3 DEF CapRowFor
    <2>3. PICK x \in Caps : row = {x}
      BY <1>1, <2>2
    <2> HIDE DEF row
    <2>4. EffectiveCap(u) = x
      BY <2>1, <2>3
    <2> QED
      BY <2>2, <2>3, <2>4, CostBounds
  <1> QED
    BY <1>2, <1>3

LEMMA OneAtMost ==
  ASSUME NEW S, NEW T, AtMostOne(S, T)
  PROVE  S \subseteq T /\ Cardinality(S) <= 1
  <1>1. CASE S = {}
    BY <1>1, FS_EmptySet
  <1>2. ASSUME NEW x \in T, S = {x} PROVE S \subseteq T /\ Cardinality(S) <= 1
    BY <1>2, FS_Singleton
  <1> QED
    BY <1>1, <1>2 DEF AtMostOne

LEMMA CostsInit == CostInit => CostInv
  <1>1. IsFiniteSet({})
    BY FS_EmptySet
  <1> QED
    BY <1>1 DEF CostInit, CostInv, AreRates, AtMostOne, NoCapCall, NoBudget

LEMMA CostsStep ==
  ASSUME CostInv, [CostNext]_costVars
  PROVE  CostInv'
  <1> USE DEF CostInv
  <1>1. ASSUME NEW s \in Rota, Plan(s) PROVE CostInv'
    <2>1. IsFiniteSet(planned \cup {s})
      BY FS_AddElement
    <2> QED
      BY <1>1, <2>1 DEF Plan, AreRates
  <1>2. ASSUME NEW g \in Grades, NEW r \in Rates, UpsertRate(g, r) PROVE CostInv'
    <2>1. AreRates(rate')
      BY <1>2 DEF UpsertRate, AreRates, AtMostOne
    <2> QED
      BY <1>2, <2>1 DEF UpsertRate
  <1>3. ASSUME NEW u \in CapUnits, NEW cap \in Caps, UpsertUnitCap(u, cap) PROVE CostInv'
    BY <1>3 DEF UpsertUnitCap, AtMostOne
  <1>4. ASSUME NEW c \in CapCalls, NEW cap \in Caps, FindDefaultCap(c, cap) PROVE CostInv'
    BY <1>4 DEF FindDefaultCap
  <1>5. ASSUME NEW c \in CapCalls, CreateDefaultCap(c) PROVE CostInv'
    BY <1>5 DEF CreateDefaultCap, NoCapCall, AtMostOne
  <1>6. ASSUME NEW c \in CapCalls, UpdateDefaultCap(c) PROVE CostInv'
    BY <1>6 DEF UpdateDefaultCap, NoCapCall, AtMostOne
  <1>7. ASSUME NEW u \in CapUnits \cup {"ALL"}, ReadWeek(u) PROVE CostInv'
    <2>1. Week(u) \subseteq Rota /\ IsFiniteSet(Week(u))
      BY FS_Subset DEF Week
    <2> QED
      BY <1>7, <2>1 DEF ReadWeek, NoBudget
  <1>8. CASE ReadRates
    BY <1>8 DEF ReadRates
  <1>9. CASE ReadCap
    BY <1>9 DEF ReadCap
  <1>10. CASE UNCHANGED costVars
    BY <1>10 DEF costVars
  <1> QED
    BY <1>1, <1>2, <1>3, <1>4, <1>5, <1>6, <1>7, <1>8, <1>9, <1>10 DEF CostNext

\* A rate per grade, a cap per row, a verdict of three.
THEOREM CostsCorrect == CostSpec => [](CostTypeOK /\ CostInv)
  <1>1. CostInit => CostTypeOK
    BY FS_EmptySet DEF CostInit, CostTypeOK, NoBudget
  <1>2. CostTypeOK /\ CostInv /\ [CostNext]_costVars => CostTypeOK'
    <2> SUFFICES ASSUME CostTypeOK, CostInv, [CostNext]_costVars PROVE CostTypeOK'
      OBVIOUS
    <2>1. CostInv'
      BY CostsStep
    <2>2. \A g \in Grades : rate'[g] \subseteq Rates /\ Cardinality(rate'[g]) <= 1
      BY <2>1, OneAtMost DEF CostInv, AreRates
    <2>3. \A u \in DOMAIN capRow' : capRow'[u] \subseteq Caps /\ Cardinality(capRow'[u]) <= 1
      BY <2>1, OneAtMost DEF CostInv
    <2>4. budget'.verdict \in {"OVER", "WITHIN", "UNKNOWN"}
      <3>1. CASE ReadCap
        BY <3>1 DEF ReadCap, BudgetVerdict, CostTypeOK
      <3>2. CASE ReadRates
        BY <3>2 DEF ReadRates
      <3>3. ASSUME NEW u \in CapUnits \cup {"ALL"}, ReadWeek(u) PROVE budget'.verdict = "UNKNOWN"
        BY <3>3 DEF ReadWeek, NoBudget
      <3>4. CASE UNCHANGED budget
        BY <3>4 DEF CostTypeOK
      <3> QED
        BY <3>1, <3>2, <3>3, <3>4
           DEF CostNext, costVars, Plan, UpsertRate, UpsertUnitCap, FindDefaultCap, CreateDefaultCap,
               UpdateDefaultCap
    <2> QED
      BY <2>1, <2>2, <2>3, <2>4 DEF CostTypeOK, CostInv
  <1> QED
    BY <1>1, <1>2, CostsInit, CostsStep, PTL DEF CostSpec

LEMMA VerdictIsHonest ==
  ASSUME CostInv, ReadCap, budget.week.shifts = Week(budget.unit), budget.week.rates = rate
  PROVE  LET u == budget.unit
             caps == CapRowFor(u)
         IN  /\ budget'.verdict = "WITHIN" =>
                  \A f \in Completions(rate), cap \in caps \ {NoCap} : CostUnder(Week(u), f) <= cap
             /\ budget'.verdict = "OVER" =>
                  \A f \in Completions(rate) : \E cap \in caps \ {NoCap} : CostUnder(Week(u), f) > cap
  <1> DEFINE u == budget.unit
             week == budget.week
             cap == EffectiveCap(u)
             K == KnownCost(Week(u), rate)
  <1>1. /\ u \in CapUnits \cup {"ALL"} /\ Week(u) \in SUBSET Rota /\ IsFiniteSet(Week(u)) /\ AreRates(rate)
        /\ week.cost = K
        /\ week.missing <=> Priced(Week(u), rate) # Week(u)
    BY DEF CostInv, ReadCap
  <1>2. budget'.verdict = BudgetVerdict(week, cap)
    BY DEF ReadCap
  <1>3. CapRowFor(u) \ {NoCap} = {cap} \ {NoCap} /\ cap \in Nat \cup {NoCap}
    BY <1>1, CapApplies
  <1> HIDE DEF u, week, cap, K
  <1>4. ASSUME NEW f \in Completions(rate)
        PROVE  /\ K \in Nat /\ CostUnder(Week(u), f) \in Nat
               /\ K <= CostUnder(Week(u), f)
               /\ Priced(Week(u), rate) = Week(u) => K = CostUnder(Week(u), f)
    BY <1>1, KnownCostBounds DEF K
  <1>5. ASSUME budget'.verdict = "WITHIN", NEW f \in Completions(rate), NEW c \in CapRowFor(u) \ {NoCap}
        PROVE  CostUnder(Week(u), f) <= c
    <2>1. c = cap /\ c \in Nat
      BY <1>3, <1>5
    <2>2. ~(week.cost > cap) /\ ~week.missing
      BY <1>2, <1>5, <2>1 DEF BudgetVerdict
    <2> QED
      BY <1>1, <1>4, <2>1, <2>2
  <1>6. ASSUME budget'.verdict = "OVER", NEW f \in Completions(rate)
        PROVE  \E c \in CapRowFor(u) \ {NoCap} : CostUnder(Week(u), f) > c
    <2>1. cap # NoCap /\ K > cap
      BY <1>1, <1>2, <1>6 DEF BudgetVerdict
    <2>2. CostUnder(Week(u), f) > cap
      BY <1>3, <1>4, <2>1
    <2> QED
      BY <1>3, <2>1, <2>2
  <1> QED
    BY <1>5, <1>6 DEF u

(* "Budget OK must NOT be asserted while any rate is missing": kept means  *)
(* kept and exceeded means exceeded, whatever the missing rates will be.   *)
(* The known shifts cost no more than all of them, in any order of adding. *)
THEOREM BudgetIsHonest == CostSpec => BudgetHonest
  <1>1. CostInv /\ [CostNext]_costVars =>
          [ReadCap /\ budget.week.shifts = Week(budget.unit) /\ budget.week.rates = rate =>
             LET u == budget.unit
                 caps == IF u # "ALL" /\ capRow[u] \ {NoCap} # {} THEN capRow[u] ELSE capRow["ALL"]
             IN  /\ budget'.verdict = "WITHIN" =>
                      \A f \in Completions(rate), cap \in caps \ {NoCap} : CostUnder(Week(u), f) <= cap
                 /\ budget'.verdict = "OVER" =>
                      \A f \in Completions(rate) : \E cap \in caps \ {NoCap} : CostUnder(Week(u), f) > cap]_costVars
    BY VerdictIsHonest DEF CapRowFor
  <1> QED
    BY <1>1, CostsCorrect, PTL DEF CostSpec, BudgetHonest

-----------------------------------------------------------------------------
(* Row scopes *)

ScopeAnswer(w, a) ==
  [listed |-> Listed(w, a), mine |-> Mine(w, a), opened |-> Opened(w, a), actable |-> Actable(w, a)]

LEMMA SameScopes ==
  ASSUME NEW w, NEW a, a.self \subseteq w.staff
  PROVE  /\ LeaveGetById(w, a) = LeaveList(w, a, FALSE, {})
         /\ EmployeeGetById(w, a) = EmployeeList(w, a)
         /\ AccessGetById(w, a) = AccessList(w, a)
         /\ GetShift(w, a) \subseteq ShiftList(w, a)
         /\ ProposalList(w, a, FALSE) \cup ProposalList(w, a, TRUE) \subseteq ProposalGetById(w, a)
  <1>1. LeaveGetById(w, a) = LeaveList(w, a, FALSE, {})
    BY DEF LeaveGetById, LeaveList, InUnits
  <1>2. EmployeeGetById(w, a) = EmployeeList(w, a)
    BY DEF EmployeeGetById, EmployeeList
  <1>3. AccessGetById(w, a) = AccessList(w, a)
    BY DEF AccessGetById, AccessList, InUnits
  <1>4. GetShift(w, a) \subseteq ShiftList(w, a)
    BY DEF GetShift, ShiftList, InUnits
  <1>5. ProposalList(w, a, FALSE) \cup ProposalList(w, a, TRUE) \subseteq ProposalGetById(w, a)
    BY DEF ProposalList, ProposalGetById
  <1> QED
    BY <1>1, <1>2, <1>3, <1>4, <1>5

LEMMA ActorsScopes ==
  ASSUME NEW q, IsScopeQuestion(q), NEW w, w = q.tenant, NEW a, a = q.caller
  PROVE  /\ LeaveDecidable(w, a) \cup a.self \subseteq LeaveList(w, a, FALSE, {}) \cup LeaveList(w, a, TRUE, {})
         /\ SwapOwn(w, a) \cup SwapDecidable(w, a) \subseteq SwapList(w, a, FALSE)
         /\ a.manages = {} => MyActivePending(w, a) \subseteq ProposalList(w, a, FALSE) \cup ProposalList(w, a, TRUE)
  <1>1. a.self \subseteq w.staff /\ Nobody \notin w.staff /\ \A s \in w.swaps : s.requester \in w.staff
    BY DEF IsScopeQuestion
  <1>2. LeaveDecidable(w, a) \cup a.self \subseteq LeaveList(w, a, FALSE, {}) \cup LeaveList(w, a, TRUE, {})
    BY <1>1 DEF LeaveDecidable, LeaveList, InUnits
  <1>3. SwapOwn(w, a) \subseteq SwapList(w, a, FALSE)
    BY DEF SwapOwn, SwapList, Parties
  <1>4. SwapDecidable(w, a) \subseteq SwapList(w, a, FALSE)
    <2> SUFFICES ASSUME NEW s \in SwapDecidable(w, a) PROVE s \in SwapList(w, a, FALSE)
      OBVIOUS
    <2>1. s \in w.swaps /\ (a.global \/ \A e \in Parties(s) : w.unit[e] \in a.manages)
      BY DEF SwapDecidable
    <2>2. s.requester \in Parties(s)
      BY <1>1, <2>1 DEF Parties
    <2> QED
      BY <2>1, <2>2 DEF SwapList
  <1>5. a.manages = {} => MyActivePending(w, a) \subseteq ProposalList(w, a, FALSE) \cup ProposalList(w, a, TRUE)
    BY DEF MyActivePending, ProposalList
  <1> QED
    BY <1>2, <1>3, <1>4, <1>5

ScopesFit(a, x) ==
  LET Of(kinds, rows) == {r \in rows : r[1] \in kinds}
      same == {"leave", "access", "employee"}
      AskedManager(r) == r[1] = "proposal" /\ a.manages # {}
  IN  /\ Of(same, x.opened) = Of(same, x.listed)
      /\ Of({"shift"}, x.opened) \subseteq x.listed
      /\ Of({"proposal"}, x.listed \cup x.mine) \subseteq x.opened
      /\ \A r \in x.actable : AskedManager(r) \/ r \in x.listed \cup x.mine

LEMMA ScopeAnswers ==
  ASSUME NEW q \in ScopeQuestions
  PROVE  ScopesFit(q.caller, ScopeAnswer(q.tenant, q.caller))
  <1>1. PICK w, a : w = q.tenant /\ a = q.caller
    OBVIOUS
  <1>2. IsScopeQuestion(q) /\ a.self \subseteq w.staff
    BY <1>1, QuestionsAssumption DEF IsScopeQuestion
  <1> DEFINE x == ScopeAnswer(w, a)
  <1>3. x.listed = Listed(w, a) /\ x.mine = Mine(w, a) /\ x.opened = Opened(w, a) /\ x.actable = Actable(w, a)
    BY DEF ScopeAnswer
  <1> HIDE DEF x
  <1>4. {r \in Opened(w, a) : r[1] \in {"leave", "access", "employee"}}
          = ({"leave"} \X LeaveGetById(w, a)) \cup ({"employee"} \X EmployeeGetById(w, a))
            \cup ({"access"} \X AccessGetById(w, a))
    BY DEF Opened
  <1>5. {r \in Listed(w, a) : r[1] \in {"leave", "access", "employee"}}
          = ({"leave"} \X LeaveList(w, a, FALSE, {})) \cup ({"employee"} \X EmployeeList(w, a))
            \cup ({"access"} \X AccessList(w, a))
    BY DEF Listed
  <1>6. {r \in Opened(w, a) : r[1] \in {"shift"}} \subseteq Listed(w, a)
    BY <1>2, SameScopes DEF Opened, Listed
  <1>7. {r \in Listed(w, a) \cup Mine(w, a) : r[1] \in {"proposal"}} \subseteq Opened(w, a)
    BY <1>2, SameScopes DEF Opened, Listed, Mine
  <1>8. ASSUME NEW r \in Actable(w, a), ~(r[1] = "proposal" /\ a.manages # {})
        PROVE  r \in Listed(w, a) \cup Mine(w, a)
    <2>1. PICK k, y : /\ r = <<k, y>>
                      /\ \/ k = "leave" /\ y \in LeaveDecidable(w, a) \cup a.self
                         \/ k = "swap" /\ y \in SwapOwn(w, a) \cup SwapDecidable(w, a)
                         \/ k = "access" /\ y \in AccessGetById(w, a)
                         \/ k = "shift" /\ y \in GetShift(w, a)
                         \/ k = "proposal" /\ y \in MyActivePending(w, a)
      BY DEF Actable
    <2>2. CASE k = "leave"
      BY <1>1, <1>2, <2>1, <2>2, ActorsScopes DEF Listed, Mine
    <2>3. CASE k = "swap"
      BY <1>1, <1>2, <2>1, <2>3, ActorsScopes DEF Listed
    <2>4. CASE k = "access" \/ k = "shift"
      BY <1>2, <2>1, <2>4, SameScopes DEF Listed
    <2>5. CASE k = "proposal"
      <3>1. a.manages = {}
        BY <1>8, <2>1, <2>5
      <3>2. y \in ProposalList(w, a, FALSE) \cup ProposalList(w, a, TRUE)
        BY <1>1, <1>2, <2>1, <2>5, <3>1, ActorsScopes
      <3> QED
        BY <2>1, <2>5, <3>2 DEF Listed, Mine
    <2> QED
      BY <2>1, <2>2, <2>3, <2>4, <2>5
  <1>9. ScopesFit(a, x)
    <2>1. {r \in Opened(w, a) : r[1] \in {"leave", "access", "employee"}}
            = {r \in Listed(w, a) : r[1] \in {"leave", "access", "employee"}}
      <3>1. /\ LeaveGetById(w, a) = LeaveList(w, a, FALSE, {})
            /\ EmployeeGetById(w, a) = EmployeeList(w, a)
            /\ AccessGetById(w, a) = AccessList(w, a)
        BY <1>2, SameScopes
      <3> QED
        BY <1>4, <1>5, <3>1, Zenon
    <2> QED
      BY <1>3, <1>6, <1>7, <1>8, <2>1 DEF ScopesFit
  <1> QED
    BY <1>1, <1>9 DEF x

-----------------------------------------------------------------------------
(***************************************************************************)
(* Sorting.  A finite set with a strict total order can be listed in that  *)
(* order, and a list in that order misses nobody.                          *)
(***************************************************************************)
StrictOrder(R, S) ==
  /\ \A a \in S : <<a, a>> \notin R
  /\ \A a, b \in S : a = b \/ <<a, b>> \in R \/ <<b, a>> \in R
  /\ \A a, b, c \in S : <<a, b>> \in R /\ <<b, c>> \in R => <<a, c>> \in R

Sorted(R, S, s) == \A i, j \in DOMAIN s : i < j => <<s[i], s[j]>> \in R

LEMMA SortedExists ==
  ASSUME NEW S, IsFiniteSet(S), NEW R, StrictOrder(R, S)
  PROVE  \E s \in [1..Cardinality(S) -> S] : Sorted(R, S, s)
  <1> DEFINE n == Cardinality(S)
             Before(x) == {y \in S : <<y, x>> \in R}
             Ahead(x) == Cardinality(Before(x))
             rank == [x \in S |-> Ahead(x) + 1]
  <1>1. n \in Nat
    BY FS_CardinalityType
  <1>2. ASSUME NEW x \in S PROVE IsFiniteSet(Before(x)) /\ Ahead(x) \in Nat /\ Ahead(x) < n
    <2>1. Before(x) \in SUBSET S /\ x \notin Before(x)
      BY DEF StrictOrder
    <2>2. IsFiniteSet(Before(x)) /\ Ahead(x) <= n /\ Ahead(x) # n
      BY <2>1, FS_Subset
    <2>3. Ahead(x) \in Nat
      BY <2>2, FS_CardinalityType
    <2> HIDE DEF n, Ahead
    <2> QED
      BY <1>1, <2>2, <2>3
  <1> HIDE DEF n
  <1>3. ASSUME NEW x \in S, NEW y \in S, <<x, y>> \in R PROVE Ahead(x) < Ahead(y)
    <2>1. Before(x) \in SUBSET Before(y)
      BY <1>3 DEF StrictOrder
    <2>2. x \in Before(y) /\ x \notin Before(x)
      BY <1>3 DEF StrictOrder
    <2>3. Ahead(x) <= Ahead(y) /\ Ahead(x) # Ahead(y)
      BY <1>2, <2>1, <2>2, FS_Subset
    <2>4. Ahead(x) \in Nat /\ Ahead(y) \in Nat
      BY <1>2
    <2> HIDE DEF Ahead
    <2> QED
      BY <2>3, <2>4
  <1> HIDE DEF Ahead
  <1>4. rank \in [S -> 1..n]
    <2>1. ASSUME NEW x \in S PROVE Ahead(x) + 1 \in 1..n
      <3>1. Ahead(x) \in Nat /\ Ahead(x) < n
        BY <1>2
      <3> QED
        BY <1>1, <3>1
    <2> QED
      BY <2>1
  <1> HIDE DEF rank
  <1>5. ASSUME NEW x \in S, NEW y \in S, rank[x] = rank[y] PROVE x = y
    <2>1. Ahead(x) \in Nat /\ Ahead(y) \in Nat /\ Ahead(x) + 1 = Ahead(y) + 1
      BY <1>2, <1>5 DEF rank
    <2>2. <<x, y>> \notin R /\ <<y, x>> \notin R
      BY <1>3, <2>1
    <2> QED
      BY <2>2 DEF StrictOrder
  <1>6. rank \in Injection(S, 1..n)
    BY <1>4, <1>5 DEF Injection, IsInjective
  <1>7. IsFiniteSet(1..n) /\ Cardinality(1..n) = n
    BY <1>1, FS_Interval
  <1>8. rank \in Surjection(S, 1..n)
    BY <1>6, <1>7, FS_Injection DEF n
  <1> DEFINE s == [i \in 1..n |-> CHOOSE x \in S : rank[x] = i]
  <1>9. \A i \in 1..n : s[i] \in S /\ rank[s[i]] = i
    BY <1>8 DEF Surjection
  <1>10. s \in [1..n -> S]
    BY <1>9
  <1> HIDE DEF s
  <1>11. ASSUME NEW i \in 1..n, NEW j \in 1..n, i < j PROVE <<s[i], s[j]>> \in R
    <2>1. s[i] # s[j]
      BY <1>9, <1>11
    <2>2. <<s[j], s[i]>> \notin R
      <3>1. Ahead(s[i]) + 1 = i /\ Ahead(s[j]) + 1 = j
        BY <1>9 DEF rank
      <3>2. Ahead(s[i]) \in Nat /\ Ahead(s[j]) \in Nat
        BY <1>2, <1>9
      <3>3. ~(Ahead(s[j]) < Ahead(s[i]))
        BY <1>11, <3>1, <3>2
      <3> QED
        BY <1>3, <1>9, <3>3
    <2> QED
      BY <1>9, <2>1, <2>2 DEF StrictOrder
  <1> QED
    BY <1>10, <1>11 DEF Sorted, n

LEMMA SortedCovers ==
  ASSUME NEW S, IsFiniteSet(S), NEW R, StrictOrder(R, S),
         NEW s \in [1..Cardinality(S) -> S], Sorted(R, S, s)
  PROVE  /\ \A x \in S : \E i \in DOMAIN s : s[i] = x
         /\ \A i, j \in DOMAIN s : i # j => s[i] # s[j]
  <1> DEFINE n == Cardinality(S)
  <1>1. n \in Nat /\ IsFiniteSet(1..n) /\ Cardinality(1..n) = n
    BY FS_CardinalityType, FS_Interval
  <1>2. ASSUME NEW i \in 1..n, NEW j \in 1..n, i # j PROVE s[i] # s[j]
    <2>1. i < j \/ j < i
      BY <1>1, <1>2
    <2> QED
      BY <2>1 DEF Sorted, StrictOrder
  <1>3. s \in Injection(1..n, S)
    BY <1>2 DEF Injection, IsInjective
  <1>4. s \in Surjection(1..n, S)
    BY <1>1, <1>3, FS_Injection
  <1> QED
    BY <1>2, <1>4 DEF Surjection

\* A finite set of integers has a largest element.
LEMMA MaxIs ==
  ASSUME NEW S, IsFiniteSet(S), S \subseteq Int, S # {}
  PROVE  Max(S) \in S /\ \A y \in S : Max(S) >= y
  <1> DEFINE R == {p \in S \X S : p[1] > p[2]}
  <1>1. StrictOrder(R, S) /\ \A p \in R : p[1] > p[2]
    BY DEF StrictOrder
  <1> HIDE DEF R
  <1>2. PICK s \in [1..Cardinality(S) -> S] : Sorted(R, S, s)
    BY <1>1, SortedExists
  <1>3. /\ \A x \in S : \E i \in DOMAIN s : s[i] = x
        /\ \A i, j \in DOMAIN s : i # j => s[i] # s[j]
    BY <1>1, <1>2, SortedCovers
  <1>4. Cardinality(S) \in Nat /\ Cardinality(S) # 0
    BY FS_CardinalityType, FS_EmptySet
  <1>5. ASSUME NEW y \in S PROVE s[1] \in S /\ s[1] >= y
    <2>1. PICK i \in 1..Cardinality(S) : s[i] = y
      BY <1>3
    <2>2. 1 \in DOMAIN s /\ (i = 1 \/ 1 < i)
      BY <1>4
    <2>3. CASE i = 1
      BY <2>1, <2>2, <2>3
    <2>4. CASE 1 < i
      <3>1. <<s[1], s[i]>> \in R
        BY <1>2, <2>2, <2>4 DEF Sorted
      <3>2. s[1] > s[i]
        BY <1>1, <3>1
      <3>3. s[1] \in S /\ s[1] \in Int /\ y \in Int
        BY <2>2
      <3> QED
        BY <2>1, <3>2, <3>3
    <2> QED
      BY <2>2, <2>3, <2>4
  <1> QED
    BY <1>5 DEF Max

LEMMA SumInt ==
  ASSUME NEW S, IsFiniteSet(S), NEW w, \A x \in S : w[x] \in Int
  PROVE  SumOf(w, S) \in Int
  <1> DEFINE B == {U \in SUBSET S : SumOf(w, U) \notin Int}
  <1>1. SUFFICES ASSUME B # {} PROVE FALSE
    OBVIOUS
  <1>2. PICK U \in B : \A x \in U : U \ {x} \notin B
    <2> HIDE DEF B
    <2>1. B \in SUBSET SUBSET S
      BY DEF B
    <2> QED
      BY <1>1, <2>1, LeastSubset
  <1>3. U # {}
    BY <1>2, SumEmpty
  <1>4. PICK x \in U : x = Elem(U)
    BY <1>3, ElemIn
  <1>5. IsFiniteSet(U)
    BY <1>2, FS_Subset
  <1>6. SumOf(w, U) = w[x] + SumOf(w, U \ {x})
    BY <1>3, <1>4, <1>5, SumStep
  <1>7. SumOf(w, U \ {x}) \in Int /\ w[x] \in Int
    BY <1>2
  <1> QED
    BY <1>2, <1>6, <1>7

-----------------------------------------------------------------------------
(* The ranking of replacement candidates *)

LEMMA HoursInt ==
  ASSUME NEW shift, NEW c, IsCandidate(c)
  PROVE  Hours(shift, c) \in Int
  <1> DEFINE week == WeekShifts(shift, c)
             w == [s \in week |-> WindowMinutes(s.start, s.end)]
             Adds(it) == it = [s \in SUBSET week |->
               IF s = {} THEN 0
               ELSE WindowMinutes((CHOOSE x \in s : TRUE).start, (CHOOSE x \in s : TRUE).end)
                      + it[s \ {CHOOSE x \in s : TRUE}]]
             g == CHOOSE it : Adds(it)
  <1>1. ASSUME NEW s \in SUBSET week, s # {}
        PROVE  w[Elem(s)] = WindowMinutes(Elem(s).start, Elem(s).end)
    <2>1. Elem(s) \in week
      BY <1>1, ElemIn
    <2> QED
      BY <2>1
  <1>2. week \in SUBSET c.shifts /\ IsFiniteSet(week)
    BY FS_Subset DEF WeekShifts, IsCandidate
  <1>3. \A s \in week : w[s] \in Int
    BY <1>2 DEF IsCandidate, IsShift, WindowMinutes, DayMinutes
  <1>4. Hours(shift, c) = g[week]
    BY DEF Hours, MapThenSumSet, MapThenFoldSet
  <1> HIDE DEF w, week
  <1>5. ASSUME NEW it PROVE Summing(it, w, week) <=> Adds(it)
    <2>1. [s \in SUBSET week |-> IF s = {} THEN 0 ELSE w[Elem(s)] + it[s \ {Elem(s)}]]
            = [s \in SUBSET week |->
                IF s = {} THEN 0 ELSE WindowMinutes(Elem(s).start, Elem(s).end) + it[s \ {Elem(s)}]]
      BY <1>1
    <2> QED
      BY <2>1 DEF Summing, Elem
  <1> HIDE DEF Adds
  <1>6. \E it : Adds(it)
    BY <1>2, <1>5, SumExists
  <1>7. Adds(g)
    BY <1>6
  <1> HIDE DEF g
  <1> QED
    BY <1>2, <1>3, <1>4, <1>5, <1>7, SumIs, SumInt

LEMMA CostInt ==
  ASSUME NEW shift, IsShift(shift), \A r \in shift.rate : r.hourly \in Int,
         NEW c, IsCandidate(c), c.local \/ c.travel # {}
  PROVE  TotalCost(shift, c) \in Int
  <1>1. TravelCost(c) \in Int
    <2>1. CASE c.local
      BY <2>1 DEF TravelCost
    <2>2. CASE ~c.local
      <3>1. PICK t \in Int : t = CHOOSE u \in c.travel : TRUE
        BY <2>2 DEF IsCandidate
      <3> QED
        BY <2>2, <3>1 DEF TravelCost, RoundTrip, KmRate
    <2> QED
      BY <2>1, <2>2
  <1>2. WorkCostDelta(shift, c) \in Int
    <2> DEFINE both == {p \in c.rate \X shift.rate : p[1].currency = p[2].currency}
    <2>1. CASE both = {}
      BY <2>1 DEF WorkCostDelta
    <2>2. CASE both # {}
      <3>1. PICK p \in both : p = CHOOSE r \in both : TRUE
        BY <2>2
      <3>2. p[1].hourly \in Int /\ p[2].hourly \in Int
        BY <3>1 DEF IsCandidate
      <3>3. WindowMinutes(shift.start, shift.end) \in Int
        <4>1. shift.start \in Int /\ shift.end \in Int
          BY DEF IsShift
        <4> QED
          BY <4>1 DEF WindowMinutes, DayMinutes
      <3>4. WorkCostDelta(shift, c) = ((p[1].hourly - p[2].hourly) * WindowMinutes(shift.start, shift.end)) \div 60
        BY <2>2, <3>1 DEF WorkCostDelta
      <3>5. (p[1].hourly - p[2].hourly) * WindowMinutes(shift.start, shift.end) \in Int
        BY <3>2, <3>3
      <3> QED
        BY <3>4, <3>5
    <2> QED
      BY <2>1, <2>2
  <1> QED
    BY <1>1, <1>2 DEF TotalCost

\* RankBefore compares the four keys from left to right.
LexBefore(p, q) ==
  \/ p[1] < q[1]
  \/ p[1] = q[1] /\ p[2] < q[2]
  \/ p[1] = q[1] /\ p[2] = q[2] /\ p[3] < q[3]
  \/ p[1] = q[1] /\ p[2] = q[2] /\ p[3] = q[3] /\ p[4] < q[4]

RankKey(shift, pool, x) == <<TotalCost(shift, pool[x]), Hours(shift, pool[x]), Preferred(shift, pool[x]), x>>

LEMMA RankBeforeIs ==
  ASSUME NEW shift, NEW pool, NEW a \in Int, NEW b \in Int,
         NEW p, p = RankKey(shift, pool, a), p \in Int \X Int \X Int \X Int,
         NEW q, q = RankKey(shift, pool, b), q \in Int \X Int \X Int \X Int
  PROVE  RankBefore(shift, pool, a, b) <=> LexBefore(p, q)
  <1> DEFINE Differs(i) == p[i] # q[i] /\ \A j \in 1..(i - 1) : p[j] = q[j]
             first == CHOOSE i \in 1..4 : Differs(i)
  <1>1. RankBefore(shift, pool, a, b) <=> a # b /\ p[first] < q[first]
    BY DEF RankBefore, RankKey
  <1>2. p[4] = a /\ q[4] = b
    BY DEF RankKey
  <1>3. CASE a = b
    BY <1>1, <1>3 DEF LexBefore, RankKey
  <1>4. CASE a # b
    <2>1. \E i \in 1..4 : Differs(i)
      <3>1. CASE p[1] # q[1]
        <4>1. Differs(1)
          BY <3>1
        <4> QED
          BY <4>1
      <3>2. CASE p[1] = q[1] /\ p[2] # q[2]
        <4>1. Differs(2)
          BY <3>2
        <4> QED
          BY <4>1
      <3>3. CASE p[1] = q[1] /\ p[2] = q[2] /\ p[3] # q[3]
        <4>1. Differs(3)
          BY <3>3
        <4> QED
          BY <4>1
      <3>4. CASE p[1] = q[1] /\ p[2] = q[2] /\ p[3] = q[3]
        <4>1. Differs(4)
          BY <1>2, <1>4, <3>4
        <4> QED
          BY <4>1
      <3> QED
        BY <3>1, <3>2, <3>3, <3>4
    <2>2. PICK i \in 1..4 : i = first /\ Differs(i)
      BY <2>1
    <2> HIDE DEF first
    <2>3. LexBefore(p, q) <=> p[i] < q[i]
      BY <2>2 DEF LexBefore
    <2> QED
      BY <1>1, <1>4, <2>2, <2>3
  <1> QED
    BY <1>3, <1>4

\* Who is asked: everybody of the shift's own unit that fits, or else of the others.
AskedFor(shift, pool) ==
  LET own  == {c \in DOMAIN pool : pool[c].local /\ Vetted(shift, pool[c])}
      away == {c \in DOMAIN pool : ~pool[c].local /\ Vetted(shift, pool[c])}
  IN  IF own # {} THEN own ELSE away

LEMMA RankIsOrder ==
  ASSUME NEW q, IsRankQuestion(q), NEW shift, shift = q.shift, NEW pool, pool = q.pool
  PROVE  /\ IsFiniteSet(AskedFor(shift, pool)) /\ AskedFor(shift, pool) \subseteq DOMAIN pool
         /\ \E R : /\ StrictOrder(R, AskedFor(shift, pool))
                   /\ \A a, b \in AskedFor(shift, pool) :
                        <<a, b>> \in R <=> RankBefore(shift, pool, a, b)
         /\ \A a, b \in AskedFor(shift, pool) : RankBefore(shift, pool, a, b) =>
              a # b /\ TotalCost(shift, pool[a]) <= TotalCost(shift, pool[b])
  <1> DEFINE A == AskedFor(shift, pool)
             R == {p \in A \X A : RankBefore(shift, pool, p[1], p[2])}
             Key(a) == RankKey(shift, pool, a)
  <1>1. A \in SUBSET (DOMAIN pool) /\ \A a \in A : Vetted(shift, pool[a])
    BY DEF AskedFor
  <1>2. /\ IsFiniteSet(DOMAIN pool) /\ DOMAIN pool \subseteq Int
        /\ IsShift(shift) /\ \A r \in shift.rate : r.hourly \in Int
        /\ \A c \in DOMAIN pool : IsCandidate(pool[c])
    BY DEF IsRankQuestion
  <1>3. IsFiniteSet(A) /\ A \subseteq Int
    BY <1>1, <1>2, FS_Subset
  <1> HIDE DEF A
  <1>4. ASSUME NEW a \in A
        PROVE  /\ a \in Int /\ TotalCost(shift, pool[a]) \in Int
               /\ Key(a) \in Int \X Int \X Int \X Int
               /\ Key(a)[1] = TotalCost(shift, pool[a]) /\ Key(a)[4] = a
    <2>1. IsCandidate(pool[a]) /\ Vetted(shift, pool[a]) /\ a \in Int
      BY <1>1, <1>2, <1>3
    <2>2. pool[a].local \/ pool[a].travel # {}
      BY <2>1 DEF Vetted
    <2>3. TotalCost(shift, pool[a]) \in Int /\ Hours(shift, pool[a]) \in Int /\ Preferred(shift, pool[a]) \in Int
      BY <1>2, <2>1, <2>2, CostInt, HoursInt DEF Preferred
    <2> QED
      BY <2>1, <2>3 DEF RankKey
  <1> HIDE DEF Key
  <1>5. ASSUME NEW a \in A, NEW b \in A
        PROVE  RankBefore(shift, pool, a, b) <=> LexBefore(Key(a), Key(b))
    BY <1>4, RankBeforeIs DEF Key
  <1>6. ASSUME NEW a \in A, NEW b \in A, RankBefore(shift, pool, a, b)
        PROVE  a # b /\ TotalCost(shift, pool[a]) <= TotalCost(shift, pool[b])
    <2>1. LexBefore(Key(a), Key(b)) /\ Key(a) \in Int \X Int \X Int \X Int /\ Key(b) \in Int \X Int \X Int \X Int
      BY <1>4, <1>5, <1>6
    <2>2. Key(a) # Key(b) /\ Key(a)[1] <= Key(b)[1]
      BY <2>1 DEF LexBefore
    <2> QED
      BY <1>4, <2>2
  <1>7. StrictOrder(R, A)
    <2>1. ASSUME NEW a \in A PROVE <<a, a>> \notin R
      BY <1>6
    <2>2. ASSUME NEW a \in A, NEW b \in A, a # b PROVE <<a, b>> \in R \/ <<b, a>> \in R
      <3>1. Key(a) \in Int \X Int \X Int \X Int /\ Key(b) \in Int \X Int \X Int \X Int
        BY <1>4
      <3>2. Key(a)[4] # Key(b)[4]
        BY <1>4, <2>2
      <3>3. LexBefore(Key(a), Key(b)) \/ LexBefore(Key(b), Key(a))
        BY <3>1, <3>2 DEF LexBefore
      <3> QED
        BY <1>5, <3>3
    <2>3. ASSUME NEW a \in A, NEW b \in A, NEW c \in A, <<a, b>> \in R, <<b, c>> \in R PROVE <<a, c>> \in R
      <3>1. /\ Key(a) \in Int \X Int \X Int \X Int /\ Key(b) \in Int \X Int \X Int \X Int
            /\ Key(c) \in Int \X Int \X Int \X Int
        BY <1>4
      <3>2. LexBefore(Key(a), Key(b)) /\ LexBefore(Key(b), Key(c))
        BY <1>5, <2>3
      <3>3. LexBefore(Key(a), Key(c))
        BY <3>1, <3>2 DEF LexBefore
      <3> QED
        BY <1>5, <3>3
    <2> QED
      BY <2>1, <2>2, <2>3 DEF StrictOrder
  <1>8. \A a, b \in A : <<a, b>> \in R <=> RankBefore(shift, pool, a, b)
    OBVIOUS
  <1> QED
    BY <1>1, <1>3, <1>6, <1>7, <1>8 DEF A

\* Rest and travel fit after every shift that ends in time.
LEMMA ArrivalGap ==
  ASSUME NEW shift, IsShift(shift), NEW c, IsCandidate(c), NEW t \in Int,
         CheckArrivalGap(shift, t, WeekShifts(shift, c)),
         NEW s \in c.shifts, IsoWeek(s.day) = IsoWeek(shift.day), Ends(s) <= Begins(shift)
  PROVE  Ends(s) + RequiredRest + t <= Begins(shift)
  <1> DEFINE held == WeekShifts(shift, c)
             early == {x \in held : Ends(x) <= Begins(shift)}
             before == {Ends(x) : x \in early}
  <1>1. before = {} \/ Begins(shift) - Max(before) >= RequiredRest + t
    BY DEF CheckArrivalGap
  <1>2. s \in early
    BY DEF WeekShifts
  <1>3. IsFiniteSet(early)
    BY FS_Subset DEF WeekShifts, IsCandidate
  <1>4. \A x \in early : Ends(x) \in Int
    BY DEF WeekShifts, IsCandidate, IsShift, Ends, Begins, WindowMinutes, DayMinutes
  <1> HIDE DEF early
  <1>5. IsFiniteSet(before)
    <2> DEFINE end == [x \in early |-> Ends(x)]
    <2>1. end \in Surjection(early, before)
      BY DEF Surjection
    <2> QED
      BY <1>3, <2>1, FS_Surjection
  <1>6. before \subseteq Int /\ Ends(s) \in before
    BY <1>2, <1>4
  <1>7. Max(before) \in Int /\ Max(before) >= Ends(s) /\ Ends(s) \in Int
    BY <1>5, <1>6, MaxIs
  <1>8. Begins(shift) \in Int
    BY DEF Begins, IsShift, DayMinutes
  <1> QED
    BY <1>1, <1>6, <1>7, <1>8 DEF RequiredRest

LEMMA RankedIsSound ==
  ASSUME NEW q \in RankQuestions
  PROVE  RankingSound(q.shift, q.pool, Ranked(q.shift, q.pool))
  <1>1. PICK shift, pool : shift = q.shift /\ pool = q.pool
    OBVIOUS
  <1>2. IsRankQuestion(q)
    BY QuestionsAssumption
  <1> DEFINE A == AskedFor(shift, pool)
             InOrder(s) == \A i, j \in DOMAIN s : i < j => RankBefore(shift, pool, s[i], s[j])
             listing == Ranked(shift, pool)
  <1>3. listing = CHOOSE s \in [1..Cardinality(A) -> A] : InOrder(s)
    BY DEF Ranked, AskedFor
  <1>4. PICK R : /\ StrictOrder(R, A)
                 /\ \A a, b \in A : <<a, b>> \in R <=> RankBefore(shift, pool, a, b)
    BY <1>1, <1>2, RankIsOrder
  <1>5. IsFiniteSet(A) /\ A \subseteq DOMAIN pool
    BY <1>1, <1>2, RankIsOrder
  <1>6. \A a, b \in A : RankBefore(shift, pool, a, b) =>
           a # b /\ TotalCost(shift, pool[a]) <= TotalCost(shift, pool[b])
    BY <1>1, <1>2, RankIsOrder
  <1>7. \E s \in [1..Cardinality(A) -> A] : InOrder(s)
    <2>1. PICK s \in [1..Cardinality(A) -> A] : Sorted(R, A, s)
      BY <1>4, <1>5, SortedExists
    <2>2. InOrder(s)
      BY <1>4, <2>1 DEF Sorted
    <2> QED
      BY <2>1, <2>2
  <1> HIDE DEF listing
  <1>8. listing \in [1..Cardinality(A) -> A] /\ InOrder(listing)
    BY <1>3, <1>7
  <1> SUFFICES ASSUME NEW i \in DOMAIN listing
               PROVE  LET c == pool[listing[i]] IN
                      /\ c.fits
                      /\ c.local \/ ~\E d \in DOMAIN pool : pool[d].local /\ pool[d].fits
                      /\ c.local \/ \E t \in c.travel : t <= MaxTravel /\
                           \A s \in c.shifts : (IsoWeek(s.day) = IsoWeek(shift.day) /\ Ends(s) <= Begins(shift))
                              => Ends(s) + RequiredRest + t <= Begins(shift)
                      /\ \A j \in DOMAIN listing : i < j =>
                           /\ listing[i] # listing[j]
                           /\ TotalCost(shift, c) <= TotalCost(shift, pool[listing[j]])
    BY <1>1 DEF RankingSound, listing
  <1>9. PICK c : c = pool[listing[i]]
    OBVIOUS
  <1>10. listing[i] \in A /\ listing[i] \in DOMAIN pool /\ Vetted(shift, c) /\ IsCandidate(c) /\ IsShift(shift)
    BY <1>1, <1>2, <1>5, <1>8, <1>9 DEF AskedFor, IsRankQuestion
  <1>11. c.fits
    BY <1>10 DEF Vetted
  <1>12. c.local \/ ~\E d \in DOMAIN pool : pool[d].local /\ pool[d].fits
    BY <1>9, <1>10 DEF AskedFor, Vetted
  <1>13. ASSUME ~c.local
         PROVE  \E t \in c.travel : t <= MaxTravel /\
                  \A s \in c.shifts : (IsoWeek(s.day) = IsoWeek(shift.day) /\ Ends(s) <= Begins(shift))
                     => Ends(s) + RequiredRest + t <= Begins(shift)
    <2>1. PICK t \in c.travel : t \in Int /\ t <= MaxTravel /\ CheckArrivalGap(shift, t, WeekShifts(shift, c))
      BY <1>10, <1>13 DEF Vetted, IsCandidate
    <2> QED
      BY <1>10, <2>1, ArrivalGap
  <1>14. ASSUME NEW j \in DOMAIN listing, i < j
         PROVE  listing[i] # listing[j] /\ TotalCost(shift, c) <= TotalCost(shift, pool[listing[j]])
    <2>1. listing[i] \in A /\ listing[j] \in A /\ RankBefore(shift, pool, listing[i], listing[j])
      BY <1>8, <1>14
    <2> QED
      BY <1>6, <1>9, <2>1
  <1> QED
    BY <1>9, <1>11, <1>12, <1>13, <1>14

(***************************************************************************)
(* Folds over a sequence.  FoldLeft folds over the sets of indices and     *)
(* takes the largest first; such a function exists, and along 1..k it is   *)
(* the chain of the intermediate results.                                  *)
(***************************************************************************)
Folding(g, step, base, S) ==
  g = [U \in SUBSET S |-> IF U = {} THEN base ELSE step[<<Max(U), g[U \ {Max(U)}]>>]]

LEMMA IndicesFinite ==
  ASSUME NEW n \in Nat, NEW U \in SUBSET (1..n)
  PROVE  IsFiniteSet(U)
  <1>1. IsFiniteSet(1..n)
    BY FS_Interval
  <1> QED
    BY <1>1, FS_Subset

LEMMA MaxIn ==
  ASSUME NEW n \in Nat, NEW U \in SUBSET (1..n), U # {}
  PROVE  Max(U) \in U
  <1>1. IsFiniteSet(U)
    BY IndicesFinite
  <1>2. U \subseteq Int
    OBVIOUS
  <1> QED
    BY <1>1, <1>2, MaxIs

\* Two folds of the same step give the same on whatever indices both fold.
Agree(n, g, S, h, T) == \A V \in SUBSET (1..n) : (V \subseteq S /\ V \subseteq T) => g[V] = h[V]

LEMMA FoldsAgree ==
  ASSUME NEW n \in Nat, NEW S, NEW T, NEW step, NEW base, NEW g, NEW h,
         Folding(g, step, base, S), Folding(h, step, base, T)
  PROVE  Agree(n, g, S, h, T)
  <1> SUFFICES ASSUME NEW V \in SUBSET (1..n), V \subseteq S, V \subseteq T PROVE g[V] = h[V]
    BY DEF Agree
  <1> DEFINE B == {U \in SUBSET V : g[U] # h[U]}
  <1>1. SUFFICES ASSUME B # {} PROVE FALSE
    OBVIOUS
  <1>2. IsFiniteSet(V)
    BY IndicesFinite
  <1>3. PICK U \in B : \A x \in U : U \ {x} \notin B
    <2> HIDE DEF B
    <2>1. B \in SUBSET SUBSET V
      BY DEF B
    <2> QED
      BY <1>1, <1>2, <2>1, LeastSubset
  <1>4. U \in SUBSET S /\ U \in SUBSET T /\ U \in SUBSET V /\ g[U] # h[U]
    BY <1>3
  <1>5. U # {}
    BY <1>4 DEF Folding
  <1>6. U \in SUBSET (1..n)
    BY <1>4
  <1>7. PICK x \in U : x = Max(U)
    BY <1>5, <1>6, MaxIn
  <1>8. g[U \ {x}] = h[U \ {x}]
    BY <1>3, <1>4
  <1>9. g[U] = step[<<x, g[U \ {x}]>>]
    BY <1>4, <1>5, <1>7 DEF Folding
  <1>10. h[U] = step[<<x, h[U \ {x}]>>]
    BY <1>4, <1>5, <1>7 DEF Folding
  <1> QED
    BY <1>4, <1>8, <1>9, <1>10

LEMMA FoldExists ==
  ASSUME NEW n \in Nat, NEW S \in SUBSET (1..n), NEW step, NEW base
  PROVE  \E g : Folding(g, step, base, S)
  <1> DEFINE B == {U \in SUBSET S : ~\E g : Folding(g, step, base, U)}
  <1>1. SUFFICES ASSUME B # {} PROVE FALSE
    OBVIOUS
  <1>2. PICK U \in B : \A x \in U : U \ {x} \notin B
    <2> HIDE DEF B
    <2>1. B \in SUBSET SUBSET S
      BY DEF B
    <2>2. IsFiniteSet(S)
      BY IndicesFinite
    <2> QED
      BY <1>1, <2>1, <2>2, LeastSubset
  <1>3. U \in SUBSET S /\ U \in SUBSET (1..n) /\ ~\E g : Folding(g, step, base, U)
    BY <1>2
  <1>4. \A x \in U : \E g : Folding(g, step, base, U \ {x})
    BY <1>2, <1>3
  <1> DEFINE Sub(x) == CHOOSE g : Folding(g, step, base, U \ {x})
  <1>5. \A x \in U : Folding(Sub(x), step, base, U \ {x})
    BY <1>4
  <1> DEFINE H(V) == Sub(Elem(U \ V))[V]
  <1> HIDE DEF Sub
  <1>6. ASSUME NEW V \in SUBSET U, V # U, V # {}
        PROVE  H(V) = step[<<Max(V), H(V \ {Max(V)})>>]
    <2>1. PICK x \in U \ V : x = Elem(U \ V)
      BY <1>6, ElemIn
    <2>2. PICK z \in V : z = Max(V)
      <3>1. V \in SUBSET (1..n)
        BY <1>3
      <3> QED
        BY <1>6, <3>1, MaxIn
    <2>3. PICK y \in U \ (V \ {z}) : y = Elem(U \ (V \ {z}))
      BY <2>2, ElemIn
    <2>4. Folding(Sub(x), step, base, U \ {x}) /\ Folding(Sub(y), step, base, U \ {y})
      BY <1>5
    <2>5. V \in SUBSET (U \ {x}) /\ V \ {z} \subseteq U \ {x} /\ V \ {z} \subseteq U \ {y}
      BY <2>1, <2>2, <2>3
    <2>6. Sub(x)[V] = step[<<z, Sub(x)[V \ {z}]>>]
      BY <1>6, <2>2, <2>4, <2>5 DEF Folding
    <2>7. V \ {z} \in SUBSET (1..n)
      BY <1>3
    <2>8. Sub(x)[V \ {z}] = Sub(y)[V \ {z}]
      <3>1. PICK rest, g, h, A, C : rest = V \ {z} /\ g = Sub(x) /\ h = Sub(y) /\ A = U \ {x} /\ C = U \ {y}
        OBVIOUS
      <3>2. /\ Folding(g, step, base, A) /\ Folding(h, step, base, C)
            /\ rest \in SUBSET (1..n) /\ rest \subseteq A /\ rest \subseteq C
        BY <2>4, <2>5, <2>7, <3>1
      <3>3. Agree(n, g, A, h, C)
        BY <3>2, FoldsAgree
      <3> QED
        BY <3>1, <3>2, <3>3 DEF Agree
    <2> QED
      BY <2>1, <2>2, <2>3, <2>6, <2>8
  <1>7. ASSUME NEW V, V = {}, V # U PROVE H(V) = base
    <2>1. PICK x \in U \ V : x = Elem(U \ V)
      BY <1>7, ElemIn
    <2>2. Folding(Sub(x), step, base, U \ {x}) /\ V \in SUBSET (U \ {x})
      BY <1>5, <1>7
    <2> QED
      BY <1>7, <2>1, <2>2 DEF Folding
  <1> HIDE DEF H
  <1> DEFINE G == [V \in SUBSET U |-> IF V = {} THEN base
                                      ELSE IF V = U THEN step[<<Max(V), H(V \ {Max(V)})>>] ELSE H(V)]
  <1>8. ASSUME NEW V \in SUBSET U
        PROVE  G[V] = IF V = {} THEN base ELSE step[<<Max(V), G[V \ {Max(V)}]>>]
    <2>1. CASE V = {}
      BY <2>1
    <2>2. CASE V # {}
      <3>1. PICK z \in V : z = Max(V)
        <4>1. V \in SUBSET (1..n)
          BY <1>3
        <4> QED
          BY <2>2, <4>1, MaxIn
      <3>2. V \ {z} \in SUBSET U /\ V \ {z} # U
        BY <3>1
      <3>3. G[V \ {z}] = H(V \ {z})
        BY <1>7, <3>2
      <3>4. G[V] = step[<<z, H(V \ {z})>>]
        BY <1>6, <2>2, <3>1
      <3> QED
        BY <2>2, <3>1, <3>3, <3>4
    <2> QED
      BY <2>1, <2>2
  <1>9. Folding(G, step, base, U)
    <2> DEFINE K == [V \in SUBSET U |-> IF V = {} THEN base ELSE step[<<Max(V), G[V \ {Max(V)}]>>]]
    <2>1. DOMAIN G = SUBSET U /\ G = [V \in SUBSET U |-> G[V]]
      OBVIOUS
    <2> HIDE DEF G
    <2>2. G = K
      BY <1>8, <2>1
    <2> QED
      BY <2>2 DEF Folding
  <1> QED
    BY <1>3, <1>9

LEMMA FoldTyped ==
  ASSUME NEW n \in Nat, NEW D, NEW base \in D, NEW step \in [(1..n) \X D -> D],
         NEW g, Folding(g, step, base, 1..n), NEW V \in SUBSET (1..n)
  PROVE  g[V] \in D
  <1> DEFINE B == {U \in SUBSET (1..n) : g[U] \notin D}
  <1>1. SUFFICES ASSUME B # {} PROVE FALSE
    OBVIOUS
  <1>2. PICK U \in B : \A x \in U : U \ {x} \notin B
    <2> HIDE DEF B
    <2>1. B \in SUBSET SUBSET (1..n)
      BY DEF B
    <2>2. IsFiniteSet(1..n)
      BY FS_Interval
    <2> QED
      BY <1>1, <2>1, <2>2, LeastSubset
  <1>3. U \in SUBSET (1..n) /\ g[U] \notin D
    BY <1>2
  <1>4. U # {}
    BY <1>3 DEF Folding
  <1>5. PICK x \in U : x = Max(U)
    BY <1>3, <1>4, MaxIn
  <1>6. g[U \ {x}] \in D
    BY <1>2, <1>3
  <1>7. g[U] = step[<<x, g[U \ {x}]>>]
    BY <1>3, <1>4, <1>5 DEF Folding
  <1>8. <<x, g[U \ {x}]>> \in (1..n) \X D
    BY <1>3, <1>6
  <1> QED
    BY <1>3, <1>7, <1>8

\* The indices up to k, the largest taken away.
LEMMA Upto ==
  ASSUME NEW n \in Nat, NEW k \in 1..n
  PROVE  1..k \in SUBSET (1..n) /\ 1..k # {} /\ Max(1..k) = k /\ (1..k) \ {k} = 1..(k - 1)
  <1>1. 1..k \in SUBSET (1..n) /\ 1..k # {} /\ (1..k) \ {k} = 1..(k - 1)
    OBVIOUS
  <1>2. IsFiniteSet(1..k) /\ 1..k \subseteq Int
    BY FS_Interval
  <1>3. Max(1..k) \in 1..k /\ \A y \in 1..k : Max(1..k) >= y
    BY <1>1, <1>2, MaxIs
  <1> QED
    BY <1>1, <1>3

\* What holds at 0 and passes from each index to the next holds up to n.
LEMMA Onwards ==
  ASSUME NEW n \in Nat, NEW G \in SUBSET (0..n), 0 \in G, \A k \in 1..n : k - 1 \in G => k \in G
  PROVE  G = 0..n
  <1> DEFINE B == {k \in 1..n : k \notin G}
  <1>1. SUFFICES ASSUME B # {} PROVE FALSE
    <2>1. \A k \in 0..n : k = 0 \/ k \in 1..n
      OBVIOUS
    <2> QED
      BY <2>1
  <1> DEFINE R == {p \in B \X B : p[1] < p[2]}
  <1>2. IsFiniteSet(B)
    <2>1. B \in SUBSET (1..n)
      OBVIOUS
    <2> QED
      BY <2>1, IndicesFinite
  <1>3. StrictOrder(R, B) /\ \A p \in R : p[1] < p[2]
    BY DEF StrictOrder
  <1> HIDE DEF R
  <1>4. B \subseteq Int
    OBVIOUS
  <1> HIDE DEF B
  <1>5. PICK s \in [1..Cardinality(B) -> B] : Sorted(R, B, s)
    BY <1>2, <1>3, SortedExists
  <1>6. /\ \A x \in B : \E i \in DOMAIN s : s[i] = x
        /\ \A i, j \in DOMAIN s : i # j => s[i] # s[j]
    BY <1>2, <1>3, <1>5, SortedCovers
  <1>7. Cardinality(B) \in Nat /\ Cardinality(B) # 0
    BY <1>1, <1>2, FS_CardinalityType, FS_EmptySet
  <1>8. PICK k \in B : k = s[1]
    BY <1>5, <1>7
  <1>9. k \in 1..n /\ k \notin G
    BY DEF B
  <1>10. k - 1 \notin G /\ k - 1 \in 0..n /\ k - 1 \in B
    BY <1>9 DEF B
  <1>11. PICK i \in DOMAIN s : s[i] = k - 1
    BY <1>6, <1>10
  <1>12. i = 1 \/ 1 < i
    BY <1>5
  <1>13. CASE i = 1
    BY <1>8, <1>9, <1>11, <1>13
  <1>14. CASE 1 < i
    <2>1. <<s[1], s[i]>> \in R
      BY <1>5, <1>7, <1>11, <1>14 DEF Sorted
    <2>2. k < k - 1
      BY <1>3, <1>8, <1>11, <2>1
    <2> QED
      BY <1>9, <2>2
  <1> QED
    BY <1>12, <1>13, <1>14

-----------------------------------------------------------------------------
(* The agent's proposal *)

Roster(P) == P.employees \X DOMAIN P.demands

EligibleOf(P, id) == {e \in P.employees : EligibleFor(P, e, id)}

Scores(aff) == \A k \in DOMAIN aff : aff[k] \in Int

LEMMA ScoreInt ==
  ASSUME NEW P, IsProblem(P), NEW aff, Scores(aff), NEW e \in P.employees, NEW id \in DOMAIN P.demands
  PROVE  BaseScore(P, e, id) \in Int /\ ScoreCandidate(P, aff, e, id) \in Int
  <1>1. /\ IsFiniteSet(P.quals[e]) /\ P.etat[e] \in Int /\ P.history[e] \in Int
        /\ \A loc \in DOMAIN P.minutes[e] : P.minutes[e][loc] \in Int
    BY DEF IsProblem
  <1>2. Commute(P, e, P.demands[id].loc) \in Int
    BY <1>1 DEF Commute, NeutralCommute
  <1> DEFINE q == Cardinality(P.quals[e])
             m == Max({1, q})
  <1>3. q \in Nat
    BY <1>1, FS_CardinalityType
  <1> HIDE DEF q
  <1>4. {1, q} \subseteq Int /\ {1, q} # {} /\ IsFiniteSet({1, q})
    <2>1. IsFiniteSet({1}) /\ {1, q} = {1} \cup {q}
      BY FS_Singleton
    <2> QED
      BY <1>3, <2>1, FS_AddElement
  <1>5. m \in Int /\ m >= 1
    BY <1>3, <1>4, MaxIs
  <1> HIDE DEF m
  <1>6. 200 \div m \in Int
    BY <1>5
  <1>7. BaseScore(P, e, id)
          = 500 * P.etat[e] - 10 * Commute(P, e, P.demands[id].loc) - 4 * P.history[e] + 200 \div m
    BY DEF BaseScore, m, q
  <1>8. BaseScore(P, e, id) \in Int
    BY <1>1, <1>2, <1>6, <1>7
  <1>9. AffinityOf(aff, <<e, Signature(P.demands[id])>>) \in Int
    BY DEF AffinityOf, Scores
  <1> QED
    BY <1>8, <1>9 DEF ScoreCandidate

\* The candidates of a demand, best first, each once.
LEMMA RankedForIs ==
  ASSUME NEW P, IsProblem(P), NEW aff, Scores(aff), NEW id \in DOMAIN P.demands
  PROVE  LET E == EligibleOf(P, id)
             s == RankedFor(P, aff, id)
         IN  /\ IsFiniteSet(E) /\ E \subseteq P.employees
             /\ s \in [1..Cardinality(E) -> E]
             /\ \A i, j \in DOMAIN s : i < j => ScoresBefore(P, aff, id, s[i], s[j])
             /\ \A e \in E : \E i \in DOMAIN s : s[i] = e
             /\ \A i, j \in DOMAIN s : i # j => s[i] # s[j]
  <1> DEFINE E == EligibleOf(P, id)
             R == {p \in E \X E : ScoresBefore(P, aff, id, p[1], p[2])}
             InOrder(s) == \A i, j \in DOMAIN s : i < j => ScoresBefore(P, aff, id, s[i], s[j])
             s == RankedFor(P, aff, id)
  <1>1. IsFiniteSet(E) /\ E \subseteq P.employees /\ E \subseteq Nat
    <2>1. E \in SUBSET P.employees /\ IsFiniteSet(P.employees) /\ P.employees \subseteq Nat
      BY DEF IsProblem, EligibleOf
    <2> QED
      BY <2>1, FS_Subset
  <1>2. StrictOrder(R, E) /\ \A a, b \in E : <<a, b>> \in R <=> ScoresBefore(P, aff, id, a, b)
    <2>1. \A e \in E : ScoreCandidate(P, aff, e, id) \in Int /\ e \in Int
      BY <1>1, ScoreInt
    <2> HIDE DEF E
    <2>2. StrictOrder(R, E)
      BY <2>1 DEF StrictOrder, ScoresBefore
    <2> QED
      BY <2>2
  <1>3. s = CHOOSE t \in [1..Cardinality(E) -> E] : InOrder(t)
    BY DEF RankedFor, EligibleOf
  <1> HIDE DEF R, E, s
  <1>4. \E t \in [1..Cardinality(E) -> E] : InOrder(t)
    <2>1. PICK t \in [1..Cardinality(E) -> E] : Sorted(R, E, t)
      BY <1>1, <1>2, SortedExists
    <2> QED
      BY <1>2, <2>1 DEF Sorted
  <1>5. s \in [1..Cardinality(E) -> E] /\ InOrder(s)
    BY <1>3, <1>4
  <1>6. Sorted(R, E, s)
    BY <1>2, <1>5 DEF Sorted
  <1>7. /\ \A x \in E : \E i \in DOMAIN s : s[i] = x
        /\ \A i, j \in DOMAIN s : i # j => s[i] # s[j]
    BY <1>1, <1>2, <1>5, <1>6, SortedCovers
  <1> QED
    BY <1>1, <1>5, <1>7 DEF E, s

FillStep(P, id, y, e) ==
  IF Cardinality(Crew(y, id)) >= P.demands[id].count \/ Conflicts(P, y, e, id) THEN y ELSE y \cup {<<e, id>>}

\* The fill of a demand, candidate by candidate.
FillRun(P, aff, x, id, n, c) ==
  /\ c \in [0..n -> SUBSET Roster(P)]
  /\ c[0] = x
  /\ \A k \in 1..n : c[k] = FillStep(P, id, c[k - 1], RankedFor(P, aff, id)[k])
  /\ FillDemand(P, aff, x, id) = c[n]

LEMMA FillChain ==
  ASSUME NEW P, NEW aff, NEW id \in DOMAIN P.demands, NEW x \in SUBSET Roster(P),
         NEW n \in Nat, RankedFor(P, aff, id) \in [1..n -> P.employees]
  PROVE  \E c : FillRun(P, aff, x, id, n, c)
  <1>0. PICK r : r = RankedFor(P, aff, id)
    OBVIOUS
  <1> DEFINE s == RankedFor(P, aff, id)
             Fills(it) == it = [U \in SUBSET DOMAIN s |->
               IF U = {} THEN x
               ELSE IF Cardinality(Crew(it[U \ {Max(U)}], id)) >= P.demands[id].count
                       \/ Conflicts(P, it[U \ {Max(U)}], s[Max(U)], id)
                    THEN it[U \ {Max(U)}] ELSE it[U \ {Max(U)}] \cup {<<s[Max(U)], id>>}]
             g == CHOOSE it : Fills(it)
             D == SUBSET Roster(P)
             step == [p \in (1..n) \X D |-> FillStep(P, id, p[2], r[p[1]])]
  <1>1. FillDemand(P, aff, x, id) = g[DOMAIN s]
    BY DEF FillDemand, FoldLeft, MapThenFoldSet
  <1>2. ASSUME NEW it
        PROVE  Fills(it) <=> it = [U \in SUBSET (1..n) |->
                                    IF U = {} THEN x ELSE FillStep(P, id, it[U \ {Max(U)}], r[Max(U)])]
    BY <1>0, Zenon DEF FillStep
  <1> HIDE DEF Fills, s
  <1>3. ASSUME NEW y \in D, NEW e \in P.employees PROVE FillStep(P, id, y, e) \in D
    BY <1>3 DEF FillStep, Roster
  <1> HIDE DEF D
  <1>4. step \in [(1..n) \X D -> D]
    BY <1>0, <1>3
  <1>5. PICK f : Folding(f, step, x, 1..n)
    <2>1. 1..n \in SUBSET (1..n)
      OBVIOUS
    <2> QED
      BY <2>1, FoldExists
  <1>6. \A V \in SUBSET (1..n) : f[V] \in D
    <2>1. x \in D
      BY DEF D
    <2> QED
      BY <1>4, <1>5, <2>1, FoldTyped
  <1>7. ASSUME NEW U \in SUBSET (1..n), U # {}
        PROVE  step[<<Max(U), f[U \ {Max(U)}]>>] = FillStep(P, id, f[U \ {Max(U)}], r[Max(U)])
    <2>1. Max(U) \in 1..n
      BY <1>7, MaxIn
    <2>2. f[U \ {Max(U)}] \in D
      BY <1>6
    <2> QED
      BY <2>1, <2>2
  <1>8. Fills(f)
    <2>1. f = [U \in SUBSET (1..n) |-> IF U = {} THEN x ELSE FillStep(P, id, f[U \ {Max(U)}], r[Max(U)])]
      BY <1>5, <1>7 DEF Folding
    <2> QED
      BY <1>2, <2>1
  <1>9. Fills(g)
    BY <1>8
  <1> HIDE DEF g, step
  <1>10. /\ g[{}] = x
         /\ \A U \in SUBSET (1..n) : U # {} => g[U] = FillStep(P, id, g[U \ {Max(U)}], r[Max(U)])
    BY <1>2, <1>9
  <1> DEFINE c == [k \in 0..n |-> g[1..k]]
  <1>11. c[0] = x
    BY <1>10
  <1>12. ASSUME NEW k \in 1..n PROVE c[k] = FillStep(P, id, c[k - 1], r[k])
    <2>1. g[1..k] = FillStep(P, id, g[1..(k - 1)], r[k])
      <3>1. 1..k \in SUBSET (1..n) /\ 1..k # {} /\ Max(1..k) = k /\ (1..k) \ {k} = 1..(k - 1)
        BY Upto
      <3> QED
        BY <1>10, <3>1
    <2>2. k - 1 \in 0..n /\ k \in 0..n
      OBVIOUS
    <2> QED
      BY <2>1, <2>2
  <1>13. c[n] = FillDemand(P, aff, x, id)
    <2>1. DOMAIN s = 1..n
      BY DEF s
    <2> QED
      BY <1>1, <2>1
  <1>14. DOMAIN c = 0..n /\ c = [k \in 0..n |-> c[k]]
    OBVIOUS
  <1> HIDE DEF c
  <1>15. \A k \in 0..n : c[k] \in D
    <2> DEFINE Good == {k \in 0..n : c[k] \in D}
    <2>1. 0 \in Good
      BY <1>11 DEF D
    <2>2. ASSUME NEW k \in 1..n, k - 1 \in Good PROVE k \in Good
      <3>1. r[k] \in P.employees /\ k \in 0..n
        BY <1>0
      <3> QED
        BY <1>3, <1>12, <2>2, <3>1
    <2>3. Good \in SUBSET (0..n)
      OBVIOUS
    <2> HIDE DEF Good
    <2>4. Good = 0..n
      BY <2>1, <2>2, <2>3, Onwards
    <2> QED
      BY <2>4 DEF Good
  <1>16. c \in [0..n -> D]
    BY <1>14, <1>15
  <1> QED
    BY <1>0, <1>11, <1>12, <1>13, <1>16 DEF D, FillRun

\* Who could take a place on a demand, given what is assigned already.
Available(P, x, id) == {e \in EligibleOf(P, id) : ~Conflicts(P, x, e, id)}

\* The best of them take the places there are.
Picked(P, aff, x, id, C) ==
  /\ C \subseteq Available(P, x, id)
  /\ Cardinality(C) <= P.demands[id].count
  /\ \A e \in Available(P, x, id) \ C :
       Cardinality(C) = P.demands[id].count /\ \A f \in C : ScoresBefore(P, aff, id, f, e)

LEMMA CrewFinite ==
  ASSUME NEW P, IsProblem(P), NEW C \in SUBSET P.employees
  PROVE  IsFiniteSet(C) /\ Cardinality(C) \in Nat
  <1>1. IsFiniteSet(P.employees)
    BY DEF IsProblem
  <1>2. IsFiniteSet(C)
    BY <1>1, FS_Subset
  <1> QED
    BY <1>2, FS_CardinalityType

LEMMA CrewAdd ==
  ASSUME NEW y, NEW e, NEW id
  PROVE  Crew(y \cup {<<e, id>>}, id) = Crew(y, id) \cup {e}
  <1>1. ASSUME NEW f PROVE f \in Crew(y \cup {<<e, id>>}, id) <=> f \in Crew(y, id) \cup {e}
    <2>1. f \in Crew(y \cup {<<e, id>>}, id) <=> \E b \in y \cup {<<e, id>>} : b[2] = id /\ b[1] = f
      BY DEF Crew
    <2>2. f \in Crew(y, id) <=> \E b \in y : b[2] = id /\ b[1] = f
      BY DEF Crew
    <2>3. <<e, id>>[1] = e /\ <<e, id>>[2] = id
      OBVIOUS
    <2> QED
      BY <2>1, <2>2, <2>3
  <1> QED
    BY <1>1

LEMMA PlaceAdd ==
  ASSUME NEW x, NEW B, NEW e, NEW id
  PROVE  (x \cup (B \X {id})) \cup {<<e, id>>} = x \cup ((B \cup {e}) \X {id})
  <1>1. (B \cup {e}) \X {id} = (B \X {id}) \cup {<<e, id>>}
    OBVIOUS
  <1> QED
    BY <1>1

LEMMA FillPicks ==
  ASSUME NEW P, IsProblem(P), NEW aff, Scores(aff), NEW id \in DOMAIN P.demands,
         NEW x \in SUBSET Roster(P), Crew(x, id) = {}
  PROVE  \E C : Picked(P, aff, x, id, C) /\ FillDemand(P, aff, x, id) = x \cup (C \X {id})
  <1> DEFINE E == EligibleOf(P, id)
             count == P.demands[id].count
  <1>1. PICK n, s : n = Cardinality(E) /\ s = RankedFor(P, aff, id)
    OBVIOUS
  <1>2. n \in Nat /\ s \in [1..n -> E] /\ E \subseteq P.employees
    <2>1. IsFiniteSet(E) /\ E \subseteq P.employees /\ s \in [1..Cardinality(E) -> E]
      BY <1>1, RankedForIs
    <2> QED
      BY <1>1, <2>1, FS_CardinalityType
  <1>3. /\ \A i, j \in 1..n : i < j => ScoresBefore(P, aff, id, s[i], s[j])
        /\ \A e \in E : \E i \in 1..n : s[i] = e
        /\ \A i, j \in 1..n : i # j => s[i] # s[j]
    <2>1. /\ \A i, j \in DOMAIN s : i < j => ScoresBefore(P, aff, id, s[i], s[j])
          /\ \A e \in E : \E i \in DOMAIN s : s[i] = e
          /\ \A i, j \in DOMAIN s : i # j => s[i] # s[j]
      BY <1>1, RankedForIs
    <2> QED
      BY <1>2, <2>1
  <1>4. PICK c \in [0..n -> SUBSET Roster(P)] :
            /\ c[0] = x
            /\ \A k \in 1..n : c[k] = FillStep(P, id, c[k - 1], s[k])
            /\ FillDemand(P, aff, x, id) = c[n]
    <2>1. n \in Nat /\ RankedFor(P, aff, id) \in [1..n -> P.employees]
      BY <1>1, <1>2
    <2>2. PICK c : FillRun(P, aff, x, id, n, c)
      BY <2>1, FillChain
    <2> QED
      BY <1>1, <2>2 DEF FillRun
  <1>5. count \in Nat
    BY DEF IsProblem, IsDemand
  <1> HIDE DEF E
  <1> DEFINE A == Available(P, x, id)
             C(k) == Crew(c[k], id)
             Fills(k) ==
               /\ c[k] = x \cup (C(k) \X {id})
               /\ C(k) \subseteq A
               /\ \A f \in C(k) : \E j \in 1..k : s[j] = f
               /\ Cardinality(C(k)) <= count
               /\ \A i \in 1..k : s[i] \in A \ C(k) =>
                    Cardinality(C(k)) = count /\ \A f \in C(k) : \E j \in 1..(i - 1) : s[j] = f
             Good == {k \in 0..n : Fills(k)}
  <1>6. A \subseteq E /\ A \subseteq P.employees
    BY <1>2 DEF Available, E
  <1>7. Fills(0)
    <2>1. C(0) = {}
      BY <1>4
    <2>2. Cardinality({}) = 0
      BY FS_EmptySet
    <2> QED
      BY <1>4, <1>5, <2>1, <2>2
  <1>8. ASSUME NEW k \in 1..n, Fills(k - 1) PROVE Fills(k)
    <2>1. PICK e, B, y : e = s[k] /\ B = C(k - 1) /\ y = c[k - 1]
      OBVIOUS
    <2>2. e \in E /\ e \in P.employees
      BY <1>2, <2>1
    <2>3. /\ y = x \cup (B \X {id}) /\ B = Crew(y, id) /\ B \subseteq A
          /\ \A f \in B : \E j \in 1..(k - 1) : s[j] = f
          /\ Cardinality(B) <= count
      BY <1>8, <2>1
    <2>4. \A i \in 1..(k - 1) : s[i] \in A \ B =>
            Cardinality(B) = count /\ \A f \in B : \E j \in 1..(i - 1) : s[j] = f
      BY <1>8, <2>1
    <2>5. e \notin B
      <3>1. \A j \in 1..(k - 1) : j \in 1..n /\ j # k
        BY <1>2
      <3> QED
        BY <1>3, <2>1, <2>3, <3>1
    <2>6. IsFiniteSet(B) /\ Cardinality(B) \in Nat
      BY <1>6, <2>3, CrewFinite
    <2>7. c[k] = FillStep(P, id, y, e)
      BY <1>4, <2>1
    <2>8. Conflicts(P, y, e, id) <=> Conflicts(P, x, e, id)
      <3>1. Duties(y, e) = Duties(x, e)
        BY <2>3, <2>5 DEF Duties
      <3> QED
        BY <3>1 DEF Conflicts
    <2>9. e \in A <=> ~Conflicts(P, y, e, id)
      BY <2>2, <2>8 DEF Available, E
    <2> HIDE DEF A, C, count
    <2>10. CASE Cardinality(B) >= count \/ Conflicts(P, y, e, id)
      <3>1. c[k] = y /\ C(k) = B
        BY <2>3, <2>7, <2>10 DEF FillStep, C, count
      <3>2. \A f \in B : \E j \in 1..k : s[j] = f
        <4>1. \A j \in 1..(k - 1) : j \in 1..k
          BY <1>2
        <4> QED
          BY <2>3, <4>1
      <3>3. ASSUME NEW i \in 1..k, s[i] \in A \ B
            PROVE  Cardinality(B) = count /\ \A f \in B : \E j \in 1..(i - 1) : s[j] = f
        <4>1. CASE i = k
          BY <1>5, <2>1, <2>3, <2>6, <2>9, <2>10, <3>3, <4>1
        <4>2. CASE i # k
          <5>1. i \in 1..(k - 1)
            BY <4>2
          <5> QED
            BY <2>4, <3>3, <5>1
        <4> QED
          BY <4>1, <4>2
      <3> QED
        BY <2>3, <3>1, <3>2, <3>3
    <2>11. CASE ~(Cardinality(B) >= count \/ Conflicts(P, y, e, id))
      <3>1. c[k] = y \cup {<<e, id>>}
        BY <2>3, <2>7, <2>11 DEF FillStep, count
      <3>2. C(k) = B \cup {e}
        <4>1. Crew(y \cup {<<e, id>>}, id) = Crew(y, id) \cup {e}
          BY CrewAdd
        <4> QED
          BY <2>3, <3>1, <4>1, Zenon DEF C
      <3>3. c[k] = x \cup ((B \cup {e}) \X {id})
        <4>1. (x \cup (B \X {id})) \cup {<<e, id>>} = x \cup ((B \cup {e}) \X {id})
          BY PlaceAdd
        <4> QED
          BY <2>3, <3>1, <4>1, Zenon
      <3>4. B \cup {e} \subseteq A
        BY <2>3, <2>9, <2>11
      <3>5. \A f \in B \cup {e} : \E j \in 1..k : s[j] = f
        <4>1. k \in 1..k /\ \A j \in 1..(k - 1) : j \in 1..k
          BY <1>2
        <4> QED
          BY <2>1, <2>3, <4>1
      <3>6. Cardinality(B \cup {e}) = Cardinality(B) + 1
        BY <2>5, <2>6, FS_AddElement
      <3>7. Cardinality(B) < count
        BY <1>5, <2>6, <2>11
      <3>8. Cardinality(B \cup {e}) <= count
        BY <1>5, <2>6, <3>6, <3>7
      <3>9. ASSUME NEW i \in 1..k, s[i] \in A \ (B \cup {e}) PROVE FALSE
        <4>1. i \in 1..(k - 1)
          BY <2>1, <3>9
        <4> QED
          BY <2>4, <2>6, <3>7, <3>9, <4>1
      <3> QED
        BY <3>2, <3>3, <3>4, <3>5, <3>8, <3>9
    <2> QED
      BY <2>10, <2>11
  <1> HIDE DEF Fills
  <1>9. Fills(n)
    <2>1. 0 \in Good /\ Good \in SUBSET (0..n) /\ \A k \in 1..n : k - 1 \in Good => k \in Good
      <3>1. 0 \in 0..n /\ \A k \in 1..n : k \in 0..n
        BY <1>2
      <3> QED
        BY <1>2, <1>7, <1>8, <3>1
    <2> HIDE DEF Good
    <2>2. Good = 0..n
      BY <1>2, <2>1, Onwards
    <2> QED
      BY <1>2, <2>2 DEF Good
  <1> USE DEF Fills
  <1>10. Picked(P, aff, x, id, C(n))
    <2> HIDE DEF A, C
    <2>1. ASSUME NEW e \in A \ C(n)
          PROVE  Cardinality(C(n)) = count /\ \A f \in C(n) : ScoresBefore(P, aff, id, f, e)
      <3>1. PICK i \in 1..n : s[i] = e
        BY <1>3, <1>6
      <3>2. Cardinality(C(n)) = count /\ \A f \in C(n) : \E j \in 1..(i - 1) : s[j] = f
        BY <1>9, <3>1
      <3>3. \A j \in 1..(i - 1) : j \in 1..n /\ j < i
        BY <1>2
      <3> QED
        BY <1>3, <3>1, <3>2, <3>3
    <2> QED
      BY <1>9, <2>1 DEF Picked, A
  <1> QED
    BY <1>4, <1>9, <1>10

ProposeRun(P, aff, n, c) ==
  /\ c \in [0..n -> SUBSET Roster(P)]
  /\ c[0] = {}
  /\ \A k \in 1..n : c[k] = FillDemand(P, aff, c[k - 1], P.order[k])
  /\ ProposeAssignments(P, aff) = c[n]

LEMMA FillTyped ==
  ASSUME NEW P, IsProblem(P), NEW aff, Scores(aff), NEW id \in DOMAIN P.demands, NEW x \in SUBSET Roster(P)
  PROVE  FillDemand(P, aff, x, id) \in SUBSET Roster(P)
  <1>1. PICK n : n = Cardinality(EligibleOf(P, id))
    OBVIOUS
  <1>2. /\ IsFiniteSet(EligibleOf(P, id)) /\ EligibleOf(P, id) \subseteq P.employees
        /\ RankedFor(P, aff, id) \in [1..Cardinality(EligibleOf(P, id)) -> EligibleOf(P, id)]
    BY RankedForIs
  <1>3. n \in Nat /\ RankedFor(P, aff, id) \in [1..n -> P.employees]
    BY <1>1, <1>2, FS_CardinalityType
  <1>4. PICK c : FillRun(P, aff, x, id, n, c)
    BY <1>3, FillChain
  <1>5. n \in 0..n
    BY <1>3
  <1> QED
    BY <1>4, <1>5 DEF FillRun

LEMMA OrderIs ==
  ASSUME NEW P, IsProblem(P)
  PROVE  \E n \in Nat : /\ P.order \in [1..n -> DOMAIN P.demands]
                        /\ \A id \in DOMAIN P.demands : \E i \in 1..n : P.order[i] = id
                        /\ \A i, j \in 1..n : P.order[i] = P.order[j] => i = j
  <1>1. P.order \in Seq(DOMAIN P.demands)
    BY DEF IsProblem
  <1>2. Len(P.order) \in Nat /\ P.order \in [1..Len(P.order) -> DOMAIN P.demands] /\ DOMAIN P.order = 1..Len(P.order)
    BY <1>1
  <1> QED
    BY <1>2 DEF IsProblem

\* The demands are filled one after the other.
LEMMA ProposeChain ==
  ASSUME NEW P, IsProblem(P), NEW aff, Scores(aff),
         NEW n \in Nat, P.order \in [1..n -> DOMAIN P.demands]
  PROVE  \E c : ProposeRun(P, aff, n, c)
  <1>0. PICK o : o = P.order
    OBVIOUS
  <1> DEFINE s == P.order
             Fills(it) == it = [U \in SUBSET DOMAIN s |->
               IF U = {} THEN {} ELSE FillDemand(P, aff, it[U \ {Max(U)}], s[Max(U)])]
             g == CHOOSE it : Fills(it)
             D == SUBSET Roster(P)
             step == [p \in (1..n) \X D |-> FillDemand(P, aff, p[2], o[p[1]])]
  <1>1. ProposeAssignments(P, aff) = g[DOMAIN s]
    BY DEF ProposeAssignments, FoldLeft, MapThenFoldSet
  <1>2. ASSUME NEW it
        PROVE  Fills(it) <=> it = [U \in SUBSET (1..n) |->
                                    IF U = {} THEN {} ELSE FillDemand(P, aff, it[U \ {Max(U)}], o[Max(U)])]
    <2>1. DOMAIN s = 1..n
      OBVIOUS
    <2> QED
      BY <1>0, <2>1, Zenon
  <1> HIDE DEF Fills, s
  <1>3. ASSUME NEW y \in D, NEW k \in 1..n PROVE FillDemand(P, aff, y, o[k]) \in D
    <2>1. o[k] \in DOMAIN P.demands
      BY <1>0
    <2> QED
      BY <2>1, FillTyped
  <1> HIDE DEF D
  <1>4. step \in [(1..n) \X D -> D]
    BY <1>3
  <1>5. PICK f : Folding(f, step, {}, 1..n)
    <2>1. 1..n \in SUBSET (1..n)
      OBVIOUS
    <2> QED
      BY <2>1, FoldExists
  <1>6. \A V \in SUBSET (1..n) : f[V] \in D
    <2>1. {} \in D
      BY DEF D
    <2> QED
      BY <1>4, <1>5, <2>1, FoldTyped
  <1>7. ASSUME NEW U \in SUBSET (1..n), U # {}
        PROVE  step[<<Max(U), f[U \ {Max(U)}]>>] = FillDemand(P, aff, f[U \ {Max(U)}], o[Max(U)])
    <2>1. Max(U) \in 1..n
      BY <1>7, MaxIn
    <2>2. f[U \ {Max(U)}] \in D
      BY <1>6
    <2> QED
      BY <2>1, <2>2
  <1>8. Fills(f)
    <2>1. f = [U \in SUBSET (1..n) |-> IF U = {} THEN {} ELSE FillDemand(P, aff, f[U \ {Max(U)}], o[Max(U)])]
      BY <1>5, <1>7 DEF Folding
    <2> QED
      BY <1>2, <2>1
  <1>9. Fills(g)
    BY <1>8
  <1> HIDE DEF g, step
  <1>10. /\ g[{}] = {}
         /\ \A U \in SUBSET (1..n) : U # {} => g[U] = FillDemand(P, aff, g[U \ {Max(U)}], o[Max(U)])
    BY <1>2, <1>9
  <1> DEFINE c == [k \in 0..n |-> g[1..k]]
  <1>11. c[0] = {}
    BY <1>10
  <1>12. ASSUME NEW k \in 1..n PROVE c[k] = FillDemand(P, aff, c[k - 1], o[k])
    <2>1. g[1..k] = FillDemand(P, aff, g[1..(k - 1)], o[k])
      <3>1. 1..k \in SUBSET (1..n) /\ 1..k # {} /\ Max(1..k) = k /\ (1..k) \ {k} = 1..(k - 1)
        BY Upto
      <3> QED
        BY <1>10, <3>1
    <2>2. k - 1 \in 0..n /\ k \in 0..n
      OBVIOUS
    <2> QED
      BY <2>1, <2>2
  <1>13. c[n] = ProposeAssignments(P, aff)
    <2>1. DOMAIN s = 1..n
      BY DEF s
    <2> QED
      BY <1>1, <2>1
  <1>14. DOMAIN c = 0..n /\ c = [k \in 0..n |-> c[k]]
    OBVIOUS
  <1> HIDE DEF c
  <1>15. \A k \in 0..n : c[k] \in D
    <2> DEFINE Good == {k \in 0..n : c[k] \in D}
    <2>1. 0 \in Good
      BY <1>11 DEF D
    <2>2. ASSUME NEW k \in 1..n, k - 1 \in Good PROVE k \in Good
      <3>1. k \in 0..n
        OBVIOUS
      <3> QED
        BY <1>3, <1>12, <2>2, <3>1
    <2>3. Good \in SUBSET (0..n)
      OBVIOUS
    <2> HIDE DEF Good
    <2>4. Good = 0..n
      BY <2>1, <2>2, <2>3, Onwards
    <2> QED
      BY <2>4 DEF Good
  <1>16. c \in [0..n -> D]
    BY <1>14, <1>15
  <1> QED
    BY <1>0, <1>11, <1>12, <1>13, <1>16 DEF D, ProposeRun

\* What is assigned before a demand's turn comes.
Earlier(P, x, id) ==
  {a \in x : \E i, j \in DOMAIN P.order : i < j /\ P.order[i] = a[2] /\ P.order[j] = id}

Shaped(P, aff, x) ==
  /\ x \subseteq Roster(P)
  /\ \A id \in DOMAIN P.demands : Picked(P, aff, Earlier(P, x, id), id, Crew(x, id))

(* Every demand has the best crew that was left for it when its turn came. *)
LEMMA ProposalShape ==
  ASSUME NEW P, IsProblem(P), NEW aff, Scores(aff)
  PROVE  Shaped(P, aff, ProposeAssignments(P, aff))
  <1>1. PICK n \in Nat : /\ P.order \in [1..n -> DOMAIN P.demands]
                         /\ \A id \in DOMAIN P.demands : \E i \in 1..n : P.order[i] = id
                         /\ \A i, j \in 1..n : P.order[i] = P.order[j] => i = j
    BY OrderIs
  <1>2. PICK o : o = P.order
    OBVIOUS
  <1>3. PICK c : ProposeRun(P, aff, n, c)
    BY <1>1, ProposeChain
  <1>4. /\ c \in [0..n -> SUBSET Roster(P)] /\ c[0] = {}
        /\ \A k \in 1..n : c[k] = FillDemand(P, aff, c[k - 1], o[k])
        /\ ProposeAssignments(P, aff) = c[n]
    BY <1>2, <1>3 DEF ProposeRun
  <1> DEFINE Fits(k) ==
               /\ \A a \in c[k] : \E i \in 1..k : o[i] = a[2]
               /\ \A j \in 1..k : Picked(P, aff, Earlier(P, c[k], o[j]), o[j], Crew(c[k], o[j]))
             Good == {k \in 0..n : Fits(k)}
  <1>5. Fits(0)
    BY <1>4
  <1>6. ASSUME NEW k \in 1..n, Fits(k - 1) PROVE Fits(k)
    <2>1. PICK id, y : id = o[k] /\ y = c[k - 1]
      OBVIOUS
    <2>2. /\ id \in DOMAIN P.demands /\ y \in SUBSET Roster(P)
          /\ \A a \in y : \E i \in 1..(k - 1) : o[i] = a[2]
          /\ \A j \in 1..(k - 1) : Picked(P, aff, Earlier(P, y, o[j]), o[j], Crew(y, o[j]))
      <3>1. k - 1 \in 0..n
        OBVIOUS
      <3> QED
        BY <1>1, <1>2, <1>4, <1>6, <2>1, <3>1
    <2>3. \A i \in 1..(k - 1) : i \in 1..n /\ i < k /\ i # k
      OBVIOUS
    <2>4. \A a \in y : a[2] # id
      BY <1>1, <1>2, <2>1, <2>2, <2>3
    <2>5. Crew(y, id) = {}
      BY <2>4 DEF Crew
    <2>6. PICK C : Picked(P, aff, y, id, C) /\ c[k] = y \cup (C \X {id})
      <3>1. PICK C : Picked(P, aff, y, id, C) /\ FillDemand(P, aff, y, id) = y \cup (C \X {id})
        BY <2>2, <2>5, FillPicks
      <3>2. c[k] = FillDemand(P, aff, y, id)
        BY <1>4, <2>1
      <3> QED
        BY <3>1, <3>2
    <2>7. Crew(c[k], id) = C
      <3>1. \A f : f \in Crew(c[k], id) <=> \E a \in y \cup (C \X {id}) : a[2] = id /\ a[1] = f
        BY <2>6 DEF Crew
      <3>2. \A f : f \in C => <<f, id>> \in C \X {id} /\ <<f, id>>[2] = id /\ <<f, id>>[1] = f
        OBVIOUS
      <3>3. \A a \in C \X {id} : a[1] \in C
        OBVIOUS
      <3>4. \A f : f \in Crew(c[k], id) => f \in C
        BY <2>4, <3>1, <3>3
      <3>5. \A f : f \in C => f \in Crew(c[k], id)
        BY <3>1, <3>2, Zenon
      <3> QED
        BY <3>4, <3>5
    <2>8. \A a \in C \X {id} : a[2] = id
      OBVIOUS
    <2>9. ASSUME NEW j \in 1..(k - 1)
          PROVE  Crew(c[k], o[j]) = Crew(y, o[j]) /\ Earlier(P, c[k], o[j]) = Earlier(P, y, o[j])
      <3>1. j \in 1..n /\ j < k /\ o[j] # id
        BY <1>1, <1>2, <2>1, <2>3
      <3>2. Crew(c[k], o[j]) = Crew(y, o[j])
        BY <2>6, <2>8, <3>1 DEF Crew
      <3>3. ASSUME NEW a \in C \X {id}, NEW i \in 1..n, NEW m \in 1..n, i < m, o[i] = a[2], o[m] = o[j]
            PROVE  FALSE
        <4>1. i = k /\ m = j
          BY <1>1, <1>2, <2>1, <2>8, <3>1, <3>3
        <4> QED
          BY <3>1, <3>3, <4>1
      <3>4. DOMAIN P.order = 1..n
        BY <1>1
      <3>5. Earlier(P, c[k], o[j]) = Earlier(P, y, o[j])
        BY <1>2, <2>6, <3>3, <3>4 DEF Earlier
      <3> QED
        BY <3>2, <3>5
    <2>10. Earlier(P, c[k], id) = y
      <3>1. DOMAIN P.order = 1..n
        BY <1>1
      <3>2. ASSUME NEW a \in C \X {id}, NEW i \in 1..n, NEW m \in 1..n, i < m, o[i] = a[2], o[m] = id
            PROVE  FALSE
        <4>1. i = k /\ m = k
          BY <1>1, <1>2, <2>1, <2>8, <3>2
        <4> QED
          BY <3>2, <4>1
      <3>3. ASSUME NEW a \in y PROVE \E i, m \in 1..n : i < m /\ o[i] = a[2] /\ o[m] = id
        <4>1. PICK i \in 1..(k - 1) : o[i] = a[2]
          BY <2>2
        <4>2. i \in 1..n /\ i < k
          OBVIOUS
        <4> QED
          BY <2>1, <4>1, <4>2
      <3> QED
        BY <1>2, <2>6, <3>1, <3>2, <3>3 DEF Earlier
    <2>11. ASSUME NEW j \in 1..k PROVE Picked(P, aff, Earlier(P, c[k], o[j]), o[j], Crew(c[k], o[j]))
      <3>1. CASE j = k
        BY <2>1, <2>6, <2>7, <2>10, <3>1
      <3>2. CASE j # k
        <4>1. j \in 1..(k - 1)
          BY <3>2
        <4> QED
          BY <2>2, <2>9, <4>1
      <3> QED
        BY <3>1, <3>2
    <2>12. ASSUME NEW a \in c[k] PROVE \E i \in 1..k : o[i] = a[2]
      <3>1. k \in 1..k /\ \A i \in 1..(k - 1) : i \in 1..k
        OBVIOUS
      <3> QED
        BY <2>1, <2>2, <2>6, <2>8, <3>1
    <2> QED
      BY <2>11, <2>12
  <1> HIDE DEF Fits
  <1>7. Fits(n)
    <2>1. 0 \in Good /\ Good \in SUBSET (0..n) /\ \A k \in 1..n : k - 1 \in Good => k \in Good
      <3>1. 0 \in 0..n /\ \A k \in 1..n : k \in 0..n
        OBVIOUS
      <3> QED
        BY <1>5, <1>6, <3>1
    <2> HIDE DEF Good
    <2>2. Good = 0..n
      BY <2>1, Onwards
    <2> QED
      BY <2>2 DEF Good
  <1>8. \A j \in 1..n : Picked(P, aff, Earlier(P, c[n], o[j]), o[j], Crew(c[n], o[j]))
    BY <1>7 DEF Fits
  <1>9. c[n] \subseteq Roster(P)
    BY <1>4
  <1>10. PICK x : x = ProposeAssignments(P, aff) /\ x = c[n]
    BY <1>4
  <1>11. \A id \in DOMAIN P.demands : Picked(P, aff, Earlier(P, x, id), id, Crew(x, id))
    <2> SUFFICES ASSUME NEW id \in DOMAIN P.demands PROVE Picked(P, aff, Earlier(P, x, id), id, Crew(x, id))
      OBVIOUS
    <2>1. PICK j \in 1..n : o[j] = id
      BY <1>1, <1>2
    <2>2. Picked(P, aff, Earlier(P, c[n], o[j]), o[j], Crew(c[n], o[j]))
      BY <1>8
    <2> QED
      BY <1>10, <2>1, <2>2
  <1>12. Shaped(P, aff, x)
    BY <1>9, <1>10, <1>11 DEF Shaped
  <1> QED
    BY <1>10, <1>12

\* The agent measures a gap from the slot that begins first, the solver both
\* ways; the two agree, in either order.
LEMMA GapIsConflict ==
  ASSUME NEW a, IsDemand(a), NEW b, IsDemand(b)
  PROVE  /\ Gap(SlotInterval(a), SlotInterval(b)) < DailyRest <=> Conflict(AbsWindow(a), AbsWindow(b))
         /\ Gap(SlotInterval(a), SlotInterval(b)) < DailyRest <=> Gap(SlotInterval(b), SlotInterval(a)) < DailyRest
  <1> DEFINE sa == a.day * DayHours + a.start
             ea == a.day * DayHours + a.end
             sb == b.day * DayHours + b.start
             eb == b.day * DayHours + b.end
             fa == IF ea <= sa THEN ea + DayHours ELSE ea
             fb == IF eb <= sb THEN eb + DayHours ELSE eb
  <1>1. sa \in Int /\ ea \in Int /\ sb \in Int /\ eb \in Int /\ ea - sa >= -24 /\ eb - sb >= -24
    <2>1. /\ a.day \in Int /\ a.start \in Int /\ 0 <= a.start /\ a.start <= 24
          /\ a.end \in Int /\ 0 <= a.end /\ a.end <= 24
      BY DEF IsDemand, DayHours
    <2>2. /\ b.day \in Int /\ b.start \in Int /\ 0 <= b.start /\ b.start <= 24
          /\ b.end \in Int /\ 0 <= b.end /\ b.end <= 24
      BY DEF IsDemand, DayHours
    <2>3. a.day * 24 \in Int /\ b.day * 24 \in Int
      BY <2>1, <2>2
    <2> QED
      BY <2>1, <2>2, <2>3 DEF DayHours
  <1>2. fa \in Int /\ fb \in Int /\ fa >= sa /\ fb >= sb
    BY <1>1 DEF DayHours
  <1>3. SlotInterval(a) = <<sa, fa>> /\ SlotInterval(b) = <<sb, fb>>
    BY DEF SlotInterval
  <1>4. AbsWindow(a) = [start |-> sa, end |-> fa] /\ AbsWindow(b) = [start |-> sb, end |-> fb]
    BY DEF AbsWindow
  <1> HIDE DEF sa, ea, sb, eb, fa, fb
  <1>5. Gap(<<sa, fa>>, <<sb, fb>>) = IF sb >= sa THEN sb - fa ELSE sa - fb
    BY DEF Gap
  <1>6. Gap(<<sb, fb>>, <<sa, fa>>) = IF sa >= sb THEN sa - fb ELSE sb - fa
    BY DEF Gap
  <1>7. Conflict([start |-> sa, end |-> fa], [start |-> sb, end |-> fb])
          <=> sb - fa < DailyRest /\ sa - fb < DailyRest
    BY DEF Conflict
  <1> QED
    BY <1>1, <1>2, <1>3, <1>4, <1>5, <1>6, <1>7 DEF DailyRest

LEMMA DemandsFit ==
  ASSUME NEW P, IsProblem(P), NEW i \in DOMAIN P.demands, NEW j \in DOMAIN P.demands
  PROVE  Gap(SlotInterval(P.demands[i]), SlotInterval(P.demands[j])) < DailyRest
           <=> Conflict(AbsWindow(P.demands[j]), AbsWindow(P.demands[i]))
  <1>1. IsDemand(P.demands[i]) /\ IsDemand(P.demands[j])
    BY DEF IsProblem
  <1> QED
    BY <1>1, GapIsConflict

\* Two slots an employee is given, the earlier one in the order first.
LEMMA RestKept ==
  ASSUME NEW P, IsProblem(P), NEW aff, NEW x, Shaped(P, aff, x),
         NEW e, NEW i \in Duties(x, e), NEW j \in Duties(x, e), i # j
  PROVE  ~(Gap(SlotInterval(P.demands[i]), SlotInterval(P.demands[j])) < DailyRest)
  <1>1. <<e, i>> \in x /\ <<e, j>> \in x /\ i \in DOMAIN P.demands /\ j \in DOMAIN P.demands
    BY DEF Duties, Shaped, Roster
  <1>2. ASSUME NEW k \in DOMAIN P.demands, NEW m \in DOMAIN P.demands, <<e, k>> \in x, <<e, m>> \in x,
               \E p, q \in DOMAIN P.order : p < q /\ P.order[p] = k /\ P.order[q] = m
        PROVE  ~(Gap(SlotInterval(P.demands[k]), SlotInterval(P.demands[m])) < DailyRest)
    <2>1. <<e, k>> \in Earlier(P, x, m)
      BY <1>2 DEF Earlier
    <2>2. k \in Duties(Earlier(P, x, m), e)
      <3>1. <<e, k>>[1] = e /\ <<e, k>>[2] = k
        OBVIOUS
      <3> QED
        BY <2>1, <3>1 DEF Duties
    <2>3. e \in Crew(x, m)
      <3>1. <<e, m>>[1] = e /\ <<e, m>>[2] = m
        OBVIOUS
      <3> QED
        BY <1>2, <3>1 DEF Crew
    <2>4. ~Conflicts(P, Earlier(P, x, m), e, m)
      BY <2>3 DEF Shaped, Picked, Available
    <2> QED
      BY <2>2, <2>4 DEF Conflicts
  <1>3. PICK n \in Nat : /\ P.order \in [1..n -> DOMAIN P.demands]
                         /\ \A id \in DOMAIN P.demands : \E p \in 1..n : P.order[p] = id
    BY OrderIs
  <1>4. PICK p \in 1..n : P.order[p] = i
    BY <1>1, <1>3
  <1>5. PICK q \in 1..n : P.order[q] = j
    BY <1>1, <1>3
  <1>6. p < q \/ q < p
    BY <1>4, <1>5
  <1>7. CASE p < q
    BY <1>1, <1>2, <1>3, <1>4, <1>5, <1>7
  <1>8. CASE q < p
    <2>1. ~(Gap(SlotInterval(P.demands[j]), SlotInterval(P.demands[i])) < DailyRest)
      BY <1>1, <1>2, <1>3, <1>4, <1>5, <1>8
    <2>2. IsDemand(P.demands[i]) /\ IsDemand(P.demands[j])
      BY <1>1 DEF IsProblem
    <2> QED
      BY <2>1, <2>2, GapIsConflict
  <1> QED
    BY <1>6, <1>7, <1>8

LEMMA ShapeKeepsRules ==
  ASSUME NEW P, IsProblem(P), NEW aff, NEW x, Shaped(P, aff, x)
  PROVE  /\ x \subseteq EligiblePairs(P)
         /\ HardConstraints(P, x, TRUE)
         /\ \A id \in Unmet(P, x) : \A e \in P.employees \ Crew(x, id) :
              EligibleFor(P, e, id) => \E other \in Duties(x, e) :
                 Conflict(AbsWindow(P.demands[id]), AbsWindow(P.demands[other]))
  <1>1. ASSUME NEW a \in x PROVE a \in EligiblePairs(P)
    <2>1. a = <<a[1], a[2]>> /\ a[1] \in P.employees /\ a[2] \in DOMAIN P.demands /\ a \in P.employees \X DOMAIN P.demands
      BY DEF Shaped, Roster
    <2>2. a[1] \in Crew(x, a[2])
      BY DEF Crew
    <2>3. EligibleFor(P, a[1], a[2])
      BY <2>1, <2>2 DEF Shaped, Picked, Available, EligibleOf
    <2> QED
      BY <2>1, <2>3 DEF EligiblePairs
  <1>2. ASSUME NEW id \in DOMAIN P.demands PROVE Cardinality(Crew(x, id)) <= P.demands[id].count
    BY DEF Shaped, Picked
  <1>3. ASSUME NEW e \in P.employees, NEW i \in Duties(x, e), NEW j \in Duties(x, e), i # j
        PROVE  ~Conflict(AbsWindow(P.demands[i]), AbsWindow(P.demands[j]))
    <2>1. i \in DOMAIN P.demands /\ j \in DOMAIN P.demands
      BY DEF Duties, Shaped, Roster
    <2>2. ~(Gap(SlotInterval(P.demands[j]), SlotInterval(P.demands[i])) < DailyRest)
      BY <1>3, RestKept
    <2> QED
      BY <2>1, <2>2, DemandsFit
  <1>4. ASSUME NEW id \in Unmet(P, x), NEW e \in P.employees \ Crew(x, id), EligibleFor(P, e, id)
        PROVE  \E other \in Duties(x, e) :
                 Conflict(AbsWindow(P.demands[id]), AbsWindow(P.demands[other]))
    <2>1. id \in DOMAIN P.demands /\ Cardinality(Crew(x, id)) < P.demands[id].count /\ P.demands[id].count \in Nat
      BY DEF Unmet, IsProblem, IsDemand
    <2>2. Crew(x, id) \subseteq P.employees
      BY DEF Crew, Shaped, Roster
    <2>3. Cardinality(Crew(x, id)) \in Nat
      BY <2>2, CrewFinite
    <2>4. Cardinality(Crew(x, id)) # P.demands[id].count
      BY <2>1, <2>3
    <2>5. Conflicts(P, Earlier(P, x, id), e, id)
      BY <1>4, <2>1, <2>4 DEF Shaped, Picked, Available, EligibleOf
    <2>6. PICK other \in Duties(Earlier(P, x, id), e) :
             Gap(SlotInterval(P.demands[other]), SlotInterval(P.demands[id])) < DailyRest
      BY <2>5 DEF Conflicts
    <2>7. other \in Duties(x, e) /\ other \in DOMAIN P.demands
      BY DEF Duties, Earlier, Shaped, Roster
    <2> QED
      BY <2>1, <2>6, <2>7, DemandsFit
  <1>5. HardConstraints(P, x, TRUE)
    BY <1>2, <1>3 DEF HardConstraints
  <1> QED
    BY <1>1, <1>4, <1>5

LEMMA ProposalsKeepRules ==
  ASSUME NEW q \in ProposeQuestions, NEW x, x = ProposeAssignments(q.problem, q.affinity)
  PROVE  LET P == q.problem IN
         /\ x \subseteq EligiblePairs(P)
         /\ HardConstraints(P, x, TRUE)
         /\ \A id \in Unmet(P, x) : \A e \in P.employees \ Crew(x, id) :
              EligibleFor(P, e, id) => \E other \in Duties(x, e) :
                 Conflict(AbsWindow(P.demands[id]), AbsWindow(P.demands[other]))
  <1>1. PICK P, aff : P = q.problem /\ aff = q.affinity
    OBVIOUS
  <1>2. IsProblem(P) /\ Scores(aff)
    BY <1>1, QuestionsAssumption DEF Scores
  <1>3. Shaped(P, aff, x)
    BY <1>1, <1>2, ProposalShape
  <1> QED
    BY <1>1, <1>2, <1>3, ShapeKeepsRules

(* The validator *)

LEMMA ValidatorIsRight ==
  ASSUME NEW P, IsProblem(P), NEW x, x \subseteq Roster(P)
  PROVE  Feasible(P, x) <=> (x \subseteq EligiblePairs(P) /\ HardConstraints(P, x, FALSE))
  <1> DEFINE Eligible == \A a \in x : EligibleFor(P, a[1], a[2])
             Covered == \A i \in DOMAIN P.demands : Cardinality(Crew(x, i)) = P.demands[i].count
             Rested == \A f \in P.employees : \A i, j \in Duties(x, f) :
                         i # j => ~(Gap(SlotInterval(P.demands[i]), SlotInterval(P.demands[j])) < DailyRest)
             under == {i \in DOMAIN P.demands : Cardinality(Crew(x, i)) < P.demands[i].count}
             over == {i \in DOMAIN P.demands : Cardinality(Crew(x, i)) > P.demands[i].count}
             unskilled == {b \in x : P.demands[b[2]].role \notin P.quals[b[1]]}
             absent == {b \in x : P.demands[b[2]].day \in P.leave[b[1]]}
             tired == {f \in P.employees : \E i, j \in Duties(x, f) :
                         i # j /\ Gap(SlotInterval(P.demands[i]), SlotInterval(P.demands[j])) < DailyRest}
  <1>1. Feasible(P, x) <=> unskilled = {} /\ absent = {} /\ under = {} /\ over = {} /\ tired = {}
    <2> HIDE DEF unskilled, absent, under, over, tired
    <2>1. Violations(P, x) =
            {<<"H1_QUALIFICATION", a>> : a \in unskilled} \cup {<<"H3_LEAVE", a>> : a \in absent}
            \cup {<<"H1_COVERAGE_UNDER", id>> : id \in under} \cup {<<"H1_COVERAGE_OVER", id>> : id \in over}
            \cup {<<"H2H4_REST", e>> : e \in tired}
      BY DEF Violations, unskilled, absent, under, over, tired
    <2> QED
      BY <2>1 DEF Feasible
  <1>2. Eligible <=> unskilled = {} /\ absent = {}
    BY DEF EligibleFor
  <1>3. Eligible <=> x \subseteq EligiblePairs(P)
    BY DEF EligiblePairs, Roster
  <1>4. Covered <=> under = {} /\ over = {}
    <2>1. ASSUME NEW i \in DOMAIN P.demands
          PROVE  Cardinality(Crew(x, i)) \in Nat /\ P.demands[i].count \in Nat
      <3>1. Crew(x, i) \in SUBSET P.employees
        BY DEF Crew, Roster
      <3>2. P.demands[i].count \in Nat
        BY DEF IsProblem, IsDemand
      <3> QED
        BY <3>1, <3>2, CrewFinite
    <2> QED
      BY <2>1
  <1>5. Rested <=> tired = {}
    OBVIOUS
  <1>6. Rested <=> \A e \in P.employees : \A i, j \in Duties(x, e) :
                     i = j \/ ~Conflict(AbsWindow(P.demands[i]), AbsWindow(P.demands[j]))
    <2>1. ASSUME NEW f \in P.employees, NEW i \in Duties(x, f), NEW j \in Duties(x, f)
          PROVE  Gap(SlotInterval(P.demands[i]), SlotInterval(P.demands[j])) < DailyRest
                   <=> Conflict(AbsWindow(P.demands[i]), AbsWindow(P.demands[j]))
      <3>1. IsDemand(P.demands[i]) /\ IsDemand(P.demands[j])
        BY DEF Duties, Roster, IsProblem
      <3> QED
        BY <3>1, GapIsConflict
    <2> QED
      BY <2>1
  <1>7. HardConstraints(P, x, FALSE) <=> Covered /\ Rested
    BY <1>6 DEF HardConstraints
  <1> HIDE DEF Eligible, Covered, Rested, unskilled, absent, under, over, tired
  <1> QED
    BY <1>1, <1>2, <1>3, <1>4, <1>5, <1>7

(* The training environment *)

\* No window of the demands crosses midnight.
Daytime(P) == \A id \in DOMAIN P.demands : P.demands[id].start < P.demands[id].end

\* Nobody has two slots of an overlapping clock time on one day.
BookedApart(P, x) ==
  \A e \in P.employees : \A i, j \in Duties(x, e) :
    i = j \/ ~EnvOverlaps(P.demands[i], P.demands[j])

LEMMA EnvStepKeeps ==
  ASSUME NEW P, IsProblem(P), NEW x \in SUBSET Roster(P), NEW e, NEW id \in DOMAIN P.demands
  PROVE  /\ EnvStep(P, x, e, id) \in SUBSET Roster(P)
         /\ BookedApart(P, x) => BookedApart(P, EnvStep(P, x, e, id))
  <1> DEFINE y == EnvStep(P, x, e, id)
  <1>1. CASE y = x
    BY <1>1
  <1>2. CASE y # x
    <2>1. ActionKind(P, x, e, id) = "feasible" /\ y = x \cup {<<e, id>>}
      BY <1>2 DEF EnvStep
    <2>2. e \in P.employees /\ \A other \in Duties(x, e) : ~EnvOverlaps(P.demands[other], P.demands[id])
      BY <2>1 DEF ActionKind
    <2>3. y \in SUBSET Roster(P)
      BY <2>1, <2>2 DEF Roster
    <2> HIDE DEF y
    <2>4. \A f, i : i \in Duties(y, f) => i \in Duties(x, f) \/ (f = e /\ i = id)
      BY <2>1 DEF Duties
    <2>5. ASSUME BookedApart(P, x), NEW f \in P.employees, NEW i \in Duties(y, f), NEW j \in Duties(y, f), i # j
          PROVE  ~EnvOverlaps(P.demands[i], P.demands[j])
      <3>1. CASE i \in Duties(x, f) /\ j \in Duties(x, f)
        BY <2>5, <3>1 DEF BookedApart
      <3>2. CASE f = e /\ j = id /\ i \in Duties(x, f)
        BY <2>2, <3>2
      <3>3. CASE f = e /\ i = id /\ j \in Duties(x, f)
        BY <2>2, <3>3 DEF EnvOverlaps
      <3> QED
        BY <2>4, <2>5, <3>1, <3>2, <3>3
    <2> QED
      BY <2>3, <2>5 DEF BookedApart, y
  <1> QED
    BY <1>1, <1>2

EpisodeRun(P, slots, actions, n, c) ==
  /\ c \in [0..n -> SUBSET Roster(P)]
  /\ c[0] = {}
  /\ \A k \in 1..n : c[k] = EnvStep(P, c[k - 1], actions[k], slots[k])
  /\ Episode(P, slots, actions) = c[n]

\* The slots are assigned one after the other.
LEMMA EpisodeChain ==
  ASSUME NEW P, IsProblem(P), NEW n \in Nat, NEW slots \in [1..n -> DOMAIN P.demands], NEW actions
  PROVE  \E c : EpisodeRun(P, slots, actions, n, c)
  <1> DEFINE s == [i \in DOMAIN slots |-> i]
             Fills(it) == it = [U \in SUBSET DOMAIN s |->
               IF U = {} THEN {}
               ELSE EnvStep(P, it[U \ {Max(U)}], actions[s[Max(U)]], slots[s[Max(U)]])]
             g == CHOOSE it : Fills(it)
             D == SUBSET Roster(P)
             step == [p \in (1..n) \X D |-> EnvStep(P, p[2], actions[p[1]], slots[p[1]])]
  <1>1. Episode(P, slots, actions) = g[DOMAIN s]
    BY DEF Episode, FoldLeft, MapThenFoldSet
  <1>2. DOMAIN s = 1..n /\ \A i \in 1..n : s[i] = i
    OBVIOUS
  <1> HIDE DEF s
  <1>3. ASSUME NEW it
        PROVE  Fills(it) <=> it = [U \in SUBSET (1..n) |->
                 IF U = {} THEN {} ELSE EnvStep(P, it[U \ {Max(U)}], actions[Max(U)], slots[Max(U)])]
    <2>1. \A U \in SUBSET (1..n) : U # {} => s[Max(U)] = Max(U)
      BY <1>2, MaxIn
    <2>2. [U \in SUBSET (1..n) |->
             IF U = {} THEN {} ELSE EnvStep(P, it[U \ {Max(U)}], actions[s[Max(U)]], slots[s[Max(U)]])]
          = [U \in SUBSET (1..n) |->
             IF U = {} THEN {} ELSE EnvStep(P, it[U \ {Max(U)}], actions[Max(U)], slots[Max(U)])]
      BY <2>1
    <2> QED
      BY <1>2, <2>2
  <1> HIDE DEF Fills
  <1>4. ASSUME NEW y \in D, NEW k \in 1..n PROVE EnvStep(P, y, actions[k], slots[k]) \in D
    BY EnvStepKeeps
  <1> HIDE DEF D
  <1>5. step \in [(1..n) \X D -> D]
    BY <1>4
  <1>6. PICK f : Folding(f, step, {}, 1..n)
    <2>1. 1..n \in SUBSET (1..n)
      OBVIOUS
    <2> QED
      BY <2>1, FoldExists
  <1>7. \A V \in SUBSET (1..n) : f[V] \in D
    <2>1. {} \in D
      BY DEF D
    <2> QED
      BY <1>5, <1>6, <2>1, FoldTyped
  <1>8. ASSUME NEW U \in SUBSET (1..n), U # {}
        PROVE  step[<<Max(U), f[U \ {Max(U)}]>>] = EnvStep(P, f[U \ {Max(U)}], actions[Max(U)], slots[Max(U)])
    <2>1. Max(U) \in 1..n
      BY <1>8, MaxIn
    <2>2. f[U \ {Max(U)}] \in D
      BY <1>7
    <2> QED
      BY <2>1, <2>2
  <1>9. Fills(f)
    <2>1. f = [U \in SUBSET (1..n) |->
                 IF U = {} THEN {} ELSE EnvStep(P, f[U \ {Max(U)}], actions[Max(U)], slots[Max(U)])]
      BY <1>6, <1>8 DEF Folding
    <2> QED
      BY <1>3, <2>1
  <1>10. Fills(g)
    BY <1>9
  <1> HIDE DEF g, step
  <1>11. /\ g[{}] = {}
         /\ \A U \in SUBSET (1..n) : U # {} =>
              g[U] = EnvStep(P, g[U \ {Max(U)}], actions[Max(U)], slots[Max(U)])
    BY <1>3, <1>10
  <1> DEFINE c == [k \in 0..n |-> g[1..k]]
  <1>12. c[0] = {}
    BY <1>11
  <1>13. ASSUME NEW k \in 1..n PROVE c[k] = EnvStep(P, c[k - 1], actions[k], slots[k])
    <2>1. g[1..k] = EnvStep(P, g[1..(k - 1)], actions[k], slots[k])
      <3>1. 1..k \in SUBSET (1..n) /\ 1..k # {} /\ Max(1..k) = k /\ (1..k) \ {k} = 1..(k - 1)
        BY Upto
      <3> QED
        BY <1>11, <3>1
    <2>2. k - 1 \in 0..n /\ k \in 0..n
      OBVIOUS
    <2> QED
      BY <2>1, <2>2
  <1>14. c[n] = Episode(P, slots, actions)
    BY <1>1, <1>2
  <1>15. DOMAIN c = 0..n /\ c = [k \in 0..n |-> c[k]]
    OBVIOUS
  <1> HIDE DEF c
  <1>16. \A k \in 0..n : c[k] \in D
    <2> DEFINE Good == {k \in 0..n : c[k] \in D}
    <2>1. 0 \in Good
      BY <1>12 DEF D
    <2>2. ASSUME NEW k \in 1..n, k - 1 \in Good PROVE k \in Good
      <3>1. k \in 0..n
        OBVIOUS
      <3> QED
        BY <1>4, <1>13, <2>2, <3>1
    <2>3. Good \in SUBSET (0..n)
      OBVIOUS
    <2> HIDE DEF Good
    <2>4. Good = 0..n
      BY <2>1, <2>2, <2>3, Onwards
    <2> QED
      BY <2>4 DEF Good
  <1>17. c \in [0..n -> D]
    BY <1>15, <1>16
  <1> QED
    BY <1>12, <1>13, <1>14, <1>17 DEF D, EpisodeRun

\* On one day clock times apart are times apart; and so are two days.
LEMMA ApartIsApart ==
  ASSUME NEW a, IsDemand(a), a.start < a.end, NEW b, IsDemand(b), b.start < b.end, ~EnvOverlaps(a, b)
  PROVE  AbsWindow(a).end <= AbsWindow(b).start \/ AbsWindow(b).end <= AbsWindow(a).start
  <1>1. /\ a.day \in Int /\ a.start \in Int /\ 0 <= a.start /\ a.start <= 24
        /\ a.end \in Int /\ 0 <= a.end /\ a.end <= 24
    BY DEF IsDemand, DayHours
  <1>2. /\ b.day \in Int /\ b.start \in Int /\ 0 <= b.start /\ b.start <= 24
        /\ b.end \in Int /\ 0 <= b.end /\ b.end <= 24
    BY DEF IsDemand, DayHours
  <1>3. AbsWindow(a).start = a.day * 24 + a.start /\ AbsWindow(a).end = a.day * 24 + a.end
    BY <1>1 DEF AbsWindow, DayHours
  <1>4. AbsWindow(b).start = b.day * 24 + b.start /\ AbsWindow(b).end = b.day * 24 + b.end
    BY <1>2 DEF AbsWindow, DayHours
  <1>5. a.day # b.day \/ a.end <= b.start \/ b.end <= a.start
    BY <1>1, <1>2 DEF EnvOverlaps
  <1>6. PICK m, n, u, v, w, z : m = a.day /\ n = b.day /\ u = a.start /\ v = a.end /\ w = b.start /\ z = b.end
    OBVIOUS
  <1>7. /\ m \in Int /\ n \in Int /\ u \in Int /\ v \in Int /\ w \in Int /\ z \in Int
        /\ 0 <= u /\ v <= 24 /\ 0 <= w /\ z <= 24
    BY <1>1, <1>2, <1>6
  <1>8. m # n \/ v <= w \/ z <= u
    BY <1>5, <1>6
  <1>9. m * 24 + v <= n * 24 + w \/ n * 24 + z <= m * 24 + u
    <2>1. CASE m < n
      <3>1. m + 1 <= n
        BY <1>7, <2>1
      <3> QED
        BY <1>7, <3>1
    <2>2. CASE n < m
      <3>1. n + 1 <= m
        BY <1>7, <2>2
      <3> QED
        BY <1>7, <3>1
    <2>3. CASE m = n
      BY <1>7, <1>8, <2>3
    <2> QED
      BY <1>7, <2>1, <2>2, <2>3
  <1> QED
    BY <1>3, <1>4, <1>6, <1>9

LEMMA EpisodesBookOnce ==
  ASSUME NEW q \in EpisodeQuestions, NEW x, x = Episode(q.problem, q.slots, q.actions),
         NEW P, P = q.problem, Daytime(P),
         NEW e \in P.employees, NEW i \in Duties(x, e), NEW j \in Duties(x, e), i # j
  PROVE  \/ AbsWindow(P.demands[i]).end <= AbsWindow(P.demands[j]).start
         \/ AbsWindow(P.demands[j]).end <= AbsWindow(P.demands[i]).start
  <1>1. IsProblem(P) /\ q.slots \in Seq(DOMAIN P.demands)
    BY QuestionsAssumption
  <1>2. PICK n, slots, actions : n = Len(q.slots) /\ slots = q.slots /\ actions = q.actions
    OBVIOUS
  <1>3. n \in Nat /\ slots \in [1..n -> DOMAIN P.demands]
    BY <1>1, <1>2
  <1>4. PICK c : EpisodeRun(P, slots, actions, n, c)
    BY <1>1, <1>3, EpisodeChain
  <1>5. /\ c \in [0..n -> SUBSET Roster(P)] /\ c[0] = {} /\ x = c[n]
        /\ \A k \in 1..n : c[k] = EnvStep(P, c[k - 1], actions[k], slots[k])
    BY <1>2, <1>4 DEF EpisodeRun
  <1> DEFINE Good == {k \in 0..n : BookedApart(P, c[k])}
  <1>6. Good = 0..n
    <2>1. 0 \in Good
      BY <1>3, <1>5 DEF BookedApart, Duties
    <2>2. ASSUME NEW k \in 1..n, k - 1 \in Good PROVE k \in Good
      <3>1. k \in 0..n /\ k - 1 \in 0..n /\ slots[k] \in DOMAIN P.demands
        BY <1>3
      <3>2. BookedApart(P, EnvStep(P, c[k - 1], actions[k], slots[k]))
        BY <1>1, <1>5, <2>2, <3>1, EnvStepKeeps
      <3> QED
        BY <1>5, <3>1, <3>2
    <2>3. Good \in SUBSET (0..n)
      OBVIOUS
    <2> HIDE DEF Good
    <2> QED
      BY <1>3, <2>1, <2>2, <2>3, Onwards
  <1>7. n \in 0..n
    BY <1>3
  <1>8. BookedApart(P, x) /\ x \in SUBSET Roster(P)
    BY <1>5, <1>6, <1>7
  <1>9. i \in DOMAIN P.demands /\ j \in DOMAIN P.demands
    BY <1>8 DEF Duties, Roster
  <1>10. ~EnvOverlaps(P.demands[i], P.demands[j])
    BY <1>8 DEF BookedApart
  <1> QED
    BY <1>1, <1>9, <1>10, ApartIsApart DEF IsProblem, Daytime

-----------------------------------------------------------------------------
(* What the agent learns *)

\* The order of the candidates does not go both ways.
LEMMA ScoresAsymmetric ==
  ASSUME NEW P, IsProblem(P), NEW aff, Scores(aff), NEW id \in DOMAIN P.demands,
         NEW e \in P.employees, NEW f \in P.employees, ScoresBefore(P, aff, id, e, f)
  PROVE  ~ScoresBefore(P, aff, id, f, e)
  <1>1. ScoreCandidate(P, aff, e, id) \in Int /\ ScoreCandidate(P, aff, f, id) \in Int
    BY ScoreInt
  <1>2. e \in Nat /\ f \in Nat
    BY DEF IsProblem
  <1> QED
    BY <1>1, <1>2 DEF ScoresBefore

LEMMA PickedWithin ==
  ASSUME NEW P, IsProblem(P), NEW aff, Scores(aff), NEW id \in DOMAIN P.demands, NEW x,
         NEW C, NEW B, Picked(P, aff, x, id, C), Picked(P, aff, x, id, B)
  PROVE  C \subseteq B
  <1> SUFFICES ASSUME NEW e \in C, e \notin B PROVE FALSE
    OBVIOUS
  <1>1. /\ C \subseteq Available(P, x, id) /\ B \subseteq Available(P, x, id)
        /\ Available(P, x, id) \subseteq P.employees
    BY DEF Picked, Available, EligibleOf
  <1>2. /\ IsFiniteSet(C) /\ Cardinality(C) \in Nat
        /\ IsFiniteSet(B) /\ Cardinality(B) \in Nat
    BY <1>1, CrewFinite
  <1>3. Cardinality(B) = P.demands[id].count /\ \A f \in B : ScoresBefore(P, aff, id, f, e)
    BY <1>1 DEF Picked
  <1>4. PICK f \in B : f \notin C
    <2> SUFFICES ASSUME B \subseteq C PROVE FALSE
      OBVIOUS
    <2>1. Cardinality(B) < Cardinality(C)
      <3>1. B # C
        OBVIOUS
      <3> QED
        BY <1>2, <3>1, FS_Subset
    <2>2. Cardinality(C) <= P.demands[id].count
      BY DEF Picked
    <2>3. P.demands[id].count \in Nat
      BY DEF IsProblem, IsDemand
    <2> QED
      BY <1>2, <1>3, <2>1, <2>2, <2>3
  <1>5. ScoresBefore(P, aff, id, e, f)
    BY <1>1, <1>4 DEF Picked
  <1>6. e \in P.employees /\ f \in P.employees
    BY <1>1, <1>4
  <1> QED
    BY <1>3, <1>4, <1>5, <1>6, ScoresAsymmetric

\* The crew a demand is given depends on nothing but what came before.
LEMMA PickedOnce ==
  ASSUME NEW P, IsProblem(P), NEW aff, Scores(aff), NEW id \in DOMAIN P.demands, NEW x,
         NEW C, NEW B, Picked(P, aff, x, id, C), Picked(P, aff, x, id, B)
  PROVE  C = B
  <1>1. C \subseteq B
    BY PickedWithin
  <1>2. B \subseteq C
    BY PickedWithin
  <1> QED
    BY <1>1, <1>2

\* Two tables agree on a demand if they score everybody alike on it.
Alike(P, aff, bff, id) ==
  \A e \in P.employees : ScoreCandidate(P, aff, e, id) = ScoreCandidate(P, bff, e, id)

LEMMA AlikePicked ==
  ASSUME NEW P, NEW aff, NEW bff, NEW id, Alike(P, aff, bff, id), NEW x, NEW C, Picked(P, aff, x, id, C)
  PROVE  Picked(P, bff, x, id, C)
  <1>1. Available(P, x, id) \subseteq P.employees
    BY DEF Available, EligibleOf
  <1>2. \A e, f \in P.employees : ScoresBefore(P, aff, id, e, f) <=> ScoresBefore(P, bff, id, e, f)
    BY DEF Alike, ScoresBefore
  <1> QED
    BY <1>1, <1>2 DEF Picked

LEMMA EarlierWithin ==
  ASSUME NEW P, IsProblem(P), NEW x, NEW y, NEW n \in Nat, P.order \in [1..n -> DOMAIN P.demands],
         \A i, j \in 1..n : P.order[i] = P.order[j] => i = j,
         x \subseteq Roster(P), y \subseteq Roster(P),
         NEW k \in 1..n, \A i \in 1..n : i < k => Crew(x, P.order[i]) \subseteq Crew(y, P.order[i])
  PROVE  Earlier(P, x, P.order[k]) \subseteq y
  <1> SUFFICES ASSUME NEW a \in x, NEW i \in 1..n, NEW j \in 1..n, i < j, P.order[i] = a[2], P.order[j] = P.order[k]
               PROVE  a \in y
    BY DEF Earlier
  <1>1. j = k
    OBVIOUS
  <1>2. a[1] \in Crew(x, P.order[i])
    BY DEF Crew
  <1>3. a[1] \in Crew(y, P.order[i])
    BY <1>1, <1>2
  <1>4. PICK b \in y : b[2] = P.order[i] /\ b[1] = a[1]
    BY <1>3 DEF Crew
  <1>5. a = <<a[1], a[2]>> /\ b = <<b[1], b[2]>>
    BY DEF Roster
  <1> QED
    BY <1>4, <1>5

\* Two proposals whose tables differ on one demand are alike up to that one.
LEMMA SameUntil ==
  ASSUME NEW P, IsProblem(P), NEW aff, Scores(aff), NEW bff, Scores(bff), NEW id \in DOMAIN P.demands,
         \A d \in DOMAIN P.demands \ {id} : Alike(P, aff, bff, d),
         NEW x, Shaped(P, aff, x), NEW y, Shaped(P, bff, y)
  PROVE  Earlier(P, x, id) = Earlier(P, y, id)
  <1>1. PICK n \in Nat : /\ P.order \in [1..n -> DOMAIN P.demands]
                         /\ \A d \in DOMAIN P.demands : \E i \in 1..n : P.order[i] = d
                         /\ \A i, j \in 1..n : P.order[i] = P.order[j] => i = j
    BY OrderIs
  <1>2. PICK o : o = P.order
    OBVIOUS
  <1>3. PICK m \in 1..n : o[m] = id
    BY <1>1, <1>2
  <1>4. x \subseteq Roster(P) /\ y \subseteq Roster(P)
    BY DEF Shaped
  <1> DEFINE Same(k) == Crew(x, o[k]) = Crew(y, o[k])
             Good == {k \in 0..n : \A i \in 1..n : (i <= k /\ i < m) => Same(i)}
  <1>5. ASSUME NEW k \in 1..n, \A i \in 1..n : i < k => Same(i)
        PROVE  Earlier(P, x, o[k]) = Earlier(P, y, o[k])
    <2>1. \A i \in 1..n : i < k => Crew(x, P.order[i]) \subseteq Crew(y, P.order[i])
      BY <1>2, <1>5
    <2>2. \A i \in 1..n : i < k => Crew(y, P.order[i]) \subseteq Crew(x, P.order[i])
      BY <1>2, <1>5
    <2>3. Earlier(P, x, P.order[k]) \subseteq y
      BY <1>1, <1>4, <2>1, EarlierWithin
    <2>4. Earlier(P, y, P.order[k]) \subseteq x
      BY <1>1, <1>4, <2>2, EarlierWithin
    <2> QED
      BY <1>2, <2>3, <2>4 DEF Earlier
  <1>6. 0 \in Good
    OBVIOUS
  <1>7. ASSUME NEW k \in 1..n, k - 1 \in Good PROVE k \in Good
    <2>1. \A i \in 1..n : (i < k /\ i < m) => Same(i)
      BY <1>7
    <2>2. ASSUME k < m PROVE Same(k)
      <3>1. \A i \in 1..n : i < k => Same(i)
        BY <2>1, <2>2, <1>3
      <3>2. Earlier(P, x, o[k]) = Earlier(P, y, o[k])
        BY <1>5, <3>1
      <3>3. o[k] \in DOMAIN P.demands
        BY <1>1, <1>2
      <3>4. o[k] # id
        BY <1>1, <1>2, <1>3, <2>2
      <3>5. Alike(P, aff, bff, o[k])
        BY <3>3, <3>4
      <3>6. PICK d, E : d = o[k] /\ E = Earlier(P, x, o[k])
        OBVIOUS
      <3>7. Picked(P, aff, E, d, Crew(x, d)) /\ Picked(P, bff, E, d, Crew(y, d))
        BY <3>2, <3>3, <3>6 DEF Shaped
      <3>8. Picked(P, bff, E, d, Crew(x, d))
        BY <3>5, <3>6, <3>7, AlikePicked
      <3> QED
        BY <3>3, <3>6, <3>7, <3>8, PickedOnce
    <2> QED
      BY <1>3, <2>1, <2>2
  <1>8. Good \in SUBSET (0..n)
    OBVIOUS
  <1> HIDE DEF Good
  <1>9. Good = 0..n
    BY <1>6, <1>7, <1>8, Onwards
  <1>10. n \in Good
    BY <1>9
  <1>11. \A i \in 1..n : i < m => Same(i)
    BY <1>10 DEF Good
  <1> HIDE DEF Same
  <1> QED
    BY <1>3, <1>5, <1>11

\* Signatures tell the demands apart.
Distinct(P) == \A i, j \in DOMAIN P.demands : i = j \/ Signature(P.demands[i]) # Signature(P.demands[j])

KeyOf(P, e, id) == <<e, Signature(P.demands[id])>>

Bumped(P, aff, e, id, delta, t) ==
  /\ Scores(t)
  /\ \A k : AffinityOf(t, k)
              = AffinityOf(aff, k) + (IF id \in DOMAIN P.demands /\ e # 0 /\ k = KeyOf(P, e, id) THEN delta ELSE 0)

\* A bump moves one entry, and only of an employee and a demand there are.
LEMMA BumpIs ==
  ASSUME NEW P, NEW aff, Scores(aff), NEW e, NEW id, NEW delta \in Int
  PROVE  Bumped(P, aff, e, id, delta, Bump(P, aff, e, id, delta))
  <1>1. \A k : AffinityOf(aff, k) \in Int
    BY DEF AffinityOf, Scores
  <1>2. CASE id \notin DOMAIN P.demands \/ e = 0
    BY <1>1, <1>2 DEF Bump, Bumped
  <1>3. CASE id \in DOMAIN P.demands /\ e # 0
    <2>1. PICK key : key = KeyOf(P, e, id)
      OBVIOUS
    <2>2. PICK t : t = [k \in DOMAIN aff \cup {key} |-> IF k = key THEN AffinityOf(aff, key) + delta ELSE aff[k]]
      OBVIOUS
    <2>3. Bump(P, aff, e, id, delta) = t
      BY <1>3, <2>1, <2>2 DEF Bump, KeyOf
    <2>4. Scores(t)
      BY <1>1, <2>2 DEF Scores
    <2>5. \A k : AffinityOf(t, k) = AffinityOf(aff, k) + (IF k = key THEN delta ELSE 0)
      <3> TAKE k
      <3>1. CASE k = key
        BY <2>2, <3>1 DEF AffinityOf
      <3>2. CASE k # key
        <4>1. AffinityOf(t, k) = AffinityOf(aff, k)
          BY <2>2, <3>2 DEF AffinityOf
        <4> QED
          BY <1>1, <3>2, <4>1
      <3> QED
        BY <3>1, <3>2
    <2> QED
      BY <1>3, <2>1, <2>3, <2>4, <2>5 DEF Bumped
  <1> QED
    BY <1>2, <1>3

\* A cold start gives an entry the teacher's rate, once.
LEMMA ColdIs ==
  ASSUME NEW P, Distinct(P), NEW teacher, teacher \subseteq Roster(P),
         NEW cold, cold = ApplyTeacher(P, <<>>, teacher)
  PROVE  Scores(cold) /\ \A k : AffinityOf(cold, k) \in {0, LrTeacher}
  <1> DEFINE known == {a \in teacher : a[2] \in DOMAIN P.demands}
             Key(a) == <<a[1], Signature(P.demands[a[2]])>>
             at(k) == {a \in known : Key(a) = k}
  <1>1. cold = [k \in DOMAIN <<>> \cup {Key(a) : a \in known} |-> AffinityOf(<<>>, k) + LrTeacher * Cardinality(at(k))]
    BY DEF ApplyTeacher
  <1>2. DOMAIN <<>> = {} /\ \A k : AffinityOf(<<>>, k) = 0
    BY DEF AffinityOf
  <1>3. ASSUME NEW k PROVE Cardinality(at(k)) \in {0, 1}
    <2>1. CASE at(k) = {}
      BY <2>1, FS_EmptySet
    <2>2. CASE at(k) # {}
      <3>1. PICK a : a \in at(k)
        BY <2>2
      <3>2. ASSUME NEW b \in at(k) PROVE b = a
        <4>1. a \in Roster(P) /\ b \in Roster(P) /\ Key(a) = Key(b)
          BY <3>1
        <4>2. a = <<a[1], a[2]>> /\ b = <<b[1], b[2]>> /\ a[2] \in DOMAIN P.demands /\ b[2] \in DOMAIN P.demands
          BY <4>1 DEF Roster
        <4>3. a[1] = b[1] /\ Signature(P.demands[a[2]]) = Signature(P.demands[b[2]])
          BY <4>1
        <4> QED
          BY <4>2, <4>3 DEF Distinct
      <3>3. at(k) = {a}
        BY <3>1, <3>2
      <3> QED
        BY <3>3, FS_Singleton
    <2> QED
      BY <2>1, <2>2
  <1> HIDE DEF at, known
  <1>4. \A k \in DOMAIN cold : cold[k] \in {0, LrTeacher}
    BY <1>1, <1>2, <1>3 DEF LrTeacher
  <1> QED
    BY <1>4 DEF Scores, AffinityOf, LrTeacher

\* Who is marked down by more than the features set people apart comes last.
LEMMA DropIsLast ==
  ASSUME NEW P, IsProblem(P), NEW cold, \A k : AffinityOf(cold, k) \in {0, LrTeacher},
         NEW id \in DOMAIN P.demands, NEW e \in P.employees,
         \A f \in P.employees : BaseScore(P, e, id) - BaseScore(P, f, id) < LrFeedback - LrTeacher,
         NEW hot, Scores(hot), AffinityOf(hot, KeyOf(P, e, id)) = AffinityOf(cold, KeyOf(P, e, id)) - LrFeedback,
         \A f \in P.employees \ {e} : AffinityOf(hot, KeyOf(P, f, id)) >= AffinityOf(cold, KeyOf(P, f, id)),
         NEW y, Shaped(P, hot, y), <<e, id>> \in y,
         NEW f \in P.employees \ Crew(y, id), EligibleFor(P, f, id)
  PROVE  Conflicts(P, y, f, id)
  <1> SUFFICES ASSUME ~Conflicts(P, y, f, id) PROVE FALSE
    OBVIOUS
  <1>1. e \in Crew(y, id)
    BY DEF Crew
  <1>2. PICK E : E = Earlier(P, y, id) /\ E \subseteq y
    BY DEF Earlier
  <1>3. ~Conflicts(P, E, f, id)
    BY <1>2 DEF Conflicts, Duties
  <1>4. f \in Available(P, E, id)
    BY <1>3 DEF Available, EligibleOf
  <1>5. ScoresBefore(P, hot, id, e, f)
    BY <1>1, <1>2, <1>4 DEF Shaped, Picked
  <1>6. /\ BaseScore(P, e, id) \in Int /\ BaseScore(P, f, id) \in Int
        /\ ScoreCandidate(P, hot, e, id) \in Int /\ ScoreCandidate(P, hot, f, id) \in Int
    BY ScoreInt
  <1>7. /\ ScoreCandidate(P, hot, e, id) = BaseScore(P, e, id) + AffinityOf(hot, KeyOf(P, e, id))
        /\ ScoreCandidate(P, hot, f, id) = BaseScore(P, f, id) + AffinityOf(hot, KeyOf(P, f, id))
    BY DEF ScoreCandidate, KeyOf
  <1>8. AffinityOf(hot, KeyOf(P, e, id)) <= LrTeacher - LrFeedback /\ AffinityOf(hot, KeyOf(P, e, id)) \in Int
    BY DEF LrTeacher, LrFeedback
  <1>9. AffinityOf(hot, KeyOf(P, f, id)) >= 0 /\ AffinityOf(hot, KeyOf(P, f, id)) \in Int
    <2>1. f # e
      BY <1>1
    <2>2. AffinityOf(hot, KeyOf(P, f, id)) \in Int
      BY DEF Scores, AffinityOf
    <2> QED
      BY <2>1, <2>2 DEF LrTeacher
  <1>10. BaseScore(P, e, id) - BaseScore(P, f, id) < LrFeedback - LrTeacher
    OBVIOUS
  <1>11. ScoreCandidate(P, hot, e, id) < ScoreCandidate(P, hot, f, id)
    BY <1>6, <1>7, <1>8, <1>9, <1>10 DEF LrTeacher, LrFeedback
  <1> QED
    BY <1>5, <1>6, <1>11 DEF ScoresBefore

LEMMA Exchange ==
  ASSUME NEW C, IsFiniteSet(C), NEW e \in C, NEW o, o \notin C
  PROVE  Cardinality((C \ {e}) \cup {o}) = Cardinality(C)
  <1>1. IsFiniteSet(C \ {e}) /\ Cardinality(C \ {e}) = Cardinality(C) - 1
    BY FS_RemoveElement
  <1>2. Cardinality((C \ {e}) \cup {o}) = Cardinality(C \ {e}) + 1
    BY <1>1, FS_AddElement
  <1>3. Cardinality(C) \in Nat
    BY FS_CardinalityType
  <1> QED
    BY <1>1, <1>2, <1>3

\* Who is moved in takes the place of who is moved out.
LEMMA MoveIsMade ==
  ASSUME NEW P, IsProblem(P), NEW cold, Scores(cold), \A k : AffinityOf(cold, k) \in {0, LrTeacher},
         NEW id \in DOMAIN P.demands, NEW e \in P.employees, NEW o \in P.employees, o # e,
         \A f \in P.employees : BaseScore(P, e, id) - BaseScore(P, f, id) < LrFeedback - LrTeacher,
         NEW x, Shaped(P, cold, x), <<e, id>> \in x, <<o, id>> \notin x,
         EligibleFor(P, o, id), ~Conflicts(P, x, o, id),
         NEW hot, Scores(hot), \A d \in DOMAIN P.demands \ {id} : Alike(P, cold, hot, d),
         AffinityOf(hot, KeyOf(P, o, id)) = AffinityOf(cold, KeyOf(P, o, id)) + LrFeedback,
         \A f \in P.employees \ {e, o} : AffinityOf(hot, KeyOf(P, f, id)) = AffinityOf(cold, KeyOf(P, f, id)),
         \/ AffinityOf(hot, KeyOf(P, e, id)) = AffinityOf(cold, KeyOf(P, e, id)) - LrFeedback
         \/ /\ AffinityOf(hot, KeyOf(P, e, id)) = AffinityOf(cold, KeyOf(P, e, id))
            /\ P.demands[id].count = 1,
         NEW y, Shaped(P, hot, y)
  PROVE  Crew(y, id) = (Crew(x, id) \ {e}) \cup {o}
  <1> DEFINE S(f) == ScoreCandidate(P, cold, f, id)
             H(f) == ScoreCandidate(P, hot, f, id)
             B(f) == BaseScore(P, f, id)
  <1>1. PICK E, C, D, count : /\ E = Earlier(P, x, id) /\ C = Crew(x, id) /\ D = (C \ {e}) \cup {o}
                              /\ count = P.demands[id].count
    OBVIOUS
  <1>2. Earlier(P, y, id) = E
    BY <1>1, SameUntil
  <1>3. Picked(P, cold, E, id, C) /\ Picked(P, hot, E, id, Crew(y, id))
    BY <1>1, <1>2 DEF Shaped
  <1>4. /\ C \subseteq Available(P, E, id) /\ Available(P, E, id) \subseteq P.employees
        /\ IsFiniteSet(C)
    <2>1. C \subseteq Available(P, E, id) /\ Available(P, E, id) \subseteq P.employees
      BY <1>3 DEF Picked, Available, EligibleOf
    <2> QED
      BY <2>1, CrewFinite
  <1>5. e \in C /\ o \notin C
    <2>1. x \subseteq Roster(P)
      BY DEF Shaped
    <2>2. \A a \in x : a = <<a[1], a[2]>>
      BY <2>1 DEF Roster
    <2> QED
      BY <1>1, <2>2 DEF Crew
  <1>6. o \in Available(P, E, id)
    BY <1>1 DEF Available, EligibleOf, Conflicts, Earlier, Duties
  <1>7. Cardinality(C) = count /\ Cardinality(D) = count
    <2>1. Cardinality(C) = count
      BY <1>1, <1>3, <1>5, <1>6 DEF Picked
    <2> QED
      BY <1>1, <1>4, <1>5, <2>1, Exchange
  <1>8. \A f \in P.employees : B(f) \in Int /\ S(f) \in Int /\ H(f) \in Int
    BY ScoreInt
  <1>9. \A f \in P.employees : /\ S(f) = B(f) + AffinityOf(cold, KeyOf(P, f, id))
                               /\ H(f) = B(f) + AffinityOf(hot, KeyOf(P, f, id))
    BY DEF ScoreCandidate, KeyOf
  <1> HIDE DEF S, H
  <1>10. \A f \in P.employees : B(f) <= S(f) /\ S(f) <= B(f) + 1000
    <2> TAKE f \in P.employees
    <2>1. AffinityOf(cold, KeyOf(P, f, id)) \in {0, 1000}
      BY DEF LrTeacher
    <2> QED
      BY <1>8, <1>9, <2>1
  <1>11. \A f \in P.employees : B(e) - B(f) < 2000
    BY DEF LrTeacher, LrFeedback
  <1> HIDE DEF B
  <1>12. H(o) = S(o) + 3000
    <2>1. AffinityOf(cold, KeyOf(P, o, id)) \in Int
      BY DEF LrTeacher
    <2> QED
      BY <1>8, <1>9, <2>1 DEF LrFeedback
  <1>13. \A f \in P.employees \ {e, o} : H(f) = S(f)
    BY <1>9
  <1>14. H(e) = S(e) - 3000 \/ (H(e) = S(e) /\ count = 1)
    <2>1. AffinityOf(cold, KeyOf(P, e, id)) \in Int
      BY DEF LrTeacher
    <2> QED
      BY <1>1, <1>8, <1>9, <2>1 DEF LrFeedback
  <1>15. \A f \in C, g \in Available(P, E, id) \ C : ScoresBefore(P, cold, id, f, g)
    BY <1>3 DEF Picked
  <1>16. \A f, g \in P.employees : H(f) > H(g) => ScoresBefore(P, hot, id, f, g)
    BY DEF ScoresBefore, H
  <1>17. ASSUME NEW f \in D, NEW g \in Available(P, E, id) \ D
         PROVE  ScoresBefore(P, hot, id, f, g)
    <2>1. f \in P.employees /\ g \in P.employees /\ g # o
      BY <1>1, <1>4
    <2>2. CASE f = o /\ g = e
      <3>1. H(o) > H(e)
        BY <1>8, <1>10, <1>11, <1>12, <1>14
      <3> QED
        BY <1>16, <2>2, <3>1
    <2>3. CASE f = o /\ g # e
      <3>1. g \notin C
        BY <1>1, <2>1, <2>3
      <3>2. ScoresBefore(P, cold, id, e, g)
        BY <1>5, <1>15, <3>1
      <3>3. S(e) >= S(g)
        BY <1>8, <2>1, <3>2 DEF ScoresBefore, S
      <3>4. H(g) = S(g)
        BY <1>13, <2>1, <2>3
      <3>5. B(e) \in Int /\ B(o) \in Int /\ S(e) \in Int /\ S(o) \in Int /\ S(g) \in Int
        BY <1>8, <2>1
      <3>6. S(e) <= B(e) + 1000 /\ B(e) - B(o) < 2000 /\ B(o) <= S(o)
        BY <1>10, <1>11
      <3>7. S(g) < S(o) + 3000
        BY <3>3, <3>5, <3>6
      <3>8. H(o) > H(g)
        BY <1>12, <3>4, <3>5, <3>7
      <3> QED
        BY <1>16, <2>1, <2>3, <3>8
    <2>4. CASE f # o /\ g = e
      <3>1. f \in C /\ f # e
        BY <1>1, <2>4
      <3>2. H(e) = S(e) - 3000
        <4> SUFFICES ASSUME count = 1 PROVE FALSE
          BY <1>14
        <4>1. IsFiniteSet({e, f}) /\ Cardinality({e, f}) = 2
          <5>1. Cardinality({e}) = 1 /\ IsFiniteSet({e})
            BY FS_Singleton
          <5>2. {e, f} = {e} \cup {f} /\ f \notin {e}
            BY <3>1
          <5>3. IsFiniteSet({e} \cup {f}) /\ Cardinality({e} \cup {f}) = Cardinality({e}) + 1
            BY <5>1, <5>2, FS_AddElement
          <5> QED
            BY <5>1, <5>2, <5>3
        <4>2. Cardinality({e, f}) <= Cardinality(C)
          BY <1>4, <1>5, <3>1, FS_Subset
        <4> QED
          BY <1>7, <4>1, <4>2
      <3>3. H(f) = S(f)
        BY <1>13, <2>1, <2>4, <3>1
      <3>4. B(e) \in Int /\ B(f) \in Int /\ S(e) \in Int /\ S(f) \in Int
        BY <1>8, <2>1
      <3>5. S(e) <= B(e) + 1000 /\ B(e) - B(f) < 2000 /\ B(f) <= S(f)
        BY <1>10, <1>11, <2>1
      <3>6. H(f) > H(e)
        BY <3>2, <3>3, <3>4, <3>5
      <3> QED
        BY <1>16, <2>1, <2>4, <3>6
    <2>5. CASE f # o /\ g # e
      <3>1. f \in C /\ f # e /\ g \notin C
        BY <1>1, <2>1, <2>5
      <3>2. ScoresBefore(P, cold, id, f, g)
        BY <1>15, <3>1
      <3>3. H(f) = S(f) /\ H(g) = S(g)
        BY <1>13, <2>1, <2>5, <3>1
      <3> QED
        BY <3>2, <3>3 DEF ScoresBefore, S, H
    <2> QED
      BY <2>2, <2>3, <2>4, <2>5
  <1>18. D \subseteq Available(P, E, id)
    BY <1>1, <1>4, <1>6
  <1>19. Cardinality(D) <= count
    <2>1. count \in Nat
      BY <1>1 DEF IsProblem, IsDemand
    <2> QED
      BY <1>7, <2>1
  <1>20. Picked(P, hot, E, id, D)
    BY <1>1, <1>7, <1>17, <1>18, <1>19 DEF Picked
  <1>21. Crew(y, id) = D
    BY <1>3, <1>20, PickedOnce
  <1> QED
    BY <1>1, <1>21

LEMMA OneIndex ==
  ASSUME NEW ed
  PROVE  /\ DOMAIN <<ed>> = {1} /\ <<ed>>[1] = ed
         /\ Max({1}) = 1 /\ {1} \ {1} = {}
         /\ \A U \in SUBSET {1} : U = {} \/ U = {1}
  <1>1. 1 \in 1..1 /\ 1..1 = {1}
    OBVIOUS
  <1>2. Max({1}) = 1
    BY <1>1, MaxIn
  <1>3. DOMAIN <<ed>> = {1} /\ <<ed>>[1] = ed
    BY <1>1
  <1>4. \A U \in SUBSET {1} : U = {} \/ U = {1}
    OBVIOUS
  <1> QED
    BY <1>2, <1>3, <1>4

LogStep(P, y, ed) == Bump(P, y, StoredEmployee(ed), ed.demand, BatchDelta(ed.type))

\* One stored row moves one entry.
LEMMA LogOfOne ==
  ASSUME NEW P, NEW aff, NEW ed
  PROVE  ApplyFeedbackLog(P, aff, <<ed>>) = LogStep(P, aff, ed)
  <1>1. PICK s : s = <<ed>>
    OBVIOUS
  <1> DEFINE Fills(it) == it = [U \in SUBSET DOMAIN s |->
               IF U = {} THEN aff
               ELSE Bump(P, it[U \ {Max(U)}], StoredEmployee(s[Max(U)]), s[Max(U)].demand, BatchDelta(s[Max(U)].type))]
             g == CHOOSE it : Fills(it)
  <1>2. ApplyFeedbackLog(P, aff, s) = g[DOMAIN s]
    BY DEF ApplyFeedbackLog, FoldLeft, MapThenFoldSet
  <1>3. /\ DOMAIN s = {1} /\ s[1] = ed
        /\ Max({1}) = 1 /\ {1} \ {1} = {}
        /\ \A U \in SUBSET {1} : U = {} \/ U = {1}
    BY <1>1, OneIndex
  <1>4. ASSUME NEW it
        PROVE  Fills(it) <=> it = [U \in SUBSET {1} |->
                 IF U = {} THEN aff ELSE LogStep(P, it[U \ {Max(U)}], s[Max(U)])]
    BY <1>3, Zenon DEF LogStep
  <1> HIDE DEF Fills
  <1>5. PICK f : f = [U \in SUBSET {1} |-> IF U = {} THEN aff ELSE LogStep(P, aff, ed)]
    OBVIOUS
  <1>6. \A U \in SUBSET {1} : U # {} => LogStep(P, f[U \ {Max(U)}], s[Max(U)]) = LogStep(P, aff, ed)
    <2> SUFFICES ASSUME NEW U \in SUBSET {1}, U # {}
                 PROVE  LogStep(P, f[U \ {Max(U)}], s[Max(U)]) = LogStep(P, aff, ed)
      OBVIOUS
    <2>1. U = {1} /\ Max(U) = 1 /\ U \ {Max(U)} = {} /\ s[Max(U)] = ed
      BY <1>3
    <2>2. f[{}] = aff
      BY <1>5
    <2> QED
      BY <2>1, <2>2
  <1>7. f = [U \in SUBSET {1} |-> IF U = {} THEN aff ELSE LogStep(P, f[U \ {Max(U)}], s[Max(U)])]
    BY <1>5, <1>6
  <1>8. Fills(g)
    BY <1>4, <1>7
  <1> HIDE DEF g
  <1>9. g = [U \in SUBSET {1} |-> IF U = {} THEN aff ELSE LogStep(P, g[U \ {Max(U)}], s[Max(U)])]
    BY <1>4, <1>8
  <1>10. g[{}] = aff /\ g[{1}] = LogStep(P, g[{1} \ {Max({1})}], s[Max({1})])
    <2>1. {} \in SUBSET {1} /\ {1} \in SUBSET {1} /\ {1} # {}
      OBVIOUS
    <2> QED
      BY <1>9, <2>1
  <1> QED
    BY <1>1, <1>2, <1>3, <1>10

EditStep(P, t, ed) ==
  LET Give(u, e, id) == Bump(P, u, e, id, LrFeedback)
      Take(u, e, id) == Bump(P, u, e, id, -LrFeedback)
  IN  CASE ed.type = "MOVE" -> Take(Give(t, ed.other, ed.demand), ed.employee, ed.demand)
        [] ed.type = "SWAP" -> LET one == Take(Give(t, ed.other, ed.demand), ed.employee, ed.demand)
                               IN  Take(Give(one, ed.employee, ed.otherDemand), ed.other, ed.otherDemand)
        [] ed.type = "ACCEPT" -> Bump(P, t, ed.employee, ed.demand, LrFeedback \div 4)
        [] ed.type \in {"REMOVE", "REJECT"} -> Take(t, ed.employee, ed.demand)

LEMMA EditOfOne ==
  ASSUME NEW P, NEW aff, NEW ed
  PROVE  ApplyFeedbackEdits(P, aff, <<ed>>) = EditStep(P, aff, ed)
  <1>1. PICK s : s = <<ed>>
    OBVIOUS
  <1> DEFINE Give(t, e, id) == Bump(P, t, e, id, LrFeedback)
             Take(t, e, id) == Bump(P, t, e, id, -LrFeedback)
             Edited(t, d) ==
               CASE d.type = "MOVE" -> Take(Give(t, d.other, d.demand), d.employee, d.demand)
                 [] d.type = "SWAP" -> LET one == Take(Give(t, d.other, d.demand), d.employee, d.demand)
                                       IN  Take(Give(one, d.employee, d.otherDemand), d.other, d.otherDemand)
                 [] d.type = "ACCEPT" -> Bump(P, t, d.employee, d.demand, LrFeedback \div 4)
                 [] d.type \in {"REMOVE", "REJECT"} -> Take(t, d.employee, d.demand)
             Fills(it) == it = [U \in SUBSET DOMAIN s |->
               IF U = {} THEN aff
               ELSE Edited(it[U \ {Max(U)}], s[Max(U)])]
             g == CHOOSE it : Fills(it)
  <1>2. ApplyFeedbackEdits(P, aff, s) = g[DOMAIN s]
    BY DEF ApplyFeedbackEdits, FoldLeft, MapThenFoldSet
  <1>3. /\ DOMAIN s = {1} /\ s[1] = ed
        /\ Max({1}) = 1 /\ {1} \ {1} = {}
        /\ \A U \in SUBSET {1} : U = {} \/ U = {1}
    BY <1>1, OneIndex
  <1>4. ASSUME NEW it
        PROVE  Fills(it) <=> it = [U \in SUBSET {1} |->
                 IF U = {} THEN aff ELSE EditStep(P, it[U \ {Max(U)}], s[Max(U)])]
    BY <1>3, Zenon DEF EditStep
  <1> HIDE DEF Fills
  <1>5. PICK f : f = [U \in SUBSET {1} |-> IF U = {} THEN aff ELSE EditStep(P, aff, ed)]
    OBVIOUS
  <1>6. \A U \in SUBSET {1} : U # {} => EditStep(P, f[U \ {Max(U)}], s[Max(U)]) = EditStep(P, aff, ed)
    <2> SUFFICES ASSUME NEW U \in SUBSET {1}, U # {}
                 PROVE  EditStep(P, f[U \ {Max(U)}], s[Max(U)]) = EditStep(P, aff, ed)
      OBVIOUS
    <2>1. U = {1} /\ Max(U) = 1 /\ U \ {Max(U)} = {} /\ s[Max(U)] = ed
      BY <1>3
    <2>2. f[{}] = aff
      BY <1>5
    <2> QED
      BY <2>1, <2>2
  <1>7. f = [U \in SUBSET {1} |-> IF U = {} THEN aff ELSE EditStep(P, f[U \ {Max(U)}], s[Max(U)])]
    BY <1>5, <1>6
  <1>8. Fills(g)
    BY <1>4, <1>7
  <1> HIDE DEF g
  <1>9. g = [U \in SUBSET {1} |-> IF U = {} THEN aff ELSE EditStep(P, g[U \ {Max(U)}], s[Max(U)])]
    BY <1>4, <1>8
  <1>10. g[{}] = aff /\ g[{1}] = EditStep(P, g[{1} \ {Max({1})}], s[Max({1})])
    <2>1. {} \in SUBSET {1} /\ {1} \in SUBSET {1} /\ {1} # {}
      OBVIOUS
    <2> QED
      BY <1>9, <2>1
  <1> QED
    BY <1>1, <1>2, <1>3, <1>10

KeepStep(y, ed) ==
  IF ed.type \in {"MOVE", "SWAP"} THEN (y \ {<<ed.employee, ed.demand>>}) \cup {<<ed.other, ed.demand>>}
  ELSE IF ed.type = "REMOVE" THEN y \ {<<ed.employee, ed.demand>>} ELSE y

LEMMA KeptOfOne ==
  ASSUME NEW x, NEW ed
  PROVE  InferAccepted(x, <<ed>>) = {a \in KeepStep(x, ed) : a[1] # 0}
  <1>1. PICK s : s = <<ed>>
    OBVIOUS
  <1> DEFINE Keep(y, d) ==
               IF d.type \in {"MOVE", "SWAP"} THEN (y \ {<<d.employee, d.demand>>}) \cup {<<d.other, d.demand>>}
               ELSE IF d.type = "REMOVE" THEN y \ {<<d.employee, d.demand>>} ELSE y
             Fills(it) == it = [U \in SUBSET DOMAIN s |->
               IF U = {} THEN x
               ELSE Keep(it[U \ {Max(U)}], s[Max(U)])]
             g == CHOOSE it : Fills(it)
  <1>2. InferAccepted(x, s) = {a \in g[DOMAIN s] : a[1] # 0}
    BY DEF InferAccepted, FoldLeft, MapThenFoldSet
  <1>3. /\ DOMAIN s = {1} /\ s[1] = ed
        /\ Max({1}) = 1 /\ {1} \ {1} = {}
        /\ \A U \in SUBSET {1} : U = {} \/ U = {1}
    BY <1>1, OneIndex
  <1>4. ASSUME NEW it
        PROVE  Fills(it) <=> it = [U \in SUBSET {1} |->
                 IF U = {} THEN x ELSE KeepStep(it[U \ {Max(U)}], s[Max(U)])]
    BY <1>3, Zenon DEF KeepStep
  <1> HIDE DEF Fills
  <1>5. PICK f : f = [U \in SUBSET {1} |-> IF U = {} THEN x ELSE KeepStep(x, ed)]
    OBVIOUS
  <1>6. \A U \in SUBSET {1} : U # {} => KeepStep(f[U \ {Max(U)}], s[Max(U)]) = KeepStep(x, ed)
    <2> SUFFICES ASSUME NEW U \in SUBSET {1}, U # {}
                 PROVE  KeepStep(f[U \ {Max(U)}], s[Max(U)]) = KeepStep(x, ed)
      OBVIOUS
    <2>1. U = {1} /\ Max(U) = 1 /\ U \ {Max(U)} = {} /\ s[Max(U)] = ed
      BY <1>3
    <2>2. f[{}] = x
      BY <1>5
    <2> QED
      BY <2>1, <2>2
  <1>7. f = [U \in SUBSET {1} |-> IF U = {} THEN x ELSE KeepStep(f[U \ {Max(U)}], s[Max(U)])]
    BY <1>5, <1>6
  <1>8. Fills(g)
    BY <1>4, <1>7
  <1> HIDE DEF g
  <1>9. g = [U \in SUBSET {1} |-> IF U = {} THEN x ELSE KeepStep(g[U \ {Max(U)}], s[Max(U)])]
    BY <1>4, <1>8
  <1>10. g[{}] = x /\ g[{1}] = KeepStep(g[{1} \ {Max({1})}], s[Max({1})])
    <2>1. {} \in SUBSET {1} /\ {1} \in SUBSET {1} /\ {1} # {}
      OBVIOUS
    <2> QED
      BY <1>9, <2>1
  <1> QED
    BY <1>1, <1>2, <1>3, <1>10

\* A correction of a place the proposal gave, among people the features do
\* not set further apart than the learning rates.
Told(P, ed, before) ==
  /\ <<ed.employee, ed.demand>> \in before
  /\ Distinct(P)
  /\ \A f \in P.employees :
       BaseScore(P, ed.employee, ed.demand) - BaseScore(P, f, ed.demand) < LrFeedback - LrTeacher

\* A move to somebody who can take the place.
Moves(P, ed, before) ==
  /\ ed.type = "MOVE" /\ ed.other \in P.employees /\ <<ed.other, ed.demand>> \notin before
  /\ EligibleFor(P, ed.other, ed.demand) /\ ~Conflicts(P, before, ed.other, ed.demand)

Drops(ed) ==
  \/ ed.type \in {"REMOVE", "REJECT"}
  \/ ed.type = "SWAP" /\ ed.other # ed.employee /\ ed.otherDemand # ed.demand

\* A bump of one demand leaves the scores on every other.
LEMMA BumpElsewhere ==
  ASSUME NEW P, Distinct(P), NEW aff, Scores(aff), NEW e, NEW id \in DOMAIN P.demands, NEW delta \in Int,
         NEW d \in DOMAIN P.demands \ {id}
  PROVE  \A f : AffinityOf(Bump(P, aff, e, id, delta), KeyOf(P, f, d)) = AffinityOf(aff, KeyOf(P, f, d))
  <1> TAKE f
  <1>1. KeyOf(P, f, d) # KeyOf(P, e, id)
    BY DEF KeyOf, Distinct
  <1>2. PICK k : k = KeyOf(P, f, d)
    OBVIOUS
  <1>3. AffinityOf(Bump(P, aff, e, id, delta), k)
          = AffinityOf(aff, k) + (IF id \in DOMAIN P.demands /\ e # 0 /\ k = KeyOf(P, e, id) THEN delta ELSE 0)
    <2>1. Bumped(P, aff, e, id, delta, Bump(P, aff, e, id, delta))
      BY BumpIs
    <2> QED
      BY <2>1 DEF Bumped
  <1>4. AffinityOf(aff, k) \in Int
    BY DEF AffinityOf, Scores
  <1> QED
    BY <1>1, <1>2, <1>3, <1>4

\* On this demand the table bff gives e so much more, and everybody else the same.
Nudged(P, aff, bff, e, id, delta) ==
  /\ Scores(bff)
  /\ AffinityOf(bff, KeyOf(P, e, id)) = AffinityOf(aff, KeyOf(P, e, id)) + delta
  /\ \A f : f # e => AffinityOf(bff, KeyOf(P, f, id)) = AffinityOf(aff, KeyOf(P, f, id))

LEMMA BumpHere ==
  ASSUME NEW P, NEW aff, Scores(aff), NEW e, e # 0, NEW id \in DOMAIN P.demands, NEW delta \in Int
  PROVE  Nudged(P, aff, Bump(P, aff, e, id, delta), e, id, delta)
  <1>1. /\ Scores(Bump(P, aff, e, id, delta))
        /\ \A k : AffinityOf(Bump(P, aff, e, id, delta), k)
                    = AffinityOf(aff, k) + (IF id \in DOMAIN P.demands /\ e # 0 /\ k = KeyOf(P, e, id) THEN delta ELSE 0)
    <2>1. Bumped(P, aff, e, id, delta, Bump(P, aff, e, id, delta))
      BY BumpIs
    <2> QED
      BY <2>1 DEF Bumped
  <1>2. \A k : AffinityOf(aff, k) \in Int
    BY DEF AffinityOf, Scores
  <1>3. AffinityOf(Bump(P, aff, e, id, delta), KeyOf(P, e, id)) = AffinityOf(aff, KeyOf(P, e, id)) + delta
    BY <1>1
  <1>4. ASSUME NEW f, f # e
        PROVE  AffinityOf(Bump(P, aff, e, id, delta), KeyOf(P, f, id)) = AffinityOf(aff, KeyOf(P, f, id))
    <2>1. PICK k : k = KeyOf(P, f, id)
      OBVIOUS
    <2>2. k # KeyOf(P, e, id)
      BY <1>4, <2>1 DEF KeyOf
    <2>3. AffinityOf(Bump(P, aff, e, id, delta), k) = AffinityOf(aff, k) + 0
      BY <1>1, <2>2
    <2> QED
      BY <1>2, <2>1, <2>3
  <1> QED
    BY <1>1, <1>3, <1>4 DEF Nudged

\* Any bump scores integers, and one of another demand or person moves nothing here.
LEMMA BumpThere ==
  ASSUME NEW P, Distinct(P), NEW aff, Scores(aff), NEW e, NEW d, NEW delta \in Int,
         NEW id \in DOMAIN P.demands, d # id
  PROVE  /\ Scores(Bump(P, aff, e, d, delta))
         /\ \A f : AffinityOf(Bump(P, aff, e, d, delta), KeyOf(P, f, id)) = AffinityOf(aff, KeyOf(P, f, id))
  <1>1. Scores(Bump(P, aff, e, d, delta))
    BY BumpIs DEF Bumped
  <1>2. CASE d \in DOMAIN P.demands
    BY <1>1, <1>2, BumpElsewhere
  <1>3. CASE d \notin DOMAIN P.demands
    BY <1>1, <1>3 DEF Bump
  <1> QED
    BY <1>2, <1>3

\* What is drawn up before and after the correction.
Lesson(P, ed, cold, x) ==
  /\ Scores(cold) /\ \A k : AffinityOf(cold, k) \in {0, LrTeacher}
  /\ Shaped(P, cold, x.before)
  /\ x.online = ProposeAssignments(P, EditStep(P, cold, ed))
  /\ x.batch = ProposeAssignments(P, LogStep(P, cold, ed))

LEMMA LessonIs ==
  ASSUME NEW P, IsProblem(P), Distinct(P), NEW teacher, teacher \subseteq Roster(P), NEW ed,
         NEW x, x = ProposedAfter(P, teacher, <<ed>>)
  PROVE  \E cold : Lesson(P, ed, cold, x)
  <1>1. PICK cold : cold = ApplyTeacher(P, <<>>, teacher)
    OBVIOUS
  <1>2. Scores(cold) /\ \A k : AffinityOf(cold, k) \in {0, LrTeacher}
    BY <1>1, ColdIs
  <1>3. /\ x.before = ProposeAssignments(P, cold)
        /\ x.online = ProposeAssignments(P, ApplyFeedbackEdits(P, cold, <<ed>>))
        /\ x.batch = ProposeAssignments(P, ApplyFeedbackLog(P, cold, <<ed>>))
    BY <1>1 DEF ProposedAfter
  <1>4. ApplyFeedbackEdits(P, cold, <<ed>>) = EditStep(P, cold, ed)
    BY EditOfOne
  <1>5. ApplyFeedbackLog(P, cold, <<ed>>) = LogStep(P, cold, ed)
    BY LogOfOne
  <1>6. Shaped(P, cold, ProposeAssignments(P, cold))
    BY <1>2, ProposalShape
  <1> QED
    BY <1>2, <1>3, <1>4, <1>5, <1>6 DEF Lesson

\* What the manager leaves of a crew after a move.
LEMMA MoveAccepted ==
  ASSUME NEW P, IsProblem(P), NEW before, before \subseteq Roster(P), NEW ed, ed.type = "MOVE",
         ed.other \in P.employees
  PROVE  Crew(InferAccepted(before, <<ed>>), ed.demand)
           = (Crew(before, ed.demand) \ {ed.employee}) \cup {ed.other}
  <1>1. PICK e, o, id : e = ed.employee /\ o = ed.other /\ id = ed.demand
    OBVIOUS
  <1>2. InferAccepted(before, <<ed>>) = {a \in (before \ {<<e, id>>}) \cup {<<o, id>>} : a[1] # 0}
    <2>1. InferAccepted(before, <<ed>>) = {a \in KeepStep(before, ed) : a[1] # 0}
      BY KeptOfOne
    <2>2. KeepStep(before, ed) = (before \ {<<e, id>>}) \cup {<<o, id>>}
      BY <1>1 DEF KeepStep
    <2> QED
      BY <2>1, <2>2
  <1>3. 0 \notin P.employees
    BY DEF IsProblem
  <1>4. \A a \in before : a = <<a[1], a[2]>> /\ a[1] # 0
    BY <1>3 DEF Roster
  <1>5. o # 0
    BY <1>1, <1>3
  <1>6. PICK A : A = InferAccepted(before, <<ed>>)
    OBVIOUS
  <1>7. \A f : f \in Crew(before, id) <=> <<f, id>> \in before
    BY <1>4 DEF Crew
  <1>8. \A a \in A : a = <<a[1], a[2]>>
    BY <1>2, <1>4, <1>6
  <1>9. \A f : f \in Crew(A, id) <=> <<f, id>> \in A
    BY <1>8 DEF Crew
  <1>10. \A f : <<f, id>> \in A <=> (<<f, id>> \in before /\ f # e) \/ f = o
    <2> TAKE f
    <2>1. <<f, id>> \in A <=> (<<f, id>> \in before /\ <<f, id>> # <<e, id>> /\ f # 0) \/ (f = o /\ f # 0)
      BY <1>2, <1>6
    <2>2. <<f, id>> \in before => f # 0
      BY <1>4
    <2> QED
      BY <1>5, <2>1, <2>2
  <1>11. Crew(A, id) = (Crew(before, id) \ {e}) \cup {o}
    BY <1>7, <1>9, <1>10
  <1> QED
    BY <1>1, <1>6, <1>11

\* A move is learned at once, and for a single place it outlives the retrain.
LEMMA MoveIsLearned ==
  ASSUME NEW P, IsProblem(P), NEW ed, NEW cold, NEW x, Lesson(P, ed, cold, x),
         Told(P, ed, x.before), Moves(P, ed, x.before)
  PROVE  LET accepted == InferAccepted(x.before, <<ed>>) IN
         /\ Crew(x.online, ed.demand) = Crew(accepted, ed.demand)
         /\ P.demands[ed.demand].count = 1 => Crew(x.batch, ed.demand) = Crew(accepted, ed.demand)
  <1>1. PICK e, o, id, before, C : /\ e = ed.employee /\ o = ed.other /\ id = ed.demand /\ before = x.before
                                   /\ C = (Crew(before, id) \ {e}) \cup {o}
    OBVIOUS
  <1>2. Scores(cold) /\ (\A k : AffinityOf(cold, k) \in {0, LrTeacher}) /\ Shaped(P, cold, before)
    BY <1>1 DEF Lesson
  <1>3. before \subseteq Roster(P)
    BY <1>2 DEF Shaped
  <1>4. /\ <<e, id>> \in before /\ Distinct(P)
        /\ \A f \in P.employees : BaseScore(P, e, id) - BaseScore(P, f, id) < LrFeedback - LrTeacher
    BY <1>1 DEF Told
  <1>5. e \in P.employees /\ id \in DOMAIN P.demands
    BY <1>3, <1>4 DEF Roster
  <1>6. /\ ed.type = "MOVE" /\ o \in P.employees /\ <<o, id>> \notin before
        /\ EligibleFor(P, o, id) /\ ~Conflicts(P, before, o, id)
    BY <1>1 DEF Moves
  <1>7. o # e /\ e # 0 /\ o # 0
    BY <1>4, <1>5, <1>6 DEF IsProblem
  <1>8. Crew(InferAccepted(x.before, <<ed>>), ed.demand) = C
    BY <1>1, <1>3, <1>6, MoveAccepted
  <1>9. LrFeedback \in Int /\ -LrFeedback \in Int
    BY DEF LrFeedback
  <1>10. \A k : AffinityOf(cold, k) \in Int
    BY <1>2 DEF Scores, AffinityOf
  <1>11. PICK give : give = Bump(P, cold, o, id, LrFeedback)
    OBVIOUS
  <1>12. /\ Scores(give)
         /\ AffinityOf(give, KeyOf(P, o, id)) = AffinityOf(cold, KeyOf(P, o, id)) + LrFeedback
         /\ \A f : f # o => AffinityOf(give, KeyOf(P, f, id)) = AffinityOf(cold, KeyOf(P, f, id))
    <2>1. Nudged(P, cold, give, o, id, LrFeedback)
      BY <1>2, <1>5, <1>7, <1>9, <1>11, BumpHere
    <2> QED
      BY <2>1 DEF Nudged
  <1>13. \A d \in DOMAIN P.demands \ {id} : Alike(P, cold, give, d)
    <2> SUFFICES ASSUME NEW d \in DOMAIN P.demands \ {id} PROVE Alike(P, cold, give, d)
      OBVIOUS
    <2>1. \A f : AffinityOf(give, KeyOf(P, f, d)) = AffinityOf(cold, KeyOf(P, f, d))
      BY <1>2, <1>4, <1>5, <1>9, <1>11, BumpElsewhere
    <2> QED
      BY <2>1 DEF Alike, ScoreCandidate, KeyOf
  <1>14. PICK hot : hot = Bump(P, give, e, id, -LrFeedback)
    OBVIOUS
  <1>15. /\ Scores(hot)
         /\ AffinityOf(hot, KeyOf(P, e, id)) = AffinityOf(give, KeyOf(P, e, id)) + (-LrFeedback)
         /\ \A f : f # e => AffinityOf(hot, KeyOf(P, f, id)) = AffinityOf(give, KeyOf(P, f, id))
    <2>1. Nudged(P, give, hot, e, id, -LrFeedback)
      BY <1>5, <1>7, <1>9, <1>12, <1>14, BumpHere
    <2> QED
      BY <2>1 DEF Nudged
  <1>16. \A d \in DOMAIN P.demands \ {id} : Alike(P, cold, hot, d)
    <2> SUFFICES ASSUME NEW d \in DOMAIN P.demands \ {id} PROVE Alike(P, cold, hot, d)
      OBVIOUS
    <2>1. \A f : AffinityOf(hot, KeyOf(P, f, d)) = AffinityOf(give, KeyOf(P, f, d))
      BY <1>4, <1>5, <1>9, <1>12, <1>14, BumpElsewhere
    <2>2. Alike(P, give, hot, d)
      BY <2>1 DEF Alike, ScoreCandidate, KeyOf
    <2> QED
      BY <1>13, <2>2 DEF Alike
  <1>17. Crew(x.online, id) = C
    <2>1. x.online = ProposeAssignments(P, hot)
      BY <1>1, <1>6, <1>11, <1>14 DEF Lesson, EditStep
    <2>2. PICK y : y = x.online /\ Shaped(P, hot, y)
      BY <1>15, <2>1, ProposalShape
    <2>3. AffinityOf(hot, KeyOf(P, o, id)) = AffinityOf(cold, KeyOf(P, o, id)) + LrFeedback
      BY <1>7, <1>12, <1>15
    <2>4. \A f \in P.employees \ {e, o} : AffinityOf(hot, KeyOf(P, f, id)) = AffinityOf(cold, KeyOf(P, f, id))
      BY <1>12, <1>15
    <2>5. AffinityOf(hot, KeyOf(P, e, id)) = AffinityOf(cold, KeyOf(P, e, id)) - LrFeedback
      BY <1>7, <1>10, <1>12, <1>15 DEF LrFeedback
    <2>6. Crew(y, id) = (Crew(before, id) \ {e}) \cup {o}
      BY <1>2, <1>4, <1>5, <1>6, <1>7, <1>15, <1>16, <2>2, <2>3, <2>4, <2>5, MoveIsMade
    <2> QED
      BY <1>1, <2>2, <2>6
  <1>18. ASSUME P.demands[id].count = 1 PROVE Crew(x.batch, id) = C
    <2>1. x.batch = ProposeAssignments(P, give)
      BY <1>1, <1>6, <1>7, <1>11 DEF Lesson, LogStep, StoredEmployee, BatchDelta
    <2>2. PICK y : y = x.batch /\ Shaped(P, give, y)
      BY <1>12, <2>1, ProposalShape
    <2>3. \A f \in P.employees \ {e, o} : AffinityOf(give, KeyOf(P, f, id)) = AffinityOf(cold, KeyOf(P, f, id))
      BY <1>12
    <2>4. AffinityOf(give, KeyOf(P, e, id)) = AffinityOf(cold, KeyOf(P, e, id))
      BY <1>7, <1>12
    <2>5. Crew(y, id) = (Crew(before, id) \ {e}) \cup {o}
      BY <1>2, <1>4, <1>5, <1>6, <1>7, <1>12, <1>13, <1>18, <2>2, <2>3, <2>4, MoveIsMade
    <2> QED
      BY <1>1, <2>2, <2>5
  <1> QED
    BY <1>1, <1>8, <1>17, <1>18

\* After a correction that takes e off, e is a last resort.
MarkedDown(P, cold, hot, e, id) ==
  /\ Scores(hot)
  /\ AffinityOf(hot, KeyOf(P, e, id)) = AffinityOf(cold, KeyOf(P, e, id)) - LrFeedback
  /\ \A f \in P.employees \ {e} : AffinityOf(hot, KeyOf(P, f, id)) >= AffinityOf(cold, KeyOf(P, f, id))

\* One penalty marks down, after bumps that favour others on this demand.
LEMMA PenaltyMarksDown ==
  ASSUME NEW P, NEW cold, NEW aff, Scores(cold), Scores(aff), NEW e, e # 0, NEW id \in DOMAIN P.demands,
         \A f : f # e => AffinityOf(aff, KeyOf(P, f, id)) >= AffinityOf(cold, KeyOf(P, f, id)),
         AffinityOf(aff, KeyOf(P, e, id)) = AffinityOf(cold, KeyOf(P, e, id))
  PROVE  MarkedDown(P, cold, Bump(P, aff, e, id, -LrFeedback), e, id)
  <1>1. -LrFeedback \in Int /\ LrFeedback \in Int
    BY DEF LrFeedback
  <1>2. PICK hot : hot = Bump(P, aff, e, id, -LrFeedback)
    OBVIOUS
  <1>3. Nudged(P, aff, hot, e, id, -LrFeedback)
    BY <1>1, <1>2, BumpHere
  <1>4. AffinityOf(cold, KeyOf(P, e, id)) \in Int
    BY DEF Scores, AffinityOf
  <1>5. AffinityOf(hot, KeyOf(P, e, id)) = AffinityOf(cold, KeyOf(P, e, id)) - LrFeedback
    BY <1>1, <1>3, <1>4 DEF Nudged
  <1> QED
    BY <1>2, <1>3, <1>5 DEF Nudged, MarkedDown

\* Who is removed, rejected or swapped out is marked down, at once and by the stored row.
LEMMA DropsMarkDown ==
  ASSUME NEW P, IsProblem(P), Distinct(P), NEW ed, Drops(ed), NEW cold, Scores(cold),
         ed.employee \in P.employees, ed.demand \in DOMAIN P.demands
  PROVE  /\ MarkedDown(P, cold, EditStep(P, cold, ed), ed.employee, ed.demand)
         /\ MarkedDown(P, cold, LogStep(P, cold, ed), ed.employee, ed.demand)
  <1>1. PICK e, o, id, d : e = ed.employee /\ o = ed.other /\ id = ed.demand /\ d = ed.otherDemand
    OBVIOUS
  <1>2. e \in P.employees /\ id \in DOMAIN P.demands /\ e # 0
    BY <1>1 DEF IsProblem
  <1>3. \A k : AffinityOf(cold, k) \in Int
    BY DEF Scores, AffinityOf
  <1>4. MarkedDown(P, cold, Bump(P, cold, e, id, -LrFeedback), e, id)
    BY <1>2, <1>3, PenaltyMarksDown
  <1>5. LogStep(P, cold, ed) = Bump(P, cold, e, id, -LrFeedback)
    <2>1. ed.type \in {"REMOVE", "REJECT", "SWAP"}
      BY DEF Drops
    <2>2. StoredEmployee(ed) = e /\ BatchDelta(ed.type) = -LrFeedback
      BY <1>1, <2>1 DEF StoredEmployee, BatchDelta
    <2> QED
      BY <1>1, <2>2 DEF LogStep
  <1>6. CASE ed.type \in {"REMOVE", "REJECT"}
    <2>1. EditStep(P, cold, ed) = Bump(P, cold, e, id, -LrFeedback)
      BY <1>1, <1>6 DEF EditStep
    <2> QED
      BY <1>1, <1>4, <1>5, <2>1
  <1>7. CASE ed.type = "SWAP" /\ o # e /\ d # id
    <2>1. LrFeedback \in Int /\ -LrFeedback \in Int /\ LrFeedback >= 0
      BY DEF LrFeedback
    <2>2. PICK give : give = Bump(P, cold, o, id, LrFeedback)
      OBVIOUS
    <2>3. /\ Scores(give) /\ AffinityOf(give, KeyOf(P, e, id)) = AffinityOf(cold, KeyOf(P, e, id))
          /\ \A f : AffinityOf(give, KeyOf(P, f, id)) >= AffinityOf(cold, KeyOf(P, f, id))
      <3>1. CASE o = 0
        <4>1. give = cold
          BY <2>2, <3>1 DEF Bump
        <4> QED
          BY <1>3, <4>1
      <3>2. CASE o # 0
        <4>1. Nudged(P, cold, give, o, id, LrFeedback)
          BY <1>2, <2>1, <2>2, <3>2, BumpHere
        <4>2. Scores(give) /\ AffinityOf(give, KeyOf(P, e, id)) = AffinityOf(cold, KeyOf(P, e, id))
          BY <1>7, <4>1 DEF Nudged
        <4>3. ASSUME NEW f PROVE AffinityOf(give, KeyOf(P, f, id)) >= AffinityOf(cold, KeyOf(P, f, id))
          <5>1. CASE f = o
            BY <1>3, <2>1, <4>1, <5>1 DEF Nudged
          <5>2. CASE f # o
            BY <1>3, <4>1, <5>2 DEF Nudged
          <5> QED
            BY <5>1, <5>2
        <4> QED
          BY <4>2, <4>3
      <3> QED
        BY <3>1, <3>2
    <2>4. PICK one : one = Bump(P, give, e, id, -LrFeedback)
      OBVIOUS
    <2>5. MarkedDown(P, cold, one, e, id)
      BY <1>2, <2>3, <2>4, PenaltyMarksDown
    <2>6. PICK two : two = Bump(P, one, e, d, LrFeedback)
      OBVIOUS
    <2>7. Scores(one)
      BY <2>5 DEF MarkedDown
    <2>8. Scores(two) /\ \A f : AffinityOf(two, KeyOf(P, f, id)) = AffinityOf(one, KeyOf(P, f, id))
      BY <1>2, <1>7, <2>1, <2>6, <2>7, BumpThere
    <2>9. PICK hot : hot = Bump(P, two, o, d, -LrFeedback)
      OBVIOUS
    <2>10. Scores(hot) /\ \A f : AffinityOf(hot, KeyOf(P, f, id)) = AffinityOf(two, KeyOf(P, f, id))
      BY <1>2, <1>7, <2>1, <2>8, <2>9, BumpThere
    <2>11. EditStep(P, cold, ed) = hot
      BY <1>1, <1>7, <2>2, <2>4, <2>6, <2>9 DEF EditStep
    <2>12. MarkedDown(P, cold, hot, e, id)
      BY <2>5, <2>8, <2>10 DEF MarkedDown
    <2> QED
      BY <1>1, <1>4, <1>5, <2>11, <2>12
  <1> QED
    BY <1>1, <1>6, <1>7 DEF Drops

\* Nobody is given a place again while somebody else is free.
LEMMA DropIsLearned ==
  ASSUME NEW P, IsProblem(P), NEW ed, NEW cold, NEW x, Lesson(P, ed, cold, x),
         Told(P, ed, x.before), Drops(ed),
         NEW y \in {x.online, x.batch}, <<ed.employee, ed.demand>> \in y,
         NEW f \in P.employees \ Crew(y, ed.demand), EligibleFor(P, f, ed.demand)
  PROVE  Conflicts(P, y, f, ed.demand)
  <1>1. PICK e, id, before : e = ed.employee /\ id = ed.demand /\ before = x.before
    OBVIOUS
  <1>2. Scores(cold) /\ (\A k : AffinityOf(cold, k) \in {0, LrTeacher}) /\ Shaped(P, cold, before)
    BY <1>1 DEF Lesson
  <1>3. /\ <<e, id>> \in before /\ Distinct(P)
        /\ \A g \in P.employees : BaseScore(P, e, id) - BaseScore(P, g, id) < LrFeedback - LrTeacher
    BY <1>1 DEF Told
  <1>4. e \in P.employees /\ id \in DOMAIN P.demands
    BY <1>2, <1>3 DEF Shaped, Roster
  <1>5. PICK hot : MarkedDown(P, cold, hot, e, id) /\ y = ProposeAssignments(P, hot)
    <2>1. /\ MarkedDown(P, cold, EditStep(P, cold, ed), e, id)
          /\ MarkedDown(P, cold, LogStep(P, cold, ed), e, id)
      BY <1>1, <1>2, <1>3, <1>4, DropsMarkDown
    <2> QED
      BY <2>1 DEF Lesson
  <1>6. /\ Scores(hot)
        /\ AffinityOf(hot, KeyOf(P, e, id)) = AffinityOf(cold, KeyOf(P, e, id)) - LrFeedback
        /\ \A g \in P.employees \ {e} : AffinityOf(hot, KeyOf(P, g, id)) >= AffinityOf(cold, KeyOf(P, g, id))
    BY <1>5 DEF MarkedDown
  <1>7. Shaped(P, hot, y)
    BY <1>5, <1>6, ProposalShape
  <1>8. Conflicts(P, y, f, id)
    BY <1>1, <1>2, <1>3, <1>4, <1>6, <1>7, DropIsLast
  <1> QED
    BY <1>1, <1>8

-----------------------------------------------------------------------------
(* The specification *)

\* The question stays, and whatever has been answered is the answer to it.
QuestionsInv ==
  LET q == question[2] IN
  /\ Asked("rank") => q \in RankQuestions /\ answer \subseteq {Ranked(q.shift, q.pool)}
  /\ Asked("propose") =>
       q \in ProposeQuestions /\ answer \subseteq {ProposeAssignments(q.problem, q.affinity)}
  /\ Asked("learn") =>
       q \in LearnQuestions /\ answer \subseteq {ProposedAfter(q.problem, q.teacher, <<q.edit>>)}
  /\ Asked("validate") => q \in ValidateQuestions /\ answer \subseteq {Feasible(q.problem, q.x)}
  /\ Asked("episode") =>
       q \in EpisodeQuestions /\ answer \subseteq {Episode(q.problem, q.slots, q.actions)}
  /\ Asked("scope") => q \in ScopeQuestions /\ answer \subseteq {ScopeAnswer(q.tenant, q.caller)}

LEMMA QuestionsCorrect == QuestionsSpec => []QuestionsInv
  <1>1. QuestionsInit => QuestionsInv
    BY DEF QuestionsInit, QuestionsInv, Asked
  <1>2. QuestionsInv /\ [QuestionsNext]_questionVars => QuestionsInv'
    <2> SUFFICES ASSUME QuestionsInv, [QuestionsNext]_questionVars PROVE QuestionsInv'
      OBVIOUS
    <2>1. question' = question
      BY DEF QuestionsNext, AnswerRank, AnswerPropose, AnswerLearn, AnswerValidate, AnswerEpisode,
             AnswerScope, Answer, questionVars
    <2>2. CASE AnswerRank
      BY <2>1, <2>2 DEF QuestionsInv, AnswerRank, Answer, Asked
    <2>3. CASE AnswerPropose
      BY <2>1, <2>3 DEF QuestionsInv, AnswerPropose, Answer, Asked
    <2>4. CASE AnswerLearn
      BY <2>1, <2>4 DEF QuestionsInv, AnswerLearn, Answer, Asked
    <2>5. CASE AnswerValidate
      BY <2>1, <2>5 DEF QuestionsInv, AnswerValidate, Answer, Asked
    <2>6. CASE AnswerEpisode
      BY <2>1, <2>6 DEF QuestionsInv, AnswerEpisode, Answer, Asked
    <2>7. CASE AnswerScope
      BY <2>1, <2>7 DEF QuestionsInv, AnswerScope, ScopeAnswer, Answer, Asked
    <2>8. CASE UNCHANGED questionVars
      BY <2>8 DEF QuestionsInv, Asked, questionVars
    <2> QED
      BY <2>2, <2>3, <2>4, <2>5, <2>6, <2>7, <2>8 DEF QuestionsNext
  <1> QED
    BY <1>1, <1>2, PTL DEF QuestionsSpec

(* Whoever may open a row by its id sees it in the plain list, and whoever *)
(* may act on one finds it in a list, for every tenant and caller.         *)
THEOREM ScopesFitTogether == QuestionsSpec => []ScopesAgree
  <1>1. QuestionsInv => ScopesAgree
    <2> SUFFICES ASSUME QuestionsInv, Asked("scope"), NEW x \in answer
                 PROVE  ScopesFit(question[2].caller, x)
      BY DEF ScopesAgree, ReadScopesAgree, ActorsSeeTheirWork, ScopesFit
    <2>1. PICK q \in ScopeQuestions : q = question[2] /\ x = ScopeAnswer(q.tenant, q.caller)
      BY DEF QuestionsInv
    <2> QED
      BY <2>1, ScopeAnswers
  <1> QED
    BY <1>1, QuestionsCorrect, PTL

(* Whatever the pool and the shift: whoever is ranked can be there in      *)
(* time, nobody of another unit is ranked while one of the shift's own     *)
(* fits, and the cheaper candidates come first.                            *)
THEOREM RankingsAreSound == QuestionsSpec => []RankingIsSound
  <1>1. QuestionsInv => RankingIsSound
    <2> SUFFICES ASSUME QuestionsInv, Asked("rank"), NEW a \in answer
                 PROVE  RankingSound(question[2].shift, question[2].pool, a)
      BY DEF RankingIsSound
    <2>1. PICK q \in RankQuestions : q = question[2] /\ a = Ranked(q.shift, q.pool)
      BY DEF QuestionsInv
    <2> QED
      BY <2>1, RankedIsSound
  <1> QED
    BY <1>1, QuestionsCorrect, PTL

(* Whatever the problem, the teacher, the correction, the schedule and the *)
(* actions: a proposal keeps the rules of the solver and leaves no place   *)
(* open that somebody could take, a correction is learned and outlives the *)
(* retrain, the validator passes exactly the solver's schedules, and the   *)
(* training environment books nobody twice.                                *)
THEOREM AgentIsRight == QuestionsSpec => []AgentKeepsRules
  <1>1. QuestionsInv => ProposalKeepsRules
    <2> SUFFICES ASSUME QuestionsInv, Asked("propose"), NEW x \in answer
                 PROVE  LET P == question[2].problem IN
                        /\ x \subseteq EligiblePairs(P)
                        /\ HardConstraints(P, x, TRUE)
                        /\ \A id \in Unmet(P, x) : \A e \in P.employees \ Crew(x, id) :
                             EligibleFor(P, e, id) => \E other \in Duties(x, e) :
                                Conflict(AbsWindow(P.demands[id]), AbsWindow(P.demands[other]))
      BY Zenon DEF ProposalKeepsRules
    <2>1. PICK q \in ProposeQuestions : q = question[2] /\ x = ProposeAssignments(q.problem, q.affinity)
      BY DEF QuestionsInv
    <2> QED
      BY <2>1, ProposalsKeepRules
  <1>2. QuestionsInv => CorrectionIsLearned
    <2> SUFFICES ASSUME QuestionsInv, Asked("learn"), NEW x \in answer,
                        NEW P, P = question[2].problem, NEW ed, ed = question[2].edit
                 PROVE  Told(P, ed, x.before) =>
                          /\ Moves(P, ed, x.before) =>
                               \A y \in {x.online} \cup (IF P.demands[ed.demand].count = 1 THEN {x.batch} ELSE {}) :
                                  Crew(y, ed.demand) = Crew(InferAccepted(x.before, <<ed>>), ed.demand)
                          /\ Drops(ed) =>
                               \A y \in {x.online, x.batch} : <<ed.employee, ed.demand>> \in y =>
                                 \A f \in P.employees \ Crew(y, ed.demand) :
                                    EligibleFor(P, f, ed.demand) => Conflicts(P, y, f, ed.demand)
      BY Zenon DEF CorrectionIsLearned, Told, Moves, Drops, Distinct
    <2> SUFFICES ASSUME Told(P, ed, x.before)
                 PROVE  /\ Moves(P, ed, x.before) =>
                             /\ Crew(x.online, ed.demand) = Crew(InferAccepted(x.before, <<ed>>), ed.demand)
                             /\ P.demands[ed.demand].count = 1 =>
                                  Crew(x.batch, ed.demand) = Crew(InferAccepted(x.before, <<ed>>), ed.demand)
                        /\ Drops(ed) =>
                             \A y \in {x.online, x.batch} : <<ed.employee, ed.demand>> \in y =>
                               \A f \in P.employees \ Crew(y, ed.demand) :
                                  EligibleFor(P, f, ed.demand) => Conflicts(P, y, f, ed.demand)
      OBVIOUS
    <2>1. PICK q \in LearnQuestions : q = question[2] /\ x = ProposedAfter(q.problem, q.teacher, <<q.edit>>)
      BY DEF QuestionsInv
    <2>2. IsProblem(P) /\ q.teacher \subseteq Roster(P) /\ x = ProposedAfter(P, q.teacher, <<ed>>)
      BY <2>1, QuestionsAssumption DEF Roster
    <2>3. Distinct(P)
      BY DEF Told
    <2>4. PICK cold : Lesson(P, ed, cold, x)
      BY <2>2, <2>3, LessonIs
    <2>5. ASSUME Moves(P, ed, x.before)
          PROVE  /\ Crew(x.online, ed.demand) = Crew(InferAccepted(x.before, <<ed>>), ed.demand)
                 /\ P.demands[ed.demand].count = 1 =>
                      Crew(x.batch, ed.demand) = Crew(InferAccepted(x.before, <<ed>>), ed.demand)
      BY <2>2, <2>4, <2>5, MoveIsLearned
    <2>6. ASSUME Drops(ed), NEW y \in {x.online, x.batch}, <<ed.employee, ed.demand>> \in y,
                 NEW f \in P.employees \ Crew(y, ed.demand), EligibleFor(P, f, ed.demand)
          PROVE  Conflicts(P, y, f, ed.demand)
      BY <2>2, <2>4, <2>6, DropIsLearned
    <2> QED
      BY <2>5, <2>6
  <1>3. QuestionsInv => ValidatorAgrees
    <2> SUFFICES ASSUME QuestionsInv, Asked("validate"), NEW verdict \in answer
                 PROVE  LET P == question[2].problem
                            x == question[2].x
                        IN  verdict <=> (x \subseteq EligiblePairs(P) /\ HardConstraints(P, x, FALSE))
      BY DEF ValidatorAgrees
    <2>1. PICK q \in ValidateQuestions : q = question[2] /\ verdict = Feasible(q.problem, q.x)
      BY DEF QuestionsInv
    <2>2. PICK P, x : P = q.problem /\ x = q.x
      OBVIOUS
    <2>3. IsProblem(P) /\ x \subseteq Roster(P)
      BY <2>2, QuestionsAssumption DEF Roster
    <2>4. Feasible(P, x) <=> (x \subseteq EligiblePairs(P) /\ HardConstraints(P, x, FALSE))
      BY <2>3, ValidatorIsRight
    <2> QED
      BY <2>1, <2>2, <2>4
  <1>4. QuestionsInv => EpisodeBooksOnce
    <2> SUFFICES ASSUME QuestionsInv, Asked("episode"), NEW x \in answer,
                        NEW P, P = question[2].problem, Daytime(P),
                        NEW e \in P.employees, NEW i \in Duties(x, e), NEW j \in Duties(x, e), i # j
                 PROVE  \/ AbsWindow(P.demands[i]).end <= AbsWindow(P.demands[j]).start
                        \/ AbsWindow(P.demands[j]).end <= AbsWindow(P.demands[i]).start
      BY Zenon DEF EpisodeBooksOnce, Daytime
    <2>1. PICK q \in EpisodeQuestions : q = question[2] /\ x = Episode(q.problem, q.slots, q.actions)
      BY DEF QuestionsInv
    <2> QED
      BY <2>1, EpisodesBookOnce
  <1>5. QuestionsInv => AgentKeepsRules
    BY <1>1, <1>2, <1>3, <1>4 DEF AgentKeepsRules
  <1> QED
    BY <1>5, QuestionsCorrect, PTL
=============================================================================
