-------------------------- MODULE ProcessorsProofs --------------------------
(***************************************************************************)
(* What the enrichers and aggregators of a round make of a batch: every use *)
(* of resources is counted once, and every request that is known.          *)
(***************************************************************************)
EXTENDS ProcessorStepsProofs, FiniteSetTheorems

-----------------------------------------------------------------------------
(* Sums over finite sets                                                   *)

\* A set of numbers has a least one.
LEMMA NatLeast ==
    ASSUME NEW T \in SUBSET Nat, T # {}
    PROVE  \E m \in T : \A n \in T : m <= n
<1> DEFINE R == OpToRel(<, Nat)
<1>1. IsWellFoundedOn(R, Nat)
  BY NatLessThanWellFounded, Zenon
<1> HIDE DEF R
<1>2. PICK m \in T : \A n \in T : ~ (<<n, m>> \in R)
  BY <1>1, WFMin, Zenon
<1>3. \A n \in T : ~(n < m)
  BY <1>2, Zenon DEF R, OpToRel
<1>4. \A n \in T : m <= n
  BY <1>3
<1> QED
  BY <1>4, Zenon

\* A family of subsets of a finite set has a smallest one.
LEMMA SmallestSubset ==
    ASSUME NEW U, IsFiniteSet(U), NEW F \in SUBSET SUBSET U, F # {}
    PROVE  \E s \in F : \A t \in F : t \subseteq s => t = s
<1>1. IsWellFoundedOn(StrictSubsetOrdering(U), SUBSET U)
  BY FS_StrictSubsetOrderingWellFounded, FS_FiniteSubsetsOfFinite, Zenon
<1>2. PICK s \in F : \A t \in F : ~ (<<t, s>> \in StrictSubsetOrdering(U))
  BY <1>1, WFMin, Zenon
<1>3. ASSUME NEW t \in F, t \subseteq s, t # s
      PROVE  FALSE
  BY <1>2, <1>3, Zenon DEF StrictSubsetOrdering
<1> QED
  BY <1>3, Zenon

\* The element a sum takes first, and the function that sums the subsets of S.
Chosen(s) == CHOOSE x \in s : TRUE
Rest(s) == s \ {Chosen(s)}
IsIter(g, f, S) == g = [s \in SUBSET S |-> IF s = {} THEN 0 ELSE f[Chosen(s)] + g[Rest(s)]]

\* A set that is not empty has an element to begin with.
LEMMA RestFacts ==
    ASSUME NEW S, NEW s \in SUBSET S, s # {}
    PROVE  Chosen(s) \in s /\ Rest(s) \in SUBSET S /\ Rest(s) \subseteq s /\ Rest(s) # s
  BY Zenon DEF Chosen, Rest

\* The recursion has a solution: by induction on the size of the subsets.
LEMMA IterExists ==
    ASSUME NEW f, NEW S, IsFiniteSet(S)
    PROVE  \E g : IsIter(g, f, S)
<1> DEFINE Step(g) == [s \in SUBSET S |-> IF s = {} THEN 0 ELSE f[Chosen(s)] + g[Rest(s)]]
           Small(n) == {s \in SUBSET S : Cardinality(s) <= n}
           Upto(n) == \E g : \A s \in Small(n) : g[s] = Step(g)[s]
           T == {n \in Nat : ~Upto(n)}
<1>0. \A s \in SUBSET S : IsFiniteSet(s) /\ Cardinality(s) \in Nat /\ Cardinality(s) <= Cardinality(S)
  BY FS_Subset, FS_CardinalityType, Zenon
<1>1. T = {}
  <2> SUFFICES ASSUME T # {}
               PROVE  FALSE
    BY Zenon
  <2>1. PICK m \in T : \A n \in T : m <= n
    BY NatLeast, Zenon
  <2>2. m # 0
    <3>1. \A s \in Small(0) : s = {}
      BY <1>0, FS_EmptySet
    <3> DEFINE z == [s \in SUBSET S |-> 0]
    <3>2. \A s \in Small(0) : z[s] = Step(z)[s]
      BY <3>1, Zenon
    <3>3. Upto(0)
      BY <3>2, Zenon
    <3> QED
      BY <3>3
  <2>3. m - 1 \in Nat /\ m - 1 \notin T
    <3>1. m \in Nat
      BY Zenon
    <3> HIDE DEF T
    <3>2. m - 1 \in Nat /\ ~(m <= m - 1)
      BY <2>2, <3>1
    <3> QED
      BY <2>1, <3>2, Zenon
  <2>4. PICK g : \A s \in Small(m - 1) : g[s] = Step(g)[s]
    BY <2>3, Zenon
  <2> DEFINE h == Step(g)
  <2>5. ASSUME NEW s \in Small(m)
        PROVE  h[s] = Step(h)[s]
    <3>1. CASE s = {}
      BY <3>1, Zenon
    <3>2. CASE s # {}
      <4>1. Rest(s) \in SUBSET S /\ Cardinality(Rest(s)) = Cardinality(s) - 1
        BY <3>2, <1>0, RestFacts, FS_RemoveElement, Zenon DEF Rest
      <4>2. Rest(s) \in Small(m - 1)
        BY <4>1, <1>0
      <4>3. h[Rest(s)] = g[Rest(s)]
        BY <2>4, <4>1, <4>2, Zenon
      <4> QED
        BY <3>2, <4>1, <4>3, Zenon
    <3> QED
      BY <3>1, <3>2, Zenon
  <2>6. Upto(m)
    BY <2>5, Zenon
  <2> QED
    BY <2>1, <2>6, Zenon
<1>2. PICK g : \A s \in Small(Cardinality(S)) : g[s] = Step(g)[s]
  <2>1. Cardinality(S) \in Nat
    BY <1>0, Zenon
  <2> QED
    BY <1>1, <2>1, Zenon
<1> DEFINE h == [s \in SUBSET S |-> g[s]]
<1>3. \A s \in SUBSET S : h[s] = Step(g)[s]
  BY <1>0, <1>2, Zenon
<1>4. \A s \in SUBSET S : s # {} => g[Rest(s)] = h[Rest(s)]
  BY RestFacts, Zenon
<1>5. h = Step(h)
  BY <1>3, <1>4, Zenon
<1> QED
  BY <1>5, Zenon DEF IsIter

\* SumFunctionOnSet is that function at the whole set.
LEMMA SumIsIter ==
   ASSUME NEW f, NEW S, IsFiniteSet(S)
   PROVE \E g : IsIter(g, f, S) /\ SumFunctionOnSet(f, S) = g[S]
<1>0. PICK h : IsIter(h, f, S)
  BY IterExists, Zenon
<1> DEFINE g == CHOOSE g : g = [s \in SUBSET S |-> IF s = {} THEN 0 ELSE f[Chosen(s)] + g[s \ {Chosen(s)}]]
<1>1. g = [s \in SUBSET S |-> IF s = {} THEN 0 ELSE f[Chosen(s)] + g[s \ {Chosen(s)}]]
  BY <1>0, Zenon DEF IsIter, Rest
<1>2. SumFunctionOnSet(f, S) = g[S]
  BY Zenon DEF SumFunctionOnSet, FoldFunctionOnSet, MapThenFoldSet, Chosen
<1> QED BY <1>1, <1>2, Zenon DEF IsIter, Rest

\* Its values are integers, and any element may be taken first.
LEMMA IterFacts ==
   ASSUME NEW f, NEW S, IsFiniteSet(S), \A x \in S : f[x] \in Int, NEW g, IsIter(g, f, S)
   PROVE  /\ \A s \in SUBSET S : g[s] \in Int
          /\ \A s \in SUBSET S : \A x \in s : g[s] = f[x] + g[s \ {x}]
<1>0. \A s \in SUBSET S : g[s] = IF s = {} THEN 0 ELSE f[Chosen(s)] + g[Rest(s)]
  BY Zenon DEF IsIter
<1>1. ASSUME NEW s \in SUBSET S, g[s] \notin Int
      PROVE  FALSE
  <2> DEFINE F == {t \in SUBSET S : g[t] \notin Int}
  <2>0. F \in SUBSET SUBSET S /\ F # {}
    BY <1>1, Zenon
  <2>1. PICK t \in F : \A u \in F : u \subseteq t => u = t
    <3> HIDE DEF F
    <3> QED
      BY <2>0, SmallestSubset
  <2>2. t # {}
    <3>1. t \in SUBSET S /\ g[t] \notin Int
      BY <2>1, Zenon
    <3> QED
      BY <1>0, <3>1
  <2>3. g[Rest(t)] \in Int /\ f[Chosen(t)] \in Int
    BY <2>1, <2>2, RestFacts
  <2> QED
    BY <1>0, <2>1, <2>2, <2>3
<1>2. ASSUME NEW s \in SUBSET S, NEW x \in s, g[s] # f[x] + g[s \ {x}]
      PROVE  FALSE
  <2> DEFINE F == {t \in SUBSET S : \E y \in t : g[t] # f[y] + g[t \ {y}]}
  <2>0. F \in SUBSET SUBSET S /\ F # {}
    BY <1>2, Zenon
  <2>1. PICK t \in F : \A u \in F : u \subseteq t => u = t
    <3> HIDE DEF F
    <3> QED
      BY <2>0, SmallestSubset
  <2>2. PICK y \in t : g[t] # f[y] + g[t \ {y}]
    BY <2>1, Zenon
  <2> DEFINE c == Chosen(t)
  <2>3. c \in t /\ g[t] = f[c] + g[t \ {c}]
    BY <1>0, <2>1, <2>2, RestFacts, Zenon DEF Rest
  <2> HIDE DEF c
  <2>4. c # y
    BY <2>2, <2>3, Zenon
  <2>5. t \ {c} \notin F /\ t \ {y} \notin F
    BY <2>1, <2>2, <2>3, Zenon
  <2>6. g[t \ {c}] = f[y] + g[(t \ {c}) \ {y}]
    BY <2>1, <2>2, <2>4, <2>5, Zenon
  <2>7. g[t \ {y}] = f[c] + g[(t \ {y}) \ {c}]
    BY <2>1, <2>3, <2>4, <2>5, Zenon
  <2>8. (t \ {c}) \ {y} = (t \ {y}) \ {c}
    BY Zenon
  <2>9. f[y] \in Int /\ f[c] \in Int /\ g[(t \ {y}) \ {c}] \in Int
    BY <1>1, <2>1, <2>2, <2>3, Zenon
  <2> DEFINE w == g[(t \ {y}) \ {c}]
  <2>a. g[t] = f[c] + (f[y] + w) /\ g[t \ {y}] = f[c] + w /\ w \in Int
    BY <2>3, <2>6, <2>7, <2>8, <2>9, Zenon
  <2> HIDE DEF w, F
  <2>b. f[c] + (f[y] + w) = f[y] + (f[c] + w)
    BY <2>9, <2>a
  <2> QED
    BY <2>2, <2>a, <2>b, Zenon
<1> QED
  BY <1>1, <1>2, Zenon

\* It does not depend on the set whose subsets it sums.
LEMMA IterSame ==
   ASSUME NEW f, NEW S, IsFiniteSet(S), NEW Q \in SUBSET S,
          NEW g, IsIter(g, f, S), NEW h, IsIter(h, f, Q)
   PROVE  g[Q] = h[Q]
<1> SUFFICES ASSUME g[Q] # h[Q]
             PROVE  FALSE
  BY Zenon
<1> DEFINE F == {t \in SUBSET Q : g[t] # h[t]}
<1>0. IsFiniteSet(Q)
  BY FS_Subset, Zenon
<1>a. F \in SUBSET SUBSET Q /\ F # {}
  BY Zenon
<1>1. PICK t \in F : \A u \in F : u \subseteq t => u = t
  <2> HIDE DEF F
  <2> QED
    BY <1>0, <1>a, SmallestSubset
<1>2. /\ g[t] = IF t = {} THEN 0 ELSE f[Chosen(t)] + g[Rest(t)]
      /\ h[t] = IF t = {} THEN 0 ELSE f[Chosen(t)] + h[Rest(t)]
  BY <1>1, Zenon DEF IsIter
<1>3. t # {}
  BY <1>1, <1>2, Zenon
<1>4. Rest(t) \notin F /\ Rest(t) \in SUBSET Q
  BY <1>1, <1>3, RestFacts, Zenon
<1> QED
  BY <1>1, <1>2, <1>3, <1>4, Zenon

\* The sum of a function over a finite set: of the empty set, and with any one element taken out.
LEMMA SumFacts ==
   ASSUME NEW f, NEW S, IsFiniteSet(S), \A x \in S : f[x] \in Int
   PROVE  /\ SumFunctionOnSet(f, S) \in Int
          /\ S = {} => SumFunctionOnSet(f, S) = 0
          /\ \A x \in S : SumFunctionOnSet(f, S) = f[x] + SumFunctionOnSet(f, S \ {x})
<1>1. PICK g : IsIter(g, f, S) /\ SumFunctionOnSet(f, S) = g[S]
  BY SumIsIter, Zenon
<1>2. SumFunctionOnSet(f, S) \in Int
  BY <1>1, IterFacts
<1>3. S = {} => SumFunctionOnSet(f, S) = 0
  BY <1>1, Zenon DEF IsIter
<1>4. ASSUME NEW x \in S
      PROVE  SumFunctionOnSet(f, S) = f[x] + SumFunctionOnSet(f, S \ {x})
  <2>1. IsFiniteSet(S \ {x})
    BY FS_Subset, Zenon
  <2>2. PICK h : IsIter(h, f, S \ {x}) /\ SumFunctionOnSet(f, S \ {x}) = h[S \ {x}]
    BY <2>1, SumIsIter, Zenon
  <2>3. g[S \ {x}] = h[S \ {x}]
    BY <1>1, <2>2, IterSame
  <2>4. g[S] = f[x] + g[S \ {x}]
    BY <1>1, IterFacts
  <2> QED
    BY <1>1, <2>2, <2>3, <2>4, Zenon
<1> QED
  BY <1>2, <1>3, <1>4, Zenon

\* Induction over the subsets of a finite set, for a property given as the set
\* of the subsets that have it.
LEMMA SubsetInduction ==
    ASSUME NEW S, IsFiniteSet(S), NEW F \in SUBSET SUBSET S, {} \in F,
           \A s \in F : \A x \in S \ s : s \cup {x} \in F
    PROVE  S \in F
<1> SUFFICES ASSUME S \notin F
             PROVE  FALSE
  BY Zenon
<1> DEFINE G == {s \in SUBSET S : s \notin F}
<1>1. G \in SUBSET SUBSET S /\ G # {}
  BY Zenon
<1>2. PICK t \in G : \A u \in G : u \subseteq t => u = t
  <2> HIDE DEF G
  <2> QED
    BY <1>1, SmallestSubset
<1>a. t \in SUBSET S /\ t \notin F
  BY <1>2, Zenon
<1>b. t # {}
  BY <1>a, Zenon
<1>3. PICK x : x \in t
  BY <1>b, Zenon
<1>4. t \ {x} \in F
  BY <1>2, <1>3
<1>5. (t \ {x}) \cup {x} = t /\ x \in S \ (t \ {x})
  BY <1>3, <1>a, Zenon
<1>6. PICK u \in F : u = t \ {x}
  BY <1>4, Zenon
<1>7. u \cup {x} \in F
  BY <1>5, <1>6, Zenon
<1> QED
  BY <1>5, <1>6, <1>7, <1>a, Zenon

\* A sum with one more element.
LEMMA SumAdd ==
    ASSUME NEW f, NEW s, IsFiniteSet(s), NEW x, x \notin s, \A y \in s \cup {x} : f[y] \in Int
    PROVE  SumFunctionOnSet(f, s \cup {x}) = f[x] + SumFunctionOnSet(f, s)
<1>1. IsFiniteSet(s \cup {x})
  BY FS_AddElement, Zenon
<1>2. (s \cup {x}) \ {x} = s
  BY Zenon
<1> QED
  BY <1>1, <1>2, SumFacts

\* A sum over nothing is zero.
LEMMA SumEmpty ==
    ASSUME NEW f
    PROVE  SumFunctionOnSet(f, {}) = 0
  BY FS_EmptySet, SumFacts, Zenon

\* A larger function has a larger sum.
LEMMA SumLess ==
    ASSUME NEW S, IsFiniteSet(S), NEW f, NEW g,
           \A x \in S : f[x] \in Int /\ g[x] \in Int /\ f[x] <= g[x]
    PROVE  SumFunctionOnSet(f, S) <= SumFunctionOnSet(g, S)
<1> DEFINE F == {s \in SUBSET S : SumFunctionOnSet(f, s) <= SumFunctionOnSet(g, s)}
<1>1. {} \in F
  BY SumEmpty
<1>2. ASSUME NEW s \in F, NEW x \in S \ s
      PROVE  s \cup {x} \in F
  <2>1. IsFiniteSet(s)
    BY FS_Subset, Zenon
  <2>2. /\ SumFunctionOnSet(f, s \cup {x}) = f[x] + SumFunctionOnSet(f, s)
        /\ SumFunctionOnSet(g, s \cup {x}) = g[x] + SumFunctionOnSet(g, s)
    BY <2>1, SumAdd, Zenon
  <2>3. SumFunctionOnSet(f, s) \in Int /\ SumFunctionOnSet(g, s) \in Int
    BY <2>1, SumFacts, Zenon
  <2> QED
    BY <2>2, <2>3
<1> HIDE DEF F
<1>3. S \in F
  <2>1. F \in SUBSET SUBSET S
    BY Zenon DEF F
  <2> QED
    BY <1>1, <1>2, <2>1, SubsetInduction, Zenon
<1> QED
  BY <1>3, Zenon DEF F

\* Functions that agree have the same sum.
LEMMA SumSame ==
    ASSUME NEW S, IsFiniteSet(S), NEW f, NEW g, \A x \in S : f[x] \in Int /\ f[x] = g[x]
    PROVE  SumFunctionOnSet(f, S) = SumFunctionOnSet(g, S)
<1>1. SumFunctionOnSet(f, S) \in Int /\ SumFunctionOnSet(g, S) \in Int
  BY SumFacts, Zenon
<1>2. \A x \in S : f[x] <= g[x] /\ g[x] <= f[x] /\ g[x] \in Int
  OBVIOUS
<1>3. /\ SumFunctionOnSet(f, S) <= SumFunctionOnSet(g, S)
      /\ SumFunctionOnSet(g, S) <= SumFunctionOnSet(f, S)
  BY <1>2, SumLess, Zenon
<1> QED
  BY <1>1, <1>3

\* A sum of zeros is zero.
LEMMA SumZero ==
    ASSUME NEW S, IsFiniteSet(S), NEW f, \A x \in S : f[x] = 0
    PROVE  SumFunctionOnSet(f, S) = 0
<1> DEFINE F == {s \in SUBSET S : SumFunctionOnSet(f, s) = 0}
<1>1. {} \in F
  BY SumEmpty, Zenon
<1>2. ASSUME NEW s \in F, NEW x \in S \ s
      PROVE  s \cup {x} \in F
  <2>1. IsFiniteSet(s)
    BY FS_Subset, Zenon
  <2>2. SumFunctionOnSet(f, s \cup {x}) = f[x] + SumFunctionOnSet(f, s)
    BY <2>1, SumAdd
  <2> QED
    BY <2>2
<1> HIDE DEF F
<1>3. S \in F
  <2>1. F \in SUBSET SUBSET S
    BY Zenon DEF F
  <2> QED
    BY <1>1, <1>2, <2>1, SubsetInduction, Zenon
<1> QED
  BY <1>3, Zenon DEF F

\* The sum over two sets that have nothing in common.
LEMMA SumUnion ==
    ASSUME NEW A, NEW S, IsFiniteSet(A), IsFiniteSet(S), A \cap S = {},
           NEW f, \A x \in A \cup S : f[x] \in Int
    PROVE  SumFunctionOnSet(f, A \cup S) = SumFunctionOnSet(f, A) + SumFunctionOnSet(f, S)
<1> DEFINE F == {s \in SUBSET S : SumFunctionOnSet(f, A \cup s) =
                                    SumFunctionOnSet(f, A) + SumFunctionOnSet(f, s)}
<1>0. SumFunctionOnSet(f, A) \in Int
  BY SumFacts, Zenon
<1>1. {} \in F
  <2>1. A \cup {} = A
    BY Zenon
  <2> QED
    BY <1>0, <2>1, SumEmpty
<1>2. ASSUME NEW s \in F, NEW x \in S \ s
      PROVE  s \cup {x} \in F
  <2>1. IsFiniteSet(s) /\ IsFiniteSet(A \cup s)
    BY FS_Subset, FS_Union, Zenon
  <2>2. A \cup (s \cup {x}) = (A \cup s) \cup {x} /\ x \notin A \cup s
    BY Zenon
  <2>3. SumFunctionOnSet(f, (A \cup s) \cup {x}) = f[x] + SumFunctionOnSet(f, A \cup s)
    BY <2>1, <2>2, SumAdd, Zenon
  <2>4. SumFunctionOnSet(f, s \cup {x}) = f[x] + SumFunctionOnSet(f, s)
    BY <2>1, SumAdd, Zenon
  <2>5. SumFunctionOnSet(f, s) \in Int /\ f[x] \in Int
    BY <2>1, SumFacts, Zenon
  <2>6. SumFunctionOnSet(f, A \cup s) = SumFunctionOnSet(f, A) + SumFunctionOnSet(f, s)
    BY Zenon
  <2>7. f[x] + (SumFunctionOnSet(f, A) + SumFunctionOnSet(f, s)) =
            SumFunctionOnSet(f, A) + (f[x] + SumFunctionOnSet(f, s))
    BY <1>0, <2>5
  <2>8. SumFunctionOnSet(f, A \cup (s \cup {x})) =
            SumFunctionOnSet(f, A) + SumFunctionOnSet(f, s \cup {x})
    BY <2>2, <2>3, <2>4, <2>6, <2>7, Zenon
  <2> QED
    BY <2>8, Zenon
<1> HIDE DEF F
<1>3. S \in F
  <2>1. F \in SUBSET SUBSET S
    BY Zenon DEF F
  <2> QED
    BY <1>1, <1>2, <2>1, SubsetInduction, Zenon
<1> QED
  BY <1>3, Zenon DEF F

\* A sum of sums: the elements of C grouped by their first component.
LEMMA SumOfSums ==
    ASSUME NEW C, NEW P, IsFiniteSet(C), IsFiniteSet(P), \A c \in C : c[1] \in P,
           NEW f, \A c \in C : f[c] \in Int,
           NEW h, \A p \in P : \E S : /\ h[p] = SumFunctionOnSet(f, S)
                                      /\ \A c : c \in S <=> c \in C /\ c[1] = p
    PROVE  SumFunctionOnSet(h, P) = SumFunctionOnSet(f, C)
<1> DEFINE Of(s) == {c \in C : c[1] \in s}
           F == {s \in SUBSET P : SumFunctionOnSet(h, s) = SumFunctionOnSet(f, Of(s))}
<1>0. \A s : IsFiniteSet(Of(s))
  BY FS_Subset, Zenon
<1>a. \A p \in P : h[p] = SumFunctionOnSet(f, {c \in C : c[1] = p})
  <2> TAKE p \in P
  <2>1. PICK S : h[p] = SumFunctionOnSet(f, S) /\ \A c : c \in S <=> c \in C /\ c[1] = p
    BY Zenon
  <2>2. S = {c \in C : c[1] = p}
    BY <2>1, Zenon
  <2> QED
    BY <2>1, <2>2, Zenon
<1>1. {} \in F
  <2>1. Of({}) = {}
    BY Zenon
  <2> QED
    BY <2>1, SumEmpty, Zenon
<1>2. ASSUME NEW s \in F, NEW x \in P \ s
      PROVE  s \cup {x} \in F
  <2> DEFINE X == {c \in C : c[1] = x}
  <2>1. IsFiniteSet(s) /\ IsFiniteSet(X)
    BY FS_Subset, Zenon
  <2>2. \A p \in P : h[p] \in Int
    <3> TAKE p \in P
    <3> DEFINE Q == {c \in C : c[1] = p}
    <3>1. IsFiniteSet(Q) /\ \A c \in Q : f[c] \in Int
      BY FS_Subset, Zenon
    <3>2. h[p] = SumFunctionOnSet(f, Q)
      BY <1>a, Zenon
    <3> HIDE DEF Q
    <3> QED
      BY <3>1, <3>2, SumFacts
  <2>3. SumFunctionOnSet(h, s \cup {x}) = h[x] + SumFunctionOnSet(h, s)
    BY <2>1, <2>2, SumAdd, Zenon
  <2>4. Of(s \cup {x}) = X \cup Of(s) /\ X \cap Of(s) = {}
    BY Zenon
  <2>5. SumFunctionOnSet(f, X \cup Of(s)) = SumFunctionOnSet(f, X) + SumFunctionOnSet(f, Of(s))
    <3>1. IsFiniteSet(Of(s)) /\ \A c \in X \cup Of(s) : f[c] \in Int
      BY <1>0, Zenon
    <3> HIDE DEF X, Of
    <3> QED
      BY <2>1, <2>4, <3>1, SumUnion
  <2> QED
    BY <1>a, <2>3, <2>4, <2>5, Zenon
<1>3. Of(P) = C
  BY Zenon
<1> HIDE DEF F
<1>4. P \in F
  <2>1. F \in SUBSET SUBSET P
    BY Zenon DEF F
  <2> QED
    BY <1>1, <1>2, <2>1, SubsetInduction, Zenon
<1> QED
  BY <1>3, <1>4, Zenon DEF F

-----------------------------------------------------------------------------
(* The processors                                                          *)

\* All that is summed over is finite.
LEMMA FiniteParts ==
    /\ IsFiniteSet(Containers) /\ IsFiniteSet(Pods) /\ IsFiniteSet(Namespaces)
    /\ \A p : IsFiniteSet(ContainersOfPod(p)) /\ \A n : IsFiniteSet(PodsOf(n))
<1>1. IsFiniteSet(Containers) /\ IsFiniteSet(Pods)
  BY ProcessorsAssumption, FS_Union, Zenon DEF Containers
<1>2. IsFiniteSet(Namespaces)
  <2> DEFINE f == [p \in Pods |-> p[1]]
  <2>1. f \in Surjection(Pods, Namespaces)
    BY Zenon DEF Surjection, Namespaces
  <2> QED
    BY <1>1, <2>1, FS_Surjection, Zenon
<1> QED
  BY <1>1, <1>2, FS_Subset, Zenon DEF ContainersOfPod, PodsOf

\* The sums over the parts of a batch obey the laws that the steps need.
LEMMA SumLawsHold == SumLaws
<1> SUFFICES ASSUME NEW s, s \subseteq Containers \/ s \subseteq Pods \/ s \subseteq Namespaces, NEW f
             PROVE  /\ (\A y \in s : f[y] = 0) => SumFunctionOnSet(f, s) = 0
                    /\ \A x : x \notin s /\ (\A y \in s \cup {x} : f[y] \in Int) =>
                          SumFunctionOnSet(f, s \cup {x}) = f[x] + SumFunctionOnSet(f, s)
  BY Zenon DEF SumLaws
<1>1. IsFiniteSet(s)
  BY FiniteParts, FS_Subset, Zenon
<1> QED
  BY <1>1, SumZero, SumAdd, Zenon

\* The invariant holds of a scraped batch.
LEMMA ProcInit ==
    ASSUME Init
    PROVE  ProcInv
<1>1. /\ stage = "podEnricher" /\ todo = KeysOf(batch, {"pod", "container"})
      /\ made = NoSets /\ required = {} /\ podLister \in SUBSET Pods /\ changed = {} /\ reported = batch
  BY Zenon DEF Init
<1>2. PICK withSet \in SUBSET ScrapedKeys : \E silent \in SUBSET (withSet \ {NodeKey}) :
          batch = [k \in Keys |->
            IF k \notin withSet THEN NoSet
            ELSE [EmptySet(TRUE, FALSE) EXCEPT
                    !.values["usage"] = IF k \in silent THEN None ELSE Usage[k],
                    !.values["total"] = IF k \in silent THEN None ELSE Usage[k]]]
  BY Zenon DEF Init
<1>3. PICK silent \in SUBSET (withSet \ {NodeKey}) :
          batch = [k \in Keys |->
            IF k \notin withSet THEN NoSet
            ELSE [EmptySet(TRUE, FALSE) EXCEPT
                    !.values["usage"] = IF k \in silent THEN None ELSE Usage[k],
                    !.values["total"] = IF k \in silent THEN None ELSE Usage[k]]]
  BY <1>2, Zenon
<1>4. ASSUME NEW k \in Keys
      PROVE  \/ k \in withSet /\ batch[k] \in MetricSet /\ batch[k].values["request"] = None
                  /\ batch[k].values["usage"] \in {None, Usage[k]}
             \/ k \notin withSet /\ batch[k] = NoSet
  <2>1. CASE k \notin withSet
    BY <1>3, <2>1, Zenon
  <2>2. CASE k \in withSet
    <3> DEFINE v == IF k \in silent THEN None ELSE Usage[k]
    <3>1. v \in Nat \cup {None} /\ v \in {None, Usage[k]}
      BY <2>2, ProcessorsAssumption, Zenon
    <3>2. batch[k] = [EmptySet(TRUE, FALSE) EXCEPT !.values["usage"] = v, !.values["total"] = v]
      BY <1>3, <2>2, Zenon
    <3> HIDE DEF v
    <3>3. EmptySet(TRUE, FALSE) \in MetricSet /\ EmptySet(TRUE, FALSE).values["request"] = None
      BY EmptyIsSet, Zenon DEF Metrics
    <3> DEFINE e1 == [EmptySet(TRUE, FALSE) EXCEPT !.values["usage"] = v]
               e2 == [e1 EXCEPT !.values["total"] = v]
    <3>4. batch[k] = e2
      BY <3>2, Zenon
    <3>5. e1 \in MetricSet /\ e1.values["request"] = None /\ e1.values["usage"] = v
      BY <3>1, <3>3, Zenon DEF MetricSet, Metrics
    <3> HIDE DEF e1
    <3>6. e2 \in MetricSet /\ e2.values["request"] = None /\ e2.values["usage"] = v
      BY <3>1, <3>5, Zenon DEF MetricSet, Metrics
    <3> QED
      BY <2>2, <3>1, <3>4, <3>6, Zenon
  <2> QED
    BY <2>1, <2>2, Zenon
<1>5. batch \in Sets
  <2>1. batch = [k \in Keys |-> batch[k]]
    BY <1>3, Zenon
  <2> QED
    BY <1>4, <2>1, Zenon DEF Sets
<1>6. \A k \in Keys : Has(batch, k) = (k \in withSet) /\ Figure(batch, k, "request") = None
  BY <1>4, SetsDiffer DEF Has, Figure
<1>7. \A k \in Keys : ~Has(made, k) /\ \A m \in Metrics : Figure(made, k, m) = None
  BY <1>1, NoSetsType, Zenon
<1>8. /\ \A c \in Containers : ContainerKey(c) \in Keys /\ ContainerKey(c)[1] = "container"
      /\ \A q \in Pods : PodKey(q) \in Keys /\ PodKey(q)[1] = "pod"
      /\ \A n \in Namespaces : NsKey(n) \in Keys /\ NsKey(n)[1] = "namespace"
      /\ ClusterKey \in Keys
  BY KeyKinds, Zenon
<1>9. "usage" \in Metrics /\ "request" \in Metrics /\ \A m \in Summed : m \in Metrics
  BY Zenon DEF Metrics, Summed
<1>10. ProcTypes
  BY <1>1, <1>5, NoSetsType, Zenon DEF ProcTypes, Stages, Early, RangeOf
<1>11. ReportedInv
  <2>1. \A k \in Keys : Has(reported, k) => k \in ScrapedKeys /\ reported[k].values["usage"] \in {None, Usage[k]}
    BY <1>1, <1>4, <1>6, Zenon DEF Has
  <2> QED
    BY <1>1, <1>7, <1>8, <1>9, <2>1, Zenon DEF ReportedInv, KeysOf
<1>12. PodsEarly
  BY <1>1, <1>6, <1>7, <1>8, <1>9, Zenon DEF PodsEarly
<1>13. PodsAggregated
  BY <1>1, Zenon DEF PodsAggregated, Late
<1>14. NamespacesAggregated
  <2>1. \A n \in Namespaces : NsKey(n) \notin ScrapedKeys
    BY Zenon DEF ScrapedKeys, NsKey, ContainerKey, PodKey, NodeKey
  <2>2. \A n \in Namespaces : ~Has(batch, NsKey(n)) /\ ~Has(made, NsKey(n))
    BY <1>6, <1>7, <1>8, <2>1, Zenon
  <2> QED
    BY <1>1, <2>2, Zenon DEF NamespacesAggregated, Late
<1>15. ClusterAggregated
  BY <1>1, <1>7, <1>8, Zenon DEF ClusterAggregated, Late
<1>16. RequestsInv
  <2>1. \A c \in Containers : /\ Figure(batch, ContainerKey(c), "request") = None
                              /\ Figure(made, ContainerKey(c), "request") = None
                              /\ ~Has(made, ContainerKey(c))
                              /\ Has(batch, ContainerKey(c)) => ContainerKey(c) \in todo
    BY <1>1, <1>6, <1>7, <1>8, <1>9, Zenon DEF KeysOf
  <2>2. \A q \in Pods : ~Has(made, PodKey(q)) /\ (Has(batch, PodKey(q)) => PodKey(q) \in todo)
    BY <1>1, <1>7, <1>8, Zenon DEF KeysOf
  <2>3. ASSUME NEW c \in Declared
        PROVE  /\ ~Has(made, PodKey(c[1])) /\ (Has(batch, PodKey(c[1])) => PodKey(c[1]) \in todo)
               /\ Has(batch, ContainerKey(c)) => ContainerKey(c) \in todo
    <3>1. c \in Containers /\ c[1] \in Pods
      BY ProcessorsAssumption, Zenon DEF Containers
    <3> QED
      BY <2>1, <2>2, <3>1, Zenon
  <2>4. \A c \in Containers : LET k == ContainerKey(c) IN
          /\ \A sets \in {batch, made} : Figure(sets, k, "request") = None
          /\ ~Has(made, k)
    BY <2>1, Zenon
  <2> QED
    BY <1>1, <2>1, <2>2, <2>3, <2>4, Zenon DEF RequestsInv
<1> QED
  BY <1>10, <1>11, <1>12, <1>13, <1>14, <1>15, <1>16, Zenon DEF ProcInv

\* A step that changes nothing.
LEMMA ProcStutter ==
    ASSUME ProcInv, UNCHANGED vars
    PROVE  ProcInv'
<1>1. /\ stage' = stage /\ todo' = todo /\ batch' = batch /\ made' = made /\ required' = required
      /\ podLister' = podLister /\ changed' = changed /\ reported' = reported
  BY Zenon DEF vars
<1>2. ProcTypes' = ProcTypes /\ ReportedInv' = ReportedInv /\ PodsEarly' = PodsEarly
  BY <1>1, Zenon DEF ProcTypes, ReportedInv, PodsEarly, KeysOf, Has, Figure
<1>3. \A m : ContainerValues(m)' = ContainerValues(m) /\ PodValues(m)' = PodValues(m)
              /\ NamespaceValues(m)' = NamespaceValues(m)
  BY <1>1, Zenon DEF ContainerValues, PodValues, NamespaceValues, Value, Figure, Has
<1>4. \A p, m : Own(p, m)' = Own(p, m)
  BY <1>1, Zenon DEF Own, Used, Has
<1>5. \A p : PodSet(p)' = PodSet(p)
  BY <1>1, Zenon DEF PodSet, Has
<1>6. \A p, m, D : PodTotal(p, m, D)' = PodTotal(p, m, D)
  BY <1>3, <1>4, Zenon DEF PodTotal
<1>7. PodsAggregated'
  BY <1>1, <1>4, <1>5, <1>6, Zenon DEF ProcInv, PodsAggregated, Has, ContainersOfPod
<1>8. NamespacesAggregated' /\ ClusterAggregated'
  BY <1>1, <1>3, Zenon DEF ProcInv, NamespacesAggregated, ClusterAggregated, Has, PodsOf
<1>9. RequestsInv'
  BY <1>1, Zenon DEF ProcInv, RequestsInv, Has, Seen, KeysOf
<1> QED
  BY <1>2, <1>7, <1>8, <1>9, Zenon DEF ProcInv

\* Every step preserves the invariant.
LEMMA ProcNext ==
    ASSUME ProcInv, [Next]_vars
    PROVE  ProcInv'
<1>1. ASSUME NEW k \in Keys, \/ EnrichPod(k) \/ AggregatePod(k) \/ AggregateNamespace(k)
                             \/ AggregateNode(k) \/ AggregateCluster(k)
      PROVE  ProcInv'
  BY <1>1, SumLawsHold, EnrichPodInv, AggregatePodInv, AggregateNamespaceInv, AggregateNodeInv, AggregateClusterInv, Zenon
<1>2. ASSUME NEW p \in Pods, WatchPod(p)
      PROVE  ProcInv'
  BY <1>2, WatchPodInv, Zenon
<1>3. CASE \/ Finish("podEnricher", "namespaceEnricher", {})
           \/ Finish("podAggregator", "namespaceAggregator", {"pod"})
           \/ Finish("namespaceAggregator", "nodeAggregator", {"pod"})
           \/ Finish("nodeAggregator", "clusterAggregator", {"namespace"})
           \/ FinishCluster
  BY <1>3, SumLawsHold, FinishEnricherInv, FinishPodsInv, FinishNamespacesInv, FinishNodeInv, FinishClusterInv, Zenon
<1>4. CASE EnrichNamespace \/ EnrichNode
  BY <1>4, SumLawsHold, EnrichNamespaceInv, EnrichNodeInv, Zenon
<1>5. CASE Done \/ UNCHANGED vars
  BY <1>5, ProcStutter, Zenon DEF Done
<1> QED
  BY <1>1, <1>2, <1>3, <1>4, <1>5, Zenon DEF Next

\* The invariant of the enrichers and aggregators.
THEOREM ProcInvariant == Spec => []ProcInv
  BY ProcInit, ProcNext, PTL DEF Spec

\* What reaches the cluster is the sum over the pods.
LEMMA ClusterIsSumOfPods ==
    ASSUME ProcInv, stage = "done", NEW m \in Summed
    PROVE  GetInt(batch[ClusterKey], m) = SumFunctionOnSet(PodValues(m), Pods)
<1>1. Has(batch, ClusterKey) /\ Value(batch, ClusterKey, m) = SumFunctionOnSet(NamespaceValues(m), Namespaces)
  BY Zenon DEF ProcInv, ClusterAggregated
<1>2. GetInt(batch[ClusterKey], m) = Value(batch, ClusterKey, m)
  BY <1>1, Zenon DEF GetInt, Value, Figure
<1>3. \A n \in Namespaces : NamespaceValues(m)[n] = SumFunctionOnSet(PodValues(m), PodsOf(n))
  BY Zenon DEF ProcInv, NamespacesAggregated, NamespaceValues, Late
<1>4. \A p \in Pods : p[1] \in Namespaces /\ PodValues(m)[p] \in Int
  BY ValuesAreNumbers DEF ProcInv, Namespaces
<1>5. SumFunctionOnSet(NamespaceValues(m), Namespaces) = SumFunctionOnSet(PodValues(m), Pods)
  <2> DEFINE f == PodValues(m)
             h == NamespaceValues(m)
  <2>1. /\ \A p \in Pods : p[1] \in Namespaces
        /\ \A p \in Pods : f[p] \in Int
        /\ \A n \in Namespaces : /\ h[n] = SumFunctionOnSet(f, PodsOf(n))
                                 /\ \A p : p \in PodsOf(n) <=> p \in Pods /\ p[1] = n
    BY <1>3, <1>4, Zenon DEF PodsOf
  <2>2. IsFiniteSet(Pods) /\ IsFiniteSet(Namespaces)
    BY FiniteParts, Zenon
  <2> HIDE DEF f, h
  <2>3. SumFunctionOnSet(h, Namespaces) = SumFunctionOnSet(f, Pods)
    BY <2>1, <2>2, SumOfSums
  <2> QED
    BY <2>3, Zenon DEF f, h
<1> QED
  BY <1>1, <1>2, <1>5, Zenon

\* The invariant implies that the cluster's usage is what was reported.
LEMMA UsageSummed ==
    ASSUME ProcInv
    PROVE  UsageCountedOnce
<1> SUFFICES ASSUME stage = "done"
             PROVE  GetInt(batch[ClusterKey], "usage") = SumFunctionOnSet([p \in Pods |-> PodUsage(p)], Pods)
  BY Zenon DEF UsageCountedOnce
<1> DEFINE f == ContainerValues("usage")
           g == PodValues("usage")
<1>1. "usage" \in Summed
  BY Zenon DEF Summed
<1>2. (\A c \in Containers : f[c] \in Int) /\ (\A p \in Pods : g[p] \in Int)
  BY <1>1, ValuesAreNumbers DEF ProcInv
<1>3. ASSUME NEW p \in Pods
      PROVE  g[p] = PodUsage(p)
  <2> DEFINE used == {c \in Reportable : c[1] = p /\ Used(ContainerKey(c))}
             rest == ContainersOfPod(p) \ used
             u == [c \in used |-> Usage[ContainerKey(c)]]
  <2>1. g[p] = PodTotal(p, "usage", ContainersOfPod(p))
    BY <1>1, Zenon DEF ProcInv, PodsAggregated, PodValues, Late
  <2>2. CASE Used(PodKey(p))
    BY <2>1, <2>2, Zenon DEF PodTotal, Own, PodUsage
  <2>3. CASE ~Used(PodKey(p))
    <3>1. g[p] = SumFunctionOnSet(f, ContainersOfPod(p)) /\ PodUsage(p) = SumFunctionOnSet(u, used)
      BY <2>1, <2>3, Zenon DEF PodTotal, Own, PodUsage
    <3>2. ContainersOfPod(p) = used \cup rest /\ used \cap rest = {} /\ ContainersOfPod(p) \subseteq Containers
      BY Zenon DEF ContainersOfPod, Containers
    <3>3. IsFiniteSet(used) /\ IsFiniteSet(rest)
      BY FiniteParts, FS_Subset, <3>2, Zenon
    <3>4. ASSUME NEW c \in Containers
          PROVE  f[c] = IF c \in Reportable /\ Used(ContainerKey(c)) THEN Usage[ContainerKey(c)] ELSE 0
      <4> DEFINE k == ContainerKey(c)
      <4>1. k \in Keys
        BY KeyKinds, Zenon
      <4>2. f[c] = IF Figure(reported, k, "usage") = None THEN 0 ELSE Figure(reported, k, "usage")
        BY Zenon DEF ContainerValues, Value, ProcInv, ReportedInv
      <4>3. Used(k) => c \in Reportable /\ reported[k].values["usage"] = Usage[k]
        <5>1. Used(k) => k \in ScrapedKeys /\ reported[k].values["usage"] = Usage[k]
          BY <4>1, Zenon DEF Used, ProcInv, ReportedInv
        <5>2. k \in ScrapedKeys => c \in Reportable
          BY Zenon DEF ScrapedKeys, ContainerKey, PodKey, NodeKey
        <5> QED
          BY <5>1, <5>2, Zenon
      <4> HIDE DEF k
      <4> QED
        BY <4>2, <4>3, Zenon DEF Used, Figure, k
    <3>5. \A c \in used : f[c] = u[c]
      BY <3>2, <3>4, Zenon
    <3>6. \A c \in rest : f[c] = 0
      BY <3>4, Zenon DEF ContainersOfPod
    <3> HIDE DEF used, rest, u, f
    <3>7. SumFunctionOnSet(f, used \cup rest) = SumFunctionOnSet(f, used) + SumFunctionOnSet(f, rest)
      BY <1>2, <3>2, <3>3, SumUnion, Zenon
    <3>8. SumFunctionOnSet(f, rest) = 0
      BY <3>3, <3>6, SumZero, Zenon
    <3>9. \A c \in used : f[c] \in Int /\ f[c] = u[c]
      BY <1>2, <3>2, <3>5, Zenon
    <3>10. SumFunctionOnSet(f, used) = SumFunctionOnSet(u, used) /\ SumFunctionOnSet(f, used) \in Int
      BY <3>3, <3>9, SumSame, SumFacts, Zenon
    <3> QED
      BY <3>1, <3>2, <3>7, <3>8, <3>10
  <2> QED
    BY <2>2, <2>3, Zenon
<1>4. GetInt(batch[ClusterKey], "usage") = SumFunctionOnSet(g, Pods)
  BY <1>1, ClusterIsSumOfPods, Zenon
<1> DEFINE h == [p \in Pods |-> PodUsage(p)]
<1>5. \A p \in Pods : g[p] \in Int /\ g[p] = h[p]
  BY <1>2, <1>3, Zenon
<1> HIDE DEF g, h
<1>6. SumFunctionOnSet(g, Pods) = SumFunctionOnSet(h, Pods)
  BY <1>5, FiniteParts, SumSame, Zenon
<1> QED
  BY <1>4, <1>6, Zenon DEF h

\* The invariant bounds the cluster's requests.
LEMMA RequestsSummed ==
    ASSUME ProcInv
    PROVE  RequestsComplete
<1> SUFFICES ASSUME stage = "done"
             PROVE  LET known == {p \in podLister \ changed : Seen(p)}
                        unsure == {p \in changed : Seen(p)}
                        total == GetInt(batch[ClusterKey], "request")
                    IN  Requests(known) <= total /\ total <= Requests(known \cup unsure)
  BY Zenon DEF RequestsComplete
<1> DEFINE known == {p \in podLister \ changed : Seen(p)}
           unsure == {p \in changed : Seen(p)}
           total == GetInt(batch[ClusterKey], "request")
           f == ContainerValues("request")
           A == {c \in Declared : c[1] \in known}
           B == {c \in Declared : c[1] \in known \cup unsure}
           RA == Containers \ A
           RB == Containers \ B
<1>1. "request" \in Summed
  BY Zenon DEF Summed
<1>2. \A c \in Containers : f[c] \in Nat
  BY <1>1, ValuesAreNumbers, Zenon DEF ProcInv
<1>3. total = SumFunctionOnSet(f, Containers)
  <2>1. total = SumFunctionOnSet(PodValues("request"), Pods)
    BY <1>1, ClusterIsSumOfPods, Zenon
  <2>2. \A p \in Pods : /\ PodValues("request")[p] = SumFunctionOnSet(f, ContainersOfPod(p))
                        /\ \A c : c \in ContainersOfPod(p) <=> c \in Containers /\ c[1] = p
    BY <1>1, Zenon DEF ProcInv, PodsAggregated, PodValues, Late, PodTotal, Own, ContainersOfPod
  <2>3. \A c \in Containers : c[1] \in Pods /\ f[c] \in Int
    BY <1>2, ProcessorsAssumption DEF Containers
  <2> DEFINE h == PodValues("request")
  <2> HIDE DEF f, h
  <2>4. \A p \in Pods : \E S : /\ h[p] = SumFunctionOnSet(f, S)
                               /\ \A c : c \in S <=> c \in Containers /\ c[1] = p
    BY <2>2, Zenon DEF h
  <2>5. SumFunctionOnSet(h, Pods) = SumFunctionOnSet(f, Containers)
    BY <2>3, <2>4, FiniteParts, SumOfSums
  <2> QED
    BY <2>1, <2>5, Zenon DEF h
<1>4. \A c \in Declared : Request[c] \in Nat /\ c \in Containers
  BY ProcessorsAssumption, Zenon DEF Containers
<1>5. \A c \in Containers : /\ c \in A => f[c] = Request[c]
                            /\ c \in B => f[c] <= Request[c]
                            /\ c \notin B => f[c] = 0
  <2> TAKE c \in Containers
  <2> DEFINE k == ContainerKey(c)
             v == Figure(batch, k, "request")
  <2>1. f[c] = IF v = None THEN 0 ELSE v
    BY Zenon DEF ContainerValues, Value
  <2>2. v # None => c \in B /\ v = Request[c]
    <3>1. v # None => c \in Declared /\ v = Request[c] /\ Seen(c[1]) /\ c[1] \in podLister \cup changed
      BY Zenon DEF ProcInv, RequestsInv
    <3> HIDE DEF v
    <3> QED
      BY <3>1, Zenon
  <2>3. c \in A => v # None
    BY Zenon DEF ProcInv, RequestsInv
  <2>4. (c \in A => c \in B) /\ (c \in B => Request[c] \in Nat)
    BY <1>4, Zenon
  <2> HIDE DEF v, f, A, B
  <2> QED
    BY <2>1, <2>2, <2>3, <2>4
<1>6. /\ IsFiniteSet(A) /\ IsFiniteSet(B) /\ IsFiniteSet(RA) /\ IsFiniteSet(RB)
      /\ Containers = A \cup RA /\ A \cap RA = {} /\ Containers = B \cup RB /\ B \cap RB = {}
  <2>1. A \subseteq Containers /\ B \subseteq Containers
    BY <1>4, Zenon
  <2>2. RA \subseteq Containers /\ RB \subseteq Containers
    BY Zenon
  <2>3. /\ Containers = A \cup RA /\ A \cap RA = {} /\ Containers = B \cup RB /\ B \cap RB = {}
    BY <2>1, Zenon
  <2> QED
    BY <2>1, <2>2, <2>3, FiniteParts, FS_Subset, Zenon
<1>7. Requests(known) = SumFunctionOnSet(Request, A) /\ Requests(known \cup unsure) = SumFunctionOnSet(Request, B)
  BY Zenon DEF Requests
<1>8. A \subseteq Declared /\ B \subseteq Declared
  BY Zenon
<1> HIDE DEF A, B, RA, RB, f, known, unsure, total
<1>9. Requests(known) <= total
  <2>1. SumFunctionOnSet(f, Containers) = SumFunctionOnSet(f, A) + SumFunctionOnSet(f, RA)
    BY <1>2, <1>6, SumUnion
  <2>2. SumFunctionOnSet(f, A) = SumFunctionOnSet(Request, A) /\ SumFunctionOnSet(f, A) \in Int
    <3>1. \A c \in A : f[c] \in Int /\ f[c] = Request[c]
      BY <1>2, <1>4, <1>5, <1>8
    <3> QED
      BY <1>6, <3>1, SumSame, SumFacts, Zenon
  <2>3. 0 <= SumFunctionOnSet(f, RA) /\ SumFunctionOnSet(f, RA) \in Int
    <3> DEFINE z == [c \in RA |-> 0]
    <3>1. \A c \in RA : z[c] = 0 /\ z[c] \in Int /\ f[c] \in Int /\ z[c] <= f[c]
      BY <1>2, <1>6
    <3> HIDE DEF z
    <3>2. SumFunctionOnSet(z, RA) = 0
      BY <1>6, <3>1, SumZero, Zenon
    <3>3. SumFunctionOnSet(z, RA) <= SumFunctionOnSet(f, RA)
      BY <1>6, <3>1, SumLess, Zenon
    <3>4. SumFunctionOnSet(f, RA) \in Int
      BY <1>6, <3>1, SumFacts, Zenon
    <3> QED
      BY <3>2, <3>3, <3>4, Zenon
  <2> QED
    BY <1>3, <1>7, <2>1, <2>2, <2>3
<1>10. total <= Requests(known \cup unsure)
  <2>1. SumFunctionOnSet(f, Containers) = SumFunctionOnSet(f, B) + SumFunctionOnSet(f, RB)
    BY <1>2, <1>6, SumUnion
  <2>2. SumFunctionOnSet(f, RB) = 0
    <3>1. \A c \in RB : f[c] = 0
      BY <1>5, <1>6, Zenon
    <3> QED
      BY <1>6, <3>1, SumZero, Zenon
  <2>3. SumFunctionOnSet(f, B) <= SumFunctionOnSet(Request, B) /\ SumFunctionOnSet(f, B) \in Int
    <3>1. \A c \in B : f[c] \in Int /\ Request[c] \in Int /\ f[c] <= Request[c]
      BY <1>2, <1>4, <1>5, <1>8
    <3> QED
      BY <1>6, <3>1, SumLess, SumFacts, Zenon
  <2> QED
    BY <1>3, <1>7, <2>1, <2>2, <2>3
<1> QED
  BY <1>9, <1>10, Zenon DEF known, unsure, total

\* Whatever the order of the ranges and whatever the pod lister learns
\* meanwhile, the usage of the cluster is the sum over the pods of their own
\* figure or, failing that, of their containers': for any pods and containers
\* and any batch that the sources report of them.
THEOREM UsageAlwaysCountedOnce == Spec => []UsageCountedOnce
  BY ProcInvariant, UsageSummed, PTL

\* The requests of the cluster are those of every declared container of the
\* pods that were seen and that the pod lister knew, whether a source reported
\* the container or not.
THEOREM RequestsAlwaysComplete == Spec => []RequestsComplete
  BY ProcInvariant, RequestsSummed, PTL
=============================================================================
