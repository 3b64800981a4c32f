-------------------------------- MODULE Sums --------------------------------
(***************************************************************************)
(* What the proofs about data rest on: sums over finite sets, the least,    *)
(* the greatest and the k-th element of a set of numbers, sequences, folds  *)
(* over them, and how many elements of a sequence are of a kind.            *)
(*                                                                         *)
(* A fold is a recursive function, so what it computes is proved by        *)
(* induction.  The principles of induction are stated with sets instead of *)
(* predicates: a set of natural numbers (OnNaturals) or of subsets         *)
(* (OnSubsets) that is closed under the induction step is all of them.     *)
(***************************************************************************)
EXTENDS FiniteSetsExt, SequencesExt, FiniteSetTheorems, WellFoundedInduction, TLAPS

\* A set of natural numbers has a least element.
LEMMA Least ==
    ASSUME NEW T, T \subseteq Nat, T # {}
    PROVE \E n \in T : \A m \in T : n <= m
<1>1. PICK n \in T : \A m \in T : ~ (<<m, n>> \in OpToRel(<, Nat))
  BY NatLessThanWellFounded, WFMin
<1>2. \A m \in T : ~(m < n)
  BY <1>1 DEF OpToRel
<1> QED
  BY <1>2

LEMMA OnNaturals ==
    ASSUME NEW F, 0 \in F, \A n \in Nat : n \in F => n + 1 \in F
    PROVE Nat \subseteq F
<1> SUFFICES ASSUME Nat \ F # {} PROVE FALSE
  OBVIOUS
<1>1. PICK n \in Nat \ F : \A m \in Nat \ F : n <= m
  BY Least
<1>2. n # 0 /\ n - 1 \in Nat /\ ~(n <= n - 1)
  BY <1>1
<1>3. n - 1 \in F
  BY <1>1, <1>2
<1>4. (n - 1) + 1 \in F
  BY <1>2, <1>3
<1> QED
  BY <1>1, <1>4

LEMMA OnSubsets ==
    ASSUME NEW S, IsFiniteSet(S), NEW F,
           \A s \in SUBSET S : (\A t \in SUBSET s : t # s => t \in F) => s \in F
    PROVE S \in F
<1> DEFINE Sizes == {n \in Nat : \E s \in SUBSET S : Cardinality(s) = n /\ s \notin F}
<1>1. \A s \in SUBSET S : IsFiniteSet(s) /\ Cardinality(s) \in Nat
  BY FS_Subset, FS_CardinalityType
<1>2. Sizes = {}
  <2>1. SUFFICES ASSUME Sizes # {} PROVE FALSE
    OBVIOUS
  <2>2. PICK n \in Sizes : \A m \in Sizes : n <= m
    BY <2>1, Least
  <2>3. PICK s \in SUBSET S : Cardinality(s) = n /\ s \notin F
    BY <2>2
  <2>4. PICK t \in SUBSET s : t # s /\ t \notin F
    BY <2>3
  <2>5. t \in SUBSET S /\ Cardinality(t) < Cardinality(s)
    BY <1>1, <2>4, FS_Subset
  <2>6. Cardinality(t) \in Sizes
    BY <1>1, <2>4, <2>5
  <2>7. n \in Nat /\ Cardinality(t) \in Nat
    BY <1>1, <2>5
  <2> QED
    BY <2>2, <2>3, <2>5, <2>6, <2>7
<1> QED
  BY <1>1, <1>2

-----------------------------------------------------------------------------
\* The first element of s to be summed, and the rest.
FirstOf(s) == CHOOSE x \in s : TRUE
RestOf(s) == s \ {FirstOf(s)}
SumOf(g, w, s) == IF s = {} THEN 0 ELSE w[FirstOf(s)] + g[RestOf(s)]

\* g[s] is w summed over s, for the subsets s of S.
Sums(g, w, S) == g = [s \in SUBSET S |-> SumOf(g, w, s)]

LEMMA RestSmaller ==
    ASSUME NEW s, s # {}
    PROVE FirstOf(s) \in s /\ RestOf(s) \in SUBSET s /\ RestOf(s) # s
  BY DEF FirstOf, RestOf

LEMMA SumUnfolds ==
    ASSUME NEW S, NEW w
    PROVE SumFunctionOnSet(w, S) = (CHOOSE g : Sums(g, w, S))[S]
  BY DEF SumFunctionOnSet, FoldFunctionOnSet, MapThenFoldSet, Sums, SumOf, FirstOf, RestOf

\* The recursion defines a function: one for all subsets up to a size extends to
\* those that are larger by one.
LEMMA SumsExist ==
    ASSUME NEW S, IsFiniteSet(S), NEW w
    PROVE \E g : Sums(g, w, S)
<1> DEFINE Upto(g, n) == \A s \in SUBSET S : Cardinality(s) <= n => g[s] = SumOf(g, w, s)
           F == {n \in Nat : \E g : Upto(g, n)}
<1>1. \A s \in SUBSET S : IsFiniteSet(s) /\ Cardinality(s) \in Nat
  BY FS_Subset, FS_CardinalityType
<1>2. 0 \in F
  <2>1. \A s \in SUBSET S : Cardinality(s) <= 0 => s = {}
    BY <1>1, FS_EmptySet
  <2>2. Upto([s \in SUBSET S |-> 0], 0)
    BY <2>1 DEF SumOf
  <2> QED
    BY <2>2
<1>3. ASSUME NEW n \in Nat, n \in F PROVE n + 1 \in F
  <2>1. PICK g : Upto(g, n)
    BY <1>3
  <2> DEFINE h == [s \in SUBSET S |-> IF Cardinality(s) <= n THEN g[s] ELSE SumOf(g, w, s)]
  <2>2. ASSUME NEW s \in SUBSET S, Cardinality(s) <= n + 1 PROVE h[s] = SumOf(g, w, s)
    BY <2>1, <2>2, <1>1
  <2>3. ASSUME NEW s \in SUBSET S, Cardinality(s) <= n + 1 PROVE SumOf(h, w, s) = SumOf(g, w, s)
    <3>1. CASE s = {}
      BY <3>1 DEF SumOf
    <3>2. CASE s # {}
      <4>1. RestOf(s) \in SUBSET S /\ Cardinality(RestOf(s)) < Cardinality(s)
        BY <3>2, <1>1, RestSmaller, FS_Subset
      <4>2. h[RestOf(s)] = g[RestOf(s)]
        BY <4>1, <2>3, <1>1
      <4> QED
        BY <3>2, <4>2 DEF SumOf
    <3> QED
      BY <3>1, <3>2
  <2>4. Upto(h, n + 1)
    BY <2>2, <2>3
  <2> HIDE DEF h
  <2>5. n + 1 \in Nat /\ \E f : Upto(f, n + 1)
    BY <2>4
  <2> QED
    BY <2>5
<1>4. Cardinality(S) \in F
  <2> HIDE DEF F
  <2> QED
    BY <1>1, <1>2, <1>3, OnNaturals
<1>5. PICK g : Upto(g, Cardinality(S))
  BY <1>4
<1>6. \A s \in SUBSET S : g[s] = SumOf(g, w, s)
  BY <1>1, <1>5, FS_Subset
<1> DEFINE h == [s \in SUBSET S |-> g[s]]
<1>7. \A s \in SUBSET S : SumOf(h, w, s) = SumOf(g, w, s)
  BY DEF SumOf, RestOf
<1>8. h = [s \in SUBSET S |-> SumOf(h, w, s)]
  BY <1>6, <1>7
<1> QED
  BY <1>8 DEF Sums

\* Two ways to sum agree where both are defined.
LEMMA SumsAgree ==
    ASSUME NEW S, NEW T, IsFiniteSet(T), T \subseteq S, NEW v, NEW w,
           \A x \in T : v[x] = w[x],
           NEW g, Sums(g, v, S), NEW h, Sums(h, w, T)
    PROVE g[T] = h[T]
<1> DEFINE F == {s \in SUBSET T : g[s] = h[s]}
<1>1. ASSUME NEW s \in SUBSET T, \A t \in SUBSET s : t # s => t \in F PROVE s \in F
  <2>1. g[s] = SumOf(g, v, s) /\ h[s] = SumOf(h, w, s)
    BY DEF Sums
  <2>2. CASE s = {}
    BY <2>1, <2>2 DEF SumOf
  <2>3. CASE s # {}
    <3>1. v[FirstOf(s)] = w[FirstOf(s)] /\ g[RestOf(s)] = h[RestOf(s)]
      BY <1>1, <2>3, RestSmaller
    <3> QED
      BY <2>1, <2>3, <3>1 DEF SumOf
  <2> QED
    BY <2>2, <2>3
<1>2. T \in F
  <2> HIDE DEF F
  <2> QED
    BY <1>1, OnSubsets
<1> QED
  BY <1>2

\* Sums depend on the elements only.
LEMMA SumSame ==
    ASSUME NEW S, IsFiniteSet(S), NEW v, NEW w, \A x \in S : v[x] = w[x]
    PROVE SumFunctionOnSet(v, S) = SumFunctionOnSet(w, S)
<1>1. PICK g : g = (CHOOSE f : Sums(f, v, S)) /\ Sums(g, v, S)
  BY SumsExist
<1>2. PICK h : h = (CHOOSE f : Sums(f, w, S)) /\ Sums(h, w, S)
  BY SumsExist
<1>3. g[S] = h[S]
  BY <1>1, <1>2, SumsAgree
<1> QED
  BY <1>1, <1>2, <1>3, SumUnfolds

\* A sum is what it is meant to be: nothing for no element, and otherwise what one
\* element gives and the sum of the rest.
LEMMA SumStep ==
    ASSUME NEW S, IsFiniteSet(S), NEW w
    PROVE SumFunctionOnSet(w, S) =
              IF S = {} THEN 0 ELSE w[FirstOf(S)] + SumFunctionOnSet(w, RestOf(S))
<1>1. PICK g : g = (CHOOSE f : Sums(f, w, S)) /\ Sums(g, w, S)
  BY SumsExist
<1>2. SumFunctionOnSet(w, S) = g[S] /\ g[S] = SumOf(g, w, S)
  BY <1>1, SumUnfolds DEF Sums
<1>3. CASE S = {}
  BY <1>2, <1>3 DEF SumOf
<1>4. CASE S # {}
  <2>1. IsFiniteSet(RestOf(S)) /\ RestOf(S) \subseteq S
    BY <1>4, RestSmaller, FS_Subset
  <2>2. PICK h : h = (CHOOSE f : Sums(f, w, RestOf(S))) /\ Sums(h, w, RestOf(S))
    BY <2>1, SumsExist
  <2>3. g[RestOf(S)] = h[RestOf(S)]
    BY <1>1, <2>1, <2>2, SumsAgree
  <2>4. SumFunctionOnSet(w, RestOf(S)) = h[RestOf(S)]
    BY <2>2, SumUnfolds
  <2> QED
    BY <1>2, <1>4, <2>3, <2>4 DEF SumOf
<1> QED
  BY <1>3, <1>4

\* The sum over no element.
LEMMA SumEmpty == \A w : SumFunctionOnSet(w, {}) = 0
  BY SumStep, FS_EmptySet

-----------------------------------------------------------------------------
\* The sum of numbers is a number, and any element may be counted first.
LEMMA SumFacts ==
    ASSUME NEW S, IsFiniteSet(S), NEW w, \A x \in S : w[x] \in Int
    PROVE /\ SumFunctionOnSet(w, S) \in Int
          /\ \A x \in S : /\ SumFunctionOnSet(w, S) = w[x] + SumFunctionOnSet(w, S \ {x})
                          /\ SumFunctionOnSet(w, S \ {x}) \in Int
<1> DEFINE Added(s) == SumFunctionOnSet(w, s)
           Good(s) == Added(s) \in Int /\ \A x \in s : Added(s) = w[x] + Added(s \ {x}) /\ Added(s \ {x}) \in Int
           F == {s \in SUBSET S : Good(s)}
<1>1. \A s \in SUBSET S : IsFiniteSet(s)
  BY FS_Subset
<1>2. ASSUME NEW s \in SUBSET S, \A t \in SUBSET s : t # s => t \in F PROVE s \in F
  <2>1. \A t \in SUBSET s : t # s => Good(t)
    BY <1>2
  <2> HIDE DEF Good
  <2>2. CASE s = {}
    BY <1>1, <2>2, SumEmpty DEF Good
  <2>3. CASE s # {}
    <3> DEFINE a == FirstOf(s)
    <3>1. a \in s /\ w[a] \in Int
      BY <2>3, RestSmaller
    <3>2. Added(s) = w[a] + Added(s \ {a})
      BY <1>1, <2>3, SumStep DEF RestOf
    <3> HIDE DEF a, Added
    <3>3. Good(s \ {a})
      BY <3>1, <2>1
    <3>4. Added(s) \in Int /\ Added(s \ {a}) \in Int
      BY <3>1, <3>2, <3>3 DEF Good
    <3>5. ASSUME NEW x \in s, x # a PROVE Added(s) = w[x] + Added(s \ {x}) /\ Added(s \ {x}) \in Int
      <4> DEFINE both == (s \ {a}) \ {x}
      <4>1. both = (s \ {x}) \ {a} /\ x \in s \ {a} /\ a \in s \ {x} /\ s \ {x} # s
        BY <3>1, <3>5
      <4>2. Good(s \ {x})
        BY <4>1, <2>1
      <4>3. Added(s \ {a}) = w[x] + Added(both) /\ Added(both) \in Int
        BY <4>1, <3>3 DEF Good
      <4>4. Added(s \ {x}) = w[a] + Added(both) /\ Added(s \ {x}) \in Int
        BY <4>1, <4>2 DEF Good
      <4>5. w[x] \in Int
        OBVIOUS
      <4> HIDE DEF both
      <4> QED
        BY <4>3, <4>4, <4>5, <3>1, <3>2
    <3> QED
      BY <3>1, <3>2, <3>4, <3>5 DEF Good
  <2> QED
    BY <2>2, <2>3
<1>3. S \in F
  <2> HIDE DEF F
  <2> QED
    BY <1>2, OnSubsets
<1> QED
  BY <1>3

\* One more element adds what it gives.
LEMMA SumInsert ==
    ASSUME NEW S, IsFiniteSet(S), NEW x, x \notin S, NEW w, \A y \in S \cup {x} : w[y] \in Int
    PROVE SumFunctionOnSet(w, S \cup {x}) = SumFunctionOnSet(w, S) + w[x]
          /\ SumFunctionOnSet(w, S) \in Int
<1>1. IsFiniteSet(S \cup {x}) /\ (S \cup {x}) \ {x} = S
  BY FS_AddElement
<1>2. SumFunctionOnSet(w, S \cup {x}) = w[x] + SumFunctionOnSet(w, (S \cup {x}) \ {x})
  BY <1>1, SumFacts
<1>3. SumFunctionOnSet(w, S \cup {x}) = w[x] + SumFunctionOnSet(w, S)
  BY <1>1, <1>2
<1>4. SumFunctionOnSet(w, S) \in Int /\ w[x] \in Int
  BY SumFacts
<1> QED
  BY <1>3, <1>4

\* A change of what one element gives changes the sum by as much.
LEMMA SumChange ==
    ASSUME NEW S, IsFiniteSet(S), NEW x \in S, NEW v, NEW w,
           \A y \in S : v[y] \in Int /\ w[y] \in Int,
           \A y \in S \ {x} : v[y] = w[y]
    PROVE SumFunctionOnSet(v, S) = SumFunctionOnSet(w, S) - w[x] + v[x]
          /\ SumFunctionOnSet(w, S) \in Int /\ SumFunctionOnSet(v, S) \in Int
<1>1. IsFiniteSet(S \ {x})
  BY FS_RemoveElement
<1>2. SumFunctionOnSet(v, S \ {x}) = SumFunctionOnSet(w, S \ {x})
  BY <1>1, SumSame
<1>3. /\ SumFunctionOnSet(v, S) = v[x] + SumFunctionOnSet(v, S \ {x})
      /\ SumFunctionOnSet(w, S) = w[x] + SumFunctionOnSet(w, S \ {x})
      /\ SumFunctionOnSet(v, S \ {x}) \in Int /\ SumFunctionOnSet(w, S) \in Int
      /\ SumFunctionOnSet(v, S) \in Int
  BY SumFacts
<1>4. v[x] \in Int /\ w[x] \in Int
  OBVIOUS
<1> QED
  BY <1>2, <1>3, <1>4

\* The sum over one element.
LEMMA SumOne ==
    ASSUME NEW x, NEW w, w[x] \in Int
    PROVE SumFunctionOnSet(w, {x}) = w[x]
<1>1. IsFiniteSet({x}) /\ {x} \ {x} = {}
  BY FS_Singleton
<1>2. SumFunctionOnSet(w, {x}) = w[x] + SumFunctionOnSet(w, {x} \ {x})
  BY <1>1, SumFacts
<1>3. SumFunctionOnSet(w, {x}) = w[x] + 0
  BY <1>1, <1>2, SumEmpty
<1> QED
  BY <1>3

\* A sum of natural numbers is one, and at least as many as there are elements if
\* each gives something.
LEMMA SumAtLeast ==
    ASSUME NEW S, IsFiniteSet(S), NEW w, \A x \in S : w[x] \in Nat
    PROVE /\ SumFunctionOnSet(w, S) \in Nat
          /\ (\A x \in S : w[x] # 0) => Cardinality(S) <= SumFunctionOnSet(w, S)
<1> DEFINE Added(s) == SumFunctionOnSet(w, s)
           Good(s) == Added(s) \in Nat /\ ((\A x \in S : w[x] # 0) => Cardinality(s) <= Added(s))
           F == {s \in SUBSET S : Good(s)}
<1>1. \A s \in SUBSET S : IsFiniteSet(s) /\ Cardinality(s) \in Nat
  BY FS_Subset, FS_CardinalityType
<1>2. ASSUME NEW s \in SUBSET S, \A t \in SUBSET s : t # s => t \in F PROVE s \in F
  <2>1. CASE s = {}
    <3>1. Added(s) = 0 /\ Cardinality(s) = 0
      BY <2>1, SumEmpty, FS_EmptySet
    <3> QED
      BY <3>1
  <2>2. CASE s # {}
    <3> DEFINE a == FirstOf(s)
    <3>1. a \in s /\ w[a] \in Nat /\ Good(RestOf(s)) /\ RestOf(s) \in SUBSET S
      BY <1>2, <2>2, RestSmaller
    <3>2. Added(s) = w[a] + Added(RestOf(s))
      BY <1>1, <2>2, SumStep
    <3>3. Cardinality(RestOf(s)) = Cardinality(s) - 1
      BY <1>1, <3>1, FS_RemoveElement DEF RestOf
    <3>4. Cardinality(RestOf(s)) \in Nat /\ Cardinality(s) \in Nat
      BY <1>1, <3>1
    <3> HIDE DEF Added, a
    <3> QED
      BY <3>1, <3>2, <3>3, <3>4
  <2> QED
    BY <2>1, <2>2
<1>3. S \in F
  <2> HIDE DEF F
  <2> QED
    BY <1>2, OnSubsets
<1> QED
  BY <1>3

\* The sum over two sets that have nothing in common.
LEMMA SumUnion ==
    ASSUME NEW S, IsFiniteSet(S), NEW T, IsFiniteSet(T), S \cap T = {},
           NEW w, \A x \in S \cup T : w[x] \in Int
    PROVE  SumFunctionOnSet(w, S \cup T) = SumFunctionOnSet(w, S) + SumFunctionOnSet(w, T)
<1> DEFINE Added(s) == SumFunctionOnSet(w, s)
           F == {t \in SUBSET T : Added(S \cup t) = Added(S) + Added(t) /\ Added(t) \in Int}
<1>0. Added(S) \in Int
  BY SumFacts
<1>1. ASSUME NEW t \in SUBSET T, \A u \in SUBSET t : u # t => u \in F PROVE t \in F
  <2>1. IsFiniteSet(t) /\ IsFiniteSet(S \cup t) /\ S \cup t \subseteq S \cup T
    BY FS_Subset, FS_Union
  <2>2. CASE t = {}
    <3>1. Added(t) = 0 /\ Added(S \cup t) = Added(S)
      BY <2>2, SumEmpty
    <3> HIDE DEF Added
    <3> QED
      BY <1>0, <3>1
  <2>3. CASE t # {}
    <3> DEFINE a == FirstOf(t)
    <3>1. a \in t /\ w[a] \in Int /\ RestOf(t) \in F
      BY <1>1, <2>3, RestSmaller
    <3>2. Added(t) = w[a] + Added(RestOf(t))
      BY <2>1, <2>3, SumStep
    <3>3. Added(S \cup t) = w[a] + Added((S \cup t) \ {a})
      BY <2>1, <3>1, SumFacts
    <3>4. (S \cup t) \ {a} = S \cup RestOf(t)
      BY <3>1 DEF RestOf
    <3>5. Added(S \cup RestOf(t)) = Added(S) + Added(RestOf(t)) /\ Added(RestOf(t)) \in Int
      BY <3>1
    <3>6. Added(S \cup t) = Added(S) + Added(t) /\ Added(t) \in Int
      <4> HIDE DEF Added, a, F
      <4>1. Added(S \cup t) = w[a] + Added(S \cup RestOf(t)) /\ w[a] \in Int
        BY <3>1, <3>3, <3>4
      <4> QED
        BY <1>0, <3>2, <3>5, <4>1
    <3> QED
      BY <3>6
  <2> QED
    BY <2>2, <2>3
<1>2. T \in F
  <2> HIDE DEF F
  <2> QED
    BY <1>1, OnSubsets
<1> QED
  BY <1>2

\* The sum of what gives nothing.
LEMMA SumZero ==
    ASSUME NEW S, IsFiniteSet(S), NEW w, \A x \in S : w[x] = 0
    PROVE SumFunctionOnSet(w, S) = 0
<1> DEFINE F == {s \in SUBSET S : SumFunctionOnSet(w, s) = 0}
<1>1. ASSUME NEW s \in SUBSET S, \A t \in SUBSET s : t # s => t \in F PROVE s \in F
  <2>1. IsFiniteSet(s)
    BY FS_Subset
  <2>2. CASE s = {}
    BY <2>2, SumEmpty
  <2>3. CASE s # {}
    <3>1. SumFunctionOnSet(w, RestOf(s)) = 0 /\ w[FirstOf(s)] = 0
      BY <1>1, <2>3, RestSmaller
    <3> QED
      BY <2>1, <2>3, <3>1, SumStep
  <2> QED
    BY <2>2, <2>3
<1>2. S \in F
  <2> HIDE DEF F
  <2> QED
    BY <1>1, OnSubsets
<1> QED
  BY <1>2

\* A sum of numbers up to K is no more than K for each.
LEMMA SumAtMost ==
    ASSUME NEW S, IsFiniteSet(S), NEW K \in Nat, NEW w, \A x \in S : w[x] \in Nat /\ w[x] <= K
    PROVE SumFunctionOnSet(w, S) <= Cardinality(S) * K
<1> DEFINE Added(s) == SumFunctionOnSet(w, s)
           Size(s) == Cardinality(s)
           F == {s \in SUBSET S : Added(s) <= Size(s) * K}
<1>1. \A s \in SUBSET S : IsFiniteSet(s) /\ Size(s) \in Nat /\ Added(s) \in Nat
  <2> TAKE s \in SUBSET S
  <2>1. IsFiniteSet(s) /\ Cardinality(s) \in Nat
    BY FS_Subset, FS_CardinalityType
  <2> QED
    BY <2>1, SumAtLeast
<1>2. ASSUME NEW s \in SUBSET S, \A t \in SUBSET s : t # s => t \in F PROVE s \in F
  <2>1. CASE s = {}
    <3>1. Added(s) = 0 /\ Size(s) = 0
      BY <2>1, SumEmpty, FS_EmptySet
    <3> HIDE DEF Added, Size
    <3> QED
      BY <3>1
  <2>2. CASE s # {}
    <3> DEFINE a == FirstOf(s)
    <3>1. a \in s /\ w[a] \in Nat /\ w[a] <= K /\ RestOf(s) \in F
      BY <1>2, <2>2, RestSmaller
    <3>2. Added(s) = w[a] + Added(RestOf(s))
      BY <1>1, <2>2, SumStep
    <3>3. Size(RestOf(s)) = Size(s) - 1
      BY <1>1, <3>1, FS_RemoveElement DEF RestOf
    <3>4. Added(RestOf(s)) <= Size(RestOf(s)) * K /\ RestOf(s) \in SUBSET S
      BY <3>1
    <3>5. Size(RestOf(s)) \in Nat /\ Size(s) \in Nat /\ Added(RestOf(s)) \in Nat
      BY <1>1, <3>4
    <3> HIDE DEF Added, Size, a, F
    <3>6. Added(s) <= K + (Size(s) - 1) * K
      BY <3>1, <3>2, <3>3, <3>4, <3>5
    <3>7. \A n \in Nat : K + (n - 1) * K = n * K
      OBVIOUS
    <3>8. Added(s) <= Size(s) * K
      BY <3>5, <3>6, <3>7
    <3> QED
      BY <3>8 DEF F
  <2> QED
    BY <2>1, <2>2
<1>3. S \in F
  <2> HIDE DEF F
  <2> QED
    BY <1>2, OnSubsets
<1> QED
  BY <1>3

\* What the others give: nothing, or up to K each.
LEMMA SumOfOthers ==
    ASSUME NEW S, IsFiniteSet(S), NEW c \in S, NEW K \in Nat,
           NEW w, \A x \in S : w[x] \in Nat /\ w[x] <= K
    PROVE /\ SumFunctionOnSet(w, S) \in Nat
          /\ SumFunctionOnSet(w, S) - w[c] <= (Cardinality(S) - 1) * K
          /\ (\A x \in S \ {c} : w[x] = 0) => SumFunctionOnSet(w, S) = w[c]
<1> DEFINE rest == SumFunctionOnSet(w, S \ {c})
<1>1. IsFiniteSet(S \ {c}) /\ Cardinality(S \ {c}) = Cardinality(S) - 1
  BY FS_RemoveElement
<1>2. SumFunctionOnSet(w, S) = w[c] + rest /\ rest \in Int /\ SumFunctionOnSet(w, S) \in Nat
  <2>1. \A x \in S : w[x] \in Int
    OBVIOUS
  <2> QED
    BY <2>1, SumFacts, SumAtLeast
<1>3. rest <= Cardinality(S \ {c}) * K
  BY <1>1, SumAtMost
<1>4. (\A x \in S \ {c} : w[x] = 0) => rest = 0
  BY <1>1, SumZero
<1>5. w[c] \in Nat
  OBVIOUS
<1> HIDE DEF rest
<1> QED
  BY <1>1, <1>2, <1>3, <1>4, <1>5

-----------------------------------------------------------------------------
\* Any set of natural numbers has a least element.
LEMMA MinIsLeast ==
    ASSUME NEW S, S \subseteq Nat, S # {}
    PROVE Min(S) \in S /\ \A y \in S : Min(S) <= y
  BY Least DEF Min

\* A finite set of numbers has a greatest element.
LEMMA MaxIsGreatest ==
    ASSUME NEW S, IsFiniteSet(S), S \subseteq Int, S # {}
    PROVE Max(S) \in S /\ \A y \in S : y <= Max(S)
<1> DEFINE Bounded(s) == \E x \in s : \A y \in s : x >= y
           F == {s \in SUBSET S : s # {} => Bounded(s)}
<1>1. ASSUME NEW s \in SUBSET S, \A t \in SUBSET s : t # s => t \in F PROVE s \in F
  <2>1. CASE s = {}
    BY <2>1
  <2>2. CASE s # {}
    <3> DEFINE a == FirstOf(s)
    <3>0. a \in s /\ RestOf(s) \in SUBSET s /\ RestOf(s) # s
      BY <2>2, RestSmaller
    <3>5. s = RestOf(s) \cup {a}
      BY <3>0 DEF RestOf
    <3> HIDE DEF a
    <3>1. a \in s /\ a \in Int /\ s = RestOf(s) \cup {a} /\ RestOf(s) \in SUBSET s /\ RestOf(s) # s
      BY <3>0, <3>5
    <3>2. CASE RestOf(s) = {}
      <4>1. \A y \in s : a >= y
        BY <3>1, <3>2
      <4> QED
        BY <3>1, <4>1
    <3>3. CASE RestOf(s) # {}
      <4>1. PICK x \in RestOf(s) : \A y \in RestOf(s) : x >= y
        BY <1>1, <3>1, <3>3
      <4>2. x \in s /\ x \in Int /\ RestOf(s) \subseteq Int
        BY <3>1
      <4>3. CASE x >= a
        <5>1. \A y \in s : x >= y
          BY <3>1, <4>1, <4>3
        <5> QED
          BY <4>2, <5>1
      <4>4. CASE ~(x >= a)
        <5>1. \A y \in s : a >= y
          BY <3>1, <4>1, <4>2, <4>4
        <5> QED
          BY <3>1, <5>1
      <4> QED
        BY <4>3, <4>4
    <3> QED
      BY <3>2, <3>3
  <2> QED
    BY <2>1, <2>2
<1>2. S \in F
  <2> HIDE DEF F
  <2> QED
    BY <1>1, OnSubsets
<1>3. PICK x \in S : \A y \in S : x >= y
  BY <1>2
<1>4. Max(S) \in S /\ \A y \in S : Max(S) >= y
  BY <1>3 DEF Max
<1> QED
  BY <1>4

-----------------------------------------------------------------------------
\* What is put end to end are members of the sequences.
LEMMA FlatTyped ==
    ASSUME NEW A, NEW ss \in Seq(Seq(A))
    PROVE FlattenSeq(ss) \in Seq(A)
<1> DEFINE N == Len(ss)
           Flat(g, n) == g = [i \in 1..n |-> IF i = 1 THEN ss[i] ELSE g[i-1] \o ss[i]]
           F == {n \in Nat : \E g : Flat(g, n)}
<1>1. N \in Nat /\ DOMAIN ss = 1..N /\ \A i \in 1..N : ss[i] \in Seq(A)
  OBVIOUS
<1>2. CASE N = 0
  <2>1. ss = <<>> /\ ss \in Seq(A)
    BY <1>2
  <2> QED
    BY <2>1, <1>2 DEF FlattenSeq
<1>3. CASE N # 0
  <2>1. 0 \in F
    <3>1. Flat([i \in 1..0 |-> <<>>], 0)
      OBVIOUS
    <3> QED
      BY <3>1
  <2>2. \A n \in Nat : n \in F => n + 1 \in F
    <3> SUFFICES ASSUME NEW n \in Nat, n \in F PROVE n + 1 \in F
      OBVIOUS
    <3>1. PICK g : Flat(g, n)
      OBVIOUS
    <3> DEFINE h == [i \in 1..(n + 1) |-> IF i \in 1..n THEN g[i]
                                         ELSE IF i = 1 THEN ss[i] ELSE g[i - 1] \o ss[i]]
    <3>2. \A i \in 1..n : h[i] = g[i]
      OBVIOUS
    <3>3. \A i \in 1..(n + 1) : i - 1 \in 1..n \/ i = 1
      OBVIOUS
    <3>4. \A i \in 1..(n + 1) : h[i] = IF i = 1 THEN ss[i] ELSE h[i - 1] \o ss[i]
      <4> TAKE i \in 1..(n + 1)
      <4>1. CASE i \in 1..n
        <5>1. h[i] = g[i] /\ g[i] = IF i = 1 THEN ss[i] ELSE g[i - 1] \o ss[i]
          BY <4>1, <3>1
        <5>2. i # 1 => h[i - 1] = g[i - 1]
          BY <3>2, <3>3, <4>1
        <5> QED
          BY <5>1, <5>2
      <4>2. CASE i \notin 1..n
        <5>1. h[i] = IF i = 1 THEN ss[i] ELSE g[i - 1] \o ss[i]
          BY <4>2
        <5>2. i # 1 => h[i - 1] = g[i - 1]
          BY <3>2, <3>3
        <5> QED
          BY <5>1, <5>2
      <4> QED
        BY <4>1, <4>2
    <3>5. Flat(h, n + 1)
      BY <3>4
    <3>6. \E e : Flat(e, n + 1)
      <4> HIDE DEF h, Flat
      <4> QED
        BY <3>5
    <3> QED
      <4> HIDE DEF Flat
      <4> QED
        BY <3>6
  <2>3. PICK g : Flat(g, N)
    BY <2>1, <2>2, OnNaturals, <1>1
  <2> DEFINE c == CHOOSE f : Flat(f, N)
  <2>4. Flat(c, N)
    BY <2>3
  <2>5. FlattenSeq(ss) = c[N]
    BY <1>3 DEF FlattenSeq
  <2> HIDE DEF c
  <2> DEFINE G == {n \in Nat : n \in 1..N => c[n] \in Seq(A)}
  <2>6. 0 \in G
    OBVIOUS
  <2>7. \A n \in Nat : n \in G => n + 1 \in G
    <3> TAKE n \in Nat
    <3> HAVE n \in G
    <3> SUFFICES ASSUME n + 1 \in 1..N PROVE c[n + 1] \in Seq(A)
      OBVIOUS
    <3>1. c[n + 1] = IF n + 1 = 1 THEN ss[n + 1] ELSE c[n] \o ss[n + 1]
      <4>1. \A i \in 1..N : c[i] = IF i = 1 THEN ss[i] ELSE c[i - 1] \o ss[i]
        BY <2>4
      <4>2. n + 1 - 1 = n
        OBVIOUS
      <4> QED
        BY <4>1, <4>2
    <3>2. ss[n + 1] \in Seq(A)
      BY <1>1
    <3>3. n # 0 => c[n] \in Seq(A)
      BY <1>1
    <3> QED
      BY <3>1, <3>2, <3>3
  <2>8. N \in G
    BY <2>6, <2>7, OnNaturals, <1>1
  <2> QED
    BY <2>5, <2>8, <1>1, <1>3
<1> QED
  BY <1>2, <1>3, <1>1

LEMMA TailOf ==
    ASSUME NEW A, NEW s \in Seq(A), s # <<>>
    PROVE Head(s) \in A /\ Tail(s) \in Seq(A) /\ Len(s) > 0
OBVIOUS

LEMMA JoinTyped ==
    ASSUME NEW A, NEW s \in Seq(A), NEW t \in Seq(A)
    PROVE s \o t \in Seq(A) /\ Len(s \o t) = Len(s) + Len(t)
OBVIOUS

IsList(s) == s \in Seq(ToSet(s))

LEMMA SeqMade ==
    ASSUME NEW A, NEW s \in Seq(A)
    PROVE IsList(s) /\ ToSet(s) \subseteq A
<1>1. s \in [1..Len(s) -> A] /\ DOMAIN s = 1..Len(s) /\ Len(s) \in Nat
  OBVIOUS
<1>2. s \in [1..Len(s) -> ToSet(s)]
  BY <1>1 DEF ToSet
<1>3. \A n \in Nat : \A f \in [1..n -> ToSet(s)] : f \in Seq(ToSet(s))
  OBVIOUS
<1> QED
  BY <1>1, <1>2, <1>3 DEF IsList, ToSet

LEMMA SeqSub ==
    ASSUME NEW s, IsList(s), NEW A, ToSet(s) \subseteq A
    PROVE s \in Seq(A)
<1>1. s \in [1..Len(s) -> ToSet(s)] /\ Len(s) \in Nat
  BY DEF IsList
<1>2. s \in [1..Len(s) -> A]
  BY <1>1
<1>3. \A n \in Nat : \A f \in [1..n -> A] : f \in Seq(A)
  OBVIOUS
<1> QED
  BY <1>1, <1>2, <1>3

LEMMA Joined ==
    ASSUME NEW s, IsList(s), NEW t, IsList(t)
    PROVE IsList(s \o t) /\ ToSet(s \o t) = ToSet(s) \cup ToSet(t)
<1> DEFINE A == ToSet(s) \cup ToSet(t)
<1>1. s \in Seq(A) /\ t \in Seq(A)
  BY SeqSub
<1>2. s \o t \in Seq(A) /\ Len(s \o t) = Len(s) + Len(t) /\ Len(s) \in Nat /\ Len(t) \in Nat
  BY <1>1
<1>3. IsList(s \o t) /\ ToSet(s \o t) \subseteq A
  BY <1>2, SeqMade
<1>4. DOMAIN s = 1..Len(s) /\ DOMAIN t = 1..Len(t) /\ DOMAIN (s \o t) = 1..(Len(s) + Len(t))
  BY <1>1, <1>2
<1>5. ASSUME NEW i \in 1..Len(s) PROVE s[i] \in ToSet(s \o t)
  <2>1. (s \o t)[i] = s[i] /\ i \in 1..(Len(s) + Len(t))
    BY <1>1, <1>2
  <2> QED
    BY <2>1, <1>4 DEF ToSet
<1>6. ASSUME NEW i \in 1..Len(t) PROVE t[i] \in ToSet(s \o t)
  <2>1. (s \o t)[Len(s) + i] = t[i] /\ Len(s) + i \in 1..(Len(s) + Len(t))
    BY <1>1, <1>2
  <2> QED
    BY <2>1, <1>4 DEF ToSet
<1>7. A \subseteq ToSet(s \o t)
  BY <1>4, <1>5, <1>6 DEF ToSet
<1> QED
  BY <1>3, <1>7

LEMMA TailSet ==
    ASSUME NEW s, IsList(s), s # <<>>
    PROVE IsList(Tail(s)) /\ ToSet(Tail(s)) \subseteq ToSet(s) /\ Head(s) \in ToSet(s)
BY SeqMade, TailOf DEF IsList

LEMMA Tuples ==
    /\ IsList(<<>>) /\ ToSet(<<>>) = {}
    /\ \A x : IsList(<<x>>) /\ ToSet(<<x>>) = {x}
    /\ \A x, y : IsList(<<x, y>>) /\ ToSet(<<x, y>>) = {x, y}
    /\ \A x, y, z : IsList(<<x, y, z>>) /\ ToSet(<<x, y, z>>) = {x, y, z}
    /\ \A w, x, y, z : IsList(<<w, x, y, z>>) /\ ToSet(<<w, x, y, z>>) = {w, x, y, z}
BY DEF IsList, ToSet

LEMMA MadeSeq ==
    ASSUME NEW n \in Nat, NEW s, s = [i \in 1..n |-> s[i]]
    PROVE IsList(s)
<1>1. s \in [1..n -> ToSet(s)]
  BY DEF ToSet
<1> QED
  BY <1>1 DEF IsList

\* Up to a number below one there is nothing.
LEMMA UpTo ==
    ASSUME NEW n \in Int, NEW S, NEW s \in [1..n -> S]
    PROVE s \in Seq(S)
<1>1. CASE n \in Nat
  <2>1. \A k \in Nat : \A g \in [1..k -> S] : g \in Seq(S)
    OBVIOUS
  <2> QED
    BY <1>1, <2>1
<1>2. CASE n \notin Nat
  <2>1. 1..n = {}
    BY <1>2
  <2>2. s = <<>>
    BY <2>1
  <2> QED
    BY <2>2
<1> QED
  BY <1>1, <1>2

LEMMA Listed ==
    ASSUME NEW S, IsFiniteSet(S)
    PROVE IsList(SetToSeq(S)) /\ ToSet(SetToSeq(S)) \subseteq S /\ SetToSeq(S) \in Seq(S)
<1>1. Cardinality(S) \in Nat /\ ExistsBijection(1..Cardinality(S), S)
  BY FS_CardinalityType
<1>2. PICK f \in [1..Cardinality(S) -> S] : IsInjective(f)
  BY <1>1 DEF ExistsBijection, Bijection, Injection, IsInjective
<1>3. SetToSeq(S) \in [1..Cardinality(S) -> S]
  BY <1>2 DEF SetToSeq
<1>4. \A n \in Nat : \A g \in [1..n -> S] : g \in Seq(S)
  OBVIOUS
<1> QED
  BY <1>1, <1>3, <1>4, SeqMade

LEMMA FlatMade ==
    ASSUME NEW A, NEW n \in Nat, NEW ss, ss = [i \in 1..n |-> ss[i]],
           \A i \in 1..n : ss[i] \in Seq(A)
    PROVE FlattenSeq(ss) \in Seq(A)
<1>1. ss \in [1..n -> Seq(A)]
  OBVIOUS
<1>2. ss \in Seq(Seq(A))
  BY <1>1
<1> QED
  BY <1>2, FlatTyped


-----------------------------------------------------------------------------
\* A fold over the indices 1..n, that is FoldLeft over a sequence of length n: f[i]
\* says what the i-th element makes of a result.
Folds(g, n, b, f) ==
  g = [s \in SUBSET (1..n) |-> IF s = {} THEN b ELSE f[Max(s)][g[s \ {Max(s)}]]]

\* The recursion defines a function, and its values are results.
LEMMA FoldExists ==
    ASSUME NEW n \in Nat, NEW R, NEW b \in R, NEW f \in [1..n -> [R -> R]]
    PROVE \E g \in [SUBSET (1..n) -> R] : Folds(g, n, b, f)
<1> DEFINE P == SUBSET (1..n)
           Value(g, s) == IF s = {} THEN b ELSE f[Max(s)][g[s \ {Max(s)}]]
           Upto(g, k) == \A s \in P : Cardinality(s) <= k => g[s] = Value(g, s)
           F == {k \in Nat : \E g \in [P -> R] : Upto(g, k)}
<1>0. IsFiniteSet(1..n) /\ Cardinality(1..n) = n
  BY FS_Interval
<1>1. \A s \in P : IsFiniteSet(s) /\ Cardinality(s) \in Nat /\ Cardinality(s) <= n
  <2> TAKE s \in P
  <2>1. IsFiniteSet(s) /\ Cardinality(s) <= Cardinality(1..n)
    BY <1>0, FS_Subset
  <2> QED
    BY <1>0, <2>1, FS_CardinalityType
<1>2. \A s \in P : s # {} => /\ Max(s) \in 1..n /\ s \ {Max(s)} \in P
                             /\ Cardinality(s \ {Max(s)}) = Cardinality(s) - 1
  <2> SUFFICES ASSUME NEW s \in P, s # {}
               PROVE /\ Max(s) \in 1..n /\ s \ {Max(s)} \in P
                     /\ Cardinality(s \ {Max(s)}) = Cardinality(s) - 1
    OBVIOUS
  <2>1. IsFiniteSet(s) /\ s \subseteq Int
    BY <1>1
  <2>2. Max(s) \in s
    BY <2>1, MaxIsGreatest
  <2> QED
    BY <2>1, <2>2, FS_RemoveElement
<1>3. ASSUME NEW g \in [P -> R], NEW s \in P PROVE Value(g, s) \in R
  <2>1. CASE s = {}
    BY <2>1
  <2>2. CASE s # {}
    <3>1. f[Max(s)] \in [R -> R] /\ g[s \ {Max(s)}] \in R
      BY <1>2, <2>2
    <3> QED
      BY <2>2, <3>1
  <2> QED
    BY <2>1, <2>2
<1>4. 0 \in F
  <2>1. \A s \in P : Cardinality(s) <= 0 => s = {}
    BY <1>1, FS_EmptySet
  <2>2. [s \in P |-> b] \in [P -> R] /\ Upto([s \in P |-> b], 0)
    BY <2>1
  <2> QED
    BY <2>2
<1>5. ASSUME NEW k \in Nat, k \in F PROVE k + 1 \in F
  <2>1. PICK g \in [P -> R] : Upto(g, k)
    BY <1>5
  <2> DEFINE h == [s \in P |-> Value(g, s)]
  <2>2. h \in [P -> R]
    BY <1>3
  <2>3. ASSUME NEW s \in P, Cardinality(s) <= k + 1 PROVE h[s] = Value(h, s)
    <3>1. CASE s = {}
      BY <3>1
    <3>2. CASE s # {}
      <4> DEFINE r == s \ {Max(s)}
      <4>1. r \in P /\ Cardinality(r) = Cardinality(s) - 1
        BY <1>2, <3>2
      <4>5. Cardinality(s) \in Nat /\ Cardinality(r) <= k
        BY <1>1, <2>3, <4>1
      <4>2. g[r] = Value(g, r)
        BY <2>1, <4>1, <4>5
      <4>3. h[r] = Value(g, r)
        BY <4>1
      <4>4. h[s] = Value(g, s)
        OBVIOUS
      <4> HIDE DEF h
      <4> QED
        BY <3>2, <4>2, <4>3, <4>4
    <3> QED
      BY <3>1, <3>2
  <2>4. Upto(h, k + 1)
    BY <2>3
  <2> HIDE DEF h
  <2>5. k + 1 \in Nat /\ \E e \in [P -> R] : Upto(e, k + 1)
    <3> HIDE DEF Upto, P
    <3> QED
      BY <2>2, <2>4
  <2> QED
    BY <2>5
<1>6. n \in F
  <2> HIDE DEF F
  <2> QED
    BY <1>4, <1>5, OnNaturals
<1>7. PICK g \in [P -> R] : Upto(g, n)
  BY <1>6
<1>9. g = [s \in P |-> Value(g, s)]
  BY <1>1, <1>7
<1> QED
  BY <1>9 DEF Folds

\* The sets a fold from the left goes through.
LEMMA FoldSteps ==
    ASSUME NEW n \in Nat
    PROVE /\ 1..0 = {} /\ 1..n \in SUBSET (1..n)
          /\ \A k \in 1..n : /\ Max(1..k) = k /\ (1..k) \ {k} = 1..(k - 1)
                             /\ 1..k # {} /\ 1..k \in SUBSET (1..n)
<1>1. \A k \in 1..n : IsFiniteSet(1..k) /\ 1..k \subseteq Int /\ k \in 1..k
  BY FS_Interval
<1>3. \A k \in 1..n : (1..k) \ {k} = 1..(k - 1) /\ 1..k \subseteq 1..n
  OBVIOUS
<1>2. \A k \in 1..n : Max(1..k) = k
  <2> TAKE k \in 1..n
  <2>1. Max(1..k) \in 1..k /\ k <= Max(1..k)
    BY <1>1, MaxIsGreatest
  <2> QED
    BY <2>1
<1>4. 1..0 = {} /\ 1..n \in SUBSET (1..n)
  OBVIOUS
<1>5. \A k \in 1..n : 1..k # {}
  BY <1>1
<1> QED
  BY <1>2, <1>3, <1>4, <1>5

LEMMA MaxOfPart ==
    ASSUME NEW n \in Nat, NEW s \in SUBSET (1..n), s # {}
    PROVE Max(s) \in 1..n
<1>1. IsFiniteSet(1..n)
  BY FS_Interval
<1>2. IsFiniteSet(s)
  BY <1>1, FS_Subset
<1>3. s \subseteq Int
  OBVIOUS
<1>4. Max(s) \in s
  BY <1>2, <1>3, MaxIsGreatest
<1> QED
  BY <1>4

\* What the first k elements make of the base, for every k.
Runs(c, n, R, b, f) ==
  /\ c[{}] = b
  /\ \A s \in SUBSET (1..n) : s # {} /\ c[s \ {Max(s)}] \in R
                                => c[s] = f[Max(s)][c[s \ {Max(s)}]]

Traced(x, c, n, b, f) ==
  x[0] = b /\ x[n] = c[1..n] /\ \A k \in 1..n : x[k] = f[k][x[k - 1]]

LEMMA FoldRuns ==
    ASSUME NEW n \in Nat, NEW R, NEW b \in R, NEW f \in [1..n -> [R -> R]], NEW c,
           Runs(c, n, R, b, f)
    PROVE \E x \in [0..n -> R] : Traced(x, c, n, b, f)
<1> DEFINE F == {k \in Nat : k <= n => c[1..k] \in R}
           x == [k \in 0..n |-> c[1..k]]
<1>1. \A k \in 1..n : c[1..(k - 1)] \in R => c[1..k] = f[k][c[1..(k - 1)]]
  <2> TAKE k \in 1..n
  <2>1. Max(1..k) = k /\ (1..k) \ {k} = 1..(k - 1) /\ 1..k # {} /\ 1..k \in SUBSET (1..n)
    BY FoldSteps
  <2> QED
    BY <2>1 DEF Runs
<1>2. 1..0 = {} /\ c[1..0] = b
  <2>1. 1..0 = {}
    OBVIOUS
  <2> QED
    BY <2>1 DEF Runs
<1>3. 0 \in F
  BY <1>2
<1>4. ASSUME NEW k \in Nat, k \in F PROVE k + 1 \in F
  <2> SUFFICES ASSUME k + 1 <= n PROVE c[1..(k + 1)] \in R
    OBVIOUS
  <2>1. k + 1 \in 1..n /\ k <= n /\ (k + 1) - 1 = k
    OBVIOUS
  <2>2. c[1..k] \in R
    BY <1>4, <2>1
  <2>3. c[1..(k + 1)] = f[k + 1][c[1..k]] /\ f[k + 1] \in [R -> R]
    BY <1>1, <2>1, <2>2
  <2> QED
    BY <2>2, <2>3
<1>5. Nat \subseteq F
  <2> HIDE DEF F
  <2> QED
    BY <1>3, <1>4, OnNaturals
<1>6. \A k \in 0..n : x[k] = c[1..k] /\ x[k] \in R
  BY <1>5
<1>7. \A k \in 1..n : k \in 0..n /\ k - 1 \in 0..n
  OBVIOUS
<1>8. 0 \in 0..n /\ n \in 0..n
  OBVIOUS
<1>9. \A k \in 1..n : x[k] = f[k][x[k - 1]]
  <2> TAKE k \in 1..n
  <2> HIDE DEF x
  <2>1. x[k] = c[1..k] /\ x[k - 1] = c[1..(k - 1)] /\ x[k - 1] \in R
    BY <1>6, <1>7
  <2> QED
    BY <1>1, <2>1
<1>10. x \in [0..n -> R]
  BY <1>6
<1>11. x[0] = b /\ x[n] = c[1..n]
  BY <1>2, <1>6, <1>8
<1>12. Traced(x, c, n, b, f)
  BY <1>9, <1>11 DEF Traced
<1> HIDE DEF x
<1> QED
  BY <1>10, <1>12

-----------------------------------------------------------------------------
\* In a finite set of numbers there is a k-th for each k up to its size.
LEMMA RankExists ==
    ASSUME NEW T, IsFiniteSet(T), T \subseteq Int, NEW k \in 1..Cardinality(T)
    PROVE \E x \in T : Cardinality({y \in T : y <= x}) = k
<1> DEFINE Has(s) == \A j \in 1..Cardinality(s) : \E x \in s : Cardinality({y \in s : y <= x}) = j
           F == {s \in SUBSET T : Has(s)}
<1>1. ASSUME NEW s \in SUBSET T, \A t \in SUBSET s : t # s => t \in F PROVE s \in F
  <2>0. IsFiniteSet(s) /\ Cardinality(s) \in Nat
    BY FS_Subset, FS_CardinalityType
  <2> SUFFICES ASSUME NEW j \in 1..Cardinality(s)
               PROVE \E x \in s : Cardinality({y \in s : y <= x}) = j
    OBVIOUS
  <2>1. s # {}
    BY FS_EmptySet
  <2> DEFINE m == Max(s)  t == s \ {m}
  <2>2. m \in s /\ \A y \in s : y <= m
    BY <2>0, <2>1, MaxIsGreatest
  <2> HIDE DEF m
  <2>3. CASE j = Cardinality(s)
    <3>1. {y \in s : y <= m} = s
      BY <2>2
    <3> QED
      BY <2>2, <2>3, <3>1
  <2>4. CASE j # Cardinality(s)
    <3>1. Cardinality(t) = Cardinality(s) - 1 /\ t \in SUBSET s /\ t # s
      BY <2>0, <2>2, FS_RemoveElement
    <3>5. j \in 1..Cardinality(t)
      BY <2>0, <2>4, <3>1
    <3>6. t \in F
      BY <1>1, <3>1
    <3>2. j \in 1..Cardinality(t) /\ Has(t)
      BY <3>5, <3>6
    <3>3. PICK x \in t : Cardinality({y \in t : y <= x}) = j
      BY <3>2
    <3>4. {y \in s : y <= x} = {y \in t : y <= x}
      <4>1. x <= m /\ x # m /\ x \in Int /\ m \in Int
        BY <2>2, <3>3
      <4>2. ~(m <= x)
        BY <4>1
      <4> QED
        BY <4>2
    <3> QED
      BY <3>3, <3>4
  <2> QED
    BY <2>3, <2>4
<1>2. T \in F
  <2> HIDE DEF F
  <2> QED
    BY <1>1, OnSubsets
<1> QED
  BY <1>2

-----------------------------------------------------------------------------
\* How many members of a sequence are in M.
Count(s, M) == Cardinality({i \in DOMAIN s : s[i] \in M})

LEMMA CountTyped ==
    ASSUME NEW A, NEW s \in Seq(A), NEW M
    PROVE Count(s, M) \in Nat /\ IsFiniteSet({i \in DOMAIN s : s[i] \in M})
<1>1. Len(s) \in Nat /\ DOMAIN s = 1..Len(s)
  OBVIOUS
<1>2. IsFiniteSet(DOMAIN s)
  BY <1>1, FS_Interval
<1>3. IsFiniteSet({i \in DOMAIN s : s[i] \in M})
  BY <1>2, FS_Subset
<1> QED
  BY <1>3, FS_CardinalityType DEF Count

LEMMA CountAppend ==
    ASSUME NEW A, NEW s \in Seq(A), NEW e \in A, NEW M
    PROVE Count(Append(s, e), M) = Count(s, M) + IF e \in M THEN 1 ELSE 0
<1> DEFINE n == Len(s)
           old == {i \in DOMAIN s : s[i] \in M}
           new == {i \in DOMAIN Append(s, e) : Append(s, e)[i] \in M}
<1>1. IsFiniteSet(old) /\ Count(s, M) = Cardinality(old) /\ Cardinality(old) \in Nat
  BY CountTyped DEF Count
<1>2. /\ n \in Nat /\ DOMAIN s = 1..n /\ DOMAIN Append(s, e) = 1..(n + 1)
      /\ Append(s, e)[n + 1] = e /\ \A i \in 1..n : Append(s, e)[i] = s[i]
  OBVIOUS
<1>3. CASE e \in M
  <2>1. new = old \cup {n + 1} /\ n + 1 \notin old
    BY <1>2, <1>3
  <2>2. Cardinality(new) = Cardinality(old) + 1
    BY <1>1, <2>1, FS_AddElement
  <2> QED
    BY <1>1, <1>3, <2>2 DEF Count
<1>4. CASE e \notin M
  <2>1. new = old
    BY <1>2, <1>4
  <2>2. Count(Append(s, e), M) = Count(s, M)
    BY <2>1 DEF Count
  <2>3. Count(s, M) \in Nat
    BY CountTyped
  <2> QED
    BY <1>4, <2>2, <2>3
<1> QED
  BY <1>3, <1>4

\* What is put behind a sequence and is not in M does not count.
LEMMA CountJoin ==
    ASSUME NEW A, NEW s \in Seq(A), NEW t \in Seq(A), NEW M,
           \A i \in DOMAIN t : t[i] \notin M
    PROVE Count(s \o t, M) = Count(s, M)
<1>1. /\ Len(s) \in Nat /\ Len(t) \in Nat /\ DOMAIN s = 1..Len(s) /\ DOMAIN t = 1..Len(t)
      /\ DOMAIN (s \o t) = 1..(Len(s) + Len(t))
      /\ \A i \in 1..(Len(s) + Len(t)) :
           (s \o t)[i] = IF i <= Len(s) THEN s[i] ELSE t[i - Len(s)]
  OBVIOUS
<1>2. \A i \in 1..(Len(s) + Len(t)) : i \notin 1..Len(s) => i - Len(s) \in 1..Len(t) /\ ~(i <= Len(s))
  BY <1>1
<1>3. {i \in DOMAIN (s \o t) : (s \o t)[i] \in M} = {i \in DOMAIN s : s[i] \in M}
  BY <1>1, <1>2
<1> QED
  BY <1>3 DEF Count

\* Of a sequence without its k-th member exactly that one is missing.
LEMMA CountRemoved ==
    ASSUME NEW A, NEW s \in Seq(A), NEW k \in 1..Len(s), NEW M
    PROVE /\ RemoveAt(s, k) \in Seq(A)
          /\ Count(RemoveAt(s, k), M) = Count(s, M) - IF s[k] \in M THEN 1 ELSE 0
<1> DEFINE n == Len(s)
           r == RemoveAt(s, k)
           old == {i \in DOMAIN s : s[i] \in M}
           new == {i \in DOMAIN r : r[i] \in M}
           f == [i \in new |-> IF i < k THEN i ELSE i + 1]
<1>1. n \in Nat /\ DOMAIN s = 1..n /\ k \in Nat
  OBVIOUS
<1>2. /\ r \in Seq(A) /\ DOMAIN r = 1..(n - 1)
      /\ \A i \in 1..(n - 1) : r[i] = IF i < k THEN s[i] ELSE s[i + 1]
  <2> DEFINE a == SubSeq(s, 1, k - 1)  z == SubSeq(s, k + 1, n)
  <2>1. a \in Seq(A) /\ Len(a) = k - 1 /\ \A i \in 1..(k - 1) : a[i] = s[i]
    BY <1>1
  <2>0. z \in Seq(A) /\ Len(z) = n - k
    <3>1. k + 1 \in 1..(n + 1) /\ n \in k..n
      BY <1>1
    <3>2. z \in Seq(A) /\ Len(z) = IF k + 1 <= n THEN n - (k + 1) + 1 ELSE 0
      BY <3>1
    <3>4. k <= n
      BY <1>1
    <3>3. Len(z) = n - k
      <4> HIDE DEF z, n
      <4>1. \A l \in Int : l = (IF k + 1 <= n THEN n - (k + 1) + 1 ELSE 0) => l = n - k
        BY <1>1, <3>4
      <4>2. Len(z) \in Int
        BY <3>2
      <4> QED
        BY <3>2, <4>1, <4>2
    <3> QED
      BY <3>2, <3>3
  <2>7. \A i \in 1..(n - k) : z[i] = s[k + i]
    <3> TAKE i \in 1..(n - k)
    <3>1. z[i] = s[(k + 1) + i - 1] /\ (k + 1) + i - 1 = k + i
      BY <1>1
    <3> QED
      BY <3>1
  <2>2. z \in Seq(A) /\ Len(z) = n - k /\ \A i \in 1..(n - k) : z[i] = s[k + i]
    BY <2>0, <2>7
  <2> HIDE DEF a, z
  <2>3. a \o z \in Seq(A) /\ Len(a \o z) = n - 1
    <3>1. a \o z \in Seq(A) /\ Len(a \o z) = Len(a) + Len(z)
      BY <2>1, <2>2, JoinTyped
    <3> QED
      BY <1>1, <2>1, <2>2, <3>1
  <2>4. ASSUME NEW i \in 1..(n - 1) PROVE (a \o z)[i] = IF i < k THEN s[i] ELSE s[i + 1]
    <3>1. CASE i < k
      BY <1>1, <2>1, <2>2, <3>1
    <3>2. CASE ~(i < k)
      <4>1. i - (k - 1) \in 1..(n - k) /\ k + (i - (k - 1)) = i + 1
        BY <1>1, <3>2
      <4>2. (a \o z)[i] = z[i - (k - 1)]
        BY <1>1, <2>1, <2>2, <3>2
      <4> QED
        BY <2>2, <3>2, <4>1, <4>2
    <3> QED
      BY <3>1, <3>2
  <2>5. r = a \o z
    BY DEF RemoveAt, a, z
  <2>6. DOMAIN (a \o z) = 1..(n - 1)
    BY <2>3
  <2> QED
    BY <2>3, <2>4, <2>5, <2>6
<1>3. IsFiniteSet(old) /\ Cardinality(old) \in Nat /\ IsFiniteSet(new)
  BY <1>2, CountTyped DEF Count
<1>4. \A i \in new : f[i] \in old \ {k}
  BY <1>1, <1>2
<1>5. \A i, j \in new : f[i] = f[j] => i = j
  BY <1>1, <1>2
<1>6. \A j \in old \ {k} : \E i \in new : f[i] = j
  <2> TAKE j \in old \ {k}
  <2>1. CASE j < k
    <3>1. j \in new /\ f[j] = j
      BY <1>1, <1>2, <2>1
    <3> QED
      BY <3>1
  <2>2. CASE j > k
    <3>1. j - 1 \in 1..(n - 1) /\ ~(j - 1 < k) /\ (j - 1) + 1 = j
      BY <1>1, <2>2
    <3>2. j - 1 \in new /\ f[j - 1] = j
      BY <1>1, <1>2, <3>1
    <3> QED
      BY <3>2
  <2> QED
    BY <1>1, <2>1, <2>2
<1> HIDE DEF f
<1>7. f \in Bijection(new, old \ {k})
  <2>1. f \in [new -> old \ {k}]
    BY <1>4 DEF f
  <2> QED
    BY <1>5, <1>6, <2>1 DEF Bijection, Injection, Surjection, IsInjective
<1>8. Cardinality(new) = Cardinality(old \ {k})
  <2>1. ExistsBijection(new, old \ {k})
    BY <1>7 DEF ExistsBijection
  <2> QED
    BY <1>3, <2>1, FS_Bijection
<1>9. Cardinality(old \ {k}) = Cardinality(old) - IF k \in old THEN 1 ELSE 0
  <2> HIDE DEF old
  <2>1. Cardinality(old \ {k}) = IF k \in old THEN Cardinality(old) - 1 ELSE Cardinality(old)
    BY <1>3, FS_RemoveElement
  <2> QED
    BY <1>3, <2>1
<1>10. k \in old <=> s[k] \in M
  BY <1>1
<1> QED
  BY <1>2, <1>8, <1>9, <1>10 DEF Count

\* Joining is associative.
LEMMA Associates ==
    ASSUME NEW p, NEW q, NEW o, IsList(p), IsList(q), IsList(o)
    PROVE (p \o q) \o o = p \o (q \o o)
BY DEF IsList

\* What is in a list is its head or in its tail.
LEMMA HeadOrTail ==
    ASSUME NEW s, IsList(s), s # <<>>
    PROVE ToSet(s) = {Head(s)} \cup ToSet(Tail(s))
<1>1. s \in Seq(ToSet(s)) /\ Head(s) \in ToSet(s) /\ ToSet(Tail(s)) \subseteq ToSet(s)
  BY TailSet DEF IsList
<1>2. ASSUME NEW x \in ToSet(s), x # Head(s) PROVE x \in ToSet(Tail(s))
  <2>1. PICK i \in 1..Len(s) : x = s[i]
    BY <1>1 DEF ToSet
  <2>2. i # 1
    BY <1>1, <1>2, <2>1
  <2>3. i - 1 \in 1..Len(Tail(s)) /\ Tail(s)[i - 1] = x
    BY <1>1, <2>1, <2>2
  <2>4. DOMAIN Tail(s) = 1..Len(Tail(s))
    BY <1>1
  <2> QED
    BY <2>3, <2>4 DEF ToSet
<1> QED
  BY <1>1, <1>2

\* A list with one more is a list.
LEMMA AppendMade ==
    ASSUME NEW s, IsList(s), NEW x PROVE IsList(Append(s, x))
<1> DEFINE A == ToSet(s) \cup {x}
<1>1. x \in A /\ s \in Seq(A)
  BY SeqSub
<1> HIDE DEF A
<1>2. Append(s, x) \in Seq(A)
  BY <1>1
<1> QED
  BY <1>2, SeqMade

\* What lists put one after the other hold, one of them held.
LEMMA FlatAll ==
    ASSUME NEW n \in Nat, NEW ss, ss = [i \in 1..n |-> ss[i]], \A i \in 1..n : IsList(ss[i])
    PROVE /\ IsList(FlattenSeq(ss))
          /\ \A x \in ToSet(FlattenSeq(ss)) : \E i \in 1..n : x \in ToSet(ss[i])
<1> DEFINE A == UNION {ToSet(ss[i]) : i \in 1..n}
<1>1. \A i \in 1..n : ss[i] \in Seq(A)
  <2> TAKE i \in 1..n
  <2>1. ToSet(ss[i]) \subseteq A
    OBVIOUS
  <2> HIDE DEF A
  <2> QED
    BY <2>1, SeqSub
<1>a. \A x \in A : \E i \in 1..n : x \in ToSet(ss[i])
  OBVIOUS
<1> HIDE DEF A
<1>2. FlattenSeq(ss) \in Seq(A)
  BY <1>1, FlatMade
<1>3. IsList(FlattenSeq(ss)) /\ ToSet(FlattenSeq(ss)) \subseteq A
  BY <1>2, SeqMade
<1> QED
  BY <1>3, <1>a

\* A list with one put before it.
LEMMA Leading ==
    ASSUME NEW x, NEW w, IsList(w)
    PROVE /\ (<< x >> \o w) \o <<>> = << x >> \o w /\ << x >> \o w # <<>>
          /\ Head(<< x >> \o w) = x /\ Tail(<< x >> \o w) = w
<1>1. << x >> \in Seq(ToSet(w) \cup {x}) /\ w \in Seq(ToSet(w) \cup {x})
  BY SeqSub, Tuples
<1> QED
  BY <1>1

\* The rows of a finite set are all listed.
LEMMA AllListed ==
    ASSUME NEW S, IsFiniteSet(S) PROVE ToSet(SetToSeq(S)) = S /\ IsList(SetToSeq(S))
<1> DEFINE k == Cardinality(S)  f == SetToSeq(S)
<1>1. k \in Nat /\ ExistsBijection(1..k, S)
  BY FS_CardinalityType
<1>2. \E g \in [1..k -> S] : IsInjective(g)
  BY <1>1 DEF ExistsBijection, Bijection, Injection
<1>3. f \in [1..k -> S] /\ IsInjective(f)
  BY <1>2 DEF SetToSeq
<1> HIDE DEF f
<1>4. f \in Injection(1..k, S)
  BY <1>3 DEF Injection
<1>5. Cardinality(1..k) = k
  BY <1>1, FS_Interval
<1>6. f \in Surjection(1..k, S)
  BY <1>4, <1>5, FS_Injection
<1>7. \A x \in S : \E i \in 1..k : f[i] = x
  BY <1>6 DEF Surjection
<1>8. ToSet(f) = S
  BY <1>3, <1>7 DEF ToSet
<1> QED
  BY <1>8, Listed DEF f
=============================================================================
