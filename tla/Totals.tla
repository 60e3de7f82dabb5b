------------------------------- MODULE Totals -------------------------------
(***************************************************************************)
(* Facts about sums over finite sets, as the community modules' folds make *)
(* them (MapThenSumSet): the meters and day rows of this project are such  *)
(* sums, and the proofs about them rest on these lemmas.                   *)
(*                                                                         *)
(* A fold is a CHOOSE of a function on every subset.  That there is one    *)
(* such function, and what it returns, is shown from a smallest subset for *)
(* which it fails: there is one because strict inclusion is well-founded   *)
(* on the subsets of a finite set.                                         *)
(***************************************************************************)
EXTENDS Integers, FiniteSetsExt, FiniteSetTheorems, WellFoundedInduction, TLAPS

\* The sum of w over S.
Total(w, S) == MapThenSumSet(LAMBDA x : w[x], S)

AnyOf(s) == CHOOSE x \in s : TRUE

\* g adds w up over every subset of S.
Adds(g, w, S) ==
    g = [s \in SUBSET S |-> IF s = {} THEN 0 ELSE w[AnyOf(s)] + g[s \ {AnyOf(s)}]]

\* Every set of subsets of a finite set has a smallest one.
LEMMA SmallestSubset ==
    ASSUME NEW S, IsFiniteSet(S), NEW T, T \subseteq SUBSET S, T # {}
    PROVE  \E m \in T : \A t \in T : t \subseteq m => t = m
<1> DEFINE R == StrictSubsetOrdering(S)
<1>1. IsWellFoundedOn(R, SUBSET S)
  BY FS_StrictSubsetOrderingWellFounded, FS_FiniteSubsetsOfFinite
<1> HIDE DEF R
<1>2. \E m \in T : \A t \in T : ~ (<<t, m>> \in R)
  BY <1>1, WFMin
<1>3. PICK m \in T : \A t \in T : ~ (<<t, m>> \in R)
  BY <1>2
<1>4. \A t \in T : t \subseteq m => t = m
  BY <1>3 DEF R, StrictSubsetOrdering
<1> QED
  BY <1>4

\* The element a fold takes next is one.
LEMMA AnyIn == \A s : s # {} => AnyOf(s) \in s
BY DEF AnyOf

\* There is one way to add up, whatever larger set it is defined over.
LEMMA AddsOnce ==
    ASSUME NEW S, IsFiniteSet(S), NEW w, NEW g, NEW h, NEW R, S \subseteq R,
           Adds(g, w, S), Adds(h, w, R)
    PROVE  \A s \in SUBSET S : g[s] = h[s]
<1> DEFINE T == {s \in SUBSET S : g[s] # h[s]}
<1>1. SUFFICES ASSUME T # {} PROVE FALSE
  OBVIOUS
<1>2. PICK m \in T : \A t \in T : t \subseteq m => t = m
  <2> T \subseteq SUBSET S
    OBVIOUS
  <2> HIDE DEF T
  <2> QED
    BY <1>1, SmallestSubset
<1>3. /\ g[m] = IF m = {} THEN 0 ELSE w[AnyOf(m)] + g[m \ {AnyOf(m)}]
      /\ h[m] = IF m = {} THEN 0 ELSE w[AnyOf(m)] + h[m \ {AnyOf(m)}]
  BY DEF Adds
<1>4. m # {}
  BY <1>3
<1>5. AnyOf(m) \in m
  BY <1>4, AnyIn
<1>6. g[m \ {AnyOf(m)}] = h[m \ {AnyOf(m)}]
  BY <1>2, <1>5
<1> QED
  BY <1>3, <1>6

\* There is a way to add up.
LEMMA AddsExists ==
    ASSUME NEW S, IsFiniteSet(S), NEW w
    PROVE  \E g : Adds(g, w, S)
<1> DEFINE T == {s \in SUBSET S : ~ \E g : Adds(g, w, s)}
<1>1. SUFFICES ASSUME T # {} PROVE FALSE
  OBVIOUS
<1>2. PICK m \in T : \A t \in T : t \subseteq m => t = m
  <2> T \subseteq SUBSET S
    OBVIOUS
  <2> HIDE DEF T
  <2> QED
    BY <1>1, SmallestSubset
<1> DEFINE G(t) == CHOOSE g : Adds(g, w, t)
           g == [s \in SUBSET m |->
                   IF s = {} THEN 0 ELSE w[AnyOf(s)] + G(s \ {AnyOf(s)})[s \ {AnyOf(s)}]]
<1>3. \A t \in SUBSET m : t # m => Adds(G(t), w, t)
  BY <1>2
<1>4. \A t \in SUBSET m : t # m => g[t] = G(t)[t]
  <2> SUFFICES ASSUME NEW t \in SUBSET m, t # m PROVE g[t] = G(t)[t]
    OBVIOUS
  <2>1. G(t)[t] = IF t = {} THEN 0 ELSE w[AnyOf(t)] + G(t)[t \ {AnyOf(t)}]
    <3> Adds(G(t), w, t) /\ t \in SUBSET t
      BY <1>3
    <3> HIDE DEF G
    <3> QED
      BY DEF Adds
  <2>2. CASE t = {}
    BY <2>1, <2>2
  <2>3. CASE t # {}
    <3> DEFINE u == t \ {AnyOf(t)}
    <3>1. AnyOf(t) \in t
      BY <2>3, AnyIn
    <3>2. u \subseteq t /\ u \in SUBSET m /\ u # m
      BY <3>1
    <3>3. Adds(G(u), w, u) /\ Adds(G(t), w, t) /\ IsFiniteSet(u)
      BY <1>3, <3>2, FS_Subset
    <3> HIDE DEF u, G
    <3>4. G(u)[u] = G(t)[u]
      BY <3>2, <3>3, AddsOnce
    <3> QED
      BY <2>1, <2>3, <3>4 DEF u
  <2> QED
    BY <2>2, <2>3
<1> HIDE DEF G
<1>5. \A s \in SUBSET m : s # {} => g[s \ {AnyOf(s)}] = G(s \ {AnyOf(s)})[s \ {AnyOf(s)}]
  BY <1>4, AnyIn
<1>6. Adds(g, w, m)
  <2> \A s \in SUBSET m : g[s] = IF s = {} THEN 0 ELSE w[AnyOf(s)] + g[s \ {AnyOf(s)}]
    BY <1>5
  <2> QED
    BY DEF Adds
<1> QED
  BY <1>2, <1>6

\* The fold is what adds up.
LEMMA TotalAdds ==
    ASSUME NEW S, IsFiniteSet(S), NEW w, NEW g, Adds(g, w, S)
    PROVE  Total(w, S) = g[S]
<1> DEFINE h == CHOOSE i : Adds(i, w, S)
<1>1. Total(w, S) = h[S]
  BY DEF Total, MapThenSumSet, MapThenFoldSet, Adds, AnyOf
<1>2. Adds(h, w, S)
  OBVIOUS
<1> HIDE DEF h
<1> QED
  BY <1>1, <1>2, AddsOnce

\* What one step of the sum is.
LEMMA TotalStep ==
    ASSUME NEW S, IsFiniteSet(S), NEW w
    PROVE  /\ S = {} => Total(w, S) = 0
           /\ S # {} => /\ AnyOf(S) \in S /\ IsFiniteSet(S \ {AnyOf(S)})
                        /\ Total(w, S) = w[AnyOf(S)] + Total(w, S \ {AnyOf(S)})
<1>1. PICK g : Adds(g, w, S)
  BY AddsExists
<1>2. Total(w, S) = g[S]
  BY <1>1, TotalAdds
<1>3. g[S] = IF S = {} THEN 0 ELSE w[AnyOf(S)] + g[S \ {AnyOf(S)}]
  BY <1>1 DEF Adds
<1>4. CASE S # {}
  <2> DEFINE R == S \ {AnyOf(S)}
  <2>1. R \subseteq S /\ IsFiniteSet(R) /\ AnyOf(S) \in S
    BY <1>4, FS_Subset, AnyIn
  <2> HIDE DEF R
  <2>2. PICK h : Adds(h, w, R)
    BY <2>1, AddsExists
  <2>3. g[R] = h[R] /\ Total(w, R) = h[R]
    BY <1>1, <2>1, <2>2, AddsOnce, TotalAdds
  <2> QED
    BY <1>2, <1>3, <1>4, <2>1, <2>3 DEF R
<1> QED
  BY <1>2, <1>3, <1>4

\* A sum of integers is one, and of naturals is one.
LEMMA TotalType ==
    ASSUME NEW S, IsFiniteSet(S), NEW w, \A x \in S : w[x] \in Int
    PROVE  /\ Total(w, S) \in Int
           /\ (\A x \in S : w[x] >= 0) => Total(w, S) >= 0
<1> DEFINE Good(s) == /\ Total(w, s) \in Int
                      /\ (\A x \in S : w[x] >= 0) => Total(w, s) >= 0
           T == {s \in SUBSET S : ~ Good(s)}
<1>1. SUFFICES ASSUME T # {} PROVE FALSE
  OBVIOUS
<1>2. PICK m \in T : \A t \in T : t \subseteq m => t = m
  <2> T \subseteq SUBSET S
    OBVIOUS
  <2> HIDE DEF T
  <2> QED
    BY <1>1, SmallestSubset
<1>3. m \subseteq S /\ IsFiniteSet(m)
  BY FS_Subset
<1>4. CASE m = {}
  BY <1>2, <1>3, <1>4, TotalStep
<1>5. CASE m # {}
  <2>1. AnyOf(m) \in m /\ Total(w, m) = w[AnyOf(m)] + Total(w, m \ {AnyOf(m)})
    BY <1>3, <1>5, TotalStep
  <2>2. Good(m \ {AnyOf(m)})
    BY <1>2, <1>3, <2>1
  <2>3. w[AnyOf(m)] \in Int
    BY <1>3, <2>1
  <2>4. (\A x \in S : w[x] >= 0) => w[AnyOf(m)] >= 0
    BY <1>3, <2>1
  <2>5. Good(m)
    BY <2>1, <2>2, <2>3, <2>4
  <2> QED
    BY <2>5
<1> QED
  BY <1>4, <1>5

\* Taking any one element out of a sum.
LEMMA TotalWithout ==
    ASSUME NEW S, IsFiniteSet(S), NEW w, \A y \in S : w[y] \in Int, NEW x \in S
    PROVE  Total(w, S) = w[x] + Total(w, S \ {x})
<1> DEFINE Parts(s, y) == Total(w, s) = w[y] + Total(w, s \ {y})
           T == {s \in SUBSET S : \E y \in s : ~ Parts(s, y)}
<1>1. SUFFICES ASSUME T # {} PROVE FALSE
  OBVIOUS
<1>2. PICK m \in T : \A t \in T : t \subseteq m => t = m
  <2> T \subseteq SUBSET S
    OBVIOUS
  <2> HIDE DEF T
  <2> QED
    BY <1>1, SmallestSubset
<1>3. PICK y \in m : ~ Parts(m, y)
  OBVIOUS
<1>4. m \subseteq S /\ IsFiniteSet(m)
  BY FS_Subset
<1>5. \A s \in SUBSET m : s # m => \A z \in s : Parts(s, z)
  BY <1>2, <1>4
<1> DEFINE a == AnyOf(m)
<1>6. a \in m /\ Total(w, m) = w[a] + Total(w, m \ {a})
  BY <1>4, TotalStep
<1> HIDE DEF a
<1>7. a # y
  BY <1>3, <1>6
<1> DEFINE both == (m \ {a}) \ {y}
<1>8. Parts(m \ {a}, y) /\ Parts(m \ {y}, a) /\ both = (m \ {y}) \ {a}
  BY <1>5, <1>6, <1>7
<1>9. /\ Total(w, m \ {a}) = w[y] + Total(w, both)
      /\ Total(w, m \ {y}) = w[a] + Total(w, both)
  BY <1>8
<1>10. Total(w, both) \in Int /\ w[a] \in Int /\ w[y] \in Int
  <2>1. IsFiniteSet(both) /\ \A z \in both : w[z] \in Int
    BY <1>4, FS_Subset
  <2> HIDE DEF both
  <2> QED
    BY <1>4, <1>6, <2>1, TotalType
<1> HIDE DEF both
<1> QED
  BY <1>3, <1>6, <1>9, <1>10

\* A sum depends only on the values of what is summed.
LEMMA TotalSame ==
    ASSUME NEW S, IsFiniteSet(S), NEW v, NEW w, \A x \in S : v[x] = w[x]
    PROVE  Total(v, S) = Total(w, S)
<1>1. PICK g : Adds(g, w, S)
  BY AddsExists
<1>2. Adds(g, v, S)
  <2>1. \A s \in SUBSET S : s # {} => v[AnyOf(s)] = w[AnyOf(s)]
    BY AnyIn
  <2> QED
    BY <1>1, <2>1 DEF Adds
<1> QED
  BY <1>1, <1>2, TotalAdds

\* One value changes.
LEMMA TotalChanges ==
    ASSUME NEW S, IsFiniteSet(S), NEW v, NEW w, NEW x \in S,
           \A y \in S : v[y] \in Int /\ w[y] \in Int,
           \A y \in S \ {x} : v[y] = w[y]
    PROVE  Total(v, S) = Total(w, S) + v[x] - w[x]
<1> DEFINE R == S \ {x}
<1>1. IsFiniteSet(R) /\ (\A y \in R : v[y] = w[y] /\ w[y] \in Int)
  BY FS_Subset
<1>2. Total(v, S) = v[x] + Total(v, R) /\ Total(w, S) = w[x] + Total(w, R)
  BY TotalWithout
<1> HIDE DEF R
<1>3. Total(v, R) = Total(w, R) /\ Total(w, R) \in Int
  BY <1>1, TotalSame, TotalType
<1> QED
  BY <1>2, <1>3

\* One element more.
LEMMA TotalWith ==
    ASSUME NEW S, IsFiniteSet(S), NEW w, NEW x, x \notin S,
           \A y \in S \cup {x} : w[y] \in Int
    PROVE  /\ IsFiniteSet(S \cup {x})
           /\ Total(w, S \cup {x}) = Total(w, S) + w[x]
<1>1. IsFiniteSet(S \cup {x}) /\ (S \cup {x}) \ {x} = S
  BY FS_AddElement
<1>2. Total(w, S \cup {x}) = w[x] + Total(w, (S \cup {x}) \ {x})
  BY <1>1, TotalWithout
<1>3. Total(w, S) \in Int /\ w[x] \in Int
  BY TotalType
<1>4. Total(w, S \cup {x}) = w[x] + Total(w, S)
  BY <1>1, <1>2
<1> QED
  BY <1>1, <1>3, <1>4

\* Two sums, value by value: of less, of the parts of one, and of a part of what is summed.
LEMMA TotalsCompare ==
    ASSUME NEW S, IsFiniteSet(S), NEW v, NEW w, \A x \in S : v[x] \in Int /\ w[x] \in Int
    PROVE  /\ (\A x \in S : v[x] <= w[x]) => Total(v, S) <= Total(w, S)
           /\ Total([x \in S |-> v[x] + w[x]], S) = Total(v, S) + Total(w, S)
<1> DEFINE u == [x \in S |-> v[x] + w[x]]
           Good(s) == /\ (\A x \in S : v[x] <= w[x]) => Total(v, s) <= Total(w, s)
                      /\ Total(u, s) = Total(v, s) + Total(w, s)
           T == {s \in SUBSET S : ~ Good(s)}
<1>0. \A x \in S : u[x] = v[x] + w[x] /\ u[x] \in Int
  OBVIOUS
<1>1. SUFFICES ASSUME T # {} PROVE FALSE
  OBVIOUS
<1> HIDE DEF u
<1>2. PICK m \in T : \A t \in T : t \subseteq m => t = m
  <2> T \subseteq SUBSET S
    OBVIOUS
  <2> HIDE DEF T
  <2> QED
    BY <1>1, SmallestSubset
<1>3. m \subseteq S /\ IsFiniteSet(m)
  BY FS_Subset
<1>4. CASE m = {}
  <2> Total(u, m) = 0 /\ Total(v, m) = 0 /\ Total(w, m) = 0
    BY <1>3, <1>4, TotalStep
  <2> QED
    BY <1>2
<1>5. CASE m # {}
  <2> DEFINE a == AnyOf(m)
             r == m \ {a}
  <2>1. /\ a \in m /\ IsFiniteSet(r) /\ Total(u, m) = u[a] + Total(u, r)
        /\ Total(v, m) = v[a] + Total(v, r) /\ Total(w, m) = w[a] + Total(w, r)
    BY <1>3, <1>5, TotalStep
  <2>2. Good(r) /\ r \subseteq S
    BY <1>2, <1>3, <2>1
  <2> HIDE DEF a, r
  <2>3. Total(v, r) \in Int /\ Total(w, r) \in Int
    BY <2>1, <2>2, TotalType
  <2>4. v[a] \in Int /\ w[a] \in Int /\ u[a] = v[a] + w[a]
    BY <1>0, <1>3, <2>1
  <2>5. Good(m)
    BY <1>3, <2>1, <2>2, <2>3, <2>4
  <2> QED
    BY <1>2, <2>5
<1> QED
  BY <1>4, <1>5

\* What is summed in two parts.
LEMMA TotalSplits ==
    ASSUME NEW S, IsFiniteSet(S), NEW w, \A x \in S : w[x] \in Int, NEW R \in SUBSET S
    PROVE  /\ IsFiniteSet(R) /\ IsFiniteSet(S \ R)
           /\ Total(w, S) = Total(w, R) + Total(w, S \ R)
           /\ (\A x \in S : w[x] >= 0) => Total(w, R) <= Total(w, S)
<1> DEFINE rest == S \ R
<1>0. /\ IsFiniteSet(R) /\ IsFiniteSet(rest) /\ rest \subseteq S
      /\ rest \cap R = {} /\ R \cup rest = S
  BY FS_Subset
<1> HIDE DEF rest
<1> DEFINE Good(s) == Total(w, s \cup rest) = Total(w, s) + Total(w, rest)
           T == {s \in SUBSET R : ~ Good(s)}
<1>1. ASSUME T # {} PROVE FALSE
  <2>1. PICK m \in T : \A t \in T : t \subseteq m => t = m
    <3> T \subseteq SUBSET R
      OBVIOUS
    <3> HIDE DEF T
    <3> QED
      BY <1>0, <1>1, SmallestSubset
  <2>2. m \subseteq R /\ IsFiniteSet(m) /\ ~ Good(m)
    BY <1>0, FS_Subset
  <2>3. \A s \in SUBSET m : s # m => Good(s)
    BY <2>1
  <2> HIDE DEF T
  <2>4. CASE m = {}
    <3>1. Total(w, m) = 0 /\ m \cup rest = rest
      BY <2>2, <2>4, TotalStep
    <3>2. Total(w, rest) \in Int
      BY <1>0, TotalType
    <3> QED
      BY <2>2, <3>1, <3>2
  <2>5. CASE m # {}
    <3>1. PICK x : x \in m
      BY <2>5
    <3> DEFINE r == m \ {x}
    <3>2. Total(w, r \cup rest) = Total(w, r) + Total(w, rest)
      BY <2>3, <3>1
    <3>3. Total(w, m) = w[x] + Total(w, r)
      BY <2>2, <3>1, TotalWithout
    <3>4. Total(w, m \cup rest) = w[x] + Total(w, r \cup rest)
      <4>1. m \cup rest \subseteq S /\ x \in m \cup rest /\ (m \cup rest) \ {x} = r \cup rest
        BY <1>0, <2>2, <3>1
      <4>2. IsFiniteSet(m \cup rest)
        BY <4>1, FS_Subset
      <4> HIDE DEF r
      <4>3. Total(w, m \cup rest) = w[x] + Total(w, (m \cup rest) \ {x})
        BY <4>1, <4>2, TotalWithout
      <4> QED
        BY <4>1, <4>3
    <3>5. Total(w, r) \in Int /\ Total(w, rest) \in Int /\ w[x] \in Int
      <4>1. r \subseteq S /\ x \in S
        BY <2>2, <3>1
      <4>2. IsFiniteSet(r)
        BY <4>1, FS_Subset
      <4> HIDE DEF r
      <4> QED
        BY <1>0, <4>1, <4>2, TotalType
    <3> HIDE DEF r
    <3> QED
      BY <2>2, <3>2, <3>3, <3>4, <3>5
  <2> QED
    BY <2>4, <2>5
<1>2. Total(w, S) = Total(w, R) + Total(w, rest)
  <2>1. Good(R)
    BY <1>1
  <2> QED
    BY <1>0, <2>1
<1>3. Total(w, R) \in Int /\ Total(w, rest) \in Int
  BY <1>0, TotalType
<1>4. (\A x \in S : w[x] >= 0) => Total(w, rest) >= 0
  BY <1>0, TotalType
<1> QED
  BY <1>0, <1>2, <1>3, <1>4 DEF rest

\* A sum of zeros is zero.
LEMMA TotalOfNothing ==
    ASSUME NEW S, IsFiniteSet(S), NEW w, \A x \in S : w[x] = 0
    PROVE  Total(w, S) = 0
<1> DEFINE u == [x \in S |-> w[x] + w[x]]
<1>1. \A x \in S : w[x] \in Int
  OBVIOUS
<1>2. Total(u, S) = Total(w, S) + Total(w, S) /\ Total(w, S) \in Int
  BY <1>1, TotalsCompare, TotalType
<1>3. \A x \in S : u[x] = w[x]
  OBVIOUS
<1> HIDE DEF u
<1>4. Total(u, S) = Total(w, S)
  BY <1>3, TotalSame
<1> DEFINE t == Total(w, S)
<1>5. t = t + t /\ t \in Int
  BY <1>2, <1>4
<1> HIDE DEF t
<1>6. t = 0
  BY <1>5
<1> QED
  BY <1>6 DEF t

\* A sum of less is less.
LEMMA TotalBelow ==
    ASSUME NEW S, IsFiniteSet(S), NEW v, NEW w,
           \A x \in S : v[x] \in Int /\ w[x] \in Int /\ v[x] <= w[x]
    PROVE  Total(v, S) <= Total(w, S)
BY TotalsCompare

\* What is left out of a sum may as well be zero.
LEMMA TotalOnlyOver ==
    ASSUME NEW S, IsFiniteSet(S), NEW v, NEW w, NEW R \in SUBSET S,
           \A x \in S : v[x] \in Int, \A x \in R : v[x] = w[x], \A x \in S \ R : v[x] = 0
    PROVE  Total(v, S) = Total(w, R)
<1> DEFINE rest == S \ R
<1>1. /\ IsFiniteSet(R) /\ IsFiniteSet(rest) /\ Total(v, S) = Total(v, R) + Total(v, rest)
  BY TotalSplits
<1>2. \A x \in R : v[x] \in Int
  OBVIOUS
<1> HIDE DEF rest
<1>3. Total(v, R) = Total(w, R) /\ Total(v, R) \in Int
  BY <1>1, <1>2, TotalSame, TotalType
<1>4. Total(v, rest) = 0
  BY <1>1, TotalOfNothing DEF rest
<1> QED
  BY <1>1, <1>3, <1>4
=============================================================================
