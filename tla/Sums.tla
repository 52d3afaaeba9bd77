-------------------------------- MODULE Sums --------------------------------
(***************************************************************************)
(* Lemmas about the sum of a function's values over a finite set, as       *)
(* MapThenSumSet computes it: the sum does not depend on the order in      *)
(* which elements are taken, adds up element by element, and changes with  *)
(* a value by as much as the value does.  An amount owed job by job is     *)
(* summed so in Dues.                                                      *)
(*                                                                         *)
(* Each is proved by its smallest counterexample: the subsets of a finite  *)
(* set are well founded.                                                   *)
(***************************************************************************)
EXTENDS Integers, FiniteSetsExt, FiniteSetTheorems, WellFoundedInduction, TLAPS

\* The sum, and the function on subsets that the fold is: one element is
\* taken out at a time.
Total(f, S) == MapThenSumSet(LAMBDA x : f[x], S)

Chosen(s) == CHOOSE x \in s : TRUE
Adds(f, S, g) ==
    g = [s \in SUBSET S |-> IF s = {} THEN 0 ELSE f[Chosen(s)] + g[s \ {Chosen(s)}]]
Adder(f, S) == CHOOSE g : Adds(f, S, g)

-----------------------------------------------------------------------------
(* The fold is well defined. *)

(* The fold is the value of that function at the whole set.                 *)
LEMMA TotalIsFold == ASSUME NEW f, NEW S PROVE Total(f, S) = Adder(f, S)[S]
BY DEF Total, Adder, Adds, Chosen, MapThenSumSet, MapThenFoldSet

(* The function, if there is one, is the one chosen.                        *)
LEMMA AdderAdds == ASSUME NEW f, NEW S, \E g : Adds(f, S, g) PROVE Adds(f, S, Adder(f, S))
BY DEF Adder

(* A set of subsets of a finite set has a member with none smaller in it.   *)
LEMMA LeastMember ==
    ASSUME NEW S, IsFiniteSet(S), NEW T \in SUBSET SUBSET S, T # {}
    PROVE  \E s \in T : \A t \in T : t \subseteq s => t = s
<1>1. IsWellFoundedOn(StrictSubsetOrdering(S), FiniteSubsetsOf(S))
  BY FS_StrictSubsetOrderingWellFounded
<1>2. T \subseteq FiniteSubsetsOf(S)
  BY FS_FiniteSubsetsOfFinite
<1>3. \E s \in T : \A t \in T : ~ (<<t, s>> \in StrictSubsetOrdering(S))
  BY <1>1, <1>2, WFMin
<1>4. PICK s \in T : \A t \in T : ~ (<<t, s>> \in StrictSubsetOrdering(S))
  BY <1>3
<1>5. ASSUME NEW t \in T, t \subseteq s, t # s PROVE FALSE
  <2>1. <<t, s>> \in StrictSubsetOrdering(S)
    BY <1>5 DEF StrictSubsetOrdering
  <2> QED BY <1>4, <2>1
<1> QED BY <1>5

(* Two sums taken over different sets agree on the subsets of both.        *)
LEMMA AddsAgree ==
    ASSUME NEW f, NEW A, NEW B, IsFiniteSet(A), NEW g, NEW h, Adds(f, A, g), Adds(f, B, h),
           NEW s \in SUBSET A, s \in SUBSET B
    PROVE  g[s] = h[s]
<1> DEFINE T == {t \in SUBSET A : t \in SUBSET B /\ g[t] # h[t]}
<1>1. SUFFICES ASSUME T # {} PROVE FALSE
  OBVIOUS
<1>2. PICK t \in T : \A u \in T : u \subseteq t => u = t
  <2>1. T \in SUBSET SUBSET A
    OBVIOUS
  <2> HIDE DEF T
  <2> QED BY <1>1, <2>1, LeastMember
<1>3. t \in SUBSET A /\ t \in SUBSET B /\ g[t] # h[t]
  OBVIOUS
<1>4. /\ g[t] = IF t = {} THEN 0 ELSE f[Chosen(t)] + g[t \ {Chosen(t)}]
      /\ h[t] = IF t = {} THEN 0 ELSE f[Chosen(t)] + h[t \ {Chosen(t)}]
  BY <1>3 DEF Adds
<1>5. t # {}
  BY <1>3, <1>4
<1>6. Chosen(t) \in t
  BY <1>5 DEF Chosen
<1> DEFINE u == t \ {Chosen(t)}
<1>7. u \in SUBSET A /\ u \in SUBSET B /\ u \subseteq t /\ u # t
  BY <1>3, <1>6
<1>8. g[u] = h[u]
  BY <1>2, <1>7
<1> QED BY <1>3, <1>4, <1>5, <1>8

(* Over a finite set there is such a sum.                                  *)
LEMMA AdderExists ==
    ASSUME NEW f, NEW S, IsFiniteSet(S)
    PROVE  \E g : Adds(f, S, g)
<1> DEFINE T == {t \in SUBSET S : ~ \E g : Adds(f, t, g)}
<1>1. SUFFICES ASSUME T # {} PROVE FALSE
  BY DEF T
<1>2. PICK t \in T : \A u \in T : u \subseteq t => u = t
  <2>1. T \in SUBSET SUBSET S
    OBVIOUS
  <2> HIDE DEF T
  <2> QED BY <1>1, <2>1, LeastMember
<1>3. t \in SUBSET S /\ ~ \E g : Adds(f, t, g)
  OBVIOUS
<1>4. ASSUME NEW u \in SUBSET t, u # t PROVE Adds(f, u, Adder(f, u))
  BY <1>2, <1>3, <1>4, AdderAdds
<1> DEFINE G == [u \in SUBSET t |-> Adder(f, u)[u]]
           g == [u \in SUBSET t |-> IF u = {} THEN 0 ELSE f[Chosen(u)] + G[u \ {Chosen(u)}]]
<1>5. ASSUME NEW u \in SUBSET t, u # t PROVE G[u] = g[u]
  <2>1. Adds(f, u, Adder(f, u))
    BY <1>4, <1>5
  <2>2. Adder(f, u)[u] = IF u = {} THEN 0 ELSE f[Chosen(u)] + Adder(f, u)[u \ {Chosen(u)}]
    BY <2>1 DEF Adds
  <2>3. CASE u = {}
    BY <2>2, <2>3
  <2>4. CASE u # {}
    <3> DEFINE v == u \ {Chosen(u)}
    <3>1. Chosen(u) \in u
      BY <2>4 DEF Chosen
    <3>2. v \in SUBSET t /\ v # t /\ v \in SUBSET u
      BY <3>1
    <3>3. Adds(f, v, Adder(f, v))
      BY <1>4, <3>2
    <3>4. IsFiniteSet(u)
      BY <1>3, FS_Subset
    <3>5. Adder(f, u)[v] = Adder(f, v)[v]
      <4> HIDE DEF v
      <4> QED BY <2>1, <3>2, <3>3, <3>4, AddsAgree
    <3>6. G[v] = Adder(f, v)[v]
      BY <3>2
    <3> QED BY <2>2, <2>4, <3>5, <3>6
  <2> QED BY <2>3, <2>4
<1>6. ASSUME NEW u \in SUBSET t, u # {} PROVE G[u \ {Chosen(u)}] = g[u \ {Chosen(u)}]
  <2>1. Chosen(u) \in u
    BY <1>6 DEF Chosen
  <2>2. u \ {Chosen(u)} \in SUBSET t /\ u \ {Chosen(u)} # t
    BY <2>1
  <2> QED BY <1>5, <2>2
<1>7. Adds(f, t, g)
  BY <1>6 DEF Adds
<1> QED BY <1>3, <1>7

-----------------------------------------------------------------------------
(* Sums. *)

(* The sum of nothing.                                                      *)
LEMMA TotalEmpty == ASSUME NEW f PROVE Total(f, {}) = 0
<1>1. Adds(f, {}, Adder(f, {}))
  BY FS_EmptySet, AdderExists, AdderAdds
<1>2. Adder(f, {})[{}] = 0
  BY <1>1 DEF Adds
<1> QED BY <1>2, TotalIsFold

(* The element chosen is taken out.                                         *)
LEMMA TotalUnfolds ==
    ASSUME NEW f, NEW S, IsFiniteSet(S), S # {}
    PROVE  Chosen(S) \in S /\ Total(f, S) = f[Chosen(S)] + Total(f, S \ {Chosen(S)})
<1> DEFINE u == S \ {Chosen(S)}
<1>1. Adds(f, S, Adder(f, S))
  BY AdderExists, AdderAdds
<1>2. Adder(f, S)[S] = f[Chosen(S)] + Adder(f, S)[u]
  BY <1>1 DEF Adds
<1>3. Chosen(S) \in S
  BY DEF Chosen
<1>4. u \in SUBSET S /\ u \in SUBSET u
  OBVIOUS
<1>5. IsFiniteSet(u)
  BY <1>4, FS_Subset
<1>6. Adder(f, S)[u] = Adder(f, u)[u]
  <2> HIDE DEF u
  <2>1. Adds(f, u, Adder(f, u))
    BY <1>5, AdderExists, AdderAdds
  <2> QED BY <1>1, <1>4, <2>1, AddsAgree
<1> QED BY <1>2, <1>3, <1>6, TotalIsFold

(* Integers add up to an integer.                                           *)
LEMMA TotalInt ==
    ASSUME NEW S, IsFiniteSet(S), NEW f, \A x \in S : f[x] \in Int
    PROVE  Total(f, S) \in Int
<1> DEFINE T == {t \in SUBSET S : Total(f, t) \notin Int}
<1>1. SUFFICES ASSUME T # {} PROVE FALSE
  OBVIOUS
<1>2. PICK t \in T : \A u \in T : u \subseteq t => u = t
  <2>1. T \in SUBSET SUBSET S
    OBVIOUS
  <2> HIDE DEF T
  <2> QED BY <1>1, <2>1, LeastMember
<1>3. t \in SUBSET S /\ Total(f, t) \notin Int
  OBVIOUS
<1>4. IsFiniteSet(t)
  BY <1>3, FS_Subset
<1>5. t # {}
  BY <1>3, TotalEmpty
<1>6. Chosen(t) \in t /\ Total(f, t) = f[Chosen(t)] + Total(f, t \ {Chosen(t)})
  BY <1>4, <1>5, TotalUnfolds
<1>7. Total(f, t \ {Chosen(t)}) \in Int
  <2>1. t \ {Chosen(t)} \in SUBSET S /\ t \ {Chosen(t)} \subseteq t /\ t \ {Chosen(t)} # t
    BY <1>3, <1>6
  <2> QED BY <1>2, <2>1
<1> QED BY <1>3, <1>6, <1>7

(* Sums are added element by element.                                       *)
LEMMA TotalPlus ==
    ASSUME NEW S, IsFiniteSet(S), NEW f, NEW g, NEW h,
           \A x \in S : f[x] \in Int /\ g[x] \in Int /\ h[x] = f[x] + g[x]
    PROVE  Total(h, S) = Total(f, S) + Total(g, S)
<1> DEFINE T == {t \in SUBSET S : Total(h, t) # Total(f, t) + Total(g, t)}
<1>1. SUFFICES ASSUME T # {} PROVE FALSE
  OBVIOUS
<1>2. PICK t \in T : \A u \in T : u \subseteq t => u = t
  <2>1. T \in SUBSET SUBSET S
    OBVIOUS
  <2> HIDE DEF T
  <2> QED BY <1>1, <2>1, LeastMember
<1>3. t \in SUBSET S /\ Total(h, t) # Total(f, t) + Total(g, t)
  OBVIOUS
<1>4. IsFiniteSet(t)
  BY <1>3, FS_Subset
<1>5. t # {}
  <2>1. Total(f, {}) = 0 /\ Total(g, {}) = 0 /\ Total(h, {}) = 0
    BY TotalEmpty
  <2>2. Total(h, {}) = Total(f, {}) + Total(g, {})
    BY <2>1
  <2> QED BY <1>3, <2>2
<1> DEFINE c == Chosen(t)
           u == t \ {c}
<1>6. /\ c \in t
      /\ Total(f, t) = f[c] + Total(f, u)
      /\ Total(g, t) = g[c] + Total(g, u)
      /\ Total(h, t) = h[c] + Total(h, u)
  BY <1>4, <1>5, TotalUnfolds
<1>7. u \in SUBSET S /\ u \subseteq t /\ u # t
  BY <1>3, <1>6
<1>8. Total(h, u) = Total(f, u) + Total(g, u)
  BY <1>2, <1>7
<1>9. Total(f, u) \in Int /\ Total(g, u) \in Int
  <2>1. IsFiniteSet(u)
    BY <1>7, FS_Subset
  <2> HIDE DEF u
  <2> QED BY <1>7, <2>1, TotalInt
<1>10. f[c] \in Int /\ g[c] \in Int /\ h[c] = f[c] + g[c]
  BY <1>3, <1>6
<1> HIDE DEF c, u
<1> QED BY <1>3, <1>6, <1>8, <1>9, <1>10

(* Any element may be taken out first.                                      *)
LEMMA TotalRemove ==
    ASSUME NEW S, IsFiniteSet(S), NEW f, \A x \in S : f[x] \in Int, NEW y \in S
    PROVE  Total(f, S) = f[y] + Total(f, S \ {y})
<1> DEFINE T == {t \in SUBSET S : \E z \in t : Total(f, t) # f[z] + Total(f, t \ {z})}
<1>1. SUFFICES ASSUME T # {} PROVE FALSE
  OBVIOUS
<1>2. PICK t \in T : \A u \in T : u \subseteq t => u = t
  <2>1. T \in SUBSET SUBSET S
    OBVIOUS
  <2> HIDE DEF T
  <2> QED BY <1>1, <2>1, LeastMember
<1>3. PICK z \in t : Total(f, t) # f[z] + Total(f, t \ {z})
  OBVIOUS
<1>4. t \in SUBSET S /\ IsFiniteSet(t) /\ t # {}
  BY <1>3, FS_Subset
<1> DEFINE c == Chosen(t)
           u == t \ {c}
           v == t \ {z}
           w == u \ {z}
<1>5. c \in t /\ Total(f, t) = f[c] + Total(f, u)
  BY <1>4, TotalUnfolds
<1>6. c # z
  BY <1>3, <1>5
<1>7. /\ u \in SUBSET S /\ u \subseteq t /\ u # t /\ z \in u
      /\ v \in SUBSET S /\ v \subseteq t /\ v # t /\ c \in v
      /\ w \in SUBSET S /\ w = v \ {c}
  BY <1>3, <1>4, <1>5, <1>6
<1>8. Total(f, u) = f[z] + Total(f, w)
  <2>1. u \notin T
    BY <1>2, <1>7
  <2> QED BY <1>7, <2>1
<1>9. Total(f, v) = f[c] + Total(f, v \ {c})
  <2>1. v \notin T
    BY <1>2, <1>7
  <2> QED BY <1>7, <2>1
<1>10. Total(f, w) \in Int
  <2>1. IsFiniteSet(w)
    BY <1>7, FS_Subset
  <2> HIDE DEF w
  <2> QED BY <1>7, <2>1, TotalInt
<1>11. f[c] \in Int /\ f[z] \in Int /\ Total(f, v) = f[c] + Total(f, w)
  BY <1>3, <1>4, <1>5, <1>7, <1>9
<1>12. Total(f, t) # f[z] + Total(f, v)
  BY <1>3
<1> HIDE DEF c, u, v, w
<1> QED BY <1>5, <1>8, <1>10, <1>11, <1>12

(* Nothing adds up to nothing.                                              *)
LEMMA TotalZero ==
    ASSUME NEW S, IsFiniteSet(S), NEW f, \A x \in S : f[x] = 0
    PROVE  Total(f, S) = 0
<1>1. Total(f, S) \in Int
  BY TotalInt
<1>2. Total(f, S) = Total(f, S) + Total(f, S)
  BY TotalPlus
<1> DEFINE n == Total(f, S)
<1>3. n \in Int /\ n = n + n
  BY <1>1, <1>2
<1> HIDE DEF n
<1>4. n = 0
  BY <1>3
<1> QED BY <1>4 DEF n

(* Equal values add up to the same.                                         *)
LEMMA TotalSame ==
    ASSUME NEW S, IsFiniteSet(S), NEW f, NEW g, \A x \in S : f[x] \in Int /\ f[x] = g[x]
    PROVE  Total(f, S) = Total(g, S)
<1> DEFINE z == [x \in S |-> 0]
<1>1. Total(z, S) = 0
  BY TotalZero
<1>2. \A x \in S : z[x] \in Int /\ g[x] = f[x] + z[x]
  OBVIOUS
<1> HIDE DEF z
<1>3. Total(g, S) = Total(f, S) + Total(z, S)
  BY <1>2, TotalPlus
<1> QED BY <1>1, <1>3, TotalInt

(* A value that grows by n makes the sum grow by n.                         *)
LEMMA TotalExcept ==
    ASSUME NEW S, IsFiniteSet(S), NEW f \in [S -> Int], NEW y \in S, NEW n \in Int
    PROVE  Total([f EXCEPT ![y] = @ + n], S) = Total(f, S) + n
<1> DEFINE h == [f EXCEPT ![y] = @ + n]
<1>1. /\ \A x \in S : f[x] \in Int /\ h[x] \in Int
      /\ \A x \in S \ {y} : f[x] = h[x] /\ f[x] \in Int
      /\ h[y] = f[y] + n /\ f[y] \in Int
  OBVIOUS
<1> HIDE DEF h
<1>2. IsFiniteSet(S \ {y})
  BY FS_Subset
<1>3. Total(h, S \ {y}) = Total(f, S \ {y})
  BY <1>1, <1>2, TotalSame
<1>4. Total(f, S) = f[y] + Total(f, S \ {y}) /\ Total(h, S) = h[y] + Total(h, S \ {y})
  BY <1>1, TotalRemove
<1>5. Total(f, S \ {y}) \in Int
  BY <1>1, <1>2, TotalInt
<1>6. Total(h, S) = Total(f, S) + n
  BY <1>1, <1>3, <1>4, <1>5
<1> QED BY <1>6 DEF h
=============================================================================
