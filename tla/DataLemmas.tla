---------------------------- MODULE DataLemmas ----------------------------
(***************************************************************************)
(* Lemmas about the data the model is built from: the sums (SumFunction    *)
(* and SumFunctionOnSet of the community module Functions) over a finite   *)
(* index set, and the blocks of channels.  The fold behind a sum is a      *)
(* recursive function over the subsets of the index set; each fact about   *)
(* it is proved by its smallest counterexample, which exists because       *)
(* strict inclusion of finite sets is well founded.                        *)
(***************************************************************************)
EXTENDS Integers, Sequences, FiniteSets, Functions, Channels,
        FiniteSetTheorems, WellFoundedInduction, TLAPS

\* The element a fold takes next.
Pick(s) == CHOOSE x \in s : TRUE

\* One step of the fold of f: g is the sum over smaller sets.
Step(f, g, s) == IF s = {} THEN 0 ELSE f[Pick(s)] + g[s \ {Pick(s)}]

\* g is the recursive function of the fold of f over the subsets of S.
IsFold(f, S, g) == g = [s \in SUBSET S |-> Step(f, g, s)]

Fold(f, S) == CHOOSE g : IsFold(f, S, g)

On(f, S) == SumFunctionOnSet(f, S)

-----------------------------------------------------------------------------
(* The fold is well defined                                                *)

\* A family of subsets of a finite set has a smallest member.
LEMMA SmallestSubset ==
  ASSUME NEW S, IsFiniteSet(S), NEW T, T \subseteq SUBSET S, T # {}
  PROVE  \E s \in T : \A r \in T : r \subseteq s => r = s
<1>1. IsWellFoundedOn(StrictSubsetOrdering(S), SUBSET S)
  BY FS_StrictSubsetOrderingWellFounded, FS_FiniteSubsetsOfFinite
<1>2. PICK s \in T : \A r \in T : <<r, s>> \notin StrictSubsetOrdering(S)
  BY <1>1, WFMin
<1> QED BY <1>2 DEF StrictSubsetOrdering

\* Every member of a non-empty set may be the one picked.
LEMMA PickIn == ASSUME NEW s, s # {} PROVE Pick(s) \in s
BY DEF Pick

\* The library's sum is the value of that function at the whole set.
LEMMA OnIsFold == ASSUME NEW f, NEW S PROVE On(f, S) = Fold(f, S)[S]
BY DEF On, SumFunctionOnSet, FoldFunctionOnSet, MapThenFoldSet, Fold, IsFold, Step, Pick

\* Two such functions agree where both are defined.
LEMMA FoldsAgree ==
  ASSUME NEW f, NEW A, NEW B, NEW g, NEW h, IsFiniteSet(A), IsFold(f, A, g), IsFold(f, B, h),
         NEW s, s \subseteq A, s \subseteq B
  PROVE  g[s] = h[s]
<1> DEFINE Bad == {r \in SUBSET s : g[r] # h[r]}
<1>1. IsFiniteSet(s)
  BY FS_Subset
<1>2. SUFFICES ASSUME Bad # {} PROVE FALSE
  OBVIOUS
<1>3. PICK r \in Bad : \A q \in Bad : q \subseteq r => q = r
  <2>1. Bad \subseteq SUBSET s
    OBVIOUS
  <2> HIDE DEF Bad
  <2> QED BY <1>1, <1>2, <2>1, SmallestSubset
<1>4. g[r] = Step(f, g, r) /\ h[r] = Step(f, h, r)
  BY <1>3 DEF IsFold
<1>5. r # {}
  BY <1>3, <1>4 DEF Step
<1>6. r \ {Pick(r)} \notin Bad
  BY <1>3, <1>5, PickIn
<1>7. g[r \ {Pick(r)}] = h[r \ {Pick(r)}]
  BY <1>3, <1>6
<1> QED BY <1>3, <1>4, <1>7 DEF Step

\* There is such a function for every finite set.
LEMMA FoldExists ==
  ASSUME NEW f, NEW S, IsFiniteSet(S)
  PROVE  IsFold(f, S, Fold(f, S))
<1> DEFINE Bad == {s \in SUBSET S : ~ \E g : IsFold(f, s, g)}
<1>1. SUFFICES Bad = {}
  BY DEF Fold
<1>2. SUFFICES ASSUME Bad # {} PROVE FALSE
  OBVIOUS
<1>3. PICK s \in Bad : \A r \in Bad : r \subseteq s => r = s
  <2>1. Bad \subseteq SUBSET S
    OBVIOUS
  <2> HIDE DEF Bad
  <2> QED BY <1>2, <2>1, SmallestSubset
<1>4. \A r \in SUBSET s : r # s => IsFold(f, r, Fold(f, r))
  BY <1>3 DEF Fold
<1>5. IsFiniteSet(s)
  BY FS_Subset
<1> DEFINE low(t) == Fold(f, t \ {Pick(t)})[t \ {Pick(t)}]
           g == [t \in SUBSET s |-> IF t = {} THEN 0 ELSE f[Pick(t)] + low(t)]
<1>6. ASSUME NEW t \in SUBSET s, t # {} PROVE g[t \ {Pick(t)}] = low(t)
  <2> DEFINE u == t \ {Pick(t)}
  <2>1. u \in SUBSET s /\ u # s
    BY <1>6, PickIn
  <2>2. Fold(f, u)[u] = Step(f, Fold(f, u), u)
    BY <1>4, <2>1 DEF IsFold
  <2>3. CASE u = {}
    BY <2>1, <2>2, <2>3 DEF Step
  <2>4. CASE u # {}
    <3> DEFINE v == u \ {Pick(u)}
    <3>1. v \in SUBSET s /\ v # s /\ v \subseteq u
      BY <2>1, <2>4, PickIn
    <3>2. IsFiniteSet(u)
      BY <1>5, <2>1, FS_Subset
    <3>3. Fold(f, u)[v] = Fold(f, v)[v]
      <4>1. IsFold(f, u, Fold(f, u)) /\ IsFold(f, v, Fold(f, v))
        BY <1>4, <2>1, <3>1
      <4> HIDE DEF v, u
      <4> QED BY <3>1, <3>2, <4>1, FoldsAgree
    <3>4. g[u] = f[Pick(u)] + Fold(f, v)[v]
      BY <2>1, <2>4
    <3> QED BY <2>2, <2>4, <3>3, <3>4 DEF Step
  <2> QED BY <2>3, <2>4
<1>7. IsFold(f, s, g)
  <2>1. \A t \in SUBSET s : g[t] = Step(f, g, t)
    BY <1>6 DEF Step
  <2>2. g = [t \in SUBSET s |-> g[t]]
    OBVIOUS
  <2> HIDE DEF g
  <2> QED BY <2>1, <2>2 DEF IsFold
<1> QED BY <1>3, <1>7

-----------------------------------------------------------------------------
(* Sums                                                                    *)

\* The sum over a function is the sum over its domain.
LEMMA SumIsOn == ASSUME NEW f PROVE SumFunction(f) = On(f, DOMAIN f)
BY DEF SumFunction, On

\* Nothing adds up to nothing.
LEMMA SumOfEmpty == ASSUME NEW f PROVE On(f, {}) = 0
<1>1. IsFold(f, {}, Fold(f, {}))
  BY FoldExists, FS_EmptySet
<1> QED BY <1>1, OnIsFold DEF IsFold, Step

\* The recursion, in terms of the sum itself.
LEMMA SumStep ==
  ASSUME NEW f, NEW S, IsFiniteSet(S), S # {}
  PROVE  On(f, S) = f[Pick(S)] + On(f, S \ {Pick(S)})
<1> DEFINE R == S \ {Pick(S)}
<1>1. IsFiniteSet(R)
  BY FS_Subset
<1>2. IsFold(f, S, Fold(f, S)) /\ IsFold(f, R, Fold(f, R))
  BY <1>1, FoldExists
<1>3. Fold(f, S)[R] = Fold(f, R)[R]
  <2> HIDE DEF R
  <2>1. R \subseteq S BY DEF R
  <2> QED BY <1>2, <2>1, FoldsAgree
<1>4. Fold(f, S)[S] = f[Pick(S)] + Fold(f, S)[R]
  BY <1>2 DEF IsFold, Step
<1> QED BY <1>3, <1>4, OnIsFold

\* A sum depends only on the values summed.
LEMMA SumSame ==
  ASSUME NEW f, NEW g, NEW S, IsFiniteSet(S), \A x \in S : f[x] = g[x]
  PROVE  On(f, S) = On(g, S)
<1> DEFINE Bad == {s \in SUBSET S : On(f, s) # On(g, s)}
<1>1. SUFFICES ASSUME Bad # {} PROVE FALSE
  OBVIOUS
<1>2. PICK s \in Bad : \A r \in Bad : r \subseteq s => r = s
  <2>1. Bad \subseteq SUBSET S
    OBVIOUS
  <2> HIDE DEF Bad
  <2> QED BY <1>1, <2>1, SmallestSubset
<1>3. s # {} /\ IsFiniteSet(s)
  <2>1. IsFiniteSet(s)
    BY <1>2, FS_Subset
  <2> QED BY <1>2, <2>1, SumOfEmpty
<1>4. s \ {Pick(s)} \notin Bad /\ Pick(s) \in s
  BY <1>2, <1>3, PickIn
<1>5. On(f, s \ {Pick(s)}) = On(g, s \ {Pick(s)})
  BY <1>4
<1> QED BY <1>2, <1>3, <1>4, <1>5, SumStep

\* A sum of integers is an integer.
LEMMA SumInt ==
  ASSUME NEW f, NEW S, IsFiniteSet(S), \A x \in S : f[x] \in Int
  PROVE  On(f, S) \in Int
<1> DEFINE Bad == {s \in SUBSET S : On(f, s) \notin Int}
<1>1. SUFFICES ASSUME Bad # {} PROVE FALSE
  OBVIOUS
<1>2. PICK s \in Bad : \A r \in Bad : r \subseteq s => r = s
  <2>1. Bad \subseteq SUBSET S
    OBVIOUS
  <2> HIDE DEF Bad
  <2> QED BY <1>1, <2>1, SmallestSubset
<1>3. s # {} /\ IsFiniteSet(s)
  <2>1. IsFiniteSet(s)
    BY <1>2, FS_Subset
  <2> QED BY <1>2, <2>1, SumOfEmpty
<1>4. s \ {Pick(s)} \notin Bad /\ Pick(s) \in s
  BY <1>2, <1>3, PickIn
<1>5. On(f, s \ {Pick(s)}) \in Int
  BY <1>4
<1> QED BY <1>2, <1>3, <1>4, <1>5, SumStep

\* Any member may be taken out first: the order of the fold does not matter.
LEMMA SumRemove ==
  ASSUME NEW f, NEW S, IsFiniteSet(S), \A x \in S : f[x] \in Int, NEW y \in S
  PROVE  On(f, S) = f[y] + On(f, S \ {y})
<1> DEFINE Bad == {s \in SUBSET S : \E z \in s : On(f, s) # f[z] + On(f, s \ {z})}
<1>1. SUFFICES ASSUME Bad # {} PROVE FALSE
  OBVIOUS
<1>2. PICK s \in Bad : \A r \in Bad : r \subseteq s => r = s
  <2>1. Bad \subseteq SUBSET S
    OBVIOUS
  <2> HIDE DEF Bad
  <2> QED BY <1>1, <2>1, SmallestSubset
<1>3. PICK z \in s : On(f, s) # f[z] + On(f, s \ {z})
  BY <1>2
<1> DEFINE x == Pick(s)
<1>4. IsFiniteSet(s) /\ x \in s /\ On(f, s) = f[x] + On(f, s \ {x})
  BY <1>2, <1>3, FS_Subset, PickIn, SumStep
<1>5. x # z
  BY <1>3, <1>4
<1>6. s \ {x} \notin Bad /\ s \ {z} \notin Bad
  BY <1>2, <1>4
<1> HIDE DEF x
<1>7. On(f, s \ {x}) = f[z] + On(f, (s \ {x}) \ {z})
  BY <1>2, <1>5, <1>6
<1>8. On(f, s \ {z}) = f[x] + On(f, (s \ {z}) \ {x})
  BY <1>2, <1>4, <1>5, <1>6
<1>9. (s \ {x}) \ {z} = (s \ {z}) \ {x}
  OBVIOUS
<1>10. On(f, (s \ {x}) \ {z}) \in Int /\ f[x] \in Int /\ f[z] \in Int
  <2>1. IsFiniteSet((s \ {x}) \ {z}) /\ s \subseteq S
    BY <1>2, FS_Subset
  <2> QED BY <1>3, <1>4, <2>1, SumInt
<1>11. \A a, b, c \in Int : a + (b + c) = b + (a + c)
  OBVIOUS
<1> QED BY <1>3, <1>4, <1>7, <1>8, <1>9, <1>10, <1>11
\* The sums of a set and of what is outside it add up.
LEMMA SumSplit ==
  ASSUME NEW f, NEW A, NEW B, IsFiniteSet(A), B \subseteq A, \A x \in A : f[x] \in Int
  PROVE  On(f, A) = On(f, B) + On(f, A \ B)
<1> DEFINE R == A \ B
           with(s) == s \cup R
           Bad == {s \in SUBSET B : On(f, with(s)) # On(f, s) + On(f, R)}
<1>1. SUFFICES Bad = {}
  <2>1. B \notin Bad /\ A = with(B)
    OBVIOUS
  <2> QED BY <2>1
<1>2. SUFFICES ASSUME Bad # {} PROVE FALSE
  OBVIOUS
<1>3. PICK s \in Bad : \A r \in Bad : r \subseteq s => r = s
  <2>1. Bad \subseteq SUBSET B /\ IsFiniteSet(B)
    BY FS_Subset
  <2> HIDE DEF Bad
  <2> QED BY <1>2, <2>1, SmallestSubset
<1>4. IsFiniteSet(R) /\ On(f, R) \in Int
  <2>1. IsFiniteSet(R)
    BY FS_Subset
  <2> QED BY <2>1, SumInt
<1>5. s # {}
  <2>1. s = {} => On(f, s) = 0
    BY SumOfEmpty
  <2>2. s = {} => with(s) = R
    OBVIOUS
  <2>3. On(f, with(s)) # On(f, s) + On(f, R)
    BY <1>3
  <2> HIDE DEF Bad, R, with
  <2> QED BY <1>4, <2>1, <2>2, <2>3
<1> DEFINE x == Pick(s)
           t == s \ {x}
           u == with(s)
           v == u \ {x}
<1>6. x \in s /\ x \in u /\ v = with(t)
  BY <1>3, <1>5, PickIn
<1>7. t \notin Bad /\ t \in SUBSET B
  BY <1>3, <1>6
<1>8. IsFiniteSet(s) /\ IsFiniteSet(t) /\ IsFiniteSet(u)
  <2>1. s \subseteq A /\ t \subseteq A /\ u \subseteq A
    BY <1>3
  <2> QED BY <2>1, FS_Subset
<1>9. On(f, with(t)) = On(f, t) + On(f, R)
  BY <1>7
<1>10. \A y \in u : f[y] \in Int
  BY <1>3
<1>11. On(f, u) # On(f, s) + On(f, R)
  BY <1>3
<1>12. On(f, t) \in Int /\ f[x] \in Int
  BY <1>3, <1>6, <1>7, <1>8, SumInt
<1>13. On(f, s) = f[x] + On(f, t)
  BY <1>5, <1>8, SumStep
<1> HIDE DEF x, u
<1>14. On(f, u) = f[x] + On(f, v)
  BY <1>6, <1>8, <1>10, SumRemove
<1> HIDE DEF t, v, with, R, Bad
<1> QED BY <1>4, <1>6, <1>9, <1>11, <1>12, <1>13, <1>14

\* One value changed, or one index more.
LEMMA SumChange ==
  ASSUME NEW f, NEW g, NEW S, IsFiniteSet(S), NEW y \in S,
         \A x \in S : f[x] \in Int /\ g[x] \in Int, \A x \in S \ {y} : f[x] = g[x]
  PROVE  On(g, S) = On(f, S) - f[y] + g[y]
<1>1. IsFiniteSet(S \ {y})
  BY FS_Subset
<1>2. On(f, S) = f[y] + On(f, S \ {y}) /\ On(g, S) = g[y] + On(g, S \ {y})
  BY SumRemove
<1>3. On(f, S \ {y}) = On(g, S \ {y}) /\ On(f, S \ {y}) \in Int
  BY <1>1, SumSame, SumInt
<1> QED BY <1>2, <1>3

\* One more index adds one more term.
LEMMA SumAdd ==
  ASSUME NEW f, NEW S, IsFiniteSet(S), NEW y, y \notin S, \A x \in S \cup {y} : f[x] \in Int
  PROVE  On(f, S \cup {y}) = f[y] + On(f, S)
<1>1. IsFiniteSet(S \cup {y}) /\ (S \cup {y}) \ {y} = S
  BY FS_AddElement
<1>2. \A T : T = S \cup {y} => On(f, T) = f[y] + On(f, T \ {y})
  BY <1>1, SumRemove
<1> QED BY <1>1, <1>2

-----------------------------------------------------------------------------
(* Bounds                                                                  *)

\* Larger terms have a larger sum.
LEMMA SumMonotone ==
  ASSUME NEW f, NEW g, NEW S, IsFiniteSet(S),
         \A x \in S : f[x] \in Int /\ g[x] \in Int /\ f[x] <= g[x]
  PROVE  On(f, S) <= On(g, S)
<1> DEFINE Bad == {s \in SUBSET S : ~ (On(f, s) <= On(g, s))}
<1>1. SUFFICES ASSUME Bad # {} PROVE FALSE
  OBVIOUS
<1>2. PICK s \in Bad : \A r \in Bad : r \subseteq s => r = s
  <2>1. Bad \subseteq SUBSET S
    OBVIOUS
  <2> HIDE DEF Bad
  <2> QED BY <1>1, <2>1, SmallestSubset
<1>3. s # {} /\ IsFiniteSet(s)
  <2>1. IsFiniteSet(s)
    BY <1>2, FS_Subset
  <2>2. s = {} => On(f, s) = 0 /\ On(g, s) = 0
    BY SumOfEmpty
  <2> QED BY <1>2, <2>1, <2>2
<1> DEFINE x == Pick(s)
           t == s \ {x}
<1>4. t \notin Bad /\ x \in s /\ t \subseteq S
  BY <1>2, <1>3, PickIn
<1>5. On(f, t) <= On(g, t)
  BY <1>4
<1>6. IsFiniteSet(t)
  BY <1>4, FS_Subset
<1>7. On(f, s) = f[x] + On(f, t) /\ On(g, s) = g[x] + On(g, t)
  BY <1>3, SumStep
<1>8. On(f, t) \in Int /\ On(g, t) \in Int
  BY <1>4, <1>6, SumInt
<1>9. f[x] \in Int /\ g[x] \in Int /\ f[x] <= g[x]
  BY <1>2, <1>4
<1> HIDE DEF x, t
<1> QED BY <1>2, <1>5, <1>7, <1>8, <1>9

\* Zeros add up to zero.
LEMMA SumOfZeros ==
  ASSUME NEW f, NEW S, IsFiniteSet(S), \A x \in S : f[x] = 0
  PROVE  On(f, S) = 0
<1> DEFINE Bad == {s \in SUBSET S : On(f, s) # 0}
<1>1. SUFFICES ASSUME Bad # {} PROVE FALSE
  OBVIOUS
<1>2. PICK s \in Bad : \A r \in Bad : r \subseteq s => r = s
  <2>1. Bad \subseteq SUBSET S
    OBVIOUS
  <2> HIDE DEF Bad
  <2> QED BY <1>1, <2>1, SmallestSubset
<1>3. s # {} /\ IsFiniteSet(s)
  <2>1. IsFiniteSet(s)
    BY <1>2, FS_Subset
  <2> QED BY <1>2, <2>1, SumOfEmpty
<1>4. s \ {Pick(s)} \notin Bad /\ Pick(s) \in s
  BY <1>2, <1>3, PickIn
<1>5. On(f, s \ {Pick(s)}) = 0 /\ f[Pick(s)] = 0
  BY <1>2, <1>4
<1> QED BY <1>2, <1>3, <1>5, SumStep

\* A sum of natural numbers is one.
LEMMA SumNat ==
  ASSUME NEW f, NEW S, IsFiniteSet(S), \A x \in S : f[x] \in Nat
  PROVE  On(f, S) \in Nat
<1> DEFINE z == [x \in S |-> 0]
<1>1. On(z, S) = 0
  BY SumOfZeros
<1>2. On(z, S) <= On(f, S)
  <2>1. \A x \in S : z[x] \in Int /\ f[x] \in Int /\ z[x] <= f[x]
    OBVIOUS
  <2> HIDE DEF z
  <2> QED BY <2>1, SumMonotone
<1>3. On(f, S) \in Int
  BY SumInt
<1> HIDE DEF z
<1> QED BY <1>1, <1>2, <1>3

\* Fewer indices have a smaller sum.
LEMMA SumSubset ==
  ASSUME NEW f, NEW A, NEW B, IsFiniteSet(A), B \subseteq A, \A x \in A : f[x] \in Nat
  PROVE  On(f, B) <= On(f, A)
<1>1. On(f, A) = On(f, B) + On(f, A \ B)
  BY SumSplit
<1>2. IsFiniteSet(B) /\ IsFiniteSet(A \ B)
  BY FS_Subset
<1>3. On(f, B) \in Nat /\ On(f, A \ B) \in Nat
  BY <1>2, SumNat
<1> QED BY <1>1, <1>3

\* A sum over rows is the sum of the sums over the groups the rows fall into.
LEMMA SumOfGroups ==
  ASSUME NEW f, NEW R, NEW key, NEW C, IsFiniteSet(R), IsFiniteSet(C),
         \A i \in R : f[i] \in Int /\ key[i] \in C
  PROVE  On([c \in C |-> On(f, {i \in R : key[i] = c})], C) = On(f, R)
<1> DEFINE of(D) == {i \in R : key[i] \in D}
           grp(c) == {i \in R : key[i] = c}
           g == [c \in C |-> On(f, grp(c))]
           Bad == {D \in SUBSET C : On(g, D) # On(f, of(D))}
<1>1. SUFFICES Bad = {}
  <2>1. of(C) = R
    OBVIOUS
  <2> QED BY <2>1
<1>2. SUFFICES ASSUME Bad # {} PROVE FALSE
  OBVIOUS
<1>3. PICK D \in Bad : \A r \in Bad : r \subseteq D => r = D
  <2>1. Bad \subseteq SUBSET C
    OBVIOUS
  <2> HIDE DEF Bad
  <2> QED BY <1>2, <2>1, SmallestSubset
<1>4. IsFiniteSet(D) /\ D # {}
  <2>1. of({}) = {}
    OBVIOUS
  <2>2. IsFiniteSet(D)
    BY <1>3, FS_Subset
  <2>3. On(g, {}) = 0 /\ On(f, {}) = 0
    BY SumOfEmpty
  <2> QED BY <1>3, <2>1, <2>2, <2>3
<1> DEFINE c == Pick(D)
           E == D \ {c}
<1>5. c \in D /\ E \notin Bad /\ E \subseteq C
  BY <1>3, <1>4, PickIn
<1>6. On(g, E) = On(f, of(E))
  BY <1>5
<1>7. On(g, D) = g[c] + On(g, E)
  <2> HIDE DEF g
  <2> QED BY <1>4, SumStep
<1>8. g[c] = On(f, grp(c))
  BY <1>3, <1>5
<1>9. On(f, of(D)) = On(f, grp(c)) + On(f, of(E))
  <2> DEFINE A == of(D)
             B == grp(c)
  <2>1. B \subseteq A /\ A \ B = of(E) /\ A \subseteq R
    BY <1>5
  <2>2. IsFiniteSet(A) /\ \A i \in A : f[i] \in Int
    BY <2>1, FS_Subset
  <2> HIDE DEF A, B
  <2>3. On(f, A) = On(f, B) + On(f, A \ B)
    BY <2>1, <2>2, SumSplit
  <2> QED BY <2>1, <2>3 DEF A, B
<1> QED BY <1>3, <1>6, <1>7, <1>8, <1>9

\* Of the sets a family over a finite set names, one is smallest.
LEMMA SmallestOfFamily ==
  ASSUME NEW S, IsFiniteSet(S), S # {}, NEW fam, \A y \in S : fam[y] \subseteq S
  PROVE  \E x \in S : \A i \in S : fam[i] \subseteq fam[x] => fam[i] = fam[x]
<1> DEFINE T == {fam[y] : y \in S}
<1>1. T \subseteq SUBSET S /\ T # {}
  OBVIOUS
<1>2. \A i \in S : fam[i] \in T
  OBVIOUS
<1>3. PICK q \in T : \A r \in T : r \subseteq q => r = q
  <2> HIDE DEF T
  <2> QED BY <1>1, SmallestSubset
<1>4. PICK x \in S : q = fam[x]
  BY <1>3
<1> HIDE DEF T
<1> QED BY <1>2, <1>3, <1>4

\* A finite set of numbers has a largest one.
LEMMA Largest ==
  ASSUME NEW S, IsFiniteSet(S), S # {}
  PROVE  S \subseteq Int => \E x \in S : \A i \in S : i <= x
<1> DEFINE after == [y \in S |-> {i \in S : i > y}]
<1>1. \A y \in S : after[y] \subseteq S
  OBVIOUS
<1>2. \E x \in S : \A i \in S : after[i] \subseteq after[x] => after[i] = after[x]
  <2> HIDE DEF after
  <2> QED BY <1>1, SmallestOfFamily
<1>3. PICK x \in S : \A i \in S : after[i] \subseteq after[x] => after[i] = after[x]
  BY <1>2
<1>4. ASSUME S \subseteq Int, NEW i \in S, i > x PROVE FALSE
  <2>1. x \in Int /\ i \in Int
    BY <1>4
  <2>2. \A j \in S : j > i => j > x
    <3>1. \A j \in Int : j > i => j > x
      BY <2>1, <1>4
    <3> QED BY <1>4, <3>1
  <2>3. after[i] \subseteq after[x]
    BY <2>2
  <2>4. after[i] = after[x]
    BY <1>3, <2>3
  <2>5. i \in after[x] /\ i \notin after[i]
    BY <2>1, <1>4
  <2> QED BY <2>4, <2>5
<1> QED BY <1>4

\* Spans of time, numbered in the order in which they follow one another.
InTurn(S, from, to) ==
  /\ S \subseteq Int
  /\ \A i \in S : from[i] \in Nat /\ to[i] \in Nat /\ from[i] <= to[i]
  /\ \A i, j \in S : i < j => to[i] <= from[j]

\* Such spans are together no longer than the time up to the end of the last.
LEMMA SumOfSpans ==
  ASSUME NEW S, IsFiniteSet(S), NEW from, NEW to, InTurn(S, from, to),
         NEW f, \A i \in S : f[i] = to[i] - from[i], NEW last \in Nat, \A i \in S : to[i] <= last
  PROVE  On(f, S) <= last
<1> DEFINE Bad == {s \in SUBSET S : \E m \in Nat : (\A i \in s : to[i] <= m) /\ ~ (On(f, s) <= m)}
<1>1. SUFFICES Bad = {}
  OBVIOUS
<1>2. SUFFICES ASSUME Bad # {} PROVE FALSE
  OBVIOUS
<1>3. PICK s \in Bad : \A r \in Bad : r \subseteq s => r = s
  <2>1. Bad \subseteq SUBSET S
    OBVIOUS
  <2> HIDE DEF Bad
  <2> QED BY <1>2, <2>1, SmallestSubset
<1>4. PICK m \in Nat : (\A i \in s : to[i] <= m) /\ ~ (On(f, s) <= m)
  BY <1>3
<1>5. IsFiniteSet(s) /\ s # {} /\ s \subseteq S
  <2>1. IsFiniteSet(s) /\ s \subseteq S
    BY <1>3, FS_Subset
  <2>2. s = {} => On(f, s) = 0
    BY SumOfEmpty
  <2>3. s = {} => On(f, s) <= m
    BY <2>2
  <2> QED BY <1>4, <2>1, <2>3
<1>6. \A i \in S : f[i] \in Int
  BY DEF InTurn
<1>7. PICK x \in s : \A i \in s : i <= x
  BY <1>5, Largest DEF InTurn
<1> DEFINE t == s \ {x}
<1>8. t \notin Bad /\ x \in S /\ t \subseteq S
  BY <1>3, <1>7
<1>9. On(f, t) <= from[x]
  <2>1. from[x] \in Nat
    BY <1>8 DEF InTurn
  <2>2. \A i \in t : to[i] <= from[x]
    <3>1. \A i \in t : i < x /\ i \in S
      BY <1>5, <1>7 DEF InTurn
    <3> QED BY <1>8, <3>1 DEF InTurn
  <2> QED BY <1>8, <2>1, <2>2
<1>10. On(f, s) = f[x] + On(f, t)
  <2>1. \A i \in s : f[i] \in Int
    BY <1>5, <1>6
  <2> HIDE DEF Bad
  <2> QED BY <1>5, <1>7, <2>1, SumRemove
<1>11. On(f, t) \in Int
  <2>1. IsFiniteSet(t) /\ \A i \in t : f[i] \in Int
    BY <1>6, <1>8, FS_Subset
  <2> QED BY <2>1, SumInt
<1>12. to[x] \in Nat /\ from[x] \in Nat /\ to[x] <= m /\ f[x] = to[x] - from[x]
  BY <1>4, <1>7, <1>8 DEF InTurn
<1> HIDE DEF t, Bad
<1> QED BY <1>4, <1>9, <1>10, <1>11, <1>12
-----------------------------------------------------------------------------
(* The same of whole functions                                             *)

\* The same for the sum over a function: its type,
LEMMA SumFunctionInt ==
  ASSUME NEW f, IsFiniteSet(DOMAIN f), \A x \in DOMAIN f : f[x] \in Int
  PROVE  SumFunction(f) \in Int
BY SumIsOn, SumInt

\* its sign,
LEMMA SumFunctionNat ==
  ASSUME NEW f, IsFiniteSet(DOMAIN f), \A x \in DOMAIN f : f[x] \in Nat
  PROVE  SumFunction(f) \in Nat
BY SumIsOn, SumNat

\* one more argument,
LEMMA SumFunctionExtend ==
  ASSUME NEW f, NEW g, NEW y, IsFiniteSet(DOMAIN f), y \notin DOMAIN f,
         DOMAIN g = DOMAIN f \cup {y}, g[y] \in Int,
         \A x \in DOMAIN f : f[x] \in Int /\ g[x] = f[x]
  PROVE  SumFunction(g) = SumFunction(f) + g[y]
<1> DEFINE D == DOMAIN f
<1>1. On(g, D \cup {y}) = g[y] + On(g, D)
  <2>1. \A x \in D \cup {y} : g[x] \in Int
    OBVIOUS
  <2> HIDE DEF D
  <2> QED BY <2>1, SumAdd DEF D
<1>2. On(g, D) = On(f, D)
  BY SumSame
<1>3. On(f, D) \in Int
  BY SumInt
<1>4. SumFunction(g) = On(g, D \cup {y})
  <2>1. \A E : DOMAIN g = E => SumFunction(g) = On(g, E)
    BY SumIsOn
  <2> QED BY <2>1
<1>5. SumFunction(f) = On(f, D)
  BY SumIsOn
<1> HIDE DEF D
<1> QED BY <1>1, <1>2, <1>3, <1>4, <1>5

\* one value changed,
LEMMA SumFunctionChange ==
  ASSUME NEW f, NEW g, NEW y \in DOMAIN f, IsFiniteSet(DOMAIN f), DOMAIN g = DOMAIN f,
         \A x \in DOMAIN f : f[x] \in Int /\ g[x] \in Int /\ (x # y => g[x] = f[x])
  PROVE  SumFunction(g) = SumFunction(f) - f[y] + g[y]
<1>1. \A x \in DOMAIN f \ {y} : f[x] = g[x]
  OBVIOUS
<1>2. On(g, DOMAIN f) = On(f, DOMAIN f) - f[y] + g[y]
  BY <1>1, SumChange
<1> QED BY <1>2, SumIsOn

\* larger values,
LEMMA SumFunctionMonotone ==
  ASSUME NEW f, NEW g, IsFiniteSet(DOMAIN f), DOMAIN g = DOMAIN f,
         \A x \in DOMAIN f : f[x] \in Int /\ g[x] \in Int /\ f[x] <= g[x]
  PROVE  SumFunction(f) <= SumFunction(g)
BY SumIsOn, SumMonotone

\* and no argument at all.
LEMMA SumFunctionEmpty == ASSUME NEW f, DOMAIN f = {} PROVE SumFunction(f) = 0
BY SumIsOn, SumOfEmpty

-----------------------------------------------------------------------------
(* Channels and blocks                                                     *)

\* The channels by name.
LEMMA ChannelNames ==
  /\ Range4(36, 64) = {36, 40, 44, 48, 52, 56, 60, 64}
  /\ Range4(100, 144) = {100, 104, 108, 112, 116, 120, 124, 128, 132, 136, 140, 144}
  /\ Range4(149, 177) = {149, 153, 157, 161, 165, 169, 173, 177}
BY DEF Range4

\* The channels of a block.
LEMMA BlockNames ==
  ASSUME NEW c \in Int
  PROVE  /\ Block(c, 20) = {c}
         /\ Block(c, 40) = {c, c + 4}
         /\ Block(c, 80) = {c, c + 4, c + 8, c + 12}
         /\ Block(c, 160) = {c, c + 4, c + 8, c + 12, c + 16, c + 20, c + 24, c + 28}
<1>1. 20 \div 20 - 1 = 0 /\ 40 \div 20 - 1 = 1 /\ 80 \div 20 - 1 = 3 /\ 160 \div 20 - 1 = 7
  OBVIOUS
<1>2. /\ 0..0 = {0} /\ 0..1 = {0, 1} /\ 0..3 = {0, 1, 2, 3} /\ 0..7 = {0, 1, 2, 3, 4, 5, 6, 7}
  OBVIOUS
<1> QED BY <1>1, <1>2 DEF Block

\* The blocks of 802.11 by their first channel.
Heads(w) ==
  CASE w = 20  -> All5
    [] w = 40  -> {36, 44, 52, 60, 100, 108, 116, 124, 132, 140, 149, 157, 165, 173}
    [] w = 80  -> {36, 52, 100, 116, 132, 149, 165}
    [] w = 160 -> {36, 100, 149}

\* Aligned within the stretch s.
AlignedIn(s, c, w) ==
  /\ c \in Range4(s[1], s[2]) /\ Block(c, w) \subseteq s[1]..s[2]
  /\ ((c - s[1]) \div 4) % (w \div 20) = 0

\* The arithmetic of 802.11 gives those first channels and no others.
LEMMA AlignedHeads ==
  ASSUME NEW w \in {20, 40, 80, 160}, NEW c
  PROVE  Aligned(c, w) <=> c \in Heads(w)
<1>1. AlignedIn(<<36, 64>>, c, w) <=> c \in Heads(w) \cap (36..64)
  <2>1. ASSUME NEW d \in {36, 40, 44, 48, 52, 56, 60, 64}
        PROVE  AlignedIn(<<36, 64>>, d, w) <=> d \in Heads(w) \cap (36..64)
    <3>1. d \in Int /\ d \in Range4(36, 64) /\ d \in 36..64
      BY ChannelNames
    <3>2. CASE w = 20
      BY <3>1, <3>2, BlockNames, ChannelNames DEF AlignedIn, Heads, All5
    <3>3. CASE w = 40
      BY <3>1, <3>3, BlockNames, ChannelNames DEF AlignedIn, Heads, All5
    <3>4. CASE w = 80
      BY <3>1, <3>4, BlockNames, ChannelNames DEF AlignedIn, Heads, All5
    <3>5. CASE w = 160
      BY <3>1, <3>5, BlockNames, ChannelNames DEF AlignedIn, Heads, All5
    <3> QED BY <3>2, <3>3, <3>4, <3>5
  <2>2. Heads(w) \cap (36..64) \subseteq Range4(36, 64)
    BY ChannelNames DEF Heads, All5
  <2> QED BY <2>1, <2>2, ChannelNames DEF AlignedIn
<1>2. AlignedIn(<<100, 144>>, c, w) <=> c \in Heads(w) \cap (100..144)
  <2>1. ASSUME NEW d \in {100, 104, 108, 112, 116, 120, 124, 128, 132, 136, 140, 144}
        PROVE  AlignedIn(<<100, 144>>, d, w) <=> d \in Heads(w) \cap (100..144)
    <3>1. d \in Int /\ d \in Range4(100, 144) /\ d \in 100..144
      BY ChannelNames
    <3>2. CASE w = 20
      BY <3>1, <3>2, BlockNames, ChannelNames DEF AlignedIn, Heads, All5
    <3>3. CASE w = 40
      BY <3>1, <3>3, BlockNames, ChannelNames DEF AlignedIn, Heads, All5
    <3>4. CASE w = 80
      BY <3>1, <3>4, BlockNames, ChannelNames DEF AlignedIn, Heads, All5
    <3>5. CASE w = 160
      <4>1. Block(d, 160) \subseteq 100..144 <=> d + 28 <= 144
        <5>1. d + 28 \in Block(d, 160) /\ \A x \in Block(d, 160) : x \in Int /\ d <= x /\ x <= d + 28
          BY <3>1, BlockNames
        <5>2. d \in Int /\ d >= 100
          OBVIOUS
        <5> QED BY <5>1, <5>2
      <4>2. ((d - 100) \div 4) % 8 = 0 <=> d \in {100, 132}
        OBVIOUS
      <4>3. 160 \div 20 = 8
        OBVIOUS
      <4> QED BY <3>1, <3>5, <4>1, <4>2, <4>3 DEF AlignedIn, Heads
    <3> QED BY <3>2, <3>3, <3>4, <3>5
  <2>2. Heads(w) \cap (100..144) \subseteq Range4(100, 144)
    BY ChannelNames DEF Heads, All5
  <2> QED BY <2>1, <2>2, ChannelNames DEF AlignedIn
<1>3. AlignedIn(<<149, 177>>, c, w) <=> c \in Heads(w) \cap (149..177)
  <2>1. ASSUME NEW d \in {149, 153, 157, 161, 165, 169, 173, 177}
        PROVE  AlignedIn(<<149, 177>>, d, w) <=> d \in Heads(w) \cap (149..177)
    <3>1. d \in Int /\ d \in Range4(149, 177) /\ d \in 149..177
      BY ChannelNames
    <3>2. CASE w = 20
      BY <3>1, <3>2, BlockNames, ChannelNames DEF AlignedIn, Heads, All5
    <3>3. CASE w = 40
      BY <3>1, <3>3, BlockNames, ChannelNames DEF AlignedIn, Heads, All5
    <3>4. CASE w = 80
      BY <3>1, <3>4, BlockNames, ChannelNames DEF AlignedIn, Heads, All5
    <3>5. CASE w = 160
      BY <3>1, <3>5, BlockNames, ChannelNames DEF AlignedIn, Heads, All5
    <3> QED BY <3>2, <3>3, <3>4, <3>5
  <2>2. Heads(w) \cap (149..177) \subseteq Range4(149, 177)
    BY ChannelNames DEF Heads, All5
  <2> QED BY <2>1, <2>2, ChannelNames DEF AlignedIn
<1>4. Heads(w) \subseteq (36..64) \cup (100..144) \cup (149..177)
  BY ChannelNames DEF Heads, All5
<1>5. Aligned(c, w) <=> \E s \in {<<36, 64>>, <<100, 144>>, <<149, 177>>} : AlignedIn(s, c, w)
  BY DEF Aligned, Stretches, AlignedIn
<1> QED BY <1>1, <1>2, <1>3, <1>4, <1>5

\* They are channels.
LEMMA HeadsAre5GHz ==
  ASSUME NEW w \in {20, 40, 80, 160}
  PROVE  Heads(w) \subseteq All5 /\ All5 \subseteq Int
BY ChannelNames DEF Heads, All5

\* What a plan is made of: a channel by itself, or an 802.11 block.
IsCombination(c) ==
  \/ c[2] = 20 /\ c[1] \in Int
  \/ c[2] \in {40, 80, 160} /\ Aligned(c[1], c[2])

\* The hand-written tables of the planner are the aligned blocks.
LEMMA TablesAreBlocks ==
  /\ \A g \in Groups40 : Head(g) \in Heads(40) /\ Range(g) = Block(Head(g), 40)
  /\ \A g \in Groups80 : Head(g) \in Heads(80) /\ Range(g) = Block(Head(g), 80)
  /\ \A g \in Groups160 : Head(g) \in Heads(160) /\ Range(g) = Block(Head(g), 160)
  /\ \A c \in Heads(40) : \E g \in Groups40 : Head(g) = c
  /\ \A c \in Heads(80) : \E g \in Groups80 : Head(g) = c
  /\ \A c \in Heads(160) : \E g \in Groups160 : Head(g) = c
<1>1. \A w \in {20, 40, 80, 160} : Heads(w) \subseteq Int
  BY HeadsAre5GHz
<1>2. ASSUME NEW a \in Int
      PROVE  LET g == <<a, a + 4>>
             IN  Head(g) = a /\ Range(g) = Block(a, 40)
  BY BlockNames DEF Range
<1>3. /\ \A g \in Groups40 : \E a \in Heads(40) : g = <<a, a + 4>>
      /\ \A a \in Heads(40) : <<a, a + 4>> \in Groups40
  BY DEF Groups40, Heads
<1>4. /\ \A g \in Groups40 : Head(g) \in Heads(40) /\ Range(g) = Block(Head(g), 40)
      /\ \A c \in Heads(40) : \E g \in Groups40 : Head(g) = c
  <2>1. ASSUME NEW g \in Groups40
        PROVE  Head(g) \in Heads(40) /\ Range(g) = Block(Head(g), 40)
    <3>1. PICK a \in Heads(40) : g = <<a, a + 4>>
      BY <1>3
    <3>2. a \in Int
      BY <1>1
    <3> QED BY <1>2, <3>1, <3>2
  <2>2. ASSUME NEW c \in Heads(40)
        PROVE  \E g \in Groups40 : Head(g) = c
    <3>1. <<c, c + 4>> \in Groups40
      BY <1>3
    <3>2. c \in Int
      BY <1>1
    <3> QED BY <1>2, <3>1, <3>2
  <2> QED BY <2>1, <2>2
<1>5. ASSUME NEW a \in Int
      PROVE  LET g == <<a, a + 4, a + 8, a + 12>>
             IN  Head(g) = a /\ Range(g) = Block(a, 80)
  BY BlockNames DEF Range
<1>6. /\ \A g \in Groups80 : \E a \in Heads(80) : g = <<a, a + 4, a + 8, a + 12>>
      /\ \A a \in Heads(80) : <<a, a + 4, a + 8, a + 12>> \in Groups80
  BY DEF Groups80, Heads
<1>7. /\ \A g \in Groups80 : Head(g) \in Heads(80) /\ Range(g) = Block(Head(g), 80)
      /\ \A c \in Heads(80) : \E g \in Groups80 : Head(g) = c
  <2>1. ASSUME NEW g \in Groups80
        PROVE  Head(g) \in Heads(80) /\ Range(g) = Block(Head(g), 80)
    <3>1. PICK a \in Heads(80) : g = <<a, a + 4, a + 8, a + 12>>
      BY <1>6
    <3>2. a \in Int
      BY <1>1
    <3> QED BY <1>5, <3>1, <3>2
  <2>2. ASSUME NEW c \in Heads(80)
        PROVE  \E g \in Groups80 : Head(g) = c
    <3>1. <<c, c + 4, c + 8, c + 12>> \in Groups80
      BY <1>6
    <3>2. c \in Int
      BY <1>1
    <3> QED BY <1>5, <3>1, <3>2
  <2> QED BY <2>1, <2>2
<1>8. ASSUME NEW a \in Int
      PROVE  LET g == <<a, a + 4, a + 8, a + 12, a + 16, a + 20, a + 24, a + 28>>
             IN  Head(g) = a /\ Range(g) = Block(a, 160)
  <2> DEFINE g == <<a, a + 4, a + 8, a + 12, a + 16, a + 20, a + 24, a + 28>>
  <2>1. DOMAIN g = 1..8 /\ Head(g) = a
    OBVIOUS
  <2>2. Range(g) = {g[1], g[2], g[3], g[4], g[5], g[6], g[7], g[8]}
    BY <2>1 DEF Range
  <2> QED BY <2>1, <2>2, BlockNames
<1>9. /\ \A g \in Groups160 : \E a \in Heads(160) : g = <<a, a + 4, a + 8, a + 12, a + 16, a + 20, a + 24, a + 28>>
      /\ \A a \in Heads(160) : <<a, a + 4, a + 8, a + 12, a + 16, a + 20, a + 24, a + 28>> \in Groups160
  BY DEF Groups160, Heads
<1>10. /\ \A g \in Groups160 : Head(g) \in Heads(160) /\ Range(g) = Block(Head(g), 160)
      /\ \A c \in Heads(160) : \E g \in Groups160 : Head(g) = c
  <2>1. ASSUME NEW g \in Groups160
        PROVE  Head(g) \in Heads(160) /\ Range(g) = Block(Head(g), 160)
    <3>1. PICK a \in Heads(160) : g = <<a, a + 4, a + 8, a + 12, a + 16, a + 20, a + 24, a + 28>>
      BY <1>9
    <3>2. a \in Int
      BY <1>1
    <3> QED BY <1>8, <3>1, <3>2
  <2>2. ASSUME NEW c \in Heads(160)
        PROVE  \E g \in Groups160 : Head(g) = c
    <3>1. <<c, c + 4, c + 8, c + 12, c + 16, c + 20, c + 24, c + 28>> \in Groups160
      BY <1>9
    <3>2. c \in Int
      BY <1>1
    <3> QED BY <1>8, <3>1, <3>2
  <2> QED BY <2>1, <2>2
<1> QED BY <1>4, <1>7, <1>10
=============================================================================
