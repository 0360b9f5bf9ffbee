------------------------------ MODULE FiniteSums ------------------------------
(***************************************************************************)
(* Sums over finite sets.  MapThenSumSet takes the elements in the order   *)
(* CHOOSE gives; the lemmas show that any element may be taken out first.  *)
(*                                                                         *)
(* The proofs are by a smallest counterexample: of the subsets for which a *)
(* statement fails, one has the least cardinality, and without one of its  *)
(* elements the statement holds.                                           *)
(***************************************************************************)
EXTENDS Integers, FiniteSets, FiniteSetsExt, FiniteSetTheorems, TLAPS

SumOf(f, S) == MapThenSumSet(LAMBDA x : f[x], S)

Pick(S) == CHOOSE x \in S : TRUE
Adding(f, S, g) == [s \in SUBSET S |-> IF s = {} THEN 0 ELSE f[Pick(s)] + g[s \ {Pick(s)}]]

LEMMA SumUnfolded ==
  ASSUME NEW f, NEW S
  PROVE  SumOf(f, S) = (CHOOSE g : g = Adding(f, S, g))[S]
BY Zenon DEF SumOf, MapThenSumSet, MapThenFoldSet, Adding, Pick

LEMMA PickIn == ASSUME NEW S, S # {} PROVE Pick(S) \in S
BY DEF Pick

\* Induction over the size of finite sets, as the existence of a smallest set
\* of a family.
LEMMA SmallestExists ==
  ASSUME NEW F, F # {}, \A s \in F : IsFiniteSet(s)
  PROVE  \E s \in F : \A t \in F : Cardinality(s) <= Cardinality(t)
<1>1. PICK N : N = {Cardinality(s) : s \in F}
  OBVIOUS
<1>2. N \in SUBSET Nat /\ N # {}
  BY <1>1, FS_CardinalityType
<1>3. PICK R : R = {ss \in Nat \X Nat : ss[1] < ss[2]}
  OBVIOUS
<1>4. IsWellFoundedOn(R, Nat)
  <2>1. OpToRel(<, Nat) = {ss \in Nat \X Nat : ss[1] < ss[2]}
    BY DEF OpToRel
  <2> QED BY <1>3, <2>1, NatLessThanWellFounded, Zenon
<1>5. PICK n \in N : \A m \in N : ~(<<m, n>> \in R)
  BY <1>2, <1>4, WFMin
<1>6. \A x, y \in Nat : ~(<<y, x>> \in R) => x <= y
  BY <1>3
<1>7. \A m \in N : n <= m
  BY <1>2, <1>5, <1>6
<1> QED BY <1>1, <1>7

LEMMA Smaller ==
  ASSUME NEW S, IsFiniteSet(S), NEW x \in S
  PROVE  IsFiniteSet(S \ {x}) /\ Cardinality(S \ {x}) < Cardinality(S)
<1>1. IsFiniteSet(S \ {x}) /\ Cardinality(S \ {x}) = Cardinality(S) - 1 /\ Cardinality(S) \in Nat
  BY FS_RemoveElement, FS_CardinalityType
<1> QED BY <1>1

\* Two tables of partial sums agree wherever both are defined.
LEMMA SumsAgree ==
  ASSUME NEW f, NEW S, NEW T, NEW g, NEW h, g = Adding(f, S, g), h = Adding(f, T, h),
         NEW u, u \subseteq S, u \subseteq T, IsFiniteSet(u)
  PROVE  g[u] = h[u]
<1> SUFFICES ASSUME g[u] # h[u] PROVE FALSE
  OBVIOUS
<1>1. PICK F : F = {s \in SUBSET u : g[s] # h[s]}
  OBVIOUS
<1>2. F # {} /\ \A s \in F : IsFiniteSet(s)
  BY <1>1, FS_Subset
<1>3. PICK s \in F : \A t \in F : Cardinality(s) <= Cardinality(t)
  BY <1>2, SmallestExists
<1>4. s \in SUBSET S /\ s \in SUBSET T /\ g[s] # h[s] /\ s \in SUBSET u
  BY <1>1
<1>5. /\ g[s] = IF s = {} THEN 0 ELSE f[Pick(s)] + g[s \ {Pick(s)}]
      /\ h[s] = IF s = {} THEN 0 ELSE f[Pick(s)] + h[s \ {Pick(s)}]
  BY <1>4, Zenon DEF Adding
<1>6. s # {} /\ Pick(s) \in s
  BY <1>4, <1>5, PickIn
<1>7. PICK t : t = s \ {Pick(s)}
  OBVIOUS
<1>8. g[t] # h[t]
  BY <1>4, <1>5, <1>6, <1>7
<1>9. t \in F
  BY <1>1, <1>4, <1>7, <1>8
<1>10. IsFiniteSet(s) /\ Cardinality(t) < Cardinality(s)
  BY <1>2, <1>6, <1>7, Smaller
<1>11. Cardinality(t) \in Nat /\ Cardinality(s) \in Nat
  BY <1>2, <1>9, FS_CardinalityType
<1> QED BY <1>3, <1>9, <1>10, <1>11

\* The table of partial sums of a finite set exists.
LEMMA SumsExist ==
  ASSUME NEW f, NEW S, IsFiniteSet(S)
  PROVE  \E g : g = Adding(f, S, g)
<1> SUFFICES ASSUME ~ \E g : g = Adding(f, S, g) PROVE FALSE
  OBVIOUS
<1>1. PICK F : F = {s \in SUBSET S : ~ \E g : g = Adding(f, s, g)}
  OBVIOUS
<1>2. F # {} /\ \A s \in F : IsFiniteSet(s)
  BY <1>1, FS_Subset
<1>3. PICK s \in F : \A t \in F : Cardinality(s) <= Cardinality(t)
  BY <1>2, SmallestExists
<1>4. IsFiniteSet(s) /\ s \in SUBSET S /\ ~ \E g : g = Adding(f, s, g)
  BY <1>1, <1>2
\* Every proper subset has its table, and its own sum in it.
<1>5. PICK G : G = [t \in SUBSET s |-> (CHOOSE g : g = Adding(f, t, g))[t]]
  OBVIOUS
<1>6. ASSUME NEW t \in SUBSET s, t # s
      PROVE  \E g : g = Adding(f, t, g) /\ G[t] = g[t]
  <2>1. IsFiniteSet(t) /\ Cardinality(t) < Cardinality(s)
    <3>1. IsFiniteSet(t) /\ Cardinality(t) <= Cardinality(s) /\ Cardinality(t) # Cardinality(s)
      BY <1>4, <1>6, FS_Subset
    <3>2. Cardinality(t) \in Nat /\ Cardinality(s) \in Nat
      BY <1>4, <3>1, FS_CardinalityType
    <3> QED BY <3>1, <3>2
  <2>2. t \notin F
    <3>1. Cardinality(t) \in Nat /\ Cardinality(s) \in Nat
      BY <1>4, <2>1, FS_CardinalityType
    <3> QED BY <1>3, <2>1, <3>1
  <2>3. \E g : g = Adding(f, t, g)
    BY <1>1, <1>4, <2>2
  <2>4. PICK g : g = (CHOOSE h : h = Adding(f, t, h)) /\ g = Adding(f, t, g)
    BY <2>3, Zenon
  <2> QED BY <1>5, <2>4, Zenon
<1>7. PICK H : H = [t \in SUBSET s |-> IF t = {} THEN 0 ELSE f[Pick(t)] + G[t \ {Pick(t)}]]
  OBVIOUS
<1>8. ASSUME NEW t \in SUBSET s, t # s PROVE H[t] = G[t]
  <2>1. PICK g : g = Adding(f, t, g) /\ G[t] = g[t]
    BY <1>6, <1>8
  <2>2. g[t] = IF t = {} THEN 0 ELSE f[Pick(t)] + g[t \ {Pick(t)}]
    BY <2>1, Zenon DEF Adding
  <2>3. CASE t = {}
    BY <1>7, <2>1, <2>2, <2>3
  <2>4. CASE t # {}
    <3>1. PICK u : u = t \ {Pick(t)}
      OBVIOUS
    <3>2. u \in SUBSET s /\ u # s /\ u \subseteq t /\ u \subseteq u
      BY <2>4, <3>1, PickIn
    <3>3. PICK h : h = Adding(f, u, h) /\ G[u] = h[u]
      BY <1>6, <3>2
    <3>4. IsFiniteSet(u)
      BY <1>4, <3>2, FS_Subset
    <3>5. g[u] = h[u]
      BY <2>1, <3>2, <3>3, <3>4, SumsAgree
    <3>6. H[t] = f[Pick(t)] + G[u]
      BY <1>7, <2>4, <3>1
    <3> QED BY <2>1, <2>2, <2>4, <3>1, <3>3, <3>5, <3>6
  <2> QED BY <2>3, <2>4
<1>9. ASSUME NEW t \in SUBSET s
      PROVE  H[t] = IF t = {} THEN 0 ELSE f[Pick(t)] + H[t \ {Pick(t)}]
  <2>1. CASE t = {}
    BY <1>7, <2>1
  <2>2. CASE t # {}
    <3>1. PICK u : u = t \ {Pick(t)}
      OBVIOUS
    <3>2. u \in SUBSET s /\ u # s
      BY <2>2, <3>1, PickIn
    <3>3. H[u] = G[u]
      BY <1>8, <3>2
    <3>4. H[t] = f[Pick(t)] + G[u]
      BY <1>7, <2>2, <3>1
    <3> QED BY <2>2, <3>1, <3>3, <3>4
  <2> QED BY <2>1, <2>2
<1>10. H = Adding(f, s, H)
  <2>1. H = [t \in SUBSET s |-> H[t]]
    BY <1>7, Zenon
  <2> QED BY <1>9, <2>1 DEF Adding
<1> QED BY <1>4, <1>10

\* The sum of a set, by the element CHOOSE takes first.
LEMMA SumStep ==
  ASSUME NEW f, NEW S, IsFiniteSet(S)
  PROVE  SumOf(f, S) = IF S = {} THEN 0 ELSE f[Pick(S)] + SumOf(f, S \ {Pick(S)})
<1>1. PICK g : g = (CHOOSE h : h = Adding(f, S, h)) /\ g = Adding(f, S, g)
  BY SumsExist, Zenon
<1>2. SumOf(f, S) = g[S]
  BY <1>1, SumUnfolded, Zenon
<1>3. g[S] = IF S = {} THEN 0 ELSE f[Pick(S)] + g[S \ {Pick(S)}]
  BY <1>1, Zenon DEF Adding
<1>4. CASE S = {}
  BY <1>2, <1>3, <1>4
<1>5. CASE S # {}
  <2>1. PICK T : T = S \ {Pick(S)}
    OBVIOUS
  <2>2. IsFiniteSet(T) /\ T \subseteq S /\ T \subseteq T
    BY <2>1, FS_Subset
  <2>3. PICK h : h = (CHOOSE x : x = Adding(f, T, x)) /\ h = Adding(f, T, h)
    BY <2>2, SumsExist, Zenon
  <2>4. SumOf(f, T) = h[T]
    BY <2>3, SumUnfolded, Zenon
  <2>5. g[T] = h[T]
    <3>1. g = Adding(f, S, g) /\ h = Adding(f, T, h)
      BY <1>1, <2>3
    <3> QED BY <2>2, <3>1, SumsAgree
  <2> QED BY <1>2, <1>3, <1>5, <2>1, <2>4, <2>5
<1> QED BY <1>4, <1>5

LEMMA SumEmpty == ASSUME NEW f PROVE SumOf(f, {}) = 0
BY SumStep, FS_EmptySet

LEMMA SumInt ==
  ASSUME NEW f, NEW S, IsFiniteSet(S), \A x \in S : f[x] \in Int
  PROVE  SumOf(f, S) \in Int
<1> SUFFICES ASSUME SumOf(f, S) \notin Int PROVE FALSE
  OBVIOUS
<1>1. PICK F : F = {s \in SUBSET S : SumOf(f, s) \notin Int}
  OBVIOUS
<1>2. F # {} /\ \A s \in F : IsFiniteSet(s)
  BY <1>1, FS_Subset
<1>3. PICK s \in F : \A t \in F : Cardinality(s) <= Cardinality(t)
  BY <1>2, SmallestExists
<1>4. IsFiniteSet(s) /\ s \in SUBSET S /\ SumOf(f, s) \notin Int
  BY <1>1, <1>2
<1>5. s # {}
  BY <1>4, SumEmpty
<1>6. PICK x, t : x \in s /\ x = Pick(s) /\ t = s \ {x}
  BY <1>5, PickIn
<1>7. SumOf(f, s) = f[x] + SumOf(f, t)
  BY <1>4, <1>5, <1>6, SumStep
<1>8. IsFiniteSet(t) /\ Cardinality(t) < Cardinality(s) /\ t \in SUBSET S
  BY <1>4, <1>6, Smaller
<1>9. t \notin F
  <2>1. Cardinality(t) \in Nat /\ Cardinality(s) \in Nat
    BY <1>4, <1>8, FS_CardinalityType
  <2> QED BY <1>3, <1>8, <2>1
<1>10. SumOf(f, t) \in Int /\ f[x] \in Int
  BY <1>1, <1>4, <1>6, <1>8, <1>9
<1> QED BY <1>4, <1>7, <1>10

\* Only the values at the elements matter.
LEMMA SumSame ==
  ASSUME NEW f, NEW h, NEW S, IsFiniteSet(S), \A x \in S : f[x] = h[x]
  PROVE  SumOf(f, S) = SumOf(h, S)
<1> SUFFICES ASSUME SumOf(f, S) # SumOf(h, S) PROVE FALSE
  OBVIOUS
<1>1. PICK F : F = {s \in SUBSET S : SumOf(f, s) # SumOf(h, s)}
  OBVIOUS
<1>2. F # {} /\ \A s \in F : IsFiniteSet(s)
  BY <1>1, FS_Subset
<1>3. PICK s \in F : \A t \in F : Cardinality(s) <= Cardinality(t)
  BY <1>2, SmallestExists
<1>4. IsFiniteSet(s) /\ s \in SUBSET S /\ SumOf(f, s) # SumOf(h, s)
  BY <1>1, <1>2
<1>5. s # {}
  BY <1>4, SumEmpty
<1>6. PICK x, t : x \in s /\ x = Pick(s) /\ t = s \ {x}
  BY <1>5, PickIn
<1>7. SumOf(f, s) = f[x] + SumOf(f, t) /\ SumOf(h, s) = h[x] + SumOf(h, t)
  BY <1>4, <1>5, <1>6, SumStep
<1>8. IsFiniteSet(t) /\ Cardinality(t) < Cardinality(s) /\ t \in SUBSET S
  BY <1>4, <1>6, Smaller
<1>9. t \notin F
  <2>1. Cardinality(t) \in Nat /\ Cardinality(s) \in Nat
    BY <1>4, <1>8, FS_CardinalityType
  <2> QED BY <1>3, <1>8, <2>1
<1>10. SumOf(f, t) = SumOf(h, t) /\ f[x] = h[x]
  BY <1>1, <1>4, <1>6, <1>8, <1>9
<1> QED BY <1>4, <1>7, <1>10

\* Any element may be taken out first.
LEMMA SumRemove ==
  ASSUME NEW f, NEW S, IsFiniteSet(S), \A y \in S : f[y] \in Int, NEW x \in S
  PROVE  SumOf(f, S) = f[x] + SumOf(f, S \ {x})
<1> SUFFICES ASSUME SumOf(f, S) # f[x] + SumOf(f, S \ {x}) PROVE FALSE
  OBVIOUS
<1>1. PICK F : F = {s \in SUBSET S : \E y \in s : SumOf(f, s) # f[y] + SumOf(f, s \ {y})}
  OBVIOUS
<1>2. F # {} /\ \A s \in F : IsFiniteSet(s)
  BY <1>1, FS_Subset
<1>3. PICK s \in F : \A t \in F : Cardinality(s) <= Cardinality(t)
  BY <1>2, SmallestExists
<1>4. PICK y \in s : SumOf(f, s) # f[y] + SumOf(f, s \ {y})
  BY <1>1
<1>5. IsFiniteSet(s) /\ s \in SUBSET S
  BY <1>1, <1>2
<1>6. ASSUME NEW t \in SUBSET s, t # s, NEW z \in t
      PROVE  SumOf(f, t) = f[z] + SumOf(f, t \ {z})
  <2>1. IsFiniteSet(t) /\ Cardinality(t) <= Cardinality(s) /\ Cardinality(t) # Cardinality(s)
    BY <1>5, <1>6, FS_Subset
  <2>2. Cardinality(t) \in Nat /\ Cardinality(s) \in Nat
    BY <1>5, <2>1, FS_CardinalityType
  <2>3. t \notin F
    BY <1>3, <2>1, <2>2
  <2> QED BY <1>1, <1>5, <2>3
<1>7. PICK z \in s : z = Pick(s)
  BY PickIn
<1>8. SumOf(f, s) = f[z] + SumOf(f, s \ {z})
  BY <1>5, <1>7, SumStep
<1>9. z # y
  BY <1>4, <1>8
<1>10. PICK u : u = (s \ {y}) \ {z}
  OBVIOUS
<1>11. SumOf(f, s \ {z}) = f[y] + SumOf(f, u)
  <2>1. (s \ {z}) \ {y} = u /\ y \in s \ {z} /\ s \ {z} # s
    BY <1>7, <1>9, <1>10
  <2> QED BY <1>6, <2>1
<1>12. SumOf(f, s \ {y}) = f[z] + SumOf(f, u)
  <2>1. z \in s \ {y} /\ s \ {y} # s
    BY <1>7, <1>9
  <2> QED BY <1>6, <1>10, <2>1
<1>13. f[y] \in Int /\ f[z] \in Int /\ SumOf(f, u) \in Int
  <2>1. IsFiniteSet(u) /\ \A a \in u : f[a] \in Int
    BY <1>5, <1>10, FS_Subset
  <2> QED BY <1>5, <2>1, SumInt
<1>14. PICK a \in Int, b \in Int, c \in Int : a = f[y] /\ b = f[z] /\ c = SumOf(f, u)
  BY <1>13
<1>15. b + (a + c) = a + (b + c)
  OBVIOUS
<1> QED BY <1>4, <1>8, <1>11, <1>12, <1>14, <1>15

\* What an element adds, and what changing its value does.
LEMMA SumAdd ==
  ASSUME NEW f, NEW S, IsFiniteSet(S), NEW x, x \notin S, \A y \in S \cup {x} : f[y] \in Int
  PROVE  SumOf(f, S \cup {x}) = f[x] + SumOf(f, S)
<1>1. (S \cup {x}) \ {x} = S /\ x \in S \cup {x}
  OBVIOUS
<1>2. IsFiniteSet(S \cup {x})
  BY FS_AddElement
<1> QED BY <1>1, <1>2, SumRemove

LEMMA SumChange ==
  ASSUME NEW f, NEW h, NEW S, IsFiniteSet(S), NEW x \in S,
         \A y \in S : f[y] \in Int /\ h[y] \in Int, \A y \in S \ {x} : f[y] = h[y]
  PROVE  SumOf(h, S) = SumOf(f, S) + h[x] - f[x]
<1>1. IsFiniteSet(S \ {x}) /\ \A y \in S \ {x} : f[y] \in Int
  BY FS_Subset
<1>2. PICK a \in Int, b \in Int, c \in Int : a = f[x] /\ b = h[x] /\ c = SumOf(f, S \ {x})
  BY <1>1, SumInt
<1>3. SumOf(f, S) = a + c
  BY <1>2, SumRemove
<1>4. SumOf(h, S) = b + SumOf(h, S \ {x})
  BY <1>2, SumRemove
<1>5. SumOf(h, S \ {x}) = c
  BY <1>1, <1>2, SumSame
<1>6. b + c = (a + c) + b - a
  OBVIOUS
<1> QED BY <1>2, <1>3, <1>4, <1>5, <1>6

\* A sum does not depend on how its terms are named.
LEMMA SumImage ==
  ASSUME NEW S, IsFiniteSet(S), NEW T, NEW m \in [S -> T], NEW f, NEW h,
         \A y \in T : \E x \in S : m[x] = y,
         \A x, y \in S : m[x] = m[y] => x = y,
         \A x \in S : f[x] \in Int /\ h[m[x]] = f[x]
  PROVE  SumOf(h, T) = SumOf(f, S)
<1>1. IsFiniteSet(T)
  <2>1. m \in Surjection(S, T)
    BY DEF Surjection
  <2> QED BY <2>1, FS_Surjection
<1>2. PICK Im : Im = [s \in SUBSET S |-> {y \in T : \E x \in s : m[x] = y}]
  OBVIOUS
<1>3. ASSUME NEW s \in SUBSET S
      PROVE  /\ Im[s] \subseteq T /\ IsFiniteSet(Im[s]) /\ \A y \in Im[s] : h[y] \in Int
             /\ \A x \in s : m[x] \in Im[s] /\ Im[s] \ {m[x]} = Im[s \ {x}]
  <2>1. Im[s] = {y \in T : \E x \in s : m[x] = y}
    BY <1>2
  <2>2. Im[s] \subseteq T /\ IsFiniteSet(Im[s]) /\ \A y \in Im[s] : h[y] \in Int
    BY <1>1, <2>1, FS_Subset
  <2>3. ASSUME NEW x \in s PROVE m[x] \in Im[s] /\ Im[s] \ {m[x]} = Im[s \ {x}]
    <3>1. Im[s \ {x}] = {y \in T : \E z \in s \ {x} : m[z] = y}
      BY <1>2
    <3> QED BY <2>1, <3>1
  <2> QED BY <2>2, <2>3
<1>4. Im[S] = T
  BY <1>2
<1> SUFFICES ASSUME SumOf(h, T) # SumOf(f, S) PROVE FALSE
  OBVIOUS
<1>5. PICK F : F = {s \in SUBSET S : SumOf(h, Im[s]) # SumOf(f, s)}
  OBVIOUS
<1>6. F # {} /\ \A s \in F : IsFiniteSet(s)
  BY <1>4, <1>5, FS_Subset
<1>7. PICK s \in F : \A t \in F : Cardinality(s) <= Cardinality(t)
  BY <1>6, SmallestExists
<1>8. s \in SUBSET S /\ IsFiniteSet(s) /\ SumOf(h, Im[s]) # SumOf(f, s)
  BY <1>5, <1>6
<1>9. s # {}
  <2>1. SUFFICES ASSUME s = {} PROVE FALSE
    OBVIOUS
  <2>2. Im[s] = {}
    BY <1>2, <2>1
  <2> QED BY <1>8, <2>1, <2>2, SumEmpty
<1>10. PICK x : x \in s
  BY <1>9
<1>11. PICK r : r = s \ {x}
  OBVIOUS
<1>12. IsFiniteSet(r) /\ Cardinality(r) < Cardinality(s) /\ Cardinality(s) \in Nat /\ Cardinality(r) \in Nat
  BY <1>8, <1>10, <1>11, Smaller, FS_CardinalityType
<1>13. SumOf(h, Im[r]) = SumOf(f, r)
  <2>1. r \notin F
    BY <1>7, <1>12
  <2> QED BY <1>5, <1>8, <1>11, <2>1
<1>14. SumOf(f, s) = f[x] + SumOf(f, r)
  BY <1>8, <1>10, <1>11, SumRemove
<1>15. SumOf(h, Im[s]) = h[m[x]] + SumOf(h, Im[r])
  <2>1. PICK I, y : I = Im[s] /\ y = m[x]
    OBVIOUS
  <2>2. IsFiniteSet(I) /\ (\A z \in I : h[z] \in Int) /\ y \in I /\ I \ {y} = Im[r]
    BY <1>3, <1>8, <1>10, <1>11, <2>1
  <2>3. SumOf(h, I) = h[y] + SumOf(h, I \ {y})
    BY <2>2, SumRemove
  <2> QED BY <2>1, <2>2, <2>3
<1> QED BY <1>8, <1>10, <1>13, <1>14, <1>15

\* One term grows by v, or is added with it.
LEMMA SumGrows ==
  ASSUME NEW f, NEW h, NEW S, IsFiniteSet(S), NEW x, NEW v \in Int, \A y \in S : f[y] \in Int,
         \A y \in S \ {x} : h[y] = f[y], x \in S => h[x] = f[x] + v, x \notin S => h[x] = v
  PROVE  SumOf(h, S \cup {x}) = SumOf(f, S) + v
<1>1. PICK a \in Int : a = SumOf(f, S)
  BY SumInt
<1>2. CASE x \in S
  <2>1. S \cup {x} = S /\ \A y \in S : h[y] \in Int /\ f[y] \in Int
    BY <1>2
  <2>2. PICK b \in Int : b = f[x] /\ h[x] = b + v
    BY <1>2
  <2>3. SumOf(h, S) = SumOf(f, S) + h[x] - f[x]
    BY <1>2, <2>1, SumChange
  <2>4. SumOf(h, S) = a + (b + v) - b
    BY <1>1, <2>2, <2>3
  <2>5. SumOf(h, S) = a + v
    BY <2>4
  <2> QED BY <1>1, <2>1, <2>5
<1>3. CASE x \notin S
  <2>1. \A y \in S : h[y] = f[y]
    BY <1>3
  <2>2. SumOf(h, S) = a
    BY <1>1, <2>1, SumSame
  <2>3. \A y \in S \cup {x} : h[y] \in Int
    BY <1>3, <2>1
  <2>4. SumOf(h, S \cup {x}) = h[x] + SumOf(h, S)
    BY <1>3, <2>3, SumAdd
  <2> QED BY <1>1, <1>3, <2>2, <2>4
<1> QED BY <1>2, <1>3

\* A sum of nothing.
LEMMA SumZero ==
    ASSUME NEW f, NEW S, IsFiniteSet(S), \A x \in S : f[x] = 0
    PROVE  SumOf(f, S) = 0
<1> SUFFICES ASSUME SumOf(f, S) # 0 PROVE FALSE
  OBVIOUS
<1>1. PICK F : F = {u \in SUBSET S : SumOf(f, u) # 0}
  OBVIOUS
<1>2. F # {} /\ \A u \in F : IsFiniteSet(u)
  BY <1>1, FS_Subset
<1>3. PICK u \in F : \A v \in F : Cardinality(u) <= Cardinality(v)
  BY <1>2, SmallestExists
<1>4. u # {} /\ IsFiniteSet(u) /\ u \subseteq S /\ SumOf(f, u) # 0
  BY <1>1, <1>2, <1>3, SumEmpty
<1>5. PICK x : x \in u
  BY <1>4
<1>6. SumOf(f, u) = f[x] + SumOf(f, u \ {x})
  BY <1>4, <1>5, SumRemove
<1>7. SumOf(f, u \ {x}) = 0
  <2>1. IsFiniteSet(u \ {x}) /\ Cardinality(u \ {x}) < Cardinality(u)
    BY <1>4, <1>5, Smaller
  <2>2. Cardinality(u \ {x}) \in Nat /\ Cardinality(u) \in Nat
    BY <1>4, <2>1, FS_CardinalityType
  <2>3. u \ {x} \notin F
    BY <1>3, <2>1, <2>2
  <2> QED BY <1>1, <1>4, <2>3
<1> QED BY <1>4, <1>5, <1>6, <1>7
=============================================================================
